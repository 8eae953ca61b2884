------------------------------- MODULE Sessions -------------------------------
(***************************************************************************)
(* Accounts and sessions of the API: sign-up, login and the demo session,  *)
(* refresh with rotation, logout and account deletion (routers/auth.py,    *)
(* routers/demo.py), over stateless tokens (security/jwt.py) and a         *)
(* denylist in Redis (security/token_revocation.py).                       *)
(*                                                                         *)
(* A request is a sequence of steps, one per await: other requests run     *)
(* between them.  Time is counted in ticks, several to a second, because   *)
(* token and denylist lifetimes are cut to whole seconds.                  *)
(***************************************************************************)
EXTENDS Integers, Sequences, FiniteSets

CONSTANTS
    Clients,       \* callers of the API, each with one request at a time
    Emails,        \* addresses that sign up
    Demo,          \* DEMO_EMAIL
    Second,        \* ticks in a second
    AccessLife,    \* ticks an access token lives
    RefreshLife,   \* ticks a refresh token lives
    MaxTime,       \* bound: ticks in a behaviour
    MaxUsers,      \* bound: rows ever inserted into users
    MaxLogins,     \* bound: sessions started
    MaxPairs       \* bound: token pairs issued

ASSUME DemoIsAnEmail == Demo \in Emails

ASSUME TimesAreNat ==
    /\ Second \in Nat \ {0}
    /\ AccessLife \in Nat /\ RefreshLife \in Nat
    /\ MaxTime \in Nat /\ MaxUsers \in Nat /\ MaxLogins \in Nat /\ MaxPairs \in Nat

VARIABLES
    now,        \* the clock
    users,      \* rows of the table users
    inserted,   \* number of rows inserted so far: the ids are 1..inserted
    pairs,      \* access/refresh pairs issued, oldest first
    denied,     \* for each token, when its key revoked_token:{jti} expires; 0: no key
    call,       \* the request each client has under way
    ended,      \* history: logins whose newest pair was logged out, refresh token included
    raced,      \* history: logins of which a refresh overlapped a refresh or a logout
    forgotten   \* history: Redis has restarted

vars == <<now, users, inserted, pairs, denied, call, ended, raced, forgotten>>

-----------------------------------------------------------------------------
(* Tokens. *)

User == [id: 1..MaxUsers, email: Emails, demo: BOOLEAN]

\* A pair of tokens.  login is the first pair of the session and parent the pair
\* whose refresh token was exchanged for this one (0 if none); guest says that the
\* session was started by the demo endpoint.
Pair == [user: 1..MaxUsers, login: 1..MaxPairs, parent: 0..MaxPairs, guest: BOOLEAN,
         issued: 0..MaxTime]

Token == (1..MaxPairs) \X {"access", "refresh"}

\* exp is written in whole seconds.
Expiry(t) ==
    LET end == pairs[t[1]].issued + IF t[2] = "access" THEN AccessLife ELSE RefreshLife
    IN  (end \div Second) * Second

\* decode_token_claims refuses an expired token.
Decodes(t) == now < Expiry(t)

\* is_revoked: the key exists.
IsRevoked(t) == denied[t] # 0

\* revoke: the denylist with t; nothing is written in the token's last second.
Revoked(t) ==
    LET ttl == (Expiry(t) - now) \div Second
    IN  IF ttl > 0 THEN [denied EXCEPT ![t] = now + ttl * Second] ELSE denied

Issue(user, login, parent, guest) ==
    /\ Len(pairs) < MaxPairs
    /\ pairs' = Append(pairs, [user |-> user, login |-> login, parent |-> parent,
                               guest |-> guest, issued |-> now])

\* A session of its own for this user.
IssueFirst(user, guest) ==
    /\ Cardinality({k \in DOMAIN pairs : pairs[k].parent = 0}) < MaxLogins
    /\ Issue(user, Len(pairs) + 1, 0, guest)

-----------------------------------------------------------------------------
(* Requests. *)

\* What a request does next: insert the user; load the user, do its work, or revoke the
\* second token of a logout.
Step == {"idle", "insert", "load", "work", "second"}

Call == [op: {"none", "signup", "demo", "refresh", "logout", "delete"}, next: Step,
         email: Emails, pair: 0..MaxPairs]

Idle == [op |-> "none", next |-> "idle", email |-> Demo, pair |-> 0]

Init ==
    /\ now = 0
    /\ users = {}
    /\ inserted = 0
    /\ pairs = <<>>
    /\ denied = [t \in Token |-> 0]
    /\ call = [c \in Clients |-> Idle]
    /\ ended = {}
    /\ raced = {}
    /\ forgotten = FALSE

history == <<ended, raced, forgotten>>

At(c, op, next) == call[c].op = op /\ call[c].next = next

Goes(c, next) == call' = [call EXCEPT ![c].next = next]
Answers(c) == call' = [call EXCEPT ![c] = Idle]

Free(e) == \A u \in users : u.email # e

\* POST /auth/signup: the address is looked up (409 if it is taken).
Signup(c, e) ==
    /\ call[c] = Idle
    /\ Free(e)
    /\ call' = [call EXCEPT ![c] = [Idle EXCEPT !.op = "signup", !.next = "insert", !.email = e]]
    /\ UNCHANGED <<now, users, inserted, pairs, denied, history>>

\* Variant: whoever holds the address gets the demo session.
DemoSessionForAnyone(c) ==
    /\ call[c] = Idle
    /\ \/ /\ Free(Demo)
          /\ call' = [call EXCEPT ![c] = [Idle EXCEPT !.op = "demo", !.next = "insert"]]
          /\ UNCHANGED pairs
       \/ /\ \E u \in users : u.email = Demo /\ IssueFirst(u.id, TRUE)
          /\ UNCHANGED call
    /\ UNCHANGED <<now, users, inserted, denied, history>>

\* POST /demo/session: the account is created if it is missing; an address that a
\* real sign-up holds is refused (503).
DemoSession(c) ==
    /\ call[c] = Idle
    /\ \/ /\ Free(Demo)
          /\ call' = [call EXCEPT ![c] = [Idle EXCEPT !.op = "demo", !.next = "insert"]]
          /\ UNCHANGED pairs
       \/ /\ \E u \in users : u.email = Demo /\ u.demo /\ IssueFirst(u.id, TRUE)
          /\ UNCHANGED call
    /\ UNCHANGED <<now, users, inserted, denied, history>>

\* Variant: the column has no unique index.
InsertAnyUser(c) ==
    /\ call[c].next = "insert"
    /\ inserted < MaxUsers
    /\ inserted' = inserted + 1
    /\ users' = users \cup {[id |-> inserted', email |-> call[c].email,
                             demo |-> call[c].op = "demo"]}
    /\ IssueFirst(inserted', call[c].op = "demo")
    /\ Answers(c)
    /\ UNCHANGED <<now, denied, history>>

\* The insertion of either: the unique index on the address lets one win.
InsertUser(c) ==
    /\ call[c].next = "insert"
    /\ \/ /\ ~Free(call[c].email)
          /\ UNCHANGED <<users, inserted, pairs>>
       \/ /\ Free(call[c].email)
          /\ inserted < MaxUsers
          /\ inserted' = inserted + 1
          /\ users' = users \cup {[id |-> inserted', email |-> call[c].email,
                                   demo |-> call[c].op = "demo"]}
          /\ IssueFirst(inserted', call[c].op = "demo")
    /\ Answers(c)
    /\ UNCHANGED <<now, denied, history>>

\* POST /auth/login; nobody knows the password of the demo account.
Login(c, e) ==
    /\ call[c] = Idle
    /\ \E u \in users : u.email = e /\ ~u.demo /\ IssueFirst(u.id, FALSE)
    /\ UNCHANGED <<now, users, inserted, denied, call, history>>

\* The token a request presents.
Presented(op, k) == <<k, IF op = "refresh" THEN "refresh" ELSE "access">>

\* The operations of requests under way for this login that may revoke its tokens.
Underway(login) ==
    {call[d].op : d \in {d \in Clients : call[d].pair # 0 /\ pairs[call[d].pair].login = login}}
        \ {"delete"}

\* A request with a token of pair k, which must decode and not be revoked (401).
Present(c, op, k) ==
    /\ call[c] = Idle
    /\ Decodes(Presented(op, k))
    /\ ~IsRevoked(Presented(op, k))
    /\ call' = [call EXCEPT ![c] = [Idle EXCEPT !.op = op, !.next = "load", !.pair = k]]
    /\ raced' = IF \/ op = "refresh" /\ Underway(pairs[k].login) # {}
                   \/ op = "logout" /\ "refresh" \in Underway(pairs[k].login)
                THEN raced \cup {pairs[k].login} ELSE raced
    /\ UNCHANGED <<now, users, inserted, pairs, denied, ended, forgotten>>

\* Load the user: gone is 401, and the demo account may only read (403), which
\* get_current_user enforces and /refresh does not ask.
LoadUser(c) ==
    /\ call[c].next = "load"
    /\ IF \E u \in users : /\ u.id = pairs[call[c].pair].user
                           /\ u.demo => call[c].op = "refresh"
       THEN Goes(c, "work") ELSE Answers(c)
    /\ UNCHANGED <<now, users, inserted, pairs, denied, history>>

\* Variant: the spent token stays valid.
RefreshKeepsOld(c) ==
    /\ At(c, "refresh", "work")
    /\ LET k == call[c].pair
       IN  Issue(pairs[k].user, pairs[k].login, k, pairs[k].guest)
    /\ Answers(c)
    /\ UNCHANGED <<now, users, inserted, denied, history>>

\* POST /auth/refresh: the presented token is revoked and a new pair is answered.
Refresh(c) ==
    /\ At(c, "refresh", "work")
    /\ LET k == call[c].pair
       IN  /\ denied' = Revoked(<<k, "refresh">>)
           /\ Issue(pairs[k].user, pairs[k].login, k, pairs[k].guest)
    /\ Answers(c)
    /\ UNCHANGED <<now, users, inserted, history>>

\* POST /auth/logout: the access token, decoded anew (500 if it has just expired);
\* then the refresh token, if the body has one.
LogoutAccess(c) ==
    /\ At(c, "logout", "work")
    /\ \/ /\ ~Decodes(<<call[c].pair, "access">>)
          /\ Answers(c)
          /\ UNCHANGED denied
       \/ /\ Decodes(<<call[c].pair, "access">>)
          /\ denied' = Revoked(<<call[c].pair, "access">>)
          /\ Answers(c) \/ Goes(c, "second")
    /\ UNCHANGED <<now, users, inserted, pairs, history>>

Newest(k) == \A other \in DOMAIN pairs : pairs[other].login = pairs[k].login => other <= k

\* Variant: the second command is forgotten.
LogoutAccessOnly(c) ==
    /\ At(c, "logout", "second")
    /\ ended' = IF Newest(call[c].pair) THEN ended \cup {pairs[call[c].pair].login} ELSE ended
    /\ Answers(c)
    /\ UNCHANGED <<now, users, inserted, pairs, denied, raced, forgotten>>

LogoutRefresh(c) ==
    /\ At(c, "logout", "second")
    /\ denied' = Revoked(<<call[c].pair, "refresh">>)
    /\ ended' = IF Newest(call[c].pair) THEN ended \cup {pairs[call[c].pair].login} ELSE ended
    /\ Answers(c)
    /\ UNCHANGED <<now, users, inserted, pairs, raced, forgotten>>

\* DELETE /auth/me.
DeleteAccount(c) ==
    /\ At(c, "delete", "work")
    /\ users' = {u \in users : u.id # pairs[call[c].pair].user}
    /\ Answers(c)
    /\ UNCHANGED <<now, inserted, pairs, denied, history>>

\* Redis or PostgreSQL does not answer (503, 500), or the process dies.
CallFails(c) ==
    /\ call[c] # Idle
    /\ Answers(c)
    /\ UNCHANGED <<now, users, inserted, pairs, denied, history>>

\* Time passes; Redis drops the keys that have expired.
Tick ==
    /\ now < MaxTime
    /\ now' = now + 1
    /\ denied' = [t \in Token |-> IF denied[t] > now' THEN denied[t] ELSE 0]
    /\ UNCHANGED <<users, inserted, pairs, call, history>>

\* Redis keeps nothing across a restart of the container.  Bound: one that matters.
RedisRestarts ==
    /\ ~forgotten
    /\ \E t \in Token : IsRevoked(t)
    /\ denied' = [t \in Token |-> 0]
    /\ forgotten' = TRUE
    /\ UNCHANGED <<now, users, inserted, pairs, call, ended, raced>>

CallNext(c) ==
    \/ \E e \in Emails : Signup(c, e) \/ Login(c, e)
    \/ DemoSession(c)
    \/ InsertUser(c)
    \/ \E op \in {"refresh", "logout", "delete"}, k \in DOMAIN pairs : Present(c, op, k)
    \/ LoadUser(c)
    \/ Refresh(c)
    \/ LogoutAccess(c)
    \/ LogoutRefresh(c)
    \/ DeleteAccount(c)
    \/ CallFails(c)

Next ==
    \/ \E c \in Clients : CallNext(c)
    \/ Tick
    \/ RedisRestarts

Spec == Init /\ [][Next]_vars

-----------------------------------------------------------------------------
(* Properties. *)

\* The variables have the types the code gives them; ids and addresses are unique, and no
\* key outlives its token.
TypeOK ==
    /\ now \in 0..MaxTime
    /\ users \subseteq User
    /\ \A u, v \in users : u.id = v.id \/ u.email = v.email => u = v
    /\ inserted \in 0..MaxUsers
    /\ pairs \in Seq(Pair)
    /\ denied \in [Token -> Nat]
    /\ \A t \in Token : IsRevoked(t) => t[1] \in DOMAIN pairs /\ denied[t] <= Expiry(t)
    /\ call \in [Clients -> Call]
    /\ \A c \in Clients : call[c].pair \in {0} \cup DOMAIN pairs
    /\ ended \cup raced \subseteq DOMAIN pairs
    /\ forgotten \in BOOLEAN

\* Within a second of its expiry a token can no longer be put on the denylist, and
\* an entry made before may be gone already (int() in revoke).
LastSecond(t, time) == Expiry(t) - time < Second

Accepted(t) ==
    /\ Decodes(t)
    /\ ~IsRevoked(t)
    /\ \E u \in users : u.id = pairs[t[1]].user

\* A refresh token of the session was exchanged in its last second.
RefreshedLate(login) ==
    \E k \in DOMAIN pairs : /\ pairs[k].login = login
                            /\ pairs[k].parent # 0
                            /\ LastSecond(<<pairs[k].parent, "refresh">>, pairs[k].issued)

\* A logout with the session's newest tokens leaves no refresh token that could carry
\* the session on, whatever else the clients had under way, unless a refresh of the
\* session overlapped another or a logout, came in the last second, or Redis forgot
\* (logout, refresh, revoke).
LogoutEndsSession ==
    \/ forgotten
    \/ \A k \in DOMAIN pairs :
           pairs[k].login \in ended \ raced /\ ~RefreshedLate(pairs[k].login)
           => ~Accepted(<<k, "refresh">>) \/ LastSecond(<<k, "refresh">>, now)

\* A refresh token is exchanged once: for a second time only by a request that
\* overlapped the first, in its last second, or after Redis forgot (the comment on
\* rotation in refresh).
RefreshSpentOnce ==
    \A k1, k2 \in DOMAIN pairs :
        k1 < k2 /\ pairs[k1].parent # 0 /\ pairs[k1].parent = pairs[k2].parent
        => \/ forgotten
           \/ pairs[k1].login \in raced
           \/ LastSecond(<<pairs[k1].parent, "refresh">>, pairs[k2].issued)

\* Every session the demo endpoint ever gave out belongs to the demo account, which
\* is still there: neither a real sign-up with its address, before, during or after
\* the creation, nor a request of a guest gets in between (start_demo_session,
\* get_current_user).
DemoSessionsAreDemo ==
    \A k \in DOMAIN pairs :
        pairs[k].guest => \E u \in users : u.id = pairs[k].user /\ u.demo

=============================================================================
