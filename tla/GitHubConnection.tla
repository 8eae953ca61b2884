-------------------------- MODULE GitHubConnection --------------------------
(***************************************************************************)
(* The GitHub account of one user: the OAuth callback, the list of         *)
(* repositories it gives, the selection the user makes among them, and the *)
(* disconnection (routers/github.py, services/github_oauth.py).            *)
(*                                                                         *)
(* A request is a sequence of steps, one per await that others can see.    *)
(* PostgreSQL runs at READ COMMITTED; what waits for a lock is not enabled *)
(* meanwhile, and a statement that fails ends its request (Fails).         *)
(***************************************************************************)
EXTENDS Naturals, FiniteSets

CONSTANTS
    Requests,      \* requests of the user, each of which may be repeated
    Accounts,      \* GitHub accounts the user may authorize
    Repos,         \* provider ids of repositories
    Access,        \* the repositories each account owns
    MaxCallbacks,  \* bound: authorizations GitHub redirects with
    MaxStores      \* bound: refreshes that insert rows

ASSUME AccountsOwnRepos == Access \in [Accounts -> SUBSET Repos]
ASSUME BoundsAreNat == MaxCallbacks \in Nat /\ MaxStores \in Nat

VARIABLES
    connection,  \* GitHubConnection rows of the user
    rows,        \* Repository rows of the user
    call,        \* the request each caller has under way
    callbacks, stores,  \* counters: ids of connections and of rows come from them
    raced,       \* history: a refresh overlapped a disconnection
    switched     \* history: a connection was given to another account

vars == <<connection, rows, call, callbacks, stores, raced, switched>>

Connection == [id: 1..MaxCallbacks, account: Accounts]

\* store: the refresh that inserted it.  History: the account it was listed for, the
\* selection last answered to the user, and whether two PATCHes of it overlapped.
Row == [repo: Repos, store: 1..MaxStores, selected: BOOLEAN,
        by: Accounts, chosen: BOOLEAN, contested: BOOLEAN]

Key(row) == <<row.repo, row.store>>

Idle == [op |-> "none", next |-> "idle"]
Call ==
    {Idle}
    \cup [op: {"callback"}, next: {"lookup", "store"}, id: 1..MaxCallbacks,
          account: Accounts, found: 0..MaxCallbacks]
    \cup [op: {"refresh"}, next: {"list", "store"}, account: Accounts, loaded: SUBSET Row]
    \cup [op: {"disconnect"}, next: {"delete", "commit"}, found: 1..MaxCallbacks,
          deleted: SUBSET (Repos \X (1..MaxStores))]
    \cup [op: {"patch"}, next: {"commit"}, row: Repos \X (1..MaxStores),
          loaded: BOOLEAN, body: BOOLEAN]

Init ==
    /\ connection = {}
    /\ rows = {}
    /\ call = [r \in Requests |-> Idle]
    /\ callbacks = 0 /\ stores = 0
    /\ raced = FALSE /\ switched = FALSE

At(r, op, next) == call[r].op = op /\ call[r].next = next
Answers(r) == call' = [call EXCEPT ![r] = Idle]

\* Rows deleted by a transaction that is still open.
Locked == UNION {call[r].deleted : r \in {s \in Requests : call[s].op = "disconnect"}}

-----------------------------------------------------------------------------
(* Connecting. *)

\* POST /connect gives out a signed state, good for ten minutes and any number of uses:
\* GET /callback may come at any time.  The code is exchanged at GitHub.
CallbackEnter(r, a) ==
    /\ call[r] = Idle
    /\ callbacks < MaxCallbacks
    /\ callbacks' = callbacks + 1
    /\ call' = [call EXCEPT ![r] = [op |-> "callback", next |-> "lookup",
                                    id |-> callbacks', account |-> a, found |-> 0]]
    /\ UNCHANGED <<connection, rows, stores, raced, switched>>

CallbackLookup(r) ==
    /\ At(r, "callback", "lookup")
    /\ \/ \E c \in connection :
             call' = [call EXCEPT ![r].next = "store", ![r].found = c.id]
       \/ connection = {} /\ call' = [call EXCEPT ![r].next = "store"]
    /\ UNCHANGED <<connection, rows, callbacks, stores, raced, switched>>

\* The row found is given the new account and token, if it is still there; with none
\* found one is inserted, if none is there by now (user_id is unique).
CallbackStore(r) ==
    /\ At(r, "callback", "store")
    /\ \/ \E c \in connection :
             /\ c.id = call[r].found
             /\ connection' = {[c EXCEPT !.account = call[r].account]}
             /\ switched' = (switched \/ c.account # call[r].account)
       \/ /\ call[r].found = 0 /\ connection = {}
          /\ connection' = {[id |-> call[r].id, account |-> call[r].account]}
          /\ UNCHANGED switched
    /\ Answers(r)
    /\ UNCHANGED <<rows, callbacks, stores, raced>>

-----------------------------------------------------------------------------
(* POST /repositories/refresh. *)

\* Without a connection 400.
RefreshEnter(r) ==
    /\ call[r] = Idle
    /\ \E c \in connection :
          call' = [call EXCEPT ![r] = [op |-> "refresh", next |-> "list",
                                       account |-> c.account, loaded |-> {}]]
    /\ raced' = (raced \/ \E s \in Requests : At(s, "disconnect", "commit"))
    /\ UNCHANGED <<connection, rows, callbacks, stores, switched>>

\* GitHub has listed the repositories; those known are loaded.
RefreshLoad(r) ==
    /\ At(r, "refresh", "list")
    /\ call' = [call EXCEPT ![r].next = "store", ![r].loaded = rows]
    /\ UNCHANGED <<connection, rows, callbacks, stores, raced, switched>>

\* Those listed that were not known.
New(r) == Access[call[r].account] \ {row.repo : row \in call[r].loaded}

\* The rows of a refresh, each not selected.
Inserted(r) ==
    {[repo |-> p, store |-> stores + 1, selected |-> FALSE, by |-> call[r].account,
      chosen |-> FALSE, contested |-> FALSE] : p \in New(r)}

\* Variant: no unique index.
RefreshStoreAnyway(r) ==
    /\ At(r, "refresh", "store")
    /\ \/ New(r) = {} /\ UNCHANGED <<rows, stores>>
       \/ /\ New(r) # {} /\ stores < MaxStores
          /\ stores' = stores + 1
          /\ rows' = rows \cup Inserted(r)
    /\ Answers(r)
    /\ UNCHANGED <<connection, callbacks, raced, switched>>

\* Variant: every column of a known row is written as it was loaded.
RefreshStoreWhole(r) ==
    /\ At(r, "refresh", "store")
    /\ New(r) \cap {row.repo : row \in rows} = {}
    /\ stores < MaxStores
    /\ stores' = stores + 1
    /\ rows' = {IF \E old \in call[r].loaded : Key(old) = Key(row)
                THEN [row EXCEPT !.selected =
                         (CHOOSE old \in call[r].loaded : Key(old) = Key(row)).selected]
                ELSE row : row \in rows} \cup Inserted(r)
    /\ Answers(r)
    /\ UNCHANGED <<connection, callbacks, raced, switched>>

\* New rows are inserted: one there by now violates the unique index, and one being
\* deleted is waited for.  Of known rows the changed columns are written, never
\* selected; that a row written to is gone fails the request.
RefreshStore(r) ==
    /\ At(r, "refresh", "store")
    /\ New(r) \cap {row.repo : row \in rows} = {}
    /\ \/ New(r) = {} /\ UNCHANGED <<rows, stores>>
       \/ /\ New(r) # {} /\ stores < MaxStores
          /\ stores' = stores + 1
          /\ rows' = rows \cup Inserted(r)
    /\ Answers(r)
    /\ UNCHANGED <<connection, callbacks, raced, switched>>

-----------------------------------------------------------------------------
(* PATCH /repositories/{id}. *)

\* The row is loaded (404 without one).
PatchGet(r, row, body) ==
    /\ call[r] = Idle
    /\ call' = [call EXCEPT ![r] = [op |-> "patch", next |-> "commit", row |-> Key(row),
                                    loaded |-> row.selected, body |-> body]]
    /\ rows' = IF \E s \in Requests : call[s].op = "patch" /\ call[s].row = Key(row)
               THEN (rows \ {row}) \cup {[row EXCEPT !.contested = TRUE]} ELSE rows
    /\ UNCHANGED <<connection, callbacks, stores, raced, switched>>

\* The unit of work writes only what differs from the value loaded; a row that is being
\* deleted is waited for, one that is gone fails the request.
PatchCommit(r) ==
    /\ At(r, "patch", "commit")
    /\ \E row \in rows :
          /\ Key(row) = call[r].row
          /\ call[r].body # call[r].loaded => Key(row) \notin Locked
          /\ rows' = (rows \ {row}) \cup
                 {[row EXCEPT !.selected = IF call[r].body # call[r].loaded
                                           THEN call[r].body ELSE @,
                              !.chosen = call[r].body]}
    /\ Answers(r)
    /\ UNCHANGED <<connection, callbacks, stores, raced, switched>>

-----------------------------------------------------------------------------
(* DELETE /connection. *)

\* 404 without a connection.
DisconnectRead(r) ==
    /\ call[r] = Idle
    /\ \E c \in connection :
          call' = [call EXCEPT ![r] = [op |-> "disconnect", next |-> "delete",
                                       found |-> c.id, deleted |-> {}]]
    /\ UNCHANGED <<connection, rows, callbacks, stores, raced, switched>>

\* The DELETE takes the rows committed by now, and waits for another DELETE of them.
DisconnectDelete(r) ==
    /\ At(r, "disconnect", "delete")
    /\ Locked = {}
    /\ call' = [call EXCEPT ![r].next = "commit", ![r].deleted = {Key(row) : row \in rows}]
    /\ raced' = (raced \/ \E s \in Requests : call[s].op = "refresh")
    /\ UNCHANGED <<connection, rows, callbacks, stores, switched>>

\* Variant: the repositories stay, as the evidence does in the docstring.
DisconnectKeepsRows(r) ==
    /\ At(r, "disconnect", "commit")
    /\ connection' = {c \in connection : c.id # call[r].found}
    /\ Answers(r)
    /\ UNCHANGED <<rows, callbacks, stores, raced, switched>>

\* The connection that was read goes too, if it is still there.
DisconnectCommit(r) ==
    /\ At(r, "disconnect", "commit")
    /\ connection' = {c \in connection : c.id # call[r].found}
    /\ rows' = {row \in rows : Key(row) \notin call[r].deleted}
    /\ Answers(r)
    /\ UNCHANGED <<callbacks, stores, raced, switched>>

\* A statement fails, or GitHub does not answer: 400 or 500, and nothing is written.
Fails(r) ==
    /\ call[r] # Idle
    /\ Answers(r)
    /\ UNCHANGED <<connection, rows, callbacks, stores, raced, switched>>

Next ==
    \E r \in Requests :
       \/ \E a \in Accounts : CallbackEnter(r, a)
       \/ CallbackLookup(r) \/ CallbackStore(r)
       \/ RefreshEnter(r) \/ RefreshLoad(r) \/ RefreshStore(r)
       \/ \E row \in rows, body \in BOOLEAN : PatchGet(r, row, body)
       \/ PatchCommit(r)
       \/ DisconnectRead(r) \/ DisconnectDelete(r) \/ DisconnectCommit(r)
       \/ Fails(r)

Spec == Init /\ [][Next]_vars

-----------------------------------------------------------------------------
(* Properties. *)

\* The variables have the types the code gives them; there is one connection, and one row
\* for each repository (the unique columns).
TypeOK ==
    /\ {raced, switched} \subseteq BOOLEAN
    /\ connection \subseteq Connection /\ Cardinality(connection) <= 1
    /\ rows \subseteq Row
    /\ \A x, y \in rows : x.repo = y.repo => x = y
    /\ call \in [Requests -> Call]
    /\ callbacks \in 0..MaxCallbacks
    /\ stores \in 0..MaxStores

\* Every repository of the user was listed for the account that is connected now: none
\* outlives its connection (the docstring of disconnect: it drops "the repositories it
\* gave access to"), whatever callbacks, refreshes and disconnections interleave, unless
\* a refresh overlapped a disconnection, or another account was put in place of the
\* first without one.
RepositoriesComeFromConnection ==
    raced \/ switched \/ \A row \in rows : \E c \in connection : c.account = row.by

\* A selection that was answered stays as the user made it: a refresh that loaded the row
\* before does not take it back, unless two PATCHes of the row overlapped (patch_repository,
\* refresh_repositories).
SelectionIsKept == \A row \in rows : row.contested \/ row.selected = row.chosen

=============================================================================
