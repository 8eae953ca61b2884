---------------------------- MODULE Security_proofs ----------------------------
(***************************************************************************)
(* Proofs about the two guards of the API, which share no state.           *)
(*                                                                         *)
(* Sessions, for any number of clients, addresses, sessions and tokens and *)
(* any lifetimes: types, refresh tokens that are exchanged once, logouts   *)
(* that last, demo sessions that are the demo account's.                   *)
(*                                                                         *)
(* RateLimit, for every limit, window and number of requests: types, that  *)
(* only a failure leaves a counter without an expiry for good, that a      *)
(* client's Retry-After is right to within half a second, and that no      *)
(* stretch of a window's length admits more than twice the limit.          *)
(***************************************************************************)
EXTENDS Sessions, RateLimit, SequenceTheorems, TLAPS

\* Rows and tokens come in order, and a session keeps its login.
Ordered ==
    /\ Len(pairs) <= MaxPairs
    /\ \A u \in users : u.id <= inserted
    /\ \A k \in DOMAIN pairs :
          /\ pairs[k].login <= k /\ pairs[k].parent < k
          /\ pairs[k].parent # 0 => pairs[pairs[k].parent].login = pairs[k].login
          /\ pairs[k].user <= inserted /\ pairs[k].issued <= now

\* A request presents a token exactly if it is one of these.
CallsPresent ==
    \A c \in Clients :
        /\ call[c].op \in {"refresh", "logout", "delete"} <=> call[c].pair # 0
        /\ call[c].next \in {"load", "work", "second"} => call[c].pair # 0

\* A key is dropped no sooner than in the last second of its token.
KeysLast == \A t \in Token : IsRevoked(t) => Expiry(t) - Second < denied[t]

\* Two requests of a session that may revoke its tokens, one of them a refresh.
OverlapsAreNoticed ==
    \A c, d \in Clients :
        /\ c # d /\ call[c].op = "refresh" /\ call[d].op \in {"refresh", "logout"}
        /\ pairs[call[c].pair].login = pairs[call[d].pair].login
        => pairs[call[c].pair].login \in raced

\* A refresh token that cannot be presented any more, but for its last second.
Late(k) == LastSecond(<<k, "refresh">>, now)
Spent(k) == IsRevoked(<<k, "refresh">>) \/ Late(k)

Forgiven(login) == forgotten \/ login \in raced
Excused(login) == Forgiven(login) \/ RefreshedLate(login)

\* One that was exchanged is spent, and a request that has it in hand was late.
ParentIsSpent(k) ==
    /\ Forgiven(pairs[k].login) \/ Spent(pairs[k].parent)
    /\ \A c \in Clients :
          call[c].op = "refresh" /\ call[c].pair = pairs[k].parent
          => Forgiven(pairs[k].login) \/ Late(pairs[k].parent)

ExchangedIsSpent == \A k \in DOMAIN pairs : pairs[k].parent # 0 => ParentIsSpent(k)

\* Of a session only the newest refresh token is good, and none if it has ended.
Superseded(k) ==
    \/ pairs[k].login \in ended
    \/ \E j \in DOMAIN pairs : k < j /\ pairs[j].login = pairs[k].login

OldIsSpent(k) ==
    /\ Excused(pairs[k].login) \/ Spent(k)
    /\ \A c \in Clients :
          call[c].op = "refresh" /\ call[c].pair = k => Excused(pairs[k].login) \/ Late(k)

SupersededIsSpent == \A k \in DOMAIN pairs : Superseded(k) => OldIsSpent(k)

\* A request that is about to delete an account is not the demo account's.
GuestsDeleteNothing ==
    \A c \in Clients :
        At(c, "delete", "work") => \A u \in users : u.id = pairs[call[c].pair].user => ~u.demo

\* The inductive invariant.
IInv ==
    /\ TypeOK /\ Ordered /\ CallsPresent /\ KeysLast
    /\ OverlapsAreNoticed /\ ExchangedIsSpent /\ RefreshSpentOnce /\ SupersededIsSpent
    /\ GuestsDeleteNothing /\ DemoSessionsAreDemo
-----------------------------------------------------------------------------
(* Whole seconds. *)

LEMMA WholeMultiples ==
    ASSUME NEW a \in Int, NEW n \in Nat \ {0}
    PROVE  LET m == (a \div n) * n IN
           /\ a \div n \in Int /\ m \in Int /\ m <= a /\ a < m + n
           /\ a \div n > 0 => n <= m
           /\ n <= a => a \div n > 0
OBVIOUS

LEMMA WholeSeconds ==
    ASSUME NEW a \in Int
    PROVE  LET m == (a \div Second) * Second IN
           /\ a \div Second \in Int /\ m \in Int /\ m <= a /\ a < m + Second
           /\ a \div Second > 0 => Second <= m
           /\ Second <= a => a \div Second > 0
<1>1. Second \in Nat \ {0}
    BY TimesAreNat
<1>2. \A n \in Nat \ {0} :
          /\ a \div n \in Int /\ (a \div n) * n \in Int
          /\ (a \div n) * n <= a /\ a < (a \div n) * n + n
          /\ a \div n > 0 => n <= (a \div n) * n
          /\ n <= a => a \div n > 0
    BY WholeMultiples
<1> QED BY <1>1, <1>2, Zenon

LEMMA PairsAre ==
    ASSUME TypeOK, Ordered
    PROVE  /\ Len(pairs) \in Nat /\ DOMAIN pairs = 1..Len(pairs)
           /\ DOMAIN pairs \subseteq (1..MaxPairs) \cap Nat
           /\ \A k \in DOMAIN pairs :
                 /\ pairs[k] \in Pair
                 /\ pairs[k].login \in DOMAIN pairs
                 /\ pairs[k].parent # 0 => pairs[k].parent \in DOMAIN pairs
                 /\ <<k, "refresh">> \in Token /\ <<k, "access">> \in Token
<1>1. /\ Len(pairs) \in Nat /\ DOMAIN pairs = 1..Len(pairs)
      /\ \A k \in DOMAIN pairs : pairs[k] \in Pair
    BY DEF TypeOK
<1>2. Len(pairs) <= MaxPairs /\ MaxPairs \in Nat
    BY TimesAreNat DEF Ordered
<1>3. DOMAIN pairs \subseteq (1..MaxPairs) \cap Nat
    BY <1>1, <1>2
<1>4. \A k \in DOMAIN pairs : <<k, "refresh">> \in Token /\ <<k, "access">> \in Token
    BY <1>3 DEF Token
<1>5. ASSUME NEW k \in DOMAIN pairs
      PROVE  /\ pairs[k].login \in DOMAIN pairs
             /\ pairs[k].parent # 0 => pairs[k].parent \in DOMAIN pairs
    <2>1. /\ pairs[k].login \in 1..MaxPairs /\ pairs[k].parent \in 0..MaxPairs
          /\ pairs[k].login <= k /\ pairs[k].parent < k
        BY <1>1 DEF Pair, Ordered
    <2> QED BY <1>1, <1>2, <2>1
<1> QED BY <1>1, <1>3, <1>4, <1>5

LEMMA ExpiryIs ==
    ASSUME TypeOK, Ordered, NEW t \in Token, t[1] \in DOMAIN pairs
    PROVE  Expiry(t) \in Int
<1>1. pairs[t[1]].issued \in Int
    <2>1. pairs[t[1]] \in Pair
        BY PairsAre
    <2> QED BY <2>1, TimesAreNat DEF Pair
<1>2. pairs[t[1]].issued + (IF t[2] = "access" THEN AccessLife ELSE RefreshLife) \in Int
    BY <1>1, TimesAreNat
<1> QED BY <1>2, WholeSeconds DEF Expiry

\* What the denylist is after revoke: the key is there, but in the last second.
LEMMA RevokedIs ==
    ASSUME TypeOK, Ordered, KeysLast, NEW t \in Token, t[1] \in DOMAIN pairs
    PROVE  /\ Revoked(t) \in [Token -> Nat]
           /\ \A s \in Token : s # t => Revoked(t)[s] = denied[s]
           /\ Revoked(t)[t] # 0 => /\ Revoked(t)[t] <= Expiry(t)
                                  /\ Expiry(t) - Second < Revoked(t)[t]
           /\ \A s \in Token : denied[s] # 0 => Revoked(t)[s] # 0
           /\ ~LastSecond(t, now) => Revoked(t)[t] # 0
<1> DEFINE left == Expiry(t) - now
           m == (left \div Second) * Second
<1>1. Expiry(t) \in Int /\ now \in Nat /\ left \in Int /\ Second \in Nat \ {0}
    BY ExpiryIs, TimesAreNat DEF TypeOK
<1>2. /\ m \in Int /\ m <= left /\ left < m + Second
      /\ left \div Second > 0 => Second <= m
      /\ Second <= left => left \div Second > 0
    BY <1>1, WholeSeconds
<1>3. Revoked(t) = IF left \div Second > 0 THEN [denied EXCEPT ![t] = now + m] ELSE denied
    BY DEF Revoked
<1>4. denied \in [Token -> Nat]
    BY DEF TypeOK
<1>5. ~LastSecond(t, now) => Second <= left
    BY <1>1 DEF LastSecond
<1> HIDE DEF m
<1>6. CASE left \div Second > 0
    <2>1. now + m \in Nat /\ now + m # 0 /\ now + m <= Expiry(t) /\ Expiry(t) - Second < now + m
        BY <1>1, <1>2, <1>6
    <2>2. Revoked(t) = [denied EXCEPT ![t] = now + m]
        BY <1>3, <1>6
    <2> QED BY <1>4, <2>1, <2>2
<1>7. CASE ~(left \div Second > 0)
    <2>1. Revoked(t) = denied
        BY <1>3, <1>7
    <2> QED BY <1>2, <1>4, <1>5, <1>7, <2>1 DEF TypeOK, KeysLast, IsRevoked
<1> QED BY <1>6, <1>7

-----------------------------------------------------------------------------
(* What stays true as time goes by and pairs are issued. *)

PairsGrow ==
    /\ DOMAIN pairs \subseteq DOMAIN pairs'
    /\ \A k \in DOMAIN pairs : pairs'[k] = pairs[k]

\* The clock goes on, history is not forgotten, and keys go in the last second only.
Ages ==
    /\ now' \in Nat /\ now <= now'
    /\ raced \subseteq raced' /\ (forgotten => forgotten')
    /\ \A t \in Token : IsRevoked(t) => IsRevoked(t)' \/ forgotten' \/ Expiry(t) - now' < Second

LEMMA Aged ==
    ASSUME TypeOK, Ordered, PairsGrow, Ages, NEW k \in DOMAIN pairs
    PROVE  /\ Expiry(<<k, "refresh">>)' = Expiry(<<k, "refresh">>)
           /\ Late(k) => Late(k)'
           /\ \A login : Forgiven(login) => Forgiven(login)'
           /\ \A login : Excused(login) => Excused(login)'
           /\ Spent(k) => Spent(k)' \/ forgotten'
<1>1. \A j \in DOMAIN pairs : Expiry(<<j, "refresh">>)' = Expiry(<<j, "refresh">>)
    BY DEF Expiry, PairsGrow
<1>2. <<k, "refresh">> \in Token /\ Expiry(<<k, "refresh">>) \in Int
    BY PairsAre, ExpiryIs
<1>3. now \in Nat /\ now' \in Nat /\ now <= now' /\ Second \in Nat
    BY TimesAreNat DEF TypeOK, Ages
<1>4. Late(k) => Late(k)'
    BY <1>1, <1>2, <1>3 DEF Late, LastSecond
<1>5. \A login : Forgiven(login) => Forgiven(login)'
    BY DEF Forgiven, Ages
<1>6. \A login : RefreshedLate(login) => RefreshedLate(login)'
    <2>1. ASSUME NEW login, NEW j \in DOMAIN pairs, pairs[j].login = login, pairs[j].parent # 0,
                 LastSecond(<<pairs[j].parent, "refresh">>, pairs[j].issued)
          PROVE  RefreshedLate(login)'
        <3>1. pairs[j].parent \in DOMAIN pairs
            BY <2>1, PairsAre
        <3>2. Expiry(<<pairs[j].parent, "refresh">>)' = Expiry(<<pairs[j].parent, "refresh">>)
            BY <1>1, <3>1 DEF PairsGrow
        <3>3. j \in DOMAIN pairs' /\ pairs'[j] = pairs[j]
            BY DEF PairsGrow
        <3>4. LastSecond(<<pairs[j].parent, "refresh">>, pairs[j].issued)'
            BY <2>1, <3>2, <3>3 DEF LastSecond
        <3> QED BY <2>1, <3>3, <3>4 DEF RefreshedLate
    <2> QED BY <2>1 DEF RefreshedLate
<1>7. Spent(k) => Spent(k)' \/ forgotten'
    <2>1. IsRevoked(<<k, "refresh">>) => IsRevoked(<<k, "refresh">>)' \/ forgotten' \/ Late(k)'
        BY <1>1, <1>2 DEF Ages, Late, LastSecond
    <2> QED BY <1>4, <2>1 DEF Spent
<1> QED BY <1>1, <1>4, <1>5, <1>6, <1>7 DEF Excused

\* A client that refreshes or logs out after a step did so before, with the same token,
\* or has just presented it: then it is not revoked and an overlap is noticed.
CallsGoOn ==
    \A c \in Clients :
        call'[c].op \in {"refresh", "logout"} =>
            \/ call[c].op = call'[c].op /\ call[c].pair = call'[c].pair
            \/ /\ call'[c].pair \in DOMAIN pairs
               /\ call'[c].op = "refresh" => ~IsRevoked(<<call'[c].pair, "refresh">>)
               /\ \A d \in Clients \ {c} : call'[d] = call[d]
               /\ \A d \in Clients \ {c} :
                     /\ \/ call'[c].op = "refresh" /\ call[d].op \in {"refresh", "logout"}
                        \/ call'[c].op = "logout" /\ call[d].op = "refresh"
                     /\ pairs[call[d].pair].login = pairs[call'[c].pair].login
                     => pairs[call'[c].pair].login \in raced'

\* What was known of the sessions before a step is known after it.
KnownStays ==
    /\ \A k \in DOMAIN pairs : pairs[k].parent # 0 => ParentIsSpent(k)'
    /\ \A k \in DOMAIN pairs : Superseded(k) => OldIsSpent(k)'
    /\ \A k1, k2 \in DOMAIN pairs :
          k1 < k2 /\ pairs[k1].parent # 0 /\ pairs[k1].parent = pairs[k2].parent
          => \/ forgotten'
             \/ pairs[k1].login \in raced'
             \/ LastSecond(<<pairs[k1].parent, "refresh">>, pairs[k2].issued)'

LEMMA OverlapsStay ==
    ASSUME IInv, PairsGrow, Ages, CallsGoOn
    PROVE  OverlapsAreNoticed'
<1> SUFFICES ASSUME NEW c \in Clients, NEW d \in Clients, c # d, call'[c].op = "refresh",
                    call'[d].op \in {"refresh", "logout"},
                    pairs'[call'[c].pair].login = pairs'[call'[d].pair].login
             PROVE  pairs'[call'[c].pair].login \in raced'
    BY DEF OverlapsAreNoticed
<1>1. \A e \in Clients : call[e].op \in {"refresh", "logout"} => call[e].pair \in DOMAIN pairs
    BY DEF IInv, TypeOK, CallsPresent
<1>2. call'[c].pair \in DOMAIN pairs /\ call'[d].pair \in DOMAIN pairs
    BY <1>1 DEF CallsGoOn
<1>3. pairs[call'[c].pair].login = pairs[call'[d].pair].login
      /\ pairs'[call'[c].pair] = pairs[call'[c].pair]
    BY <1>2 DEF PairsGrow
<1>4. CASE /\ call[c].op = call'[c].op /\ call[c].pair = call'[c].pair
           /\ call[d].op = call'[d].op /\ call[d].pair = call'[d].pair
    BY <1>3, <1>4 DEF IInv, OverlapsAreNoticed, Ages
<1>5. CASE ~(call[c].op = call'[c].op /\ call[c].pair = call'[c].pair)
    <2>1. d \in Clients \ {c} /\ call'[c].op \in {"refresh", "logout"}
        OBVIOUS
    <2>2. call'[d] = call[d]
        BY <1>5, <2>1 DEF CallsGoOn
    <2>3. pairs[call'[c].pair].login \in raced'
        BY <1>3, <1>5, <2>1, <2>2 DEF CallsGoOn
    <2> QED BY <1>3, <2>3
<1>6. CASE ~(call[d].op = call'[d].op /\ call[d].pair = call'[d].pair)
    <2>1. c \in Clients \ {d}
        OBVIOUS
    <2>2. call'[c] = call[c]
        BY <1>6, <2>1 DEF CallsGoOn
    <2>3. pairs[call'[d].pair].login \in raced'
        BY <1>3, <1>6, <2>1, <2>2 DEF CallsGoOn
    <2> QED BY <1>3, <2>3
<1> QED BY <1>4, <1>5, <1>6

LEMMA KnownCarriesOver ==
    ASSUME IInv, PairsGrow, Ages, CallsGoOn
    PROVE  KnownStays
<1> USE DEF IInv
<1>1. /\ \A k \in DOMAIN pairs : pairs'[k] = pairs[k]
      /\ \A k \in DOMAIN pairs : pairs[k].parent # 0 => pairs[k].parent \in DOMAIN pairs
    BY PairsAre DEF PairsGrow
<1>2. \A k \in DOMAIN pairs :
          /\ Expiry(<<k, "refresh">>)' = Expiry(<<k, "refresh">>)
          /\ Late(k) => Late(k)'
          /\ \A login : Forgiven(login) => Forgiven(login)'
          /\ \A login : Excused(login) => Excused(login)'
          /\ Spent(k) => Spent(k)' \/ forgotten'
    BY Aged
<1>3. ASSUME NEW c \in Clients, call'[c].op = "refresh", NEW k \in DOMAIN pairs,
             call'[c].pair = k
      PROVE  \/ call[c].op = "refresh" /\ call[c].pair = k
             \/ ~IsRevoked(<<k, "refresh">>)
    BY <1>3 DEF CallsGoOn
<1>4. ASSUME NEW k \in DOMAIN pairs, pairs[k].parent # 0
      PROVE  ParentIsSpent(k)'
    <2> DEFINE p == pairs[k].parent
    <2>1. p \in DOMAIN pairs /\ ParentIsSpent(k)
        BY <1>1, <1>4 DEF ExchangedIsSpent
    <2>2. (Forgiven(pairs[k].login) \/ Spent(p))'
        BY <1>1, <1>2, <2>1 DEF ParentIsSpent, Forgiven
    <2>3. ASSUME NEW c \in Clients, call'[c].op = "refresh", call'[c].pair = p
          PROVE  Forgiven(pairs[k].login) \/ Late(p)
        <3>1. CASE call[c].op = "refresh" /\ call[c].pair = p
            BY <2>1, <3>1 DEF ParentIsSpent
        <3>2. CASE ~IsRevoked(<<p, "refresh">>)
            BY <2>1, <3>2 DEF ParentIsSpent, Spent
        <3> QED BY <1>3, <2>1, <2>3, <3>1, <3>2
    <2>4. ASSUME NEW c \in Clients, call'[c].op = "refresh", call'[c].pair = p
          PROVE  (Forgiven(pairs[k].login) \/ Late(p))'
        BY <1>1, <1>2, <2>1, <2>3, <2>4
    <2> QED BY <1>1, <2>2, <2>4 DEF ParentIsSpent
<1>5. ASSUME NEW k \in DOMAIN pairs, Superseded(k)
      PROVE  OldIsSpent(k)'
    <2>1. OldIsSpent(k)
        BY <1>5 DEF SupersededIsSpent
    <2>2. (Excused(pairs[k].login) \/ Spent(k))'
        BY <1>1, <1>2, <2>1 DEF OldIsSpent, Excused, Forgiven
    <2>3. ASSUME NEW c \in Clients, call'[c].op = "refresh", call'[c].pair = k
          PROVE  (Excused(pairs[k].login) \/ Late(k))'
        <3>1. CASE call[c].op = "refresh" /\ call[c].pair = k
            BY <1>1, <1>2, <2>1, <3>1 DEF OldIsSpent
        <3>2. CASE ~IsRevoked(<<k, "refresh">>)
            BY <1>1, <1>2, <2>1, <3>2 DEF OldIsSpent, Spent
        <3> QED BY <1>3, <2>3, <3>1, <3>2
    <2> QED BY <2>2, <2>3 DEF OldIsSpent
<1>6. ASSUME NEW k1 \in DOMAIN pairs, NEW k2 \in DOMAIN pairs, k1 < k2,
             pairs[k1].parent # 0, pairs[k1].parent = pairs[k2].parent
      PROVE  \/ forgotten'
             \/ pairs[k1].login \in raced'
             \/ LastSecond(<<pairs[k1].parent, "refresh">>, pairs[k2].issued)'
    BY <1>1, <1>2, <1>6 DEF RefreshSpentOnce, LastSecond, Ages
<1> QED BY <1>4, <1>5, <1>6 DEF KnownStays

\* A step that refreshes nothing and ends nothing.
LEMMA SessionsKeep ==
    ASSUME IInv, PairsGrow, Ages, CallsGoOn, ended' = ended,
           DOMAIN pairs' \subseteq Nat,
           \A k \in DOMAIN pairs' \ DOMAIN pairs :
               /\ pairs'[k].parent = 0 /\ pairs'[k].login = k
               /\ \A j \in DOMAIN pairs' : j <= k
    PROVE  OverlapsAreNoticed' /\ ExchangedIsSpent' /\ RefreshSpentOnce' /\ SupersededIsSpent'
<1> USE DEF IInv
<1>1. KnownStays /\ OverlapsAreNoticed'
    BY KnownCarriesOver, OverlapsStay
<1>2. \A k \in DOMAIN pairs : k \in Nat /\ pairs'[k] = pairs[k] /\ pairs[k].login <= k
    BY PairsAre DEF PairsGrow, Ordered
<1>3. ExchangedIsSpent'
    BY <1>1, <1>2 DEF ExchangedIsSpent, KnownStays
<1>4. RefreshSpentOnce'
    <2> SUFFICES ASSUME NEW k1 \in DOMAIN pairs', NEW k2 \in DOMAIN pairs', k1 < k2,
                        pairs'[k1].parent # 0, pairs'[k1].parent = pairs'[k2].parent
                 PROVE  \/ forgotten'
                        \/ pairs'[k1].login \in raced'
                        \/ LastSecond(<<pairs[k1].parent, "refresh">>, pairs[k2].issued)'
        BY DEF RefreshSpentOnce
    <2>1. k1 \in DOMAIN pairs /\ k2 \in DOMAIN pairs
        OBVIOUS
    <2> QED BY <1>1, <1>2, <2>1 DEF KnownStays
<1>5. ASSUME NEW k \in DOMAIN pairs', Superseded(k)'
      PROVE  k \in DOMAIN pairs /\ Superseded(k)
    <2>1. CASE pairs'[k].login \in ended'
        <3>1. k \in DOMAIN pairs
            BY <2>1 DEF TypeOK
        <3> QED BY <1>2, <2>1, <3>1 DEF Superseded
    <2>2. CASE \E j \in DOMAIN pairs' : k < j /\ pairs'[j].login = pairs'[k].login
        <3>1. PICK j \in DOMAIN pairs' : k < j /\ pairs'[j].login = pairs'[k].login
            BY <2>2
        <3>2. j \in Nat /\ k \in Nat /\ ~(j <= k)
            BY <3>1
        <3>3. k \in DOMAIN pairs
            BY <3>2
        <3>4. ASSUME j \notin DOMAIN pairs
              PROVE  FALSE
            <4>1. pairs'[j].login = j /\ pairs[k].login = j /\ pairs[k].login <= k
                BY <1>2, <3>1, <3>3, <3>4
            <4> QED BY <3>2, <4>1
        <3> QED BY <1>2, <3>1, <3>3, <3>4 DEF Superseded
    <2> QED BY <1>5, <2>1, <2>2 DEF Superseded
<1>6. SupersededIsSpent'
    BY <1>1, <1>5 DEF SupersededIsSpent, KnownStays
<1> QED BY <1>1, <1>3, <1>4, <1>6

-----------------------------------------------------------------------------
(* What a step does to the accounts, tokens and requests. *)

NewPair(user, login, parent, guest) ==
    [user |-> user, login |-> login, parent |-> parent, guest |-> guest, issued |-> now]

UsersStep ==
    /\ users' \subseteq User /\ inserted' \in 0..MaxUsers /\ inserted <= inserted'
    /\ \A u, v \in users' : u.id = v.id \/ u.email = v.email => u = v
    /\ \A u \in users' : u.id <= inserted'
    /\ \A u \in users' : u \in users \/ inserted < u.id
    /\ \A u \in users : u.demo => u \in users'

\* At most a pair is issued, to a guest only for the demo account.
PairsStep ==
    \/ pairs' = pairs
    \/ \E new \in Pair :
          /\ pairs' = Append(pairs, new) /\ Len(pairs) < MaxPairs
          /\ new.login <= Len(pairs) + 1 /\ new.parent <= Len(pairs)
          /\ new.parent # 0 => pairs[new.parent].login = new.login
          /\ new.user <= inserted' /\ new.issued = now
          /\ new.guest => \E u \in users' : u.id = new.user /\ u.demo

KeysStep ==
    /\ denied' \in [Token -> Nat]
    /\ \A t \in Token :
          denied'[t] # 0 =>
              \/ denied'[t] = denied[t]
              \/ /\ t[1] \in DOMAIN pairs
                 /\ denied'[t] <= Expiry(t) /\ Expiry(t) - Second < denied'[t]

\* A request that is new or goes on is one of the code's; only a real account's deletion
\* gets to its work.
CallsStep ==
    /\ call' \in [Clients -> Call]
    /\ \A c \in Clients :
          \/ call'[c] = call[c]
          \/ /\ call'[c].pair \in {0} \cup DOMAIN pairs
             /\ call'[c].op \in {"refresh", "logout", "delete"} <=> call'[c].pair # 0
             /\ call'[c].next \in {"load", "work", "second"} => call'[c].pair # 0
             /\ call'[c].op = "delete" /\ call'[c].next = "work"
                => \E u \in users : u.id = pairs[call'[c].pair].user /\ ~u.demo

LEMMA PairsStepped ==
    ASSUME IInv, PairsStep, UsersStep, now' \in 0..MaxTime, now <= now'
    PROVE  /\ pairs' \in Seq(Pair) /\ PairsGrow
           /\ Len(pairs') \in Nat /\ Len(pairs) <= Len(pairs') /\ Len(pairs') <= MaxPairs
           /\ DOMAIN pairs' = 1..Len(pairs')
           /\ \A k \in DOMAIN pairs' \ DOMAIN pairs :
                 /\ k = Len(pairs') /\ k = Len(pairs) + 1 /\ pairs'[k] \in Pair
                 /\ pairs'[k].login <= k /\ pairs'[k].parent < k
                 /\ pairs'[k].parent # 0 => pairs[pairs'[k].parent].login = pairs'[k].login
                 /\ pairs'[k].user <= inserted' /\ pairs'[k].issued <= now'
                 /\ pairs'[k].guest => \E u \in users' : u.id = pairs'[k].user /\ u.demo
<1>1. /\ pairs \in Seq(Pair) /\ Len(pairs) \in Nat /\ DOMAIN pairs = 1..Len(pairs)
      /\ Len(pairs) <= MaxPairs /\ MaxPairs \in Nat
    BY TimesAreNat DEF IInv, TypeOK, Ordered
<1>2. CASE pairs' = pairs
    BY <1>1, <1>2 DEF PairsGrow
<1>3. CASE pairs' # pairs
    <2>1. PICK new \in Pair :
              /\ pairs' = Append(pairs, new) /\ Len(pairs) < MaxPairs
              /\ new.login <= Len(pairs) + 1 /\ new.parent <= Len(pairs)
              /\ new.parent # 0 => pairs[new.parent].login = new.login
              /\ new.user <= inserted' /\ new.issued = now
              /\ new.guest => \E u \in users' : u.id = new.user /\ u.demo
        BY <1>3 DEF PairsStep
    <2>2. /\ pairs' \in Seq(Pair) /\ Len(pairs') = Len(pairs) + 1
          /\ \A k \in 1..Len(pairs) : pairs'[k] = pairs[k]
          /\ pairs'[Len(pairs) + 1] = new
        BY <1>1, <2>1, AppendProperties
    <2>3. /\ DOMAIN pairs' = 1..Len(pairs') /\ Len(pairs') \in Nat
          /\ Len(pairs) <= Len(pairs') /\ Len(pairs') <= MaxPairs
        BY <1>1, <2>1, <2>2
    <2>4. PairsGrow
        BY <1>1, <2>2, <2>3 DEF PairsGrow
    <2>5. \A k \in DOMAIN pairs' \ DOMAIN pairs : k = Len(pairs') /\ k = Len(pairs) + 1
        BY <1>1, <2>2, <2>3
    <2>6. new.parent < Len(pairs) + 1
        BY <1>1, <2>1 DEF Pair
    <2>7. new.issued <= now'
        BY <2>1
    <2> QED BY <2>1, <2>2, <2>3, <2>4, <2>5, <2>6, <2>7
<1> QED BY <1>2, <1>3

LEMMA TypesStay ==
    ASSUME IInv, UsersStep, PairsStep, KeysStep, CallsStep, now' \in 0..MaxTime, now <= now',
           ended' \cup raced' \subseteq DOMAIN pairs', forgotten' \in BOOLEAN
    PROVE  TypeOK' /\ Ordered' /\ CallsPresent' /\ KeysLast'
<1> USE DEF IInv
<1>1. /\ pairs' \in Seq(Pair) /\ DOMAIN pairs \subseteq DOMAIN pairs'
      /\ \A k \in DOMAIN pairs : pairs'[k] = pairs[k]
      /\ Len(pairs') <= MaxPairs /\ DOMAIN pairs' = 1..Len(pairs') /\ Len(pairs') \in Nat
    BY PairsStepped DEF PairsGrow
<1>2. \A t \in Token : t[1] \in DOMAIN pairs => Expiry(t)' = Expiry(t)
    BY <1>1 DEF Expiry
<1>3. \A t \in Token : denied'[t] # 0 =>
          /\ t[1] \in DOMAIN pairs
          /\ denied'[t] <= Expiry(t) /\ Expiry(t) - Second < denied'[t]
    BY DEF KeysStep, TypeOK, KeysLast, IsRevoked
<1>4. KeysLast'
    BY <1>1, <1>2, <1>3 DEF KeysLast, IsRevoked
<1>5. \A t \in Token : IsRevoked(t)' => t[1] \in DOMAIN pairs' /\ denied'[t] <= Expiry(t)'
    BY <1>1, <1>2, <1>3 DEF IsRevoked
<1>6. CallsPresent'
    BY DEF CallsPresent, CallsStep
<1>7. \A c \in Clients : call'[c].pair \in {0} \cup DOMAIN pairs'
    BY <1>1 DEF CallsStep, TypeOK
<1>8. TypeOK'
    BY <1>1, <1>5, <1>7 DEF TypeOK, UsersStep, KeysStep, CallsStep
<1>9. Ordered'
    <2>1. ASSUME NEW k \in DOMAIN pairs'
          PROVE  /\ pairs'[k].login <= k /\ pairs'[k].parent < k
                 /\ pairs'[k].parent # 0 => pairs'[pairs'[k].parent].login = pairs'[k].login
                 /\ pairs'[k].user <= inserted' /\ pairs'[k].issued <= now'
        <3>1. CASE k \in DOMAIN pairs
            <4>1. /\ pairs[k].login <= k /\ pairs[k].parent < k
                  /\ pairs[k].parent # 0 => pairs[pairs[k].parent].login = pairs[k].login
                  /\ pairs[k].user <= inserted /\ pairs[k].issued <= now
                BY <3>1 DEF Ordered
            <4>2. /\ inserted \in Nat /\ inserted' \in Nat /\ inserted <= inserted'
                  /\ now \in Nat /\ now' \in Nat
                BY TimesAreNat DEF TypeOK, UsersStep
            <4>3. pairs[k] \in Pair /\ (pairs[k].parent # 0 => pairs[k].parent \in DOMAIN pairs)
                BY <3>1, PairsAre
            <4>4. pairs[k].user \in Nat /\ pairs[k].issued \in Nat
                BY <4>3, TimesAreNat DEF Pair
            <4>5. pairs[k].user <= inserted' /\ pairs[k].issued <= now'
                BY <4>1, <4>2, <4>4
            <4> QED BY <1>1, <3>1, <4>1, <4>3, <4>5
        <3>2. CASE k \notin DOMAIN pairs
            <4>1. /\ k = Len(pairs) + 1 /\ pairs'[k] \in Pair
                  /\ pairs'[k].login <= k /\ pairs'[k].parent < k
                  /\ pairs'[k].parent # 0 => pairs[pairs'[k].parent].login = pairs'[k].login
                  /\ pairs'[k].user <= inserted' /\ pairs'[k].issued <= now'
                BY <3>2, PairsStepped
            <4>2. pairs'[k].parent \in 0..MaxPairs
                BY <4>1 DEF Pair
            <4>3. pairs'[k].parent # 0 => pairs'[k].parent \in DOMAIN pairs
                BY <4>1, <4>2, PairsAre
            <4> QED BY <1>1, <4>1, <4>3
        <3> QED BY <3>1, <3>2
    <2> QED BY <1>1, <2>1 DEF Ordered, UsersStep
<1> QED BY <1>4, <1>6, <1>8, <1>9

LEMMA AccountsStay ==
    ASSUME IInv, UsersStep, PairsStep, CallsStep, now' \in 0..MaxTime, now <= now'
    PROVE  GuestsDeleteNothing' /\ DemoSessionsAreDemo'
<1> USE DEF IInv
<1>1. /\ \A k \in DOMAIN pairs : pairs'[k] = pairs[k]
      /\ \A k \in DOMAIN pairs' \ DOMAIN pairs :
             pairs'[k].guest => \E u \in users' : u.id = pairs'[k].user /\ u.demo
    BY PairsStepped DEF PairsGrow
<1>2. DemoSessionsAreDemo'
    BY <1>1 DEF DemoSessionsAreDemo, UsersStep
<1>3. GuestsDeleteNothing'
    <2> SUFFICES ASSUME NEW c \in Clients, call'[c].op = "delete", call'[c].next = "work",
                        NEW u \in users', u.id = pairs'[call'[c].pair].user
                 PROVE  ~u.demo
        BY DEF GuestsDeleteNothing, At
    <2>1. call'[c].pair \in DOMAIN pairs
        BY DEF CallsStep, CallsPresent, TypeOK
    <2>2. \A v \in users : v.id = pairs[call'[c].pair].user => ~v.demo
        <3>1. CASE call'[c] = call[c]
            BY <3>1 DEF GuestsDeleteNothing, At
        <3>2. CASE call'[c] # call[c]
            BY <3>2 DEF CallsStep, TypeOK
        <3> QED BY <3>1, <3>2
    <2>3. u.id = pairs[call'[c].pair].user
        BY <1>1, <2>1
    <2>4. /\ pairs[call'[c].pair] \in Pair
          /\ pairs[call'[c].pair].user <= inserted /\ inserted \in Nat
        BY <2>1, PairsAre, TimesAreNat DEF Ordered, TypeOK
    <2>5. u.id \in Nat /\ ~(inserted < u.id)
        BY <2>3, <2>4, TimesAreNat DEF Pair
    <2> QED BY <2>2, <2>3, <2>5 DEF UsersStep
<1> QED BY <1>2, <1>3

LEMMA SameUsers ==
    ASSUME IInv, users' = users, inserted' = inserted
    PROVE  UsersStep
BY TimesAreNat DEF UsersStep, IInv, TypeOK, Ordered

LEMMA SameKeys ==
    ASSUME IInv, denied' = denied
    PROVE  KeysStep /\ (\A t \in Token : IsRevoked(t) => IsRevoked(t)')
BY DEF KeysStep, IsRevoked, IInv, TypeOK

\* The keys once a token of a known pair is revoked.
LEMMA RevokedKeys ==
    ASSUME IInv, NEW t \in Token, t[1] \in DOMAIN pairs, denied' = Revoked(t)
    PROVE  /\ KeysStep
           /\ \A s \in Token : IsRevoked(s) => IsRevoked(s)'
           /\ ~LastSecond(t, now) => IsRevoked(t)'
<1>1. /\ Revoked(t) \in [Token -> Nat]
      /\ \A s \in Token : s # t => Revoked(t)[s] = denied[s]
      /\ Revoked(t)[t] # 0 => Revoked(t)[t] <= Expiry(t) /\ Expiry(t) - Second < Revoked(t)[t]
      /\ \A s \in Token : denied[s] # 0 => Revoked(t)[s] # 0
      /\ ~LastSecond(t, now) => Revoked(t)[t] # 0
    BY RevokedIs DEF IInv
<1> HIDE DEF Revoked, Expiry, LastSecond
<1>2. KeysStep
    BY <1>1 DEF KeysStep
<1> QED BY <1>1, <1>2 DEF IsRevoked

\* One request takes a step; if it is to refresh or log out, it was already.
LEMMA OneCall ==
    ASSUME IInv, NEW c \in Clients, NEW x \in Call, call' = [call EXCEPT ![c] = x],
           x.pair \in {0} \cup DOMAIN pairs,
           x.op \in {"refresh", "logout", "delete"} <=> x.pair # 0,
           x.next \in {"load", "work", "second"} => x.pair # 0,
           x.op = "delete" /\ x.next = "work"
           => \E u \in users : u.id = pairs[x.pair].user /\ ~u.demo
    PROVE  /\ CallsStep
           /\ call'[c] = x /\ \A d \in Clients \ {c} : call'[d] = call[d]
           /\ (x.op \in {"refresh", "logout"} => x.op = call[c].op /\ x.pair = call[c].pair)
              => CallsGoOn
<1>1. call \in [Clients -> Call]
    BY DEF IInv, TypeOK
<1>2. /\ call' \in [Clients -> Call] /\ call'[c] = x
      /\ \A d \in Clients \ {c} : call'[d] = call[d]
    BY <1>1
<1>3. CallsStep
    BY <1>2 DEF CallsStep
<1> QED BY <1>2, <1>3 DEF CallsGoOn

LEMMA IdleIsACall == Idle \in Call /\ Idle.op = "none" /\ Idle.next = "idle" /\ Idle.pair = 0
<1>1. 0 \in 0..MaxPairs
    BY TimesAreNat
<1> QED BY <1>1, DemoIsAnEmail DEF Idle, Call, Step

\* A request that is answered.
LEMMA Answered ==
    ASSUME IInv, NEW c \in Clients, Answers(c)
    PROVE  /\ CallsStep /\ CallsGoOn
           /\ call'[c] = Idle /\ \A d \in Clients \ {c} : call'[d] = call[d]
<1>1. call' = [call EXCEPT ![c] = Idle]
    BY DEF Answers
<1>2. Idle \in Call /\ Idle.op = "none" /\ Idle.next = "idle" /\ Idle.pair = 0
    BY IdleIsACall
<1> QED BY <1>1, <1>2, OneCall

LEMMA SameCalls ==
    ASSUME IInv, call' = call
    PROVE  CallsStep /\ CallsGoOn
BY DEF IInv, TypeOK, CallsStep, CallsGoOn

\* A request that goes on to its work or to the second token of a logout.
LEMMA GoneOn ==
    ASSUME IInv, NEW c \in Clients, NEW next \in {"work", "second"}, Goes(c, next),
           call[c].next \in {"load", "work"},
           call[c].op = "delete" => \E u \in users : u.id = pairs[call[c].pair].user /\ ~u.demo
    PROVE  CallsStep /\ CallsGoOn
<1> DEFINE x == [call[c] EXCEPT !.next = next]
<1>1. call \in [Clients -> Call] /\ call[c] \in Call
    BY DEF IInv, TypeOK
<1>2. x \in Call /\ x.op = call[c].op /\ x.pair = call[c].pair /\ x.next = next
    BY <1>1 DEF Call, Step
<1>3. call' = [call EXCEPT ![c] = x]
    BY <1>1 DEF Goes
<1>4. /\ x.pair \in {0} \cup DOMAIN pairs /\ x.pair # 0
      /\ x.op \in {"refresh", "logout", "delete"}
    BY <1>2 DEF IInv, TypeOK, CallsPresent
<1> HIDE DEF x
<1> QED BY <1>2, <1>3, <1>4, OneCall

LEMMA FirstIssued ==
    ASSUME IInv, NEW user \in 1..MaxUsers, NEW guest \in BOOLEAN, IssueFirst(user, guest),
           inserted' \in Nat, user <= inserted',
           guest => \E u \in users' : u.id = user /\ u.demo
    PROVE  /\ PairsStep
           /\ \A k \in DOMAIN pairs' \ DOMAIN pairs : pairs'[k].parent = 0 /\ pairs'[k].login = k
<1> DEFINE new == NewPair(user, Len(pairs) + 1, 0, guest)
<1>1. /\ Len(pairs) \in Nat /\ Len(pairs) < MaxPairs /\ pairs' = Append(pairs, new)
      /\ pairs \in Seq(Pair) /\ MaxPairs \in Nat /\ DOMAIN pairs = 1..Len(pairs)
    BY TimesAreNat DEF IInv, TypeOK, IssueFirst, Issue, NewPair
<1>2. now \in 0..MaxTime /\ Len(pairs) + 1 \in 1..MaxPairs /\ 0 \in 0..MaxPairs
    BY <1>1 DEF IInv, TypeOK
<1>3. /\ new \in Pair /\ new.login = Len(pairs) + 1 /\ new.parent = 0 /\ new.user = user
      /\ new.issued = now /\ new.guest = guest
    BY <1>2 DEF NewPair, Pair
<1> HIDE DEF new
<1>4. DOMAIN pairs' = 1..(Len(pairs) + 1) /\ pairs'[Len(pairs) + 1] = new
    BY <1>1, <1>3, AppendProperties
<1>5. PairsStep
    <2>1. /\ new.login <= Len(pairs) + 1 /\ new.parent <= Len(pairs)
          /\ new.parent # 0 => pairs[new.parent].login = new.login
          /\ new.user <= inserted' /\ new.issued = now
        BY <1>1, <1>3
    <2>2. new.guest => \E u \in users' : u.id = new.user /\ u.demo
        BY <1>3
    <2> QED BY <1>1, <1>3, <2>1, <2>2 DEF PairsStep
<1>6. \A k \in DOMAIN pairs' \ DOMAIN pairs : k = Len(pairs) + 1
    BY <1>1, <1>4
<1> QED BY <1>3, <1>4, <1>5, <1>6

\* A step that refreshes nothing and ends no session keeps the invariant.
LEMMA PlainStep ==
    ASSUME IInv, UsersStep, PairsStep, KeysStep, CallsStep, CallsGoOn,
           now' \in 0..MaxTime, now <= now', ended' = ended,
           raced \subseteq raced', raced' \subseteq DOMAIN pairs,
           forgotten' \in BOOLEAN, forgotten => forgotten',
           \A t \in Token : IsRevoked(t) => IsRevoked(t)' \/ forgotten' \/ Expiry(t) - now' < Second,
           \A k \in DOMAIN pairs' \ DOMAIN pairs : pairs'[k].parent = 0 /\ pairs'[k].login = k
    PROVE  IInv'
<1>1. /\ PairsGrow /\ DOMAIN pairs' \subseteq Nat
      /\ \A k \in DOMAIN pairs' \ DOMAIN pairs : \A j \in DOMAIN pairs' : j <= k
    BY PairsStepped
<1>2. Ages
    BY TimesAreNat DEF Ages
<1>3. ended' \cup raced' \subseteq DOMAIN pairs'
    BY <1>1 DEF IInv, TypeOK, PairsGrow
<1>4. TypeOK' /\ Ordered' /\ CallsPresent' /\ KeysLast'
    BY <1>3, TypesStay
<1>5. GuestsDeleteNothing' /\ DemoSessionsAreDemo'
    BY AccountsStay
<1>6. OverlapsAreNoticed' /\ ExchangedIsSpent' /\ RefreshSpentOnce' /\ SupersededIsSpent'
    BY <1>1, <1>2, SessionsKeep
<1> QED BY <1>4, <1>5, <1>6 DEF IInv

-----------------------------------------------------------------------------
(* The steps. *)

\* Only a request changes.
LEMMA OnlyCalls ==
    ASSUME IInv, CallsStep, CallsGoOn,
           UNCHANGED <<now, users, inserted, pairs, denied, ended, forgotten>>,
           raced \subseteq raced', raced' \subseteq DOMAIN pairs
    PROVE  IInv'
<1>1. UsersStep /\ KeysStep /\ \A t \in Token : IsRevoked(t) => IsRevoked(t)'
    BY SameUsers, SameKeys
<1>2. PairsStep
    BY DEF PairsStep
<1>3. now' \in 0..MaxTime /\ now <= now' /\ forgotten' \in BOOLEAN
    BY TimesAreNat DEF IInv, TypeOK
<1> QED BY <1>1, <1>2, <1>3, PlainStep

LEMMA SignupStep ==
    ASSUME IInv, NEW c \in Clients, NEW e \in Emails, Signup(c, e)
    PROVE  IInv'
<1> DEFINE x == [Idle EXCEPT !.op = "signup", !.next = "insert", !.email = e]
<1>1. x \in Call /\ x.op = "signup" /\ x.next = "insert" /\ x.pair = 0
    BY IdleIsACall DEF Idle, Call, Step
<1>2. call' = [call EXCEPT ![c] = x]
    BY DEF Signup
<1> HIDE DEF x
<1>3. CallsStep /\ CallsGoOn
    BY <1>1, <1>2, OneCall
<1>4. raced' = raced /\ raced \subseteq DOMAIN pairs
    BY DEF Signup, history, IInv, TypeOK
<1>5. UNCHANGED <<now, users, inserted, pairs, denied, ended, forgotten>>
    BY DEF Signup, history
<1> QED BY <1>3, <1>4, <1>5, OnlyCalls

LEMMA UsersAre ==
    ASSUME IInv, NEW u \in users
    PROVE  u.id \in 1..MaxUsers /\ u.id <= inserted /\ inserted \in Nat /\ u.demo \in BOOLEAN
<1>1. u \in User /\ u.id <= inserted /\ inserted \in Nat
    BY TimesAreNat DEF IInv, TypeOK, Ordered
<1> QED BY <1>1 DEF User

\* A session is given to an account that is there.
LEMMA SessionStarts ==
    ASSUME IInv, NEW u \in users, NEW guest \in BOOLEAN, guest => u.demo, IssueFirst(u.id, guest),
           UNCHANGED <<now, users, inserted, denied, call, history>>
    PROVE  IInv'
<1>1. UsersStep /\ KeysStep /\ \A t \in Token : IsRevoked(t) => IsRevoked(t)'
    BY SameUsers, SameKeys
<1>2. CallsStep /\ CallsGoOn
    BY SameCalls
<1>3. u.id \in 1..MaxUsers /\ inserted' \in Nat /\ u.id <= inserted' /\ u \in users'
    BY UsersAre
<1>4. PairsStep
      /\ \A k \in DOMAIN pairs' \ DOMAIN pairs : pairs'[k].parent = 0 /\ pairs'[k].login = k
    BY <1>3, FirstIssued
<1>5. /\ now' \in 0..MaxTime /\ now <= now' /\ ended' = ended
      /\ raced \subseteq raced' /\ raced' \subseteq DOMAIN pairs
      /\ forgotten' \in BOOLEAN /\ (forgotten => forgotten')
    BY TimesAreNat DEF IInv, TypeOK, history
<1> QED BY <1>1, <1>2, <1>4, <1>5, PlainStep

LEMMA LoginStep ==
    ASSUME IInv, NEW c \in Clients, NEW e \in Emails, Login(c, e)
    PROVE  IInv'
<1>1. PICK u \in users : IssueFirst(u.id, FALSE)
    BY DEF Login
<1>2. UNCHANGED <<now, users, inserted, denied, call, history>>
    BY DEF Login
<1> QED BY <1>1, <1>2, SessionStarts

LEMMA DemoSessionStep ==
    ASSUME IInv, NEW c \in Clients, DemoSession(c)
    PROVE  IInv'
<1> DEFINE x == [Idle EXCEPT !.op = "demo", !.next = "insert"]
<1>1. CASE call' = [call EXCEPT ![c] = x] /\ pairs' = pairs
    <2>1. x \in Call /\ x.op = "demo" /\ x.next = "insert" /\ x.pair = 0
        BY IdleIsACall DEF Idle, Call, Step
    <2> HIDE DEF x
    <2>2. CallsStep /\ CallsGoOn
        BY <1>1, <2>1, OneCall
    <2>3. raced' = raced /\ raced \subseteq DOMAIN pairs
        BY DEF DemoSession, history, IInv, TypeOK
    <2>4. UNCHANGED <<now, users, inserted, pairs, denied, ended, forgotten>>
        BY <1>1 DEF DemoSession, history
    <2> QED BY <2>2, <2>3, <2>4, OnlyCalls
<1>2. CASE call' = call /\ \E u \in users : u.demo /\ IssueFirst(u.id, TRUE)
    <2>1. UNCHANGED <<now, users, inserted, denied, call, history>>
        BY <1>2 DEF DemoSession
    <2> QED BY <1>2, <2>1, SessionStarts
<1> QED BY <1>1, <1>2 DEF DemoSession

LEMMA InsertUserStep ==
    ASSUME IInv, NEW c \in Clients, InsertUser(c)
    PROVE  IInv'
<1>1. CallsStep /\ CallsGoOn
    BY Answered DEF InsertUser
<1>2. KeysStep /\ \A t \in Token : IsRevoked(t) => IsRevoked(t)'
    BY SameKeys DEF InsertUser
<1>3. /\ now' \in 0..MaxTime /\ now <= now' /\ ended' = ended
      /\ raced \subseteq raced' /\ raced' \subseteq DOMAIN pairs
      /\ forgotten' \in BOOLEAN /\ (forgotten => forgotten')
    BY TimesAreNat DEF IInv, TypeOK, history, InsertUser
<1>4. CASE users' = users /\ inserted' = inserted /\ pairs' = pairs
    <2>1. raced' = raced /\ raced \subseteq DOMAIN pairs
        BY DEF InsertUser, history, IInv, TypeOK
    <2>2. UNCHANGED <<now, users, inserted, pairs, denied, ended, forgotten>>
        BY <1>4 DEF InsertUser, history
    <2> QED BY <1>1, <2>1, <2>2, OnlyCalls
<1>5. CASE Free(call[c].email) /\ inserted < MaxUsers
    <2> DEFINE demo == call[c].op = "demo"
               row == [id |-> inserted + 1, email |-> call[c].email, demo |-> demo]
    <2>1. CASE inserted' = inserted + 1 /\ users' = users \cup {row} /\ IssueFirst(inserted', demo)
        <3>1. inserted \in Nat /\ inserted + 1 \in 1..MaxUsers /\ demo \in BOOLEAN
              /\ call[c].email \in Emails
            BY <1>5, TimesAreNat DEF IInv, TypeOK, Call
        <3>2. /\ row \in User /\ row.id = inserted + 1 /\ row.demo = demo
              /\ row.email = call[c].email
            BY <3>1 DEF User
        <3> HIDE DEF row, demo
        <3>3. UsersStep
            <4>1. \A u \in users : u.id \in Nat /\ u.id <= inserted
                BY UsersAre, TimesAreNat
            <4>2. \A u \in users' : u.id <= inserted' /\ (u \in users \/ inserted < u.id)
                BY <2>1, <3>1, <3>2, <4>1
            <4>3. \A u \in users : u.id # row.id /\ u.email # row.email
                BY <1>5, <3>1, <3>2, <4>1 DEF Free
            <4>4. \A u, v \in users' : u.id = v.id \/ u.email = v.email => u = v
                BY <2>1, <4>3 DEF IInv, TypeOK
            <4>5. users' \subseteq User /\ inserted' \in 0..MaxUsers /\ inserted <= inserted'
                BY <2>1, <3>1, <3>2, TimesAreNat DEF IInv, TypeOK
            <4> QED BY <2>1, <4>2, <4>4, <4>5 DEF UsersStep
        <3>4. PairsStep
              /\ \A k \in DOMAIN pairs' \ DOMAIN pairs :
                    pairs'[k].parent = 0 /\ pairs'[k].login = k
            <4>1. demo => \E u \in users' : u.id = inserted' /\ u.demo
                BY <2>1, <3>2
            <4> QED BY <2>1, <3>1, <4>1, FirstIssued
        <3> QED BY <1>1, <1>2, <1>3, <3>3, <3>4, PlainStep
    <2> QED BY <1>4, <2>1 DEF InsertUser
<1> QED BY <1>4, <1>5 DEF InsertUser

LEMMA LoadUserStep ==
    ASSUME IInv, NEW c \in Clients, LoadUser(c)
    PROVE  IInv'
<1>1. CASE Answers(c)
    BY <1>1, Answered, OnlyCalls DEF LoadUser, history, IInv, TypeOK
<1>2. CASE /\ Goes(c, "work")
           /\ \E u \in users : /\ u.id = pairs[call[c].pair].user
                               /\ u.demo => call[c].op = "refresh"
    <2>1. call[c].op = "delete" => \E u \in users : u.id = pairs[call[c].pair].user /\ ~u.demo
        <3>1. PICK u \in users : /\ u.id = pairs[call[c].pair].user
                                 /\ u.demo => call[c].op = "refresh"
            BY <1>2
        <3>2. call[c].op = "delete" => ~u.demo
            BY <3>1
        <3> QED BY <3>1, <3>2
    <2>2. CallsStep /\ CallsGoOn
        BY <1>2, <2>1, GoneOn DEF LoadUser
    <2> QED BY <2>2, OnlyCalls DEF LoadUser, history, IInv, TypeOK
<1> QED BY <1>1, <1>2 DEF LoadUser

LEMMA CallFailsStep ==
    ASSUME IInv, NEW c \in Clients, CallFails(c)
    PROVE  IInv'
BY Answered, OnlyCalls DEF CallFails, history, IInv, TypeOK

LEMMA DeleteAccountStep ==
    ASSUME IInv, NEW c \in Clients, DeleteAccount(c)
    PROVE  IInv'
<1>1. CallsStep /\ CallsGoOn
    BY Answered DEF DeleteAccount
<1>2. KeysStep /\ \A t \in Token : IsRevoked(t) => IsRevoked(t)'
    BY SameKeys DEF DeleteAccount
<1>3. UsersStep
    <2>1. /\ users' = {u \in users : u.id # pairs[call[c].pair].user} /\ inserted' = inserted
        BY DEF DeleteAccount
    <2>2. \A u \in users : u.demo => u \in users'
        BY <2>1 DEF DeleteAccount, IInv, GuestsDeleteNothing
    <2> QED BY <2>1, <2>2, TimesAreNat DEF UsersStep, IInv, TypeOK, Ordered
<1>4. /\ now' \in 0..MaxTime /\ now <= now' /\ ended' = ended
      /\ raced \subseteq raced' /\ raced' \subseteq DOMAIN pairs
      /\ forgotten' \in BOOLEAN /\ (forgotten => forgotten') /\ pairs' = pairs
    BY TimesAreNat DEF IInv, TypeOK, history, DeleteAccount
<1>5. PairsStep
    BY <1>4 DEF PairsStep
<1> QED BY <1>1, <1>2, <1>3, <1>4, <1>5, PlainStep

LEMMA LogoutAccessStep ==
    ASSUME IInv, NEW c \in Clients, LogoutAccess(c)
    PROVE  IInv'
<1> DEFINE k == call[c].pair
<1>1. k \in DOMAIN pairs /\ call[c].next = "work" /\ call[c].op = "logout"
    BY DEF LogoutAccess, At, IInv, TypeOK, CallsPresent
<1>2. <<k, "access">> \in Token /\ <<k, "access">>[1] = k
    BY <1>1, PairsAre DEF IInv
<1>3. CallsStep /\ CallsGoOn
    <2>1. CASE Answers(c)
        BY <2>1, Answered
    <2>2. CASE Goes(c, "second")
        BY <1>1, <2>2, GoneOn
    <2> QED BY <2>1, <2>2 DEF LogoutAccess
<1>4. denied' = denied \/ denied' = Revoked(<<k, "access">>)
    BY DEF LogoutAccess
<1>5. KeysStep /\ \A t \in Token : IsRevoked(t) => IsRevoked(t)'
    BY <1>1, <1>2, <1>4, SameKeys, RevokedKeys
<1>6. UsersStep
    BY SameUsers DEF LogoutAccess
<1>7. /\ now' \in 0..MaxTime /\ now <= now' /\ ended' = ended
      /\ raced \subseteq raced' /\ raced' \subseteq DOMAIN pairs
      /\ forgotten' \in BOOLEAN /\ (forgotten => forgotten') /\ pairs' = pairs
    BY TimesAreNat DEF IInv, TypeOK, history, LogoutAccess
<1>8. PairsStep
    BY <1>7 DEF PairsStep
<1> QED BY <1>3, <1>5, <1>6, <1>7, <1>8, PlainStep

LEMMA TickStep ==
    ASSUME IInv, Tick
    PROVE  IInv'
<1>1. CallsStep /\ CallsGoOn
    BY SameCalls DEF Tick
<1>2. UsersStep
    BY SameUsers DEF Tick
<1>3. /\ now \in Nat /\ now' = now + 1 /\ now' \in 0..MaxTime /\ now <= now' /\ ended' = ended
      /\ raced' = raced /\ raced' \subseteq DOMAIN pairs
      /\ forgotten' = forgotten /\ forgotten' \in BOOLEAN /\ pairs' = pairs
    BY TimesAreNat DEF IInv, TypeOK, history, Tick
<1>4. PairsStep
    BY <1>3 DEF PairsStep
<1>5. /\ denied \in [Token -> Nat]
      /\ denied' = [t \in Token |-> IF denied[t] > now' THEN denied[t] ELSE 0]
    BY DEF IInv, TypeOK, Tick
<1>6. KeysStep
    BY <1>5 DEF KeysStep
<1>7. ASSUME NEW t \in Token, IsRevoked(t), ~IsRevoked(t)'
      PROVE  Expiry(t) - now' < Second
    <2>1. Expiry(t) \in Int /\ Expiry(t) - Second < denied[t]
        BY <1>7, ExpiryIs DEF IInv, TypeOK, KeysLast
    <2>2. denied[t] \in Nat /\ denied[t] <= now'
        BY <1>3, <1>5, <1>7 DEF IsRevoked
    <2> QED BY <1>3, <2>1, <2>2, TimesAreNat
<1> QED BY <1>1, <1>2, <1>3, <1>4, <1>6, <1>7, PlainStep

LEMMA RestartStep ==
    ASSUME IInv, RedisRestarts
    PROVE  IInv'
<1>1. CallsStep /\ CallsGoOn
    BY SameCalls DEF RedisRestarts
<1>2. UsersStep
    BY SameUsers DEF RedisRestarts
<1>3. /\ now' \in 0..MaxTime /\ now <= now' /\ ended' = ended
      /\ raced' = raced /\ raced' \subseteq DOMAIN pairs /\ forgotten' = TRUE /\ pairs' = pairs
    BY TimesAreNat DEF IInv, TypeOK, RedisRestarts
<1>4. PairsStep
    BY <1>3 DEF PairsStep
<1>5. KeysStep
    BY DEF KeysStep, RedisRestarts
<1> QED BY <1>1, <1>2, <1>3, <1>4, <1>5, PlainStep

\* A token that is presented is not revoked, and an overlap is noticed.
LEMMA PresentStep ==
    ASSUME IInv, NEW c \in Clients, NEW op \in {"refresh", "logout", "delete"},
           NEW k \in DOMAIN pairs, Present(c, op, k)
    PROVE  IInv'
<1> DEFINE x == [Idle EXCEPT !.op = op, !.next = "load", !.pair = k]
<1>1. k \in 0..MaxPairs /\ k # 0
    BY PairsAre, TimesAreNat DEF IInv
<1>2. x \in Call /\ x.op = op /\ x.next = "load" /\ x.pair = k
    BY <1>1, IdleIsACall DEF Idle, Call, Step
<1>3. call' = [call EXCEPT ![c] = x]
    BY DEF Present
<1> HIDE DEF x
<1>4. CallsStep /\ call'[c] = x /\ \A d \in Clients \ {c} : call'[d] = call[d]
    BY <1>1, <1>2, <1>3, OneCall
<1>5. raced \subseteq raced' /\ raced' \subseteq DOMAIN pairs
    <2>1. pairs[k].login \in DOMAIN pairs
        BY PairsAre DEF IInv
    <2> QED BY <2>1 DEF Present, IInv, TypeOK
<1>6. op = "refresh" => ~IsRevoked(<<k, "refresh">>)
    BY DEF Present, Presented
<1>7. ASSUME NEW d \in Clients \ {c},
             \/ op = "refresh" /\ call[d].op \in {"refresh", "logout"}
             \/ op = "logout" /\ call[d].op = "refresh",
             pairs[call[d].pair].login = pairs[k].login
      PROVE  pairs[k].login \in raced'
    <2>1. call[d].pair # 0
        BY <1>7 DEF IInv, CallsPresent
    <2>2. call[d].op \in Underway(pairs[k].login)
        BY <1>7, <2>1 DEF Underway
    <2> QED BY <1>7, <2>2 DEF Present
<1>8. CallsGoOn
    BY <1>2, <1>4, <1>6, <1>7 DEF CallsGoOn
<1>9. UNCHANGED <<now, users, inserted, pairs, denied, ended, forgotten>>
    BY DEF Present
<1> QED BY <1>4, <1>5, <1>8, <1>9, OnlyCalls

\* What a request that has a refresh token in hand knows of the others.
LEMMA OthersAreNoticed ==
    ASSUME IInv, NEW c \in Clients, call[c].op \in {"refresh", "logout"},
           NEW d \in Clients, d # c, call[d].op = "refresh", call[d].pair = call[c].pair
    PROVE  Forgiven(pairs[call[c].pair].login)
BY DEF IInv, OverlapsAreNoticed, Forgiven

LEMMA RefreshStep ==
    ASSUME IInv, NEW c \in Clients, Refresh(c)
    PROVE  IInv'
<1>1. PICK k \in DOMAIN pairs : k = call[c].pair /\ call[c].op = "refresh"
    BY DEF Refresh, At, IInv, TypeOK, CallsPresent
<1>2. PICK n, L : n = Len(pairs) + 1 /\ L = pairs[k].login
    OBVIOUS
<1> DEFINE new == NewPair(pairs[k].user, L, k, pairs[k].guest)
<1>3. /\ Len(pairs) \in Nat /\ DOMAIN pairs = 1..Len(pairs) /\ pairs \in Seq(Pair)
      /\ pairs[k] \in Pair /\ L \in DOMAIN pairs /\ <<k, "refresh">> \in Token
      /\ DOMAIN pairs \subseteq (1..MaxPairs) \cap Nat
    BY <1>1, <1>2, PairsAre DEF IInv, TypeOK
<1> USE <1>2
<1>4. /\ denied' = Revoked(<<k, "refresh">>) /\ Len(pairs) < MaxPairs
      /\ pairs' = Append(pairs, new)
      /\ UNCHANGED <<now, users, inserted, ended, raced, forgotten>>
    BY <1>1, <1>2 DEF Refresh, Issue, NewPair, history
<1>5. /\ new \in Pair /\ new.login = L /\ new.parent = k /\ new.user = pairs[k].user
      /\ new.guest = pairs[k].guest /\ new.issued = now
    <2>1. now \in 0..MaxTime /\ k \in 0..MaxPairs /\ L \in 1..MaxPairs
        BY <1>1, <1>3, TimesAreNat DEF IInv, TypeOK
    <2> QED BY <1>3, <2>1 DEF NewPair, Pair
<1>6. L <= k /\ k <= Len(pairs) /\ k # 0 /\ pairs[k].user <= inserted
    BY <1>1, <1>3 DEF IInv, Ordered
<1> HIDE DEF new
<1>7. DOMAIN pairs' = 1..n /\ pairs'[n] = new
    BY <1>3, <1>4, <1>5, AppendProperties
<1>8. CallsStep /\ CallsGoOn /\ call'[c] = Idle /\ \A d \in Clients \ {c} : call'[d] = call[d]
    BY Answered DEF Refresh
<1>9. UsersStep
    BY <1>4, SameUsers
<1>10. KeysStep /\ (\A t \in Token : IsRevoked(t) => IsRevoked(t)')
      /\ (~Late(k) => IsRevoked(<<k, "refresh">>)')
    BY <1>1, <1>3, <1>4, RevokedKeys DEF Late
<1>11. now' \in 0..MaxTime /\ now <= now' /\ now \in Nat /\ forgotten' \in BOOLEAN
    BY <1>4, TimesAreNat DEF IInv, TypeOK
<1>12. PairsStep
    <2>1. L <= n /\ MaxPairs \in Nat
        BY <1>3, <1>6, TimesAreNat
    <2>2. new.guest => \E u \in users' : u.id = new.user /\ u.demo
        BY <1>1, <1>4, <1>5 DEF IInv, DemoSessionsAreDemo
    <2> QED BY <1>4, <1>5, <1>6, <2>1, <2>2 DEF PairsStep
<1>13. PairsGrow
    BY <1>9, <1>11, <1>12, PairsStepped
<1>14. ended' \cup raced' \subseteq DOMAIN pairs'
    BY <1>4, <1>13 DEF IInv, TypeOK, PairsGrow
<1>15. TypeOK' /\ Ordered' /\ CallsPresent' /\ KeysLast'
    BY <1>8, <1>9, <1>10, <1>11, <1>12, <1>14, TypesStay
<1>16. GuestsDeleteNothing' /\ DemoSessionsAreDemo'
    BY <1>8, <1>9, <1>11, <1>12, AccountsStay
<1>17. Ages
    BY <1>4, <1>10, <1>11 DEF Ages
<1>18. KnownStays /\ OverlapsAreNoticed'
    BY <1>8, <1>13, <1>17, KnownCarriesOver, OverlapsStay
<1>19. /\ \A j \in DOMAIN pairs : pairs'[j] = pairs[j]
       /\ \A j \in DOMAIN pairs' : j \in DOMAIN pairs \/ j = n
       /\ \A j \in DOMAIN pairs : j \in Nat /\ j < n
    BY <1>3, <1>7, <1>13 DEF PairsGrow
<1>20. /\ Expiry(<<k, "refresh">>)' = Expiry(<<k, "refresh">>)
       /\ Late(k) => Late(k)'
       /\ \A login : Forgiven(login) => Forgiven(login)'
       /\ \A login : Excused(login) => Excused(login)'
    BY <1>1, <1>13, <1>17, Aged DEF IInv
<1>21. Spent(k)'
    BY <1>10, <1>20 DEF Spent
<1>22. \A d \in Clients : call'[d].op = "refresh" /\ call'[d].pair = k => Forgiven(L)'
    BY <1>1, <1>8, <1>20, OthersAreNoticed, IdleIsACall
\* The new pair's parent is spent.
<1>23. ExchangedIsSpent'
    <2>1. ParentIsSpent(n)'
        BY <1>5, <1>7, <1>21, <1>22 DEF ParentIsSpent
    <2>2. \A j \in DOMAIN pairs : pairs[j].parent # 0 => ParentIsSpent(j)'
        BY <1>18 DEF KnownStays
    <2> QED BY <1>19, <2>1, <2>2 DEF ExchangedIsSpent
\* If it had been exchanged before, this request was late or overlapped that one.
<1>24. RefreshSpentOnce'
    <2> SUFFICES ASSUME NEW k1 \in DOMAIN pairs', NEW k2 \in DOMAIN pairs', k1 < k2,
                        pairs'[k1].parent # 0, pairs'[k1].parent = pairs'[k2].parent
                 PROVE  \/ forgotten'
                        \/ pairs'[k1].login \in raced'
                        \/ LastSecond(<<pairs[k1].parent, "refresh">>, pairs[k2].issued)'
        BY DEF RefreshSpentOnce
    <2>1. n \in Nat
        BY <1>3
    <2>2. k1 \in DOMAIN pairs
        BY <1>19, <2>1
    <2>3. CASE k2 \in DOMAIN pairs
        BY <1>18, <1>19, <2>2, <2>3 DEF KnownStays
    <2>4. CASE k2 = n
        <3>1. pairs[k1].parent = k
            BY <1>5, <1>7, <1>19, <2>2, <2>4
        <3>2. Forgiven(pairs[k1].login) \/ Late(k)
            BY <1>1, <1>6, <2>2, <3>1 DEF IInv, ExchangedIsSpent, ParentIsSpent
        <3>3. pairs'[k1] = pairs[k1] /\ pairs'[k2].issued = now
            BY <1>5, <1>7, <1>19, <2>2, <2>4
        <3>4. Late(k) => LastSecond(<<pairs[k1].parent, "refresh">>, pairs[k2].issued)'
            BY <1>20, <3>1, <3>3 DEF Late, LastSecond
        <3> QED BY <1>4, <3>2, <3>3, <3>4 DEF Forgiven
    <2> QED BY <1>19, <2>3, <2>4
\* The others of the session were superseded when this one was issued.
<1>25. SupersededIsSpent'
    <2> SUFFICES ASSUME NEW j \in DOMAIN pairs', Superseded(j)'
                 PROVE  OldIsSpent(j)'
        BY DEF SupersededIsSpent
    <2>1. n \in Nat
        BY <1>3
    <2>2. ASSUME Superseded(k)
          PROVE  Excused(L)'
        <3>1. Excused(L) \/ Late(k)
            BY <1>1, <2>2 DEF IInv, SupersededIsSpent, OldIsSpent
        <3>2. Late(k) => RefreshedLate(L)'
            <4>1. n \in DOMAIN pairs'
                BY <1>7, <2>1
            <4>2. Late(k) => LastSecond(<<pairs[n].parent, "refresh">>, pairs[n].issued)'
                BY <1>5, <1>7, <1>20 DEF Late, LastSecond
            <4> QED BY <1>5, <1>6, <1>7, <4>1, <4>2 DEF RefreshedLate
        <3> QED BY <1>20, <3>1, <3>2 DEF Excused
    <2>3. CASE j \in DOMAIN pairs /\ Superseded(j)
        BY <1>18, <2>3 DEF KnownStays
    <2>4. CASE j = k
        BY <1>1, <1>19, <1>21, <1>22, <2>4 DEF OldIsSpent, Excused
    <2>5. CASE j = n
        <3>1. L \in ended
            <4>1. ~\E i \in DOMAIN pairs' : n < i /\ pairs'[i].login = pairs'[n].login
                BY <1>19, <2>1
            <4> QED BY <1>4, <1>5, <1>7, <2>5, <4>1 DEF Superseded
        <3>2. Excused(L)'
            BY <2>2, <3>1 DEF Superseded
        <3> QED BY <1>5, <1>7, <2>5, <3>2 DEF OldIsSpent
    <2>6. CASE j \in DOMAIN pairs /\ j # k /\ ~Superseded(j)
        <3>1. pairs[j].login \notin ended /\ pairs'[j] = pairs[j]
            BY <1>19, <2>6 DEF Superseded
        <3>2. PICK i \in DOMAIN pairs' : j < i /\ pairs'[i].login = pairs'[j].login
            BY <1>4, <3>1 DEF Superseded
        <3>3. i = n
            BY <1>19, <2>6, <3>1, <3>2 DEF Superseded
        <3>4. pairs[j].login = L
            BY <1>5, <1>7, <3>1, <3>2, <3>3
        <3>5. k < j \/ j < k
            BY <1>1, <1>19, <2>6
        <3>6. ~(j < k)
            BY <1>1, <2>6, <3>4 DEF Superseded
        <3>7. Superseded(k)
            BY <2>6, <3>4, <3>5, <3>6 DEF Superseded
        <3> QED BY <2>2, <3>1, <3>4, <3>7 DEF OldIsSpent
    <2> QED BY <1>19, <2>3, <2>4, <2>5, <2>6
<1> QED BY <1>15, <1>16, <1>18, <1>23, <1>24, <1>25 DEF IInv

LEMMA LogoutRefreshStep ==
    ASSUME IInv, NEW c \in Clients, LogoutRefresh(c)
    PROVE  IInv'
<1>1. PICK k \in DOMAIN pairs : k = call[c].pair /\ call[c].op = "logout"
    BY DEF LogoutRefresh, At, IInv, TypeOK, CallsPresent
<1>2. <<k, "refresh">> \in Token /\ pairs[k].login \in DOMAIN pairs
      /\ \A j \in DOMAIN pairs : j \in Nat
    BY <1>1, PairsAre DEF IInv
<1>3. /\ denied' = Revoked(<<k, "refresh">>)
      /\ ended' = (IF Newest(k) THEN ended \cup {pairs[k].login} ELSE ended)
      /\ UNCHANGED <<now, users, inserted, pairs, raced, forgotten>>
    BY <1>1 DEF LogoutRefresh
<1>4. CallsStep /\ CallsGoOn /\ call'[c] = Idle /\ \A d \in Clients \ {c} : call'[d] = call[d]
    BY Answered DEF LogoutRefresh
<1>5. UsersStep
    BY <1>3, SameUsers
<1>6. KeysStep /\ (\A t \in Token : IsRevoked(t) => IsRevoked(t)')
      /\ (~Late(k) => IsRevoked(<<k, "refresh">>)')
    BY <1>1, <1>2, <1>3, RevokedKeys DEF Late
<1>7. now' \in 0..MaxTime /\ now <= now' /\ now' \in Nat /\ forgotten' \in BOOLEAN
    BY <1>3, TimesAreNat DEF IInv, TypeOK
<1>8. PairsStep /\ PairsGrow
    BY <1>3 DEF PairsStep, PairsGrow
<1>9. ended' \cup raced' \subseteq DOMAIN pairs'
    BY <1>2, <1>3 DEF IInv, TypeOK
<1>10. TypeOK' /\ Ordered' /\ CallsPresent' /\ KeysLast'
    BY <1>4, <1>5, <1>6, <1>7, <1>8, <1>9, TypesStay
<1>11. GuestsDeleteNothing' /\ DemoSessionsAreDemo'
    BY <1>4, <1>5, <1>7, <1>8, AccountsStay
<1>12. Ages
    BY <1>3, <1>6, <1>7 DEF Ages
<1>13. KnownStays /\ OverlapsAreNoticed'
    BY <1>4, <1>8, <1>12, KnownCarriesOver, OverlapsStay
<1>14. ExchangedIsSpent' /\ RefreshSpentOnce'
    BY <1>3, <1>13 DEF KnownStays, ExchangedIsSpent, RefreshSpentOnce
<1>15. SupersededIsSpent'
    <2> SUFFICES ASSUME NEW j \in DOMAIN pairs, Superseded(j)', ~Superseded(j)
                 PROVE  OldIsSpent(j)'
        BY <1>3, <1>13 DEF KnownStays, SupersededIsSpent
    <2>1. Newest(k) /\ pairs[j].login = pairs[k].login
        BY <1>3 DEF Superseded
    <2>2. j = k
        <3>1. j <= k /\ ~(j < k)
            BY <1>1, <2>1 DEF Newest, Superseded
        <3> QED BY <1>1, <1>2, <3>1
    <2>3. /\ Late(k) => Late(k)'
          /\ \A login : Forgiven(login) => Forgiven(login)'
        BY <1>1, <1>8, <1>12, Aged DEF IInv
    <2>4. Spent(k)'
        BY <1>6, <2>3 DEF Spent
    <2>5. \A d \in Clients :
              call'[d].op = "refresh" /\ call'[d].pair = k => Forgiven(pairs[k].login)'
        BY <1>1, <1>3, <1>4, <2>3, OthersAreNoticed, IdleIsACall
    <2> QED BY <1>3, <2>2, <2>4, <2>5 DEF OldIsSpent, Excused
<1> QED BY <1>10, <1>11, <1>13, <1>14, <1>15 DEF IInv

-----------------------------------------------------------------------------
(* The theorems. *)

LEMMA InitHolds == Init => IInv
<1> SUFFICES ASSUME Init
             PROVE  IInv
    OBVIOUS
<1>1. /\ pairs = <<>> /\ pairs \in Seq(Pair) /\ Len(pairs) = 0 /\ DOMAIN pairs = {}
    BY DEF Init
<1>2. call \in [Clients -> Call] /\ \A c \in Clients : call[c] = Idle
    BY IdleIsACall DEF Init
<1>3. TypeOK
    <2>1. denied \in [Token -> Nat] /\ \A t \in Token : ~IsRevoked(t)
        BY DEF Init, IsRevoked
    <2>2. \A c \in Clients : call[c].pair \in {0} \cup DOMAIN pairs
        BY <1>2, IdleIsACall
    <2>3. now \in 0..MaxTime /\ inserted \in 0..MaxUsers /\ users = {}
          /\ ended = {} /\ raced = {} /\ forgotten = FALSE
        BY TimesAreNat DEF Init
    <2> QED BY <1>1, <1>2, <2>1, <2>2, <2>3 DEF TypeOK
<1>4. Ordered /\ KeysLast
    BY <1>1, TimesAreNat DEF Init, Ordered, KeysLast, IsRevoked
<1>5. CallsPresent /\ OverlapsAreNoticed /\ GuestsDeleteNothing
    BY <1>2, IdleIsACall DEF CallsPresent, OverlapsAreNoticed, GuestsDeleteNothing, At
<1>6. ExchangedIsSpent /\ RefreshSpentOnce /\ SupersededIsSpent /\ DemoSessionsAreDemo
    BY <1>1 DEF ExchangedIsSpent, RefreshSpentOnce, SupersededIsSpent, DemoSessionsAreDemo
<1> QED BY <1>3, <1>4, <1>5, <1>6 DEF IInv

LEMMA StepHolds == IInv /\ [Next]_vars => IInv'
<1> SUFFICES ASSUME IInv, [Next]_vars
             PROVE  IInv'
    OBVIOUS
<1>1. ASSUME NEW c \in Clients, CallNext(c)
      PROVE  IInv'
    <2>1. CASE \E e \in Emails : Signup(c, e) \/ Login(c, e)
        BY <2>1, SignupStep, LoginStep
    <2>2. CASE DemoSession(c)
        BY <2>2, DemoSessionStep
    <2>3. CASE InsertUser(c)
        BY <2>3, InsertUserStep
    <2>4. CASE \E op \in {"refresh", "logout", "delete"}, k \in DOMAIN pairs : Present(c, op, k)
        BY <2>4, PresentStep
    <2>5. CASE LoadUser(c)
        BY <2>5, LoadUserStep
    <2>6. CASE Refresh(c)
        BY <2>6, RefreshStep
    <2>7. CASE LogoutAccess(c)
        BY <2>7, LogoutAccessStep
    <2>8. CASE LogoutRefresh(c)
        BY <2>8, LogoutRefreshStep
    <2>9. CASE DeleteAccount(c)
        BY <2>9, DeleteAccountStep
    <2>10. CASE CallFails(c)
        BY <2>10, CallFailsStep
    <2> QED BY <1>1, <2>1, <2>2, <2>3, <2>4, <2>5, <2>6, <2>7, <2>8, <2>9, <2>10 DEF CallNext
<1>2. CASE Tick
    BY <1>2, TickStep
<1>3. CASE RedisRestarts
    BY <1>3, RestartStep
<1>4. CASE UNCHANGED vars
    <2>1. CallsStep /\ CallsGoOn
        BY <1>4, SameCalls DEF vars
    <2>2. raced' = raced /\ raced \subseteq DOMAIN pairs
        BY <1>4 DEF vars, IInv, TypeOK
    <2>3. UNCHANGED <<now, users, inserted, pairs, denied, ended, forgotten>>
        BY <1>4 DEF vars
    <2> QED BY <2>1, <2>2, <2>3, OnlyCalls
<1> QED BY <1>1, <1>2, <1>3, <1>4 DEF Next

\* The inductive invariant holds in every state of every behaviour (routers/auth.py,
\* routers/demo.py, security/token_revocation.py).
THEOREM Inductive == Spec => []IInv
<1>1. Init => IInv
    BY InitHolds
<1>2. IInv /\ [Next]_vars => IInv'
    BY StepHolds
<1> QED BY <1>1, <1>2, PTL DEF Spec

\* The variables keep their types; ids and addresses stay unique, and no denylist key
\* outlives its token (revoke).
THEOREM TypesHold == Spec => []TypeOK
<1>1. IInv => TypeOK
    BY DEF IInv
<1> QED BY <1>1, Inductive, PTL

\* However many clients, however the requests overlap: a refresh token is exchanged once
\* but for the overlap, the last second and the restart that the code leaves open (refresh).
THEOREM RefreshIsSpent == Spec => []RefreshSpentOnce
<1>1. IInv => RefreshSpentOnce
    BY DEF IInv
<1> QED BY <1>1, Inductive, PTL

\* A session whose newest tokens were logged out cannot be carried on: every refresh token
\* of it is spent, the newest by the logout, the others when they were exchanged (logout).
THEOREM LogoutEnds == Spec => []LogoutEndsSession
<1>1. IInv => LogoutEndsSession
    BY DEF IInv, SupersededIsSpent, Superseded, OldIsSpent, Excused, Forgiven, Spent, Late,
           LogoutEndsSession, Accepted
<1> QED BY <1>1, Inductive, PTL

\* A demo session is the demo account's, whatever signs up and whatever a guest asks for
\* (start_demo_session, get_current_user).
THEOREM DemoIsDemo == Spec => []DemoSessionsAreDemo
<1>1. IInv => DemoSessionsAreDemo
    BY DEF IInv
<1> QED BY <1>1, Inductive, PTL

-----------------------------------------------------------------------------
(* The rate limiter. *)

\* The key is the only owner of its expiry; and while nothing fails, one request at most
\* is to set it, which it does to a key that has none, and no refusal has told a time
\* before that, unless it found no expiry.
OneExpiry ==
    /\ count = 0 => ttl = 0
    /\ faults = 0 =>
        /\ \A r, s \in Requests :
              step[r] = "expire" => /\ count > 0 /\ ttl = 0
                                    /\ step[s] = "expire" => r = s
        /\ ~bare /\ retry # {} => ttl > 0

\* The inductive invariant.
LimitInv == LimitTypeOK /\ OneExpiry /\ CounterWillExpire /\ RetryAfterIsNear

-----------------------------------------------------------------------------
(* Each action preserves the inductive invariant of the limiter. *)

\* Redis' rounding errs by half a second at most, and never beyond the window.
LEMMA RoundingIsNear ==
    ASSUME ttl \in 0..Window
    PROVE  /\ TimeToLive \in 0..Window
           /\ 2 * TimeToLive <= 2 * ttl + TicksPerSecond
           /\ 2 * ttl < 2 * TimeToLive + TicksPerSecond
<1> DEFINE t == TicksPerSecond
           x == 2 * ttl + t
           n == 2 * t
           q == x \div n
<1>1. t \in Nat \ {0} /\ Window \in Nat /\ ttl \in Nat /\ n \in Nat \ {0} /\ x \in Int
    BY LimitsArePositive
<1>2. PICK k \in 1..Window : Window = t * k
    BY LimitsArePositive
<1>3. q \in Int /\ q * n <= x /\ x < q * n + n
    <2> HIDE DEF x, n
    <2> QED BY <1>1, WholeMultiples
<1> HIDE DEF q
<1>4. q * n = 2 * (t * q) /\ t * q \in Int
    BY <1>1, <1>3
<1>5. 2 * (t * q) <= 2 * ttl + t /\ 2 * ttl < 2 * (t * q) + t
    BY <1>1, <1>3, <1>4
<1>6. q >= 0
    <2> SUFFICES ASSUME q <= -1 PROVE FALSE
        BY <1>3
    <2>1. t * q <= t * (-1)
        BY <1>1, <1>3
    <2> QED BY <1>1, <1>4, <1>5, <2>1
<1>7. q <= k
    <2> SUFFICES ASSUME q >= k + 1 PROVE FALSE
        BY <1>2, <1>3
    <2>1. t * q >= t * (k + 1) /\ t * (k + 1) = t * k + t
        BY <1>1, <1>2, <1>3
    <2> QED BY <1>1, <1>2, <1>4, <1>5, <2>1
<1>8. 0 <= t * q /\ t * q <= Window
    BY <1>1, <1>2, <1>3, <1>6, <1>7
<1> QED BY <1>1, <1>4, <1>5, <1>8 DEF TimeToLive, q

LEMMA InitGives == LimitInit => LimitInv
<1> SUFFICES ASSUME LimitInit PROVE LimitInv
    OBVIOUS
<1>1. LimitTypeOK
    <2>1. step \in [Requests -> Position]
        BY DEF LimitInit, Position
    <2>2. retry \subseteq 0..Window /\ bare \in BOOLEAN
        BY DEF LimitInit
    <2>3. recent \in [Recalled -> 0..Window]
        BY LimitsArePositive DEF LimitInit
    <2> QED BY <2>1, <2>2, <2>3, LimitsArePositive DEF LimitInit, LimitTypeOK
<1>2. OneExpiry /\ CounterWillExpire /\ RetryAfterIsNear
    BY DEF LimitInit, OneExpiry, CounterWillExpire, RetryAfterIsNear
<1> QED BY <1>1, <1>2 DEF LimitInv

\* Admissions are remembered, and grow older by a tick.
LEMMA ChargedKeepsType ==
    ASSUME LimitTypeOK, Charged PROVE recent' \in [Recalled -> 0..Window]
BY LimitsArePositive DEF Charged, LimitTypeOK, Recalled

LEMMA TickKeepsType ==
    ASSUME LimitTypeOK, WindowTick PROVE recent' \in [Recalled -> 0..Window]
BY LimitsArePositive DEF WindowTick, LimitTypeOK

LEMMA IncrKeeps == ASSUME LimitInv, NEW r \in Requests, Incr(r) PROVE LimitInv'
<1> USE LimitsArePositive DEF Incr, LimitInv
<1>1. LimitTypeOK'
    <2>1. CASE count + 1 > Limit
        BY <2>1 DEF LimitTypeOK, Position
    <2>2. CASE ~(count + 1 > Limit)
        <3>1. recent' \in [Recalled -> 0..Window]
            BY <2>2, ChargedKeepsType
        <3> QED BY <2>2, <3>1 DEF LimitTypeOK, Position
    <2> QED BY <2>1, <2>2
<1>2. OneExpiry'
    BY DEF LimitTypeOK, OneExpiry, Position
<1>3. CounterWillExpire'
    <2>1. CASE count = 0
        BY <2>1 DEF LimitTypeOK, CounterWillExpire, Position
    <2>2. CASE count > 0
        BY <2>2 DEF LimitTypeOK, CounterWillExpire, Position
    <2> QED BY <2>1, <2>2 DEF LimitTypeOK
<1>4. RetryAfterIsNear'
    BY DEF LimitTypeOK, RetryAfterIsNear
<1> QED BY <1>1, <1>2, <1>3, <1>4

LEMMA ExpireKeeps == ASSUME LimitInv, NEW r \in Requests, Expire(r) PROVE LimitInv'
<1> USE LimitsArePositive DEF Expire, LimitInv
<1>1. LimitTypeOK'
    BY DEF LimitTypeOK, Position
<1>2. OneExpiry'
    BY DEF LimitTypeOK, OneExpiry, Position
<1>3. CounterWillExpire'
    BY DEF LimitTypeOK, CounterWillExpire, Position
<1>4. RetryAfterIsNear'
    BY DEF LimitTypeOK, OneExpiry, RetryAfterIsNear
<1> QED BY <1>1, <1>2, <1>3, <1>4

LEMMA RefuseKeeps == ASSUME LimitInv, NEW r \in Requests, Refuse(r) PROVE LimitInv'
<1> USE LimitsArePositive DEF Refuse, LimitInv
<1>1. LimitTypeOK'
    <2>1. retry' \subseteq 0..Window
        BY RoundingIsNear DEF LimitTypeOK
    <2>2. step' \in [Requests -> Position]
        BY DEF LimitTypeOK, Position
    <2>3. bare' \in BOOLEAN
        OBVIOUS
    <2> QED BY <2>1, <2>2, <2>3 DEF LimitTypeOK
<1>2. OneExpiry'
    <2>1. ASSUME faults = 0, ~bare', retry' # {} PROVE ttl' > 0
        <3>1. ~bare /\ count # 0 /\ ttl # 0
            BY <2>1
        <3> QED BY <3>1 DEF LimitTypeOK
    <2>2. \A q \in Requests : step'[q] = "expire" => step[q] = "expire"
        BY DEF LimitTypeOK, Position
    <2> QED BY <2>1, <2>2 DEF OneExpiry
<1>3. CounterWillExpire'
    BY DEF LimitTypeOK, CounterWillExpire, Position
<1>4. RetryAfterIsNear'
    <2> SUFFICES ASSUME faults = 0, ~bare', NEW n \in retry'
                 PROVE  /\ 2 * ttl < 2 * n + TicksPerSecond
                        /\ 2 * n <= 2 * ttl + TicksPerSecond \/ 2 * ttl < TicksPerSecond
        BY DEF RetryAfterIsNear
    <2>1. n = IF TimeToLive > 0 THEN TimeToLive ELSE Window
        OBVIOUS
    <2> QED BY <2>1, RoundingIsNear DEF LimitTypeOK
<1> QED BY <1>1, <1>2, <1>3, <1>4

LEMMA TickKeeps == ASSUME LimitInv, WindowTick PROVE LimitInv'
<1> USE LimitsArePositive DEF WindowTick, LimitInv
<1>1. LimitTypeOK'
    <2>1. recent' \in [Recalled -> 0..Window]
        BY TickKeepsType
    <2>2. retry' \subseteq 0..Window
        <3>1. retry' \subseteq {IF n > 0 THEN n - 1 ELSE 0 : n \in retry}
            OBVIOUS
        <3>2. ASSUME NEW n \in retry PROVE (IF n > 0 THEN n - 1 ELSE 0) \in 0..Window
            BY DEF LimitTypeOK
        <3> QED BY <3>1, <3>2, Zenon
    <2> QED BY <2>1, <2>2 DEF LimitTypeOK
<1>2. OneExpiry'
    BY DEF LimitTypeOK, OneExpiry
<1>3. CounterWillExpire'
    BY DEF LimitTypeOK, CounterWillExpire
<1>4. RetryAfterIsNear'
    BY DEF LimitTypeOK, RetryAfterIsNear
<1> QED BY <1>1, <1>2, <1>3, <1>4

LEMMA FaultsKeep ==
    ASSUME LimitInv, BucketIsLost \/ \E r \in Requests : RequestFails(r)
    PROVE  LimitInv'
<1> USE LimitsArePositive DEF LimitInv, Fault
<1>1. CASE BucketIsLost
    BY <1>1 DEF BucketIsLost, LimitTypeOK, OneExpiry, CounterWillExpire, RetryAfterIsNear
<1>2. ASSUME NEW r \in Requests, RequestFails(r) PROVE LimitInv'
    <2>1. recent' \in [Recalled -> 0..Window]
        BY <1>2, ChargedKeepsType DEF RequestFails, LimitTypeOK
    <2>2. LimitTypeOK'
        BY <1>2, <2>1 DEF RequestFails, LimitTypeOK, Position
    <2> QED BY <1>2, <2>2 DEF RequestFails, LimitTypeOK, OneExpiry, CounterWillExpire,
                             RetryAfterIsNear
<1> QED BY <1>1, <1>2

LEMMA StepKeeps == LimitInv /\ [LimitNext]_limitVars => LimitInv'
<1> SUFFICES ASSUME LimitInv, [LimitNext]_limitVars PROVE LimitInv'
    OBVIOUS
<1>1. CASE UNCHANGED limitVars
    BY <1>1 DEF limitVars, LimitInv, LimitTypeOK, OneExpiry, CounterWillExpire, RetryAfterIsNear
<1>2. CASE LimitNext
    BY <1>2, IncrKeeps, ExpireKeeps, RefuseKeeps, TickKeeps, FaultsKeep DEF LimitNext
<1> QED BY <1>1, <1>2

THEOREM LimitInductive == LimitSpec => []LimitInv
BY InitGives, StepKeeps, PTL DEF LimitSpec

-----------------------------------------------------------------------------
(* What follows for the limiter. *)

\* The counter, its expiry and the requests of _consume have their types in every state.
THEOREM LimitTypeCorrect == LimitSpec => []LimitTypeOK
BY LimitInductive, PTL DEF LimitInv

\* However the commands of concurrent requests interleave, a counter without expiry has a
\* request under way that will set one, unless a command failed or a process died.
THEOREM CountersExpire == LimitSpec => []CounterWillExpire
BY LimitInductive, PTL DEF LimitInv

\* While nothing fails, what a client refused by a key with an expiry was told stays right to
\* within half a second until the key is gone, but for the whole window that is told in the
\* last half second: the rounding of TTL does no worse, whatever the window and however
\* finely time is told apart, and no later EXPIRE lengthens the window behind its back.
THEOREM RetryAfterErrsLittle == LimitSpec => []RetryAfterIsNear
BY LimitInductive, PTL DEF LimitInv

-----------------------------------------------------------------------------
(* Twice the limit. *)

\* Admissions that the counter of the key in force has counted.
Own == IF count < Limit THEN count ELSE Limit

\* While nothing fails: at most Limit admissions of earlier keys are recent; and they are
\* older than the expiry of the key in force, so that the window forgets them before the
\* key goes and they would meet those of the next one.
OlderKeys ==
    faults = 0 =>
        /\ \A i \in Recalled : i > Limit + Own => recent[i] = Window
        /\ ttl > 0 => \A i \in Recalled : i > Own => recent[i] + ttl >= Window

LEMMA InitOlderKeys == LimitInit => OlderKeys
BY LimitsArePositive DEF LimitInit, OlderKeys

LEMMA IncrKeepsOlder ==
    ASSUME LimitInv, OlderKeys, NEW r \in Requests, Incr(r) PROVE OlderKeys'
<1> USE LimitsArePositive DEF Incr, LimitInv, LimitTypeOK, Recalled
<1>1. CASE count + 1 > Limit
    <2>1. Own' = Own /\ UNCHANGED <<recent, ttl, faults>>
        BY <1>1 DEF Own
    <2> QED BY <2>1 DEF OlderKeys
<1>2. CASE count + 1 <= Limit
    <2>1. Own' = Own + 1 /\ Own \in Nat
        BY <1>2 DEF Own
    <2>2. Charged /\ UNCHANGED <<ttl, faults>>
        BY <1>2
    <2>3. ASSUME faults = 0, NEW i \in Recalled, i > Limit + Own' PROVE recent'[i] = Window
        <3>1. i # 1 /\ i - 1 \in Recalled /\ i - 1 > Limit + Own
            BY <2>1, <2>3
        <3> QED BY <2>2, <2>3, <3>1 DEF Charged, OlderKeys
    <2>4. ASSUME faults = 0, ttl > 0, NEW i \in Recalled, i > Own'
          PROVE  recent'[i] + ttl >= Window
        <3>1. i # 1 /\ i - 1 \in Recalled /\ i - 1 > Own
            BY <2>1, <2>4
        <3> QED BY <2>2, <2>4, <3>1 DEF Charged, OlderKeys
    <2> QED BY <2>2, <2>3, <2>4 DEF OlderKeys
<1> QED BY <1>1, <1>2

LEMMA TickKeepsOlder ==
    ASSUME LimitInv, OlderKeys, WindowTick PROVE OlderKeys'
<1> USE LimitsArePositive DEF WindowTick, LimitInv, LimitTypeOK
<1>1. CASE ttl = 1
    <2>1. Own' = 0 /\ ttl' = 0
        BY <1>1 DEF Own
    <2>2. ASSUME faults = 0, NEW i \in Recalled, i > Limit PROVE recent'[i] = Window
        <3>1. i > Own
            BY <2>2 DEF Own, Recalled
        <3>2. recent[i] + 1 >= Window
            BY <1>1, <2>2, <3>1 DEF OlderKeys
        <3> QED BY <3>2
    <2> QED BY <2>1, <2>2 DEF OlderKeys, Recalled
<1>2. CASE ttl # 1
    <2>1. Own' = Own /\ UNCHANGED faults
        BY <1>2 DEF Own
    <2>2. ASSUME NEW i \in Recalled, recent[i] = Window PROVE recent'[i] = Window
        BY <2>2
    <2>3. ASSUME ttl' > 0, NEW i \in Recalled, recent[i] + ttl >= Window
          PROVE  recent'[i] + ttl' >= Window
        BY <2>3
    <2>4. ttl' > 0 => ttl > 0
        OBVIOUS
    <2> QED BY <2>1, <2>2, <2>3, <2>4 DEF OlderKeys
<1> QED BY <1>1, <1>2

LEMMA StepKeepsOlder == LimitInv /\ OlderKeys /\ [LimitNext]_limitVars => OlderKeys'
<1> SUFFICES ASSUME LimitInv, OlderKeys, [LimitNext]_limitVars PROVE OlderKeys'
    OBVIOUS
<1> USE LimitsArePositive
<1>1. ASSUME NEW r \in Requests, Expire(r) PROVE OlderKeys'
    <2>1. CASE count = 0
        BY <1>1, <2>1 DEF Expire, OlderKeys, Own
    <2>2. CASE count # 0
        <3>1. Own' = Own /\ ttl' = Window /\ UNCHANGED <<recent, faults>>
            BY <1>1, <2>2 DEF Expire, Own
        <3> QED BY <3>1 DEF OlderKeys, LimitInv, LimitTypeOK
    <2> QED BY <2>1, <2>2
<1>2. ASSUME NEW r \in Requests, Refuse(r) PROVE OlderKeys'
    BY <1>2 DEF Refuse, OlderKeys, Own
<1>3. ASSUME Fault PROVE OlderKeys'
    BY <1>3 DEF Fault, OlderKeys, LimitInv, LimitTypeOK
<1>4. CASE UNCHANGED limitVars
    BY <1>4 DEF limitVars, OlderKeys, Own
<1> QED BY <1>1, <1>2, <1>3, <1>4, IncrKeepsOlder, TickKeepsOlder
        DEF LimitNext, RequestFails, BucketIsLost

\* However the commands of concurrent requests interleave, and however long the first of
\* them waits between INCR and EXPIRE, the limiter admits at most twice the limit in any
\* stretch of a window's length, as its module comment says, while nothing fails.
THEOREM TwiceTheLimit == LimitSpec => []AtMostTwiceTheLimit
<1>1. LimitInv /\ OlderKeys => AtMostTwiceTheLimit
    BY LimitsArePositive DEF LimitInv, LimitTypeOK, OlderKeys, Own, Recalled, AtMostTwiceTheLimit
<1> QED BY <1>1, InitOlderKeys, StepKeepsOlder, LimitInductive, PTL DEF LimitSpec
=============================================================================
