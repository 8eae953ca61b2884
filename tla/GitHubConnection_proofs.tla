------------------------ MODULE GitHubConnection_proofs ------------------------
(***************************************************************************)
(* Proofs about GitHubConnection, for any number of requests, accounts and *)
(* repositories and any bounds.                                            *)
(***************************************************************************)
EXTENDS GitHubConnection, FiniteSetTheorems, TLAPS

\* What TypeOK says of the number of connections.
OneConnection == connection = {} \/ \E c \in Connection : connection = {c}

\* TypeOK, with that in place of the cardinality.
Types ==
    /\ {raced, switched} \subseteq BOOLEAN
    /\ OneConnection
    /\ rows \subseteq Row
    /\ \A x, y \in rows : x.repo = y.repo => x = y
    /\ call \in [Requests -> Call]
    /\ callbacks \in 0..MaxCallbacks
    /\ stores \in 0..MaxStores

\* A key is never given out again: rows, and rows that a PATCH has loaded, come from
\* refreshes that have been.
KeysAreSpent ==
    /\ \A row \in rows : row.store <= stores
    /\ \A r \in Requests : call[r].op = "patch" => call[r].row[2] <= stores

\* A refresh and a disconnection about to commit overlap only if that was noticed.
OverlapsAreNoticed ==
    raced \/ \A r, s \in Requests : ~(call[r].op = "refresh" /\ At(s, "disconnect", "commit"))

\* What a disconnection is about to delete are all rows there are.
DeletesAll ==
    raced \/ \A r \in Requests : At(r, "disconnect", "commit") =>
                 \A row \in rows : Key(row) \in call[r].deleted

\* A refresh works for the account that is connected.
RefreshIsConnected ==
    raced \/ switched \/ \A r \in Requests : call[r].op = "refresh" =>
                             \E c \in connection : c.account = call[r].account

\* The value a PATCH has loaded is still there, and no other PATCH of the row is under way,
\* unless the row is contested.
PatchIsAlone ==
    \A r \in Requests, row \in rows :
        call[r].op = "patch" /\ call[r].row = Key(row) /\ ~row.contested =>
            /\ row.selected = call[r].loaded
            /\ \A s \in Requests : call[s].op = "patch" /\ call[s].row = Key(row) => s = r

\* The inductive invariant.
IInv ==
    /\ Types
    /\ KeysAreSpent
    /\ OverlapsAreNoticed /\ DeletesAll
    /\ RefreshIsConnected /\ RepositoriesComeFromConnection
    /\ PatchIsAlone /\ SelectionIsKept

-----------------------------------------------------------------------------
(* Records of the call table. *)

CallbackCall == [op: {"callback"}, next: {"lookup", "store"}, id: 1..MaxCallbacks,
                 account: Accounts, found: 0..MaxCallbacks]
RefreshCall == [op: {"refresh"}, next: {"list", "store"}, account: Accounts, loaded: SUBSET Row]
DisconnectCall == [op: {"disconnect"}, next: {"delete", "commit"}, found: 1..MaxCallbacks,
                   deleted: SUBSET (Repos \X (1..MaxStores))]
PatchCall == [op: {"patch"}, next: {"commit"}, row: Repos \X (1..MaxStores),
              loaded: BOOLEAN, body: BOOLEAN]

LEMMA CallIs ==
    ASSUME NEW k \in Call
    PROVE  /\ k.op = "callback" => k \in CallbackCall
           /\ k.op = "refresh" => k \in RefreshCall
           /\ k.op = "disconnect" => k \in DisconnectCall
           /\ k.op = "patch" => k \in PatchCall
           /\ k.op \in {"callback", "refresh", "disconnect", "patch"} => k # Idle
BY DEF Call, Idle, CallbackCall, RefreshCall, DisconnectCall, PatchCall

LEMMA CallsAre ==
    /\ CallbackCall \subseteq Call
    /\ RefreshCall \subseteq Call
    /\ DisconnectCall \subseteq Call
    /\ PatchCall \subseteq Call
    /\ Idle \in Call
    /\ Idle.op = "none"
BY DEF Call, Idle, CallbackCall, RefreshCall, DisconnectCall, PatchCall

\* Only the entry of one request changes.
Only(r, k) ==
    /\ call' \in [Requests -> Call]
    /\ call'[r] = k
    /\ \A s \in Requests \ {r} : call'[s] = call[s]

LEMMA OnlyOne ==
    ASSUME Types, NEW r \in Requests, NEW k \in Call, call' = [call EXCEPT ![r] = k]
    PROVE  Only(r, k)
BY DEF Types, Only

LEMMA AnswersOnly ==
    ASSUME Types, NEW r \in Requests, Answers(r)
    PROVE  Only(r, Idle)
BY OnlyOne, CallsAre DEF Answers

-----------------------------------------------------------------------------
(* Steps that change nothing but the requests: what the new entry must know. *)

\* A PATCH knows the row as it is and is alone with it; a refresh has its connection.
Knows(r, k) ==
    /\ k.op = "patch" =>
         /\ k.row[2] <= stores
         /\ \A row \in rows : k.row = Key(row) /\ ~row.contested =>
               /\ row.selected = k.loaded
               /\ \A s \in Requests \ {r} : call[s].op = "patch" => call[s].row # Key(row)
    /\ k.op = "refresh" => raced \/ switched \/ \E c \in connection : c.account = k.account

\* A refresh overlaps no disconnection that is to commit, and that one deletes all rows.
MeetsNobody(r, k) ==
    /\ k.op = "refresh" => \A s \in Requests : ~At(s, "disconnect", "commit")
    /\ k.op = "disconnect" /\ k.next = "commit" =>
         /\ \A s \in Requests \ {r} : call[s].op # "refresh"
         /\ \A row \in rows : Key(row) \in k.deleted

LEMMA OnlyCallsKeep ==
    ASSUME IInv, NEW r \in Requests, NEW k \in Call, Only(r, k), Knows(r, k),
           UNCHANGED <<connection, rows, stores, switched>>,
           callbacks' \in 0..MaxCallbacks, raced' \in BOOLEAN, raced => raced',
           raced' \/ MeetsNobody(r, k)
    PROVE  IInv'
<1> USE DEF IInv
<1>1. Types'
    BY DEF Types, OneConnection, Only
<1>2. KeysAreSpent'
    BY DEF KeysAreSpent, Knows, Only
<1>3. OverlapsAreNoticed'
    BY DEF OverlapsAreNoticed, MeetsNobody, Only, At
<1>4. DeletesAll'
    BY DEF DeletesAll, MeetsNobody, Only, At, Key
<1>5. RefreshIsConnected'
    BY DEF RefreshIsConnected, Knows, Only
<1>6. RepositoriesComeFromConnection'
    BY DEF RepositoriesComeFromConnection
<1>7. PatchIsAlone'
    <2>1. ASSUME NEW q \in Requests, NEW row \in rows,
                 call'[q].op = "patch", call'[q].row = Key(row), ~row.contested
          PROVE  /\ row.selected = call'[q].loaded
                 /\ \A s \in Requests : call'[s].op = "patch" /\ call'[s].row = Key(row) => s = q
        <3>1. CASE q = r
            BY <2>1, <3>1 DEF Knows, Only
        <3>2. CASE q # r /\ k.op = "patch" /\ k.row = Key(row)
            BY <2>1, <3>2 DEF Knows, Only
        <3>3. CASE q # r /\ ~(k.op = "patch" /\ k.row = Key(row))
            BY <2>1, <3>3 DEF PatchIsAlone, Only
        <3> QED BY <3>1, <3>2, <3>3
    <2> QED BY <2>1 DEF PatchIsAlone, Key
<1>8. SelectionIsKept'
    BY DEF SelectionIsKept
<1> QED BY <1>1, <1>2, <1>3, <1>4, <1>5, <1>6, <1>7, <1>8

\* An entry of none of these kinds knows nothing.
LEMMA OthersKnowNothing ==
    ASSUME NEW r, NEW k, k.op \notin {"patch", "refresh"}
    PROVE  /\ Knows(r, k)
           /\ ~(k.op = "disconnect" /\ k.next = "commit") => MeetsNobody(r, k)
BY DEF Knows, MeetsNobody

LEMMA AnswerKeeps ==
    ASSUME IInv, NEW r \in Requests, Answers(r),
           UNCHANGED <<connection, rows, callbacks, stores, raced, switched>>
    PROVE  IInv'
<1>1. Only(r, Idle)
    BY AnswersOnly DEF IInv
<1>2. callbacks' \in 0..MaxCallbacks /\ raced' \in BOOLEAN
    BY DEF IInv, Types
<1>3. Knows(r, Idle) /\ MeetsNobody(r, Idle)
    BY CallsAre, OthersKnowNothing
<1> QED BY <1>1, <1>2, <1>3, CallsAre, OnlyCallsKeep

LEMMA CallbackKeeps ==
    ASSUME IInv, NEW r \in Requests,
           (\E a \in Accounts : CallbackEnter(r, a)) \/ CallbackLookup(r)
    PROVE  IInv'
<1>1. ASSUME NEW k \in CallbackCall, Only(r, k), callbacks' \in 0..MaxCallbacks,
             UNCHANGED <<connection, rows, stores, raced, switched>>
      PROVE  IInv'
    <2>1. k.op = "callback" /\ k \in Call
        BY CallsAre DEF CallbackCall
    <2>2. raced' \in BOOLEAN
        BY <1>1 DEF IInv, Types
    <2> QED BY <1>1, <2>1, <2>2, OthersKnowNothing, OnlyCallsKeep
<1>2. ASSUME NEW a \in Accounts, CallbackEnter(r, a) PROVE IInv'
    <2> DEFINE k == [op |-> "callback", next |-> "lookup", id |-> callbacks', account |-> a,
                     found |-> 0]
    <2>1. callbacks' \in 0..MaxCallbacks /\ callbacks' \in 1..MaxCallbacks
        BY <1>2, BoundsAreNat DEF CallbackEnter, IInv, Types
    <2>2. k \in CallbackCall /\ k \in Call
        BY <2>1, CallsAre, BoundsAreNat DEF CallbackCall
    <2>3. call' = [call EXCEPT ![r] = k]
        BY <1>2 DEF CallbackEnter
    <2> HIDE DEF k
    <2>4. Only(r, k)
        BY <2>2, <2>3, OnlyOne DEF IInv
    <2> QED BY <1>1, <1>2, <2>1, <2>2, <2>4 DEF CallbackEnter
<1>3. CASE CallbackLookup(r)
    <2>1. call[r] \in CallbackCall
        BY <1>3, CallIs DEF CallbackLookup, At, IInv, Types
    <2>2. PICK n \in 0..MaxCallbacks :
              \/ call' = [call EXCEPT ![r].next = "store", ![r].found = n]
              \/ call' = [call EXCEPT ![r].next = "store"]
        <3>1. \A c \in connection : c.id \in 0..MaxCallbacks
            BY BoundsAreNat DEF IInv, Types, OneConnection, Connection
        <3> QED BY <1>3, <3>1, BoundsAreNat DEF CallbackLookup
    <2>3. call'[r] \in CallbackCall
        BY <2>1, <2>2 DEF CallbackCall, IInv, Types
    <2>4. Only(r, call'[r])
        BY <2>2, <2>3, CallsAre DEF Only, IInv, Types
    <2>5. callbacks' \in 0..MaxCallbacks /\ UNCHANGED <<connection, rows, stores, raced, switched>>
        BY <1>3 DEF CallbackLookup, IInv, Types
    <2> QED BY <1>1, <2>3, <2>4, <2>5
<1> QED BY <1>2, <1>3

LEMMA RefreshKeeps ==
    ASSUME IInv, NEW r \in Requests, RefreshEnter(r) \/ RefreshLoad(r)
    PROVE  IInv'
<1>1. CASE RefreshEnter(r)
    <2>1. PICK c \in connection :
              call' = [call EXCEPT ![r] = [op |-> "refresh", next |-> "list",
                                           account |-> c.account, loaded |-> {}]]
        BY <1>1 DEF RefreshEnter
    <2> DEFINE k == [op |-> "refresh", next |-> "list", account |-> c.account, loaded |-> {}]
    <2>2. c.account \in Accounts
        BY DEF IInv, Types, OneConnection, Connection
    <2>3. k \in RefreshCall /\ k \in Call
        BY <2>2, CallsAre DEF RefreshCall
    <2>4. k.op = "refresh" /\ k.account = c.account /\ call' = [call EXCEPT ![r] = k]
        BY <2>1
    <2> HIDE DEF k
    <2>5. Only(r, k)
        BY <2>3, <2>4, OnlyOne DEF IInv
    <2>6. Knows(r, k)
        BY <2>4 DEF Knows
    <2>7. raced' \/ MeetsNobody(r, k)
        BY <1>1, <2>4 DEF RefreshEnter, MeetsNobody
    <2>8. raced' \in BOOLEAN /\ (raced => raced') /\ callbacks' \in 0..MaxCallbacks
        BY <1>1 DEF RefreshEnter, IInv, Types
    <2> QED BY <1>1, <2>3, <2>5, <2>6, <2>7, <2>8, OnlyCallsKeep DEF RefreshEnter
<1>2. CASE RefreshLoad(r)
    <2> DEFINE k == call'[r]
    <2>1. call[r] \in RefreshCall
        BY <1>2, CallIs DEF RefreshLoad, At, IInv, Types
    <2>2. k \in RefreshCall /\ k.op = "refresh" /\ k.account = call[r].account
        BY <1>2, <2>1 DEF RefreshLoad, RefreshCall, IInv, Types
    <2>3. Only(r, k) /\ k \in Call
        BY <1>2, <2>2, CallsAre DEF RefreshLoad, Only, IInv, Types
    <2> HIDE DEF k
    <2>4. Knows(r, k)
        BY <1>2, <2>2 DEF Knows, RefreshLoad, At, RefreshIsConnected, IInv
    <2>5. raced \/ MeetsNobody(r, k)
        BY <1>2, <2>2 DEF MeetsNobody, RefreshLoad, At, OverlapsAreNoticed, IInv
    <2>6. raced' \in BOOLEAN /\ raced' = raced /\ callbacks' \in 0..MaxCallbacks
        BY <1>2 DEF RefreshLoad, IInv, Types
    <2> QED BY <1>2, <2>3, <2>4, <2>5, <2>6, OnlyCallsKeep DEF RefreshLoad
<1> QED BY <1>1, <1>2

LEMMA DisconnectKeeps ==
    ASSUME IInv, NEW r \in Requests, DisconnectRead(r) \/ DisconnectDelete(r)
    PROVE  IInv'
<1>1. CASE DisconnectRead(r)
    <2>1. PICK c \in connection :
              call' = [call EXCEPT ![r] = [op |-> "disconnect", next |-> "delete",
                                           found |-> c.id, deleted |-> {}]]
        BY <1>1 DEF DisconnectRead
    <2> DEFINE k == [op |-> "disconnect", next |-> "delete", found |-> c.id, deleted |-> {}]
    <2>2. c.id \in 1..MaxCallbacks
        BY DEF IInv, Types, OneConnection, Connection
    <2>3. k \in DisconnectCall /\ k \in Call
        BY <2>2, CallsAre DEF DisconnectCall
    <2>4. k.op = "disconnect" /\ k.next = "delete" /\ call' = [call EXCEPT ![r] = k]
        BY <2>1
    <2> HIDE DEF k
    <2>5. Only(r, k)
        BY <2>3, <2>4, OnlyOne DEF IInv
    <2>6. Knows(r, k) /\ MeetsNobody(r, k)
        BY <2>4, OthersKnowNothing
    <2>7. raced' \in BOOLEAN /\ callbacks' \in 0..MaxCallbacks
        BY <1>1 DEF DisconnectRead, IInv, Types
    <2> QED BY <1>1, <2>3, <2>5, <2>6, <2>7, OnlyCallsKeep DEF DisconnectRead
<1>2. CASE DisconnectDelete(r)
    <2> DEFINE k == call'[r]
    <2>1. call[r] \in DisconnectCall
        BY <1>2, CallIs DEF DisconnectDelete, At, IInv, Types
    <2>2. {Key(row) : row \in rows} \subseteq Repos \X (1..MaxStores)
        BY DEF Key, Row, IInv, Types
    <2>3. /\ k \in DisconnectCall /\ k.op = "disconnect"
          /\ k.deleted = {Key(row) : row \in rows}
        BY <1>2, <2>1, <2>2 DEF DisconnectDelete, DisconnectCall, IInv, Types
    <2>4. Only(r, k) /\ k \in Call
        BY <1>2, <2>3, CallsAre DEF DisconnectDelete, Only, IInv, Types
    <2> HIDE DEF k
    <2>5. Knows(r, k)
        BY <2>3, OthersKnowNothing
    <2>6. raced' \/ MeetsNobody(r, k)
        BY <1>2, <2>3 DEF DisconnectDelete, MeetsNobody
    <2>7. raced' \in BOOLEAN /\ (raced => raced') /\ callbacks' \in 0..MaxCallbacks
        BY <1>2 DEF DisconnectDelete, IInv, Types
    <2> QED BY <1>2, <2>4, <2>5, <2>6, <2>7, OnlyCallsKeep DEF DisconnectDelete
<1> QED BY <1>1, <1>2
-----------------------------------------------------------------------------
(* Steps that write rows of the tables. *)

LEMMA CallbackStoreKeeps ==
    ASSUME IInv, NEW r \in Requests, CallbackStore(r)
    PROVE  IInv'
<1>1. Only(r, Idle) /\ Idle.op = "none"
    BY AnswersOnly, CallsAre DEF CallbackStore, IInv
<1>2. call[r] \in CallbackCall
    BY CallIs DEF CallbackStore, At, IInv, Types
<1>3. UNCHANGED <<rows, callbacks, stores, raced>>
    BY DEF CallbackStore
<1>4. /\ OneConnection' /\ switched' \in BOOLEAN /\ (switched => switched')
      /\ \/ switched' \/ connection = {}
         \/ \A c \in connection : \E d \in connection' : d.account = c.account
    <2>1. CASE \E c \in connection :
                 /\ c.id = call[r].found
                 /\ connection' = {[c EXCEPT !.account = call[r].account]}
                 /\ switched' = (switched \/ c.account # call[r].account)
        <3>1. PICK c \in connection :
                  /\ connection' = {[c EXCEPT !.account = call[r].account]}
                  /\ switched' = (switched \/ c.account # call[r].account)
            BY <2>1
        <3>2. connection = {c} /\ c \in Connection
            BY DEF IInv, Types, OneConnection
        <3>3. [c EXCEPT !.account = call[r].account] \in Connection
            BY <1>2, <3>2 DEF Connection, CallbackCall
        <3>4. [c EXCEPT !.account = call[r].account].account = call[r].account
            BY <3>2 DEF Connection
        <3>5. switched \in BOOLEAN
            BY DEF IInv, Types
        <3> QED BY <3>1, <3>2, <3>3, <3>4, <3>5 DEF OneConnection
    <2>2. CASE /\ connection = {}
               /\ connection' = {[id |-> call[r].id, account |-> call[r].account]}
               /\ UNCHANGED switched
        <3>1. [id |-> call[r].id, account |-> call[r].account] \in Connection
            BY <1>2 DEF Connection, CallbackCall
        <3> QED BY <2>2, <3>1 DEF OneConnection, IInv, Types
    <2> QED BY <2>1, <2>2 DEF CallbackStore
<1>5. Types'
    BY <1>1, <1>3, <1>4 DEF IInv, Types, Only
<1>6. KeysAreSpent'
    BY <1>1, <1>3 DEF IInv, KeysAreSpent, Only
<1>7. OverlapsAreNoticed' /\ DeletesAll'
    BY <1>1, <1>3 DEF IInv, OverlapsAreNoticed, DeletesAll, Only, At, Key
<1>8. RefreshIsConnected' /\ RepositoriesComeFromConnection'
    <2>1. CASE raced \/ switched'
        BY <1>3, <2>1 DEF RefreshIsConnected, RepositoriesComeFromConnection
    <2>2. CASE ~raced /\ ~switched'
        <3>1. RefreshIsConnected'
            BY <1>1, <1>3, <1>4, <2>2 DEF IInv, RefreshIsConnected, Only
        <3>2. RepositoriesComeFromConnection'
            BY <1>3, <1>4, <2>2 DEF IInv, RepositoriesComeFromConnection
        <3> QED BY <3>1, <3>2
    <2> QED BY <2>1, <2>2
<1>9. PatchIsAlone' /\ SelectionIsKept'
    BY <1>1, <1>3 DEF IInv, PatchIsAlone, SelectionIsKept, Only, Key
<1> QED BY <1>5, <1>6, <1>7, <1>8, <1>9 DEF IInv

LEMMA RefreshStoreKeeps ==
    ASSUME IInv, NEW r \in Requests, RefreshStore(r)
    PROVE  IInv'
<1>1. CASE UNCHANGED <<rows, stores>>
    BY <1>1, AnswerKeeps DEF RefreshStore
<1>2. CASE stores < MaxStores /\ stores' = stores + 1 /\ rows' = rows \cup Inserted(r)
    <2>1. Only(r, Idle) /\ Idle.op = "none"
        BY AnswersOnly, CallsAre DEF RefreshStore, IInv
    <2>2. call[r] \in RefreshCall /\ call[r].op = "refresh"
        BY CallIs DEF RefreshStore, At, IInv, Types
    <2>3. UNCHANGED <<connection, callbacks, raced, switched>>
        BY DEF RefreshStore
    <2>4. stores \in Nat /\ stores + 1 \in 1..MaxStores /\ stores' \in 0..MaxStores
        BY <1>2, BoundsAreNat DEF IInv, Types
    <2>5. \A row \in Inserted(r) :
              /\ row \in Row /\ row.repo \in New(r) /\ row.store = stores + 1
              /\ row.selected = row.chosen /\ row.by = call[r].account
        <3>1. New(r) \subseteq Repos /\ call[r].account \in Accounts
            BY <2>2, AccountsOwnRepos DEF New, RefreshCall
        <3>2. ASSUME NEW row \in Inserted(r)
              PROVE  \E p \in New(r) :
                         row = [repo |-> p, store |-> stores + 1, selected |-> FALSE,
                                by |-> call[r].account, chosen |-> FALSE, contested |-> FALSE]
            BY <3>2 DEF Inserted
        <3>3. ASSUME NEW p \in New(r), NEW n \in 1..MaxStores, NEW a \in Accounts
              PROVE  [repo |-> p, store |-> n, selected |-> FALSE,
                      by |-> a, chosen |-> FALSE, contested |-> FALSE] \in Row
            BY <3>1, <3>3 DEF Row
        <3>4. ASSUME NEW row \in Inserted(r)
              PROVE  /\ row \in Row /\ row.repo \in New(r) /\ row.store = stores + 1
                     /\ row.selected = row.chosen /\ row.by = call[r].account
            <4>1. PICK p \in New(r) :
                      row = [repo |-> p, store |-> stores + 1, selected |-> FALSE,
                             by |-> call[r].account, chosen |-> FALSE, contested |-> FALSE]
                BY <3>2, <3>4
            <4>2. row \in Row
                BY <2>4, <3>1, <3>3, <4>1
            <4> QED BY <4>1, <4>2
        <3> QED BY <3>4
    <2>6. \A x, y \in Inserted(r) : x.repo = y.repo => x = y
        <3>1. ASSUME NEW x \in Inserted(r), NEW y \in Inserted(r), x.repo = y.repo
              PROVE  x = y
            <4>1. PICK p \in New(r) :
                      x = [repo |-> p, store |-> stores + 1, selected |-> FALSE,
                           by |-> call[r].account, chosen |-> FALSE, contested |-> FALSE]
                BY <3>1 DEF Inserted
            <4>2. PICK q \in New(r) :
                      y = [repo |-> q, store |-> stores + 1, selected |-> FALSE,
                           by |-> call[r].account, chosen |-> FALSE, contested |-> FALSE]
                BY <3>1 DEF Inserted
            <4> QED BY <3>1, <4>1, <4>2
        <3> QED BY <3>1
    <2>7. \A x \in Inserted(r), y \in rows : x.repo # y.repo
        BY <2>5 DEF RefreshStore
    <2>8. Types'
        <3>1. \A x, y \in rows' : x.repo = y.repo => x = y
            BY <1>2, <2>6, <2>7 DEF IInv, Types
        <3>2. rows' \subseteq Row
            BY <1>2, <2>5 DEF IInv, Types
        <3> QED BY <2>1, <2>3, <2>4, <3>1, <3>2 DEF IInv, Types, OneConnection, Only
    <2>9. KeysAreSpent'
        <3>1. \A row \in rows : row.store \in Nat /\ row.store <= stores
            BY BoundsAreNat DEF IInv, Types, Row, KeysAreSpent
        <3>2. \A q \in Requests : call[q].op = "patch" =>
                  call[q].row[2] \in Nat /\ call[q].row[2] <= stores
            BY BoundsAreNat, CallIs DEF IInv, Types, PatchCall, KeysAreSpent
        <3>3. \A row \in rows' : row.store <= stores'
            BY <1>2, <2>4, <2>5, <3>1
        <3>4. \A q \in Requests : call'[q].op = "patch" => call'[q].row[2] <= stores'
            BY <1>2, <2>1, <2>4, <3>2 DEF Only
        <3> QED BY <3>3, <3>4 DEF KeysAreSpent
    <2>10. OverlapsAreNoticed'
        BY <2>1, <2>3 DEF IInv, OverlapsAreNoticed, Only, At
    <2>11. DeletesAll'
        BY <2>1, <2>2, <2>3 DEF IInv, OverlapsAreNoticed, DeletesAll, Only, At
    <2>12. RefreshIsConnected'
        BY <2>1, <2>3 DEF IInv, RefreshIsConnected, Only
    <2>13. RepositoriesComeFromConnection'
        BY <1>2, <2>2, <2>3, <2>5 DEF IInv, RefreshIsConnected, RepositoriesComeFromConnection
    <2>14. PatchIsAlone'
        <3>1. \A q \in Requests, row \in Inserted(r) :
                  call[q].op = "patch" => call[q].row # Key(row)
            <4>1. ASSUME NEW q \in Requests, NEW row \in Inserted(r),
                         call[q].op = "patch", call[q].row = Key(row)
                  PROVE  FALSE
                <5>1. call[q].row[2] <= stores
                    BY <4>1 DEF IInv, KeysAreSpent
                <5>2. call[q].row[2] = stores + 1
                    BY <2>5, <4>1 DEF Key
                <5> QED BY <2>4, <5>1, <5>2
            <4> QED BY <4>1
        <3> QED BY <1>2, <2>1, <3>1 DEF IInv, PatchIsAlone, Only, Key
    <2>15. SelectionIsKept'
        BY <1>2, <2>5 DEF IInv, SelectionIsKept
    <2> QED BY <2>8, <2>9, <2>10, <2>11, <2>12, <2>13, <2>14, <2>15 DEF IInv
<1> QED BY <1>1, <1>2 DEF RefreshStore

\* A row is replaced by one with its key that was listed for the same account.
Replaced(row, new) ==
    /\ rows' = (rows \ {row}) \cup {new}
    /\ new \in Row
    /\ new.repo = row.repo /\ new.store = row.store /\ new.by = row.by

LEMMA ReplacedKeeps ==
    ASSUME IInv, NEW r \in Requests, NEW k \in Call, Only(r, k),
           NEW row \in rows, NEW new, Replaced(row, new),
           UNCHANGED <<connection, callbacks, stores, raced, switched>>,
           k.op \in {"none", "patch"}, k.op = "patch" => k.row = Key(row)
    PROVE  /\ Types' /\ KeysAreSpent'
           /\ OverlapsAreNoticed' /\ DeletesAll'
           /\ RefreshIsConnected' /\ RepositoriesComeFromConnection'
           /\ \A x \in rows' : x = new \/ (x \in rows /\ x.repo # row.repo)
<1>1. \A x \in rows' : x = new \/ (x \in rows /\ x.repo # row.repo)
    BY DEF Replaced, IInv, Types
<1>2. Types'
    <2>1. \A x, y \in rows' : x.repo = y.repo => x = y
        BY <1>1 DEF Replaced, IInv, Types
    <2>2. rows' \subseteq Row
        BY DEF Replaced, IInv, Types
    <2> QED BY <2>1, <2>2 DEF IInv, Types, OneConnection, Only
<1>3. KeysAreSpent'
    BY <1>1 DEF IInv, KeysAreSpent, Replaced, Only, Key
<1>4. OverlapsAreNoticed'
    BY DEF IInv, OverlapsAreNoticed, Only, At
<1>5. DeletesAll'
    BY <1>1 DEF IInv, DeletesAll, Replaced, Only, At, Key
<1>6. RefreshIsConnected'
    BY DEF IInv, RefreshIsConnected, Only
<1>7. RepositoriesComeFromConnection'
    BY <1>1 DEF IInv, RepositoriesComeFromConnection, Replaced
<1> QED BY <1>1, <1>2, <1>3, <1>4, <1>5, <1>6, <1>7

LEMMA PatchGetKeeps ==
    ASSUME IInv, NEW r \in Requests, NEW row \in rows, NEW body \in BOOLEAN,
           PatchGet(r, row, body)
    PROVE  IInv'
<1> DEFINE k == [op |-> "patch", next |-> "commit", row |-> Key(row),
                 loaded |-> row.selected, body |-> body]
<1>1. row \in Row
    BY DEF IInv, Types
<1>2. k \in PatchCall /\ k \in Call
    BY <1>1, CallsAre DEF PatchCall, Row, Key
<1>3. /\ call' = [call EXCEPT ![r] = k]
      /\ k.op = "patch" /\ k.row = Key(row) /\ k.loaded = row.selected
    BY DEF PatchGet
<1> HIDE DEF k
<1>4. Only(r, k)
    BY <1>2, <1>3, OnlyOne DEF IInv
<1>5. UNCHANGED <<connection, callbacks, stores, raced, switched>>
    BY DEF PatchGet
<1>6. \A x \in rows : Key(x) = Key(row) => x = row
    BY DEF Key, IInv, Types
<1>7. CASE \E s \in Requests : call[s].op = "patch" /\ call[s].row = Key(row)
    <2> DEFINE new == [row EXCEPT !.contested = TRUE]
    <2>1. /\ new \in Row /\ new.contested
          /\ new.repo = row.repo /\ new.store = row.store /\ new.by = row.by
        BY <1>1 DEF Row
    <2>2. rows' = (rows \ {row}) \cup {new}
        BY <1>7 DEF PatchGet
    <2> HIDE DEF new
    <2>3. Replaced(row, new)
        BY <2>1, <2>2 DEF Replaced
    <2>4. /\ Types' /\ KeysAreSpent' /\ OverlapsAreNoticed' /\ DeletesAll'
          /\ RefreshIsConnected' /\ RepositoriesComeFromConnection'
          /\ \A x \in rows' : x = new \/ (x \in rows /\ x.repo # row.repo)
        BY <1>2, <1>3, <1>4, <1>5, <2>3, ReplacedKeeps
    <2>5. PatchIsAlone'
        <3>1. ASSUME NEW q \in Requests, NEW x \in rows',
                     call'[q].op = "patch", call'[q].row = Key(x), ~x.contested
              PROVE  /\ x.selected = call'[q].loaded
                     /\ \A s \in Requests :
                           call'[s].op = "patch" /\ call'[s].row = Key(x) => s = q
            <4>1. x \in rows /\ Key(x) # Key(row)
                BY <2>1, <2>4, <3>1 DEF Key
            <4> QED BY <1>3, <1>4, <3>1, <4>1 DEF IInv, PatchIsAlone, Only
        <3> QED BY <3>1 DEF PatchIsAlone, Key
    <2>6. SelectionIsKept'
        BY <2>1, <2>4 DEF IInv, SelectionIsKept
    <2> QED BY <2>4, <2>5, <2>6 DEF IInv
<1>8. CASE ~\E s \in Requests : call[s].op = "patch" /\ call[s].row = Key(row)
    <2>1. UNCHANGED rows
        BY <1>8 DEF PatchGet
    <2>2. Knows(r, k)
        BY <1>3, <1>6, <1>8 DEF Knows, IInv, KeysAreSpent, Key
    <2>3. MeetsNobody(r, k) /\ callbacks' \in 0..MaxCallbacks /\ raced' \in BOOLEAN
        BY <1>3, <1>5 DEF MeetsNobody, IInv, Types
    <2> QED BY <1>2, <1>4, <1>5, <2>1, <2>2, <2>3, OnlyCallsKeep
<1> QED BY <1>7, <1>8

LEMMA PatchCommitKeeps ==
    ASSUME IInv, NEW r \in Requests, PatchCommit(r)
    PROVE  IInv'
<1>1. call[r] \in PatchCall /\ call[r].op = "patch"
    BY CallIs DEF PatchCommit, At, IInv, Types
<1>2. PICK row \in rows :
          /\ Key(row) = call[r].row
          /\ rows' = (rows \ {row}) \cup
                 {[row EXCEPT !.selected = IF call[r].body # call[r].loaded
                                           THEN call[r].body ELSE @,
                              !.chosen = call[r].body]}
    BY DEF PatchCommit
<1> DEFINE new == [row EXCEPT !.selected = IF call[r].body # call[r].loaded
                                           THEN call[r].body ELSE @,
                              !.chosen = call[r].body]
<1>3. row \in Row
    BY DEF IInv, Types
<1>4. /\ new \in Row
      /\ new.repo = row.repo /\ new.store = row.store /\ new.by = row.by
      /\ new.contested = row.contested
      /\ new.chosen = call[r].body
      /\ row.selected = call[r].loaded => new.selected = call[r].body
    BY <1>1, <1>3 DEF Row, PatchCall
<1>5. rows' = (rows \ {row}) \cup {new}
    BY <1>2
<1> HIDE DEF new
<1>6. Replaced(row, new)
    BY <1>4, <1>5 DEF Replaced
<1>7. Only(r, Idle) /\ Idle.op = "none" /\ Idle \in Call
    BY AnswersOnly, CallsAre DEF PatchCommit, IInv
<1>8. UNCHANGED <<connection, callbacks, stores, raced, switched>>
    BY DEF PatchCommit
<1>9. /\ Types' /\ KeysAreSpent' /\ OverlapsAreNoticed' /\ DeletesAll'
      /\ RefreshIsConnected' /\ RepositoriesComeFromConnection'
      /\ \A x \in rows' : x = new \/ (x \in rows /\ x.repo # row.repo)
    BY <1>6, <1>7, <1>8, ReplacedKeeps
<1>10. \/ new.contested
       \/ /\ new.selected = new.chosen
          /\ \A s \in Requests : call[s].op = "patch" /\ call[s].row = Key(row) => s = r
    BY <1>1, <1>2, <1>4 DEF IInv, PatchIsAlone
<1>11. PatchIsAlone'
    <2>1. ASSUME NEW q \in Requests, NEW x \in rows',
                 call'[q].op = "patch", call'[q].row = Key(x), ~x.contested
          PROVE  /\ x.selected = call'[q].loaded
                 /\ \A s \in Requests :
                       call'[s].op = "patch" /\ call'[s].row = Key(x) => s = q
        <3>1. x # new
            BY <1>4, <1>7, <1>10, <2>1 DEF Key, Only
        <3>2. x \in rows
            BY <1>9, <3>1
        <3>3. q # r /\ call'[q] = call[q]
            BY <1>7, <2>1 DEF Only
        <3> QED BY <1>7, <2>1, <3>2, <3>3 DEF IInv, PatchIsAlone, Only
    <2> QED BY <2>1 DEF PatchIsAlone, Key
<1>12. SelectionIsKept'
    BY <1>9, <1>10 DEF IInv, SelectionIsKept
<1> QED BY <1>9, <1>11, <1>12 DEF IInv

LEMMA DisconnectCommitKeeps ==
    ASSUME IInv, NEW r \in Requests, DisconnectCommit(r)
    PROVE  IInv'
<1>1. Only(r, Idle) /\ Idle.op = "none"
    BY AnswersOnly, CallsAre DEF DisconnectCommit, IInv
<1>2. connection' \subseteq connection /\ rows' \subseteq rows
    BY DEF DisconnectCommit
<1>3. UNCHANGED <<callbacks, stores, raced, switched>>
    BY DEF DisconnectCommit
<1>4. raced \/ (rows' = {} /\ \A s \in Requests : call[s].op # "refresh")
    <2>1. raced \/ \A row \in rows : Key(row) \in call[r].deleted
        BY DEF DisconnectCommit, IInv, DeletesAll
    <2>2. raced \/ rows' = {}
        BY <2>1 DEF DisconnectCommit
    <2> QED BY <2>2 DEF DisconnectCommit, IInv, OverlapsAreNoticed
<1>5. Types'
    <2>1. OneConnection'
        BY <1>2 DEF IInv, Types, OneConnection
    <2> QED BY <1>1, <1>2, <1>3, <2>1 DEF IInv, Types, Only
<1>6. KeysAreSpent'
    BY <1>1, <1>2, <1>3 DEF IInv, KeysAreSpent, Only
<1>7. OverlapsAreNoticed' /\ DeletesAll'
    BY <1>1, <1>2, <1>3 DEF IInv, OverlapsAreNoticed, DeletesAll, Only, At, Key
<1>8. RefreshIsConnected' /\ RepositoriesComeFromConnection'
    BY <1>1, <1>3, <1>4 DEF RefreshIsConnected, RepositoriesComeFromConnection, Only
<1>9. PatchIsAlone' /\ SelectionIsKept'
    BY <1>1, <1>2 DEF IInv, PatchIsAlone, SelectionIsKept, Only, Key
<1> QED BY <1>5, <1>6, <1>7, <1>8, <1>9 DEF IInv

-----------------------------------------------------------------------------
(* The invariant, and what it implies. *)

LEMMA InitIInv == Init => IInv
<1> SUFFICES ASSUME Init PROVE IInv
    OBVIOUS
<1>1. \A r \in Requests : call[r] = Idle /\ call[r].op = "none"
    BY CallsAre DEF Init
<1>2. Types
    <2>1. call \in [Requests -> Call]
        BY CallsAre DEF Init
    <2>2. 0 \in 0..MaxCallbacks /\ 0 \in 0..MaxStores
        BY BoundsAreNat
    <2> QED BY <2>1, <2>2 DEF Init, Types, OneConnection
<1>3. KeysAreSpent /\ OverlapsAreNoticed /\ DeletesAll /\ RefreshIsConnected
    BY <1>1 DEF Init, KeysAreSpent, OverlapsAreNoticed, DeletesAll, RefreshIsConnected, At
<1>4. RepositoriesComeFromConnection /\ PatchIsAlone /\ SelectionIsKept
    BY DEF Init, RepositoriesComeFromConnection, PatchIsAlone, SelectionIsKept
<1> QED BY <1>2, <1>3, <1>4 DEF IInv

LEMMA NextIInv == IInv /\ [Next]_vars => IInv'
<1> SUFFICES ASSUME IInv, [Next]_vars PROVE IInv'
    OBVIOUS
<1>1. CASE UNCHANGED vars
    BY <1>1 DEF vars, IInv, Types, OneConnection, KeysAreSpent, OverlapsAreNoticed, DeletesAll,
       RefreshIsConnected, RepositoriesComeFromConnection, PatchIsAlone, SelectionIsKept, At, Key
<1>2. ASSUME NEW r \in Requests,
             \/ \E a \in Accounts : CallbackEnter(r, a)
             \/ CallbackLookup(r)
      PROVE  IInv'
    BY <1>2, CallbackKeeps
<1>3. ASSUME NEW r \in Requests, CallbackStore(r) PROVE IInv'
    BY <1>3, CallbackStoreKeeps
<1>4. ASSUME NEW r \in Requests, RefreshEnter(r) \/ RefreshLoad(r) PROVE IInv'
    BY <1>4, RefreshKeeps
<1>5. ASSUME NEW r \in Requests, RefreshStore(r) PROVE IInv'
    BY <1>5, RefreshStoreKeeps
<1>6. ASSUME NEW r \in Requests, NEW row \in rows, NEW body \in BOOLEAN, PatchGet(r, row, body)
      PROVE  IInv'
    BY <1>6, PatchGetKeeps
<1>7. ASSUME NEW r \in Requests, PatchCommit(r) PROVE IInv'
    BY <1>7, PatchCommitKeeps
<1>8. ASSUME NEW r \in Requests, DisconnectRead(r) \/ DisconnectDelete(r) PROVE IInv'
    BY <1>8, DisconnectKeeps
<1>9. ASSUME NEW r \in Requests, DisconnectCommit(r) PROVE IInv'
    BY <1>9, DisconnectCommitKeeps
<1>10. ASSUME NEW r \in Requests, Fails(r) PROVE IInv'
    BY <1>10, AnswerKeeps DEF Fails
<1> QED BY <1>1, <1>2, <1>3, <1>4, <1>5, <1>6, <1>7, <1>8, <1>9, <1>10 DEF Next

\* The invariant holds in every reachable state.
THEOREM Inductive == Spec => []IInv
<1>1. Init => IInv
    BY InitIInv
<1>2. IInv /\ [Next]_vars => IInv'
    BY NextIInv
<1> QED BY <1>1, <1>2, PTL DEF Spec

\* The tables and the requests have the types of the code: the user never has two
\* connections, nor two rows of one repository.
THEOREM TypesHold == Spec => []TypeOK
<1>1. IInv => TypeOK
    <2> SUFFICES ASSUME IInv PROVE TypeOK
        OBVIOUS
    <2>1. Cardinality(connection) <= 1
        <3>1. CASE connection = {}
            BY <3>1, FS_EmptySet
        <3>2. CASE \E c \in Connection : connection = {c}
            BY <3>2, FS_Singleton
        <3> QED BY <3>1, <3>2 DEF IInv, Types, OneConnection
    <2>2. connection \subseteq Connection
        BY DEF IInv, Types, OneConnection
    <2> QED BY <2>1, <2>2 DEF IInv, Types, TypeOK
<1> QED BY <1>1, Inductive, PTL

\* A repository row never outlives the connection that listed it, however callbacks,
\* refreshes and disconnections interleave, but for the overlap the history notes
\* (github_callback, refresh_repositories, disconnect).
THEOREM ConnectionsOwnRepositories == Spec => []RepositoriesComeFromConnection
<1>1. IInv => RepositoriesComeFromConnection
    BY DEF IInv
<1> QED BY <1>1, Inductive, PTL

\* No refresh and no lone PATCH loses the selection answered to the user
\* (patch_repository, refresh_repositories).
THEOREM SelectionsHold == Spec => []SelectionIsKept
<1>1. IInv => SelectionIsKept
    BY DEF IInv
<1> QED BY <1>1, Inductive, PTL

=============================================================================
