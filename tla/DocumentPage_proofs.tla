-------------------------- MODULE DocumentPage_proofs --------------------------
(***************************************************************************)
(* Proofs about DocumentPage, for any number of presses, runs and reloads: *)
(* the types, among them that a wait never hears more than two ends of a   *)
(* run, and that the page shows what it was asked for.                     *)
(***************************************************************************)
EXTENDS DocumentPage, FiniteSetTheorems, SequenceTheorems, TLAPS

WaitRow == [for: {0} \cup Requests, stream: {"opening", "open", "ended", "cut"},
            inbox: Seq(Event)]

RunRow == [request: Requests, status: {"running", "succeeded", "failed", "cancelled"}]

\* TypeOK, but for the length of the inbox.
Types ==
    /\ requested \subseteq Requests
    /\ runs \in Seq(RunRow) /\ Len(runs) <= MaxRuns
    /\ docs \subseteq DOMAIN runs
    /\ announced \subseteq Event
    /\ post \in [Requests -> PostState]
    /\ wait \in WaitRow
    /\ loads \subseteq Load
    /\ page \in Page
    /\ reloads \in 0..MaxReloads
    /\ {crossed, switched} \subseteq BOOLEAN

\* No end of a run is heard that was not announced, and none is heard twice.
HeardOnce == Len(wait.inbox) <= Cardinality(announced)

\* Runs are of presses that the API has heard of, and these were made in order.
PressesInOrder ==
    /\ \A k \in DOMAIN runs : runs[k].request \in requested
    /\ \A r \in Requests : r \in requested => post[r] \in {"asked", "done"}
    /\ \A q, r \in Requests : q < r /\ post[r] # "none" => post[q] # "none"

\* What was announced of a run, once, stays true of it.
EndsAreTrue ==
    /\ \A k \in DOMAIN runs : runs[k].status = "succeeded" => k \in docs
    /\ \A e \in announced :
          /\ e.run \in DOMAIN runs
          /\ e.name = "completed" => e.run \in docs
          /\ e.name = "failed" => runs[e.run].status \in {"failed", "cancelled"}
    /\ \A i \in DOMAIN wait.inbox : wait.inbox[i] \in announced

\* What waits is the last press made, and nothing more comes of the others.
LastPressWaits ==
    ~crossed =>
        /\ \A q, r \in Requests : q < r /\ post[r] # "none" => Settled(q) /\ wait.for # q
        /\ \A q, r \in Requests : q < r /\ post[q] \in {"sent", "asked"} => post[r] = "none"

\* A completion that a wait has heard is of its press.
InboxIsOwn ==
    /\ wait.for = 0 => wait.stream = "ended"
    /\ wait.for # 0 => post[wait.for] # "none"
    /\ ~crossed => \A i \in DOMAIN wait.inbox :
          wait.inbox[i].name = "completed" => runs[wait.inbox[i].run].request = wait.for

\* So is the document that a load brings, and the one that is shown.
IsOwn(document, for) == for # 0 => document \in docs /\ runs[document].request = for

LoadsAreOwn == ~crossed => \A l \in loads : IsOwn(l.document, l.for)

\* A document that is being exported is still shown.
ExportIsShown == page.export # 0 /\ ~switched => page.export = page.document

\* The inductive invariant.
IInv ==
    /\ Types /\ HeardOnce
    /\ PressesInOrder /\ EndsAreTrue /\ LastPressWaits
    /\ InboxIsOwn /\ LoadsAreOwn /\ WaitBringsItsDocument
    /\ ExportIsShown /\ ClaimsAreOfDocument
-----------------------------------------------------------------------------
(* Lemmas about numbers, events and requests. *)

LEMMA RequestsAreNat == Requests \subseteq Nat \ {0}
<1>1. Cardinality(Requests) \in Nat /\ Requests = 1..Cardinality(Requests)
    BY RequestsAreCounted, FS_CardinalityType
<1> QED BY <1>1

\* There are two ends for each run.
LEMMA EventsAreFinite == IsFiniteSet(Event) /\ Cardinality(Event) <= 2 * MaxRuns
<1> DEFINE n == 2 * MaxRuns
           f == [i \in 1..n |-> IF i <= MaxRuns THEN [run |-> i, name |-> "completed"]
                                ELSE [run |-> i - MaxRuns, name |-> "failed"]]
<1>1. n \in Nat /\ MaxRuns \in Nat /\ n = MaxRuns + MaxRuns
    BY BoundsAreNat
<1>2. f \in [1..n -> Event]
    <2>1. ASSUME NEW i \in 1..n PROVE f[i] \in Event
        <3>1. CASE i <= MaxRuns
            BY <1>1, <3>1 DEF Event, Runs
        <3>2. CASE ~(i <= MaxRuns)
            <4>1. i - MaxRuns \in 1..MaxRuns
                BY <1>1, <3>2
            <4> QED BY <3>2, <4>1 DEF Event, Runs
        <3> QED BY <3>1, <3>2
    <2> QED BY <2>1
<1>3. ASSUME NEW e \in Event PROVE \E i \in 1..n : f[i] = e
    <2>1. e.run \in 1..MaxRuns /\ e = [run |-> e.run, name |-> e.name]
        BY DEF Event, Runs
    <2>2. CASE e.name = "completed"
        <3>1. e.run \in 1..n /\ e.run <= MaxRuns
            BY <1>1, <2>1
        <3>2. f[e.run] = e
            BY <2>1, <2>2, <3>1
        <3> QED BY <3>1, <3>2
    <2>3. CASE e.name = "failed"
        <3> DEFINE i == e.run + MaxRuns
        <3>1. i \in 1..n /\ ~(i <= MaxRuns) /\ i - MaxRuns = e.run
            BY <1>1, <2>1
        <3>2. f[i] = e
            <4> HIDE DEF i
            <4> QED BY <2>1, <2>3, <3>1
        <3> QED BY <3>1, <3>2
    <2> QED BY <2>2, <2>3 DEF Event
<1> HIDE DEF f
<1>4. f \in Surjection(1..n, Event)
    BY <1>2, <1>3 DEF Surjection
<1>5. IsFiniteSet(1..n)
    BY <1>1, FS_Interval
<1>6. IsFiniteSet(Event)
    BY <1>4, <1>5, FS_Surjection
<1>7. ExistsSurjection(1..n, Event)
    BY <1>4 DEF ExistsSurjection
<1> HIDE DEF n
<1>8. Cardinality(Event) <= n
    BY <1>1, <1>7, FS_SurjCardinalityBound
<1> QED BY <1>6, <1>8 DEF n

LEMMA RunsAre ==
    ASSUME Types
    PROVE  /\ Len(runs) \in Nat /\ DOMAIN runs = 1..Len(runs)
           /\ DOMAIN runs \subseteq Runs
           /\ \A k \in DOMAIN runs : runs[k] \in RunRow
<1>1. Len(runs) \in Nat /\ DOMAIN runs = 1..Len(runs) /\ \A k \in DOMAIN runs : runs[k] \in RunRow
    BY DEF Types
<1>2. Len(runs) <= MaxRuns
    BY DEF Types
<1> QED BY <1>1, <1>2, BoundsAreNat DEF Runs

-----------------------------------------------------------------------------
(* What stays true while runs, documents and announcements only grow. *)

Grows ==
    /\ DOMAIN runs \subseteq DOMAIN runs'
    /\ \A k \in DOMAIN runs : runs'[k].request = runs[k].request
    /\ docs \subseteq docs' /\ announced \subseteq announced'
    /\ requested \subseteq requested'

LEMMA LoadsStay ==
    ASSUME IInv, Grows, crossed => crossed',
           \A l \in loads' : l \in loads \/ l.for = 0 \/ crossed' \/ IsOwn(l.document, l.for)
    PROVE  LoadsAreOwn'
<1>1. ASSUME NEW document, NEW for, IsOwn(document, for) PROVE IsOwn(document, for)'
    BY <1>1 DEF IsOwn, Grows, IInv, Types
<1>2. \A l \in loads' : crossed' \/ IsOwn(l.document, l.for)
    BY DEF IInv, LoadsAreOwn, IsOwn
<1> QED BY <1>1, <1>2 DEF LoadsAreOwn, IsOwn

LEMMA ShownStays ==
    ASSUME IInv, Grows, crossed => crossed',
           \/ page'.for = 0
           \/ page'.for = page.for /\ page'.document = page.document
           \/ crossed' \/ IsOwn(page'.document, page'.for)
    PROVE  WaitBringsItsDocument'
<1>1. ASSUME NEW document, NEW for, IsOwn(document, for) PROVE IsOwn(document, for)'
    BY <1>1 DEF IsOwn, Grows, IInv, Types
<1>2. crossed' \/ IsOwn(page'.document, page'.for)
    BY DEF IInv, WaitBringsItsDocument, IsOwn
<1> QED BY <1>1, <1>2 DEF WaitBringsItsDocument, IsOwn

LEMMA ClaimsStay ==
    ASSUME IInv, switched => switched',
           page'.document = page.document, page'.claims = page.claims, page'.export = page.export
    PROVE  ExportIsShown' /\ ClaimsAreOfDocument'
BY DEF IInv, ExportIsShown, ClaimsAreOfDocument

\* A press of which nothing more comes stays so.
LEMMA SettledStays ==
    ASSUME IInv, Grows, NEW q \in Requests, Settled(q), UNCHANGED requested,
           post[q] = "done" => post'[q] = "done",
           \A k \in DOMAIN runs' : k \in DOMAIN runs \/ runs'[k].request # q
    PROVE  Settled(q)'
BY DEF Settled, Grows
-----------------------------------------------------------------------------
(* Steps of the page and its wait alone. *)

LEMMA NoWaitIs ==
    /\ NoWait \in WaitRow /\ NoWait.for = 0 /\ NoWait.stream = "ended"
    /\ NoWait.inbox = <<>> /\ Len(NoWait.inbox) = 0 /\ DOMAIN NoWait.inbox = {}
BY EmptySeq DEF NoWait, WaitRow

LEMMA PageKeeps ==
    ASSUME IInv, UNCHANGED <<lifeVars, announced, post, reloads, crossed>>,
           \/ wait' = NoWait
           \/ /\ wait' \in WaitRow /\ wait'.for = wait.for
              /\ wait.for # 0 \/ wait'.stream = "ended"
              /\ wait'.inbox = wait.inbox \/ wait'.inbox = <<>>,
           \A l \in loads' : /\ l \in Load
                             /\ l \in loads \/ l.for = 0 \/ crossed \/ IsOwn(l.document, l.for),
           page' \in Page,
           \/ page'.for = 0
           \/ page'.for = page.for /\ page'.document = page.document
           \/ crossed \/ IsOwn(page'.document, page'.for),
           switched' \in BOOLEAN, ExportIsShown', ClaimsAreOfDocument'
    PROVE  IInv'
<1> USE DEF lifeVars
<1>1. /\ wait' \in WaitRow /\ wait'.for \in {0, wait.for}
      /\ Len(wait'.inbox) \in {0, Len(wait.inbox)}
      /\ \A i \in DOMAIN wait'.inbox : i \in DOMAIN wait.inbox /\ wait'.inbox[i] = wait.inbox[i]
      /\ wait'.for = wait.for \/ DOMAIN wait'.inbox = {}
      /\ wait'.for = 0 => wait'.stream = "ended"
    <2>1. CASE wait' = NoWait
        BY <2>1, NoWaitIs
    <2>2. CASE /\ wait' \in WaitRow /\ wait'.for = wait.for
               /\ wait.for # 0 \/ wait'.stream = "ended"
               /\ wait'.inbox = wait.inbox \/ wait'.inbox = <<>>
        BY <2>2
    <2> QED BY <2>1, <2>2
<1>2. Types'
    BY <1>1 DEF IInv, Types
<1>3. HeardOnce'
    <2>1. Cardinality(announced) \in Nat
        BY EventsAreFinite, FS_Subset, FS_CardinalityType DEF IInv, Types
    <2> QED BY <1>1, <2>1 DEF IInv, HeardOnce
<1>4. PressesInOrder' /\ EndsAreTrue'
    BY <1>1 DEF IInv, PressesInOrder, EndsAreTrue
<1>5. LastPressWaits'
    <2>1. \A q \in Requests : Settled(q)' <=> Settled(q)
        BY DEF Settled
    <2>2. \A q \in Requests : wait'.for = q => wait.for = q
        BY <1>1, RequestsAreNat
    <2> QED BY <2>1, <2>2 DEF IInv, LastPressWaits
<1>6. InboxIsOwn'
    BY <1>1 DEF IInv, InboxIsOwn
<1>7. Grows /\ (crossed => crossed')
    BY DEF Grows
<1>8. LoadsAreOwn' /\ WaitBringsItsDocument'
    BY <1>7, LoadsStay, ShownStays
<1> QED BY <1>2, <1>3, <1>4, <1>5, <1>6, <1>8 DEF IInv

\* The wait ends, or its stream changes.
LEMMA StreamKeeps ==
    ASSUME IInv, Subscribe \/ StreamFails \/ StreamEndsQuietly \/ TimeOut
    PROVE  IInv'
<1>1. /\ UNCHANGED <<lifeVars, announced, post, reloads, crossed>> /\ UNCHANGED loads
      /\ UNCHANGED switched
    BY DEF Subscribe, StreamFails, StreamEndsQuietly, TimeOut
<1>2. \/ wait' = NoWait
      \/ /\ wait.for # 0 /\ wait' \in WaitRow /\ wait'.for = wait.for
         /\ wait'.inbox = wait.inbox \/ wait'.inbox = <<>>
    <2>1. wait \in WaitRow /\ (wait.stream \in {"opening", "open"} => wait.for # 0)
        BY DEF IInv, Types, InboxIsOwn
    <2>2. CASE Subscribe
        BY <2>1, <2>2 DEF Subscribe, WaitRow
    <2>3. CASE StreamEndsQuietly
        BY <2>1, <2>3, EmptySeq DEF StreamEndsQuietly, WaitRow
    <2>4. CASE StreamFails \/ TimeOut
        BY <2>4 DEF StreamFails, TimeOut
    <2> QED BY <2>2, <2>3, <2>4
<1>3. /\ page' \in Page /\ page'.for = page.for /\ page'.document = page.document
      /\ page'.claims = page.claims /\ page'.export = page.export
    <2>1. page \in Page
        BY DEF IInv, Types
    <2>2. page' = page \/ page' = [page EXCEPT !.status = "idle"]
        BY DEF Subscribe, StreamFails, StreamEndsQuietly, TimeOut
    <2> QED BY <2>1, <2>2 DEF Page
<1>4. ExportIsShown' /\ ClaimsAreOfDocument'
    BY <1>1, <1>3, ClaimsStay
<1>5. switched' \in BOOLEAN /\ \A l \in loads' : l \in Load /\ l \in loads
    BY <1>1 DEF IInv, Types
<1> QED BY <1>1, <1>2, <1>3, <1>4, <1>5, PageKeeps

LEMMA ForwardKeeps ==
    ASSUME IInv, Forward
    PROVE  IInv'
<1> DEFINE e == Head(wait.inbox)
<1>1. /\ UNCHANGED <<lifeVars, announced, post, reloads, crossed>> /\ UNCHANGED switched
      /\ wait.for # 0 /\ wait.inbox # <<>>
    BY DEF Forward
<1>2. wait \in WaitRow /\ page \in Page /\ loads \subseteq Load /\ switched \in BOOLEAN
    BY DEF IInv, Types
<1>3. e \in Event /\ e = wait.inbox[1] /\ 1 \in DOMAIN wait.inbox
    BY <1>1, <1>2, EmptySeq, HeadTailProperties DEF WaitRow
<1>4. CASE e.name = "completed"
    <2> DEFINE l == [document |-> e.run, for |-> wait.for]
    <2>1. /\ loads' = loads \cup {l} /\ wait' = [wait EXCEPT !.stream = "ended", !.inbox = <<>>]
          /\ UNCHANGED page
        BY <1>4 DEF Forward
    <2>2. wait' \in WaitRow /\ wait'.for = wait.for /\ wait'.inbox = <<>>
        BY <1>2, <2>1, EmptySeq DEF WaitRow
    <2>3. l \in Load /\ l.document = e.run /\ l.for = wait.for
        BY <1>2, <1>3 DEF Load, Event, WaitRow
    <2>4. crossed \/ IsOwn(e.run, wait.for)
        BY <1>3, <1>4 DEF IInv, InboxIsOwn, EndsAreTrue, IsOwn
    <2> HIDE DEF l, e
    <2>5. \A k \in loads' : /\ k \in Load
                            /\ k \in loads \/ k.for = 0 \/ crossed \/ IsOwn(k.document, k.for)
        BY <1>2, <2>1, <2>3, <2>4
    <2>6. ExportIsShown' /\ ClaimsAreOfDocument'
        BY <1>1, <2>1, ClaimsStay
    <2> QED BY <1>1, <1>2, <2>1, <2>2, <2>5, <2>6, PageKeeps
<1>5. CASE e.name # "completed"
    <2>1. wait' = NoWait /\ page' = [page EXCEPT !.status = "idle"] /\ UNCHANGED loads
        BY <1>5 DEF Forward
    <2>2. /\ page' \in Page /\ page'.for = page.for /\ page'.document = page.document
          /\ page'.claims = page.claims /\ page'.export = page.export
        BY <1>2, <2>1 DEF Page
    <2>3. ExportIsShown' /\ ClaimsAreOfDocument'
        BY <1>1, <2>2, ClaimsStay
    <2> QED BY <1>1, <1>2, <2>1, <2>2, <2>3, PageKeeps
<1> QED BY <1>4, <1>5

LEMMA LoadKeeps ==
    ASSUME IInv, \/ \E k \in Runs : Pick(k)
                 \/ \E l \in loads : LoadEnds(l) \/ LoadFails(l)
    PROVE  IInv'
<1>1. /\ UNCHANGED <<lifeVars, announced, post, reloads, crossed>>
      /\ wait' = NoWait \/ wait' = wait
    BY DEF Pick, LoadEnds, LoadFails, Finished
<1>2. wait \in WaitRow /\ page \in Page /\ loads \subseteq Load /\ switched \in BOOLEAN
    BY DEF IInv, Types
<1>3. wait.for # 0 \/ wait.stream = "ended"
    BY DEF IInv, InboxIsOwn
<1>4. CASE \E k \in Runs : Pick(k)
    <2>1. PICK k \in Runs : Pick(k)
        BY <1>4
    <2> DEFINE l == [document |-> k, for |-> 0]
    <2>2. loads' = loads \cup {l} /\ UNCHANGED <<page, switched>>
        BY <2>1 DEF Pick
    <2>3. l \in Load /\ l.for = 0
        BY DEF Load
    <2> HIDE DEF l
    <2>4. ExportIsShown' /\ ClaimsAreOfDocument'
        BY <2>2, ClaimsStay
    <2> QED BY <1>1, <1>2, <1>3, <2>2, <2>3, <2>4, PageKeeps
<1>5. CASE \E l \in loads : LoadEnds(l)
    <2>1. PICK l \in loads : LoadEnds(l)
        BY <1>5
    <2>2. /\ loads' \subseteq loads /\ switched' = (switched \/ page.export # 0)
          /\ page' = [page EXCEPT !.status = "done", !.document = l.document,
                                  !.claims = l.document, !.for = l.for,
                                  !.list = @ \cup {l.document}]
        BY <2>1 DEF LoadEnds
    <2>3. l \in Load
        BY <1>2
    <2>4. /\ page' \in Page /\ page'.document = l.document /\ page'.claims = l.document
          /\ page'.for = l.for /\ page'.export = page.export
        BY <1>2, <2>2, <2>3 DEF Page, Load
    <2>5. crossed \/ IsOwn(l.document, l.for)
        BY DEF IInv, LoadsAreOwn
    <2>6. ExportIsShown' /\ ClaimsAreOfDocument' /\ switched' \in BOOLEAN
        BY <1>2, <2>2, <2>4 DEF ExportIsShown, ClaimsAreOfDocument
    <2>7. \A k \in loads' : k \in Load /\ k \in loads
        BY <1>2, <2>2
    <2> QED BY <1>1, <1>2, <1>3, <2>4, <2>5, <2>6, <2>7, PageKeeps
<1>6. CASE \E l \in loads : LoadFails(l)
    <2>1. PICK l \in loads : LoadFails(l)
        BY <1>6
    <2>2. /\ loads' \subseteq loads /\ UNCHANGED switched
          /\ page' = [page EXCEPT !.status = IF l.for # 0 THEN "idle" ELSE @]
        BY <2>1 DEF LoadFails
    <2>3. /\ page' \in Page /\ page'.for = page.for /\ page'.document = page.document
          /\ page'.claims = page.claims /\ page'.export = page.export
        BY <1>2, <2>2 DEF Page
    <2>4. ExportIsShown' /\ ClaimsAreOfDocument'
        BY <2>2, <2>3, ClaimsStay
    <2>5. \A k \in loads' : k \in Load /\ k \in loads
        BY <1>2, <2>2
    <2> QED BY <1>1, <1>2, <1>3, <2>2, <2>3, <2>4, <2>5, PageKeeps
<1> QED BY <1>4, <1>5, <1>6
LEMMA ExportKeeps ==
    ASSUME IInv, Export \/ ExportEnds
    PROVE  IInv'
<1>1. UNCHANGED <<lifeVars, announced, post, reloads, crossed>> /\ UNCHANGED <<wait, loads, switched>>
    BY DEF Export, ExportEnds
<1>2. /\ wait \in WaitRow /\ page \in Page /\ loads \subseteq Load /\ switched \in BOOLEAN
      /\ wait.for # 0 \/ wait.stream = "ended"
    BY DEF IInv, Types, InboxIsOwn
<1>3. /\ page' \in Page
      /\ page'.for = 0 \/ (page'.for = page.for /\ page'.document = page.document)
      /\ ExportIsShown' /\ ClaimsAreOfDocument'
    <2>1. CASE Export
        <3>1. /\ page' \in Page /\ page'.for = page.for /\ page'.document = page.document
              /\ page'.claims = page.claims /\ page'.export = page.document
            BY <1>2, <2>1 DEF Export, Page
        <3> QED BY <1>1, <3>1 DEF IInv, ExportIsShown, ClaimsAreOfDocument
    <2>2. CASE ExportEnds /\ page' = [page EXCEPT !.export = 0, !.document = page.export, !.for = 0]
        <3>1. /\ page' \in Page /\ page'.for = 0 /\ page'.document = page.export
              /\ page'.claims = page.claims /\ page'.export = 0
            BY <1>2, <2>2 DEF Page
        <3> QED BY <1>1, <3>1 DEF IInv, ExportIsShown, ClaimsAreOfDocument
    <2>3. CASE page' = [page EXCEPT !.export = 0]
        <3>1. /\ page' \in Page /\ page'.for = page.for /\ page'.document = page.document
              /\ page'.claims = page.claims /\ page'.export = 0
            BY <1>2, <2>3 DEF Page
        <3> QED BY <1>1, <3>1 DEF IInv, ExportIsShown, ClaimsAreOfDocument
    <2> QED BY <2>1, <2>2, <2>3 DEF ExportEnds
<1> QED BY <1>1, <1>2, <1>3, PageKeeps

-----------------------------------------------------------------------------
(* Steps that change what is known of a press. *)

\* No press is forgotten, and none of which nothing more comes is taken up again.
PostsGoOn ==
    /\ post' \in [Requests -> PostState]
    /\ \A q \in Requests : /\ post'[q] = "none" <=> post[q] = "none"
                           /\ post[q] \in {"asked", "done"} => post'[q] \in {"asked", "done"}
                           /\ post[q] = "done" => post'[q] = "done"
                           /\ post'[q] \in {"sent", "asked"} => post[q] \in {"sent", "asked"}

LEMMA PostsKeep ==
    ASSUME IInv, PostsGoOn, UNCHANGED <<lifeVars, announced, crossed>>, wait' = NoWait \/ wait' = wait
    PROVE  /\ PressesInOrder' /\ EndsAreTrue' /\ LastPressWaits' /\ InboxIsOwn' /\ HeardOnce'
           /\ wait' \in WaitRow /\ Grows
<1> USE DEF lifeVars
<1>1. /\ wait' \in WaitRow /\ wait'.for \in {0, wait.for}
      /\ \A i \in DOMAIN wait'.inbox : i \in DOMAIN wait.inbox /\ wait'.inbox[i] = wait.inbox[i]
      /\ Len(wait'.inbox) \in {0, Len(wait.inbox)}
      /\ wait'.for = wait.for \/ DOMAIN wait'.inbox = {}
      /\ wait'.for = 0 => wait'.stream = "ended"
    BY NoWaitIs DEF IInv, Types, InboxIsOwn
<1>2. PressesInOrder' /\ EndsAreTrue'
    BY <1>1 DEF IInv, PressesInOrder, EndsAreTrue, PostsGoOn
<1>3. Grows
    BY DEF Grows
<1>4. LastPressWaits'
    <2>1. \A q \in Requests : Settled(q) => Settled(q)'
        BY DEF Settled, PostsGoOn
    <2>2. \A q \in Requests : wait'.for = q => wait.for = q
        BY <1>1, RequestsAreNat
    <2> QED BY <2>1, <2>2 DEF IInv, LastPressWaits, PostsGoOn
<1>5. InboxIsOwn'
    <2>1. wait'.for # 0 => wait'.for \in Requests
        BY <1>1 DEF WaitRow
    <2> QED BY <1>1, <2>1 DEF IInv, InboxIsOwn, PostsGoOn
<1>6. HeardOnce'
    <2>1. Cardinality(announced) \in Nat
        BY EventsAreFinite, FS_Subset, FS_CardinalityType DEF IInv, Types
    <2> QED BY <1>1, <2>1 DEF IInv, HeardOnce
<1> QED BY <1>1, <1>2, <1>3, <1>4, <1>5, <1>6

LEMMA PostFailsKeeps ==
    ASSUME IInv, NEW r \in Requests, PostFails(r)
    PROVE  IInv'
<1>1. UNCHANGED <<lifeVars, announced, wait, loads, reloads, crossed, switched>>
    BY DEF PostFails
<1>2. PostsGoOn
    <2>1. post \in [Requests -> PostState]
        BY DEF IInv, Types
    <2>2. PICK state \in Left(post[r]) : post' = [post EXCEPT ![r] = state]
        BY DEF PostFails
    <2>3. /\ post[r] \in {"sent", "asked"} /\ state \in {"left", "done"}
          /\ post[r] = "asked" => state = "done"
        BY <2>2 DEF PostFails, Left
    <2> QED BY <2>1, <2>2, <2>3 DEF PostsGoOn, PostState
<1>3. /\ PressesInOrder' /\ EndsAreTrue' /\ LastPressWaits' /\ InboxIsOwn' /\ HeardOnce'
      /\ wait' \in WaitRow /\ Grows
    BY <1>1, <1>2, PostsKeep
<1>4. /\ page' \in Page /\ page'.for = page.for /\ page'.document = page.document
      /\ page'.claims = page.claims /\ page'.export = page.export
    BY DEF PostFails, IInv, Types, Page
<1>5. Types'
    BY <1>1, <1>2, <1>3, <1>4 DEF IInv, Types, PostsGoOn, lifeVars
<1>6. LoadsAreOwn' /\ WaitBringsItsDocument' /\ ExportIsShown' /\ ClaimsAreOfDocument'
    BY <1>1, <1>3, <1>4, LoadsStay, ShownStays, ClaimsStay
<1> QED BY <1>3, <1>5, <1>6 DEF IInv

LEMMA ReloadKeeps ==
    ASSUME IInv, Reload
    PROVE  IInv'
<1>1. /\ UNCHANGED <<lifeVars, announced, crossed, switched>>
      /\ wait' = NoWait /\ loads' = {} /\ page' = Fresh
      /\ reloads < MaxReloads /\ reloads' = reloads + 1
    BY DEF Reload
<1>2. PostsGoOn
    <2>1. /\ post' \in [Requests -> PostState]
          /\ \A q \in Requests : post'[q] \in Left(post[q]) /\ post[q] \in PostState
        BY DEF Reload, IInv, Types
    <2> QED BY <2>1 DEF PostsGoOn, Left, PostState
<1>3. /\ PressesInOrder' /\ EndsAreTrue' /\ LastPressWaits' /\ InboxIsOwn' /\ HeardOnce'
      /\ wait' \in WaitRow /\ Grows
    BY <1>1, <1>2, PostsKeep
<1>4. /\ page' \in Page /\ page'.for = 0 /\ page'.document = 0 /\ page'.export = 0
    <2>1. docs \subseteq Runs
        BY RunsAre DEF IInv, Types
    <2> QED BY <1>1, <2>1 DEF Fresh, Page
<1>5. reloads' \in 0..MaxReloads
    BY <1>1, BoundsAreNat DEF IInv, Types
<1>6. Types'
    BY <1>1, <1>2, <1>3, <1>4, <1>5 DEF IInv, Types, PostsGoOn, lifeVars
<1>7. LoadsAreOwn' /\ WaitBringsItsDocument' /\ ExportIsShown' /\ ClaimsAreOfDocument'
    BY <1>1, <1>4 DEF LoadsAreOwn, WaitBringsItsDocument, ExportIsShown, ClaimsAreOfDocument
<1> QED BY <1>3, <1>6, <1>7 DEF IInv

LEMMA PostAnsweredKeeps ==
    ASSUME IInv, NEW r \in Requests, PostAnswered(r)
    PROVE  IInv'
<1>1. /\ post[r] = "asked" /\ post' = [post EXCEPT ![r] = "done"]
      /\ UNCHANGED <<lifeVars, announced, loads, page, reloads, crossed, switched>>
    BY DEF PostAnswered
<1>2. /\ wait' \in WaitRow /\ wait'.for = r /\ wait'.stream = "opening"
      /\ wait'.inbox = <<>> /\ Len(wait'.inbox) = 0 /\ DOMAIN wait'.inbox = {}
    <2>1. NoWait \in WaitRow /\ wait' = [NoWait EXCEPT !.for = r, !.stream = "opening"]
        BY NoWaitIs DEF PostAnswered
    <2>2. wait' \in WaitRow /\ wait'.for = r /\ wait'.stream = "opening" /\ wait'.inbox = NoWait.inbox
        BY <2>1 DEF WaitRow
    <2> QED BY <2>2, NoWaitIs
<1>3. post \in [Requests -> PostState] /\ r # 0
    BY RequestsAreNat DEF IInv, Types
<1>4. Types'
    BY <1>1, <1>2, <1>3 DEF IInv, Types, PostState, lifeVars
<1>5. HeardOnce'
    <2>1. Cardinality(announced) \in Nat
        BY EventsAreFinite, FS_Subset, FS_CardinalityType DEF IInv, Types
    <2> QED BY <1>1, <1>2, <2>1 DEF HeardOnce
<1>6. PressesInOrder' /\ EndsAreTrue'
    BY <1>1, <1>2, <1>3 DEF IInv, PressesInOrder, EndsAreTrue, lifeVars
<1>7. LastPressWaits'
    <2>1. \A q \in Requests : Settled(q) => Settled(q)'
        BY <1>1, <1>3 DEF Settled, lifeVars
    <2>2. ~crossed => \A q \in Requests : r < q => post[q] = "none"
        BY <1>1 DEF IInv, LastPressWaits
    <2>3. \A q \in Requests : (post'[q] = "none" <=> post[q] = "none")
                            /\ (post'[q] \in {"sent", "asked"} => post[q] \in {"sent", "asked"})
        BY <1>1, <1>3
    <2>4. \A q \in Requests : ~(q < q)
        BY RequestsAreNat
    <2> QED BY <1>1, <1>2, <2>1, <2>2, <2>3, <2>4 DEF IInv, LastPressWaits
<1>8. InboxIsOwn'
    BY <1>1, <1>2, <1>3 DEF InboxIsOwn
<1>9. Grows
    BY <1>1 DEF Grows, lifeVars
<1>10. LoadsAreOwn' /\ WaitBringsItsDocument' /\ ExportIsShown' /\ ClaimsAreOfDocument'
    BY <1>1, <1>9, LoadsStay, ShownStays, ClaimsStay
<1> QED BY <1>4, <1>5, <1>6, <1>7, <1>8, <1>10 DEF IInv

LEMMA PostHandledKeeps ==
    ASSUME IInv, NEW r \in Requests, PostHandled(r)
    PROVE  IInv'
<1>1. /\ post[r] \in {"sent", "left"}
      /\ post' = [post EXCEPT ![r] = IF @ = "sent" THEN "asked" ELSE "done"]
      /\ r \notin requested /\ requested' = requested \cup {r} /\ UNCHANGED <<runs, docs>>
      /\ UNCHANGED <<announced, wait, loads, page, reloads, crossed, switched>>
    BY DEF PostHandled, Ask
<1>2. post \in [Requests -> PostState]
    BY DEF IInv, Types
<1>3. Types'
    BY <1>1, <1>2 DEF IInv, Types, PostState
<1>4. HeardOnce' /\ EndsAreTrue' /\ InboxIsOwn'
    <2>1. wait.for # 0 => wait.for \in Requests
        BY DEF IInv, Types, WaitRow
    <2> QED BY <1>1, <1>2, <2>1 DEF IInv, HeardOnce, EndsAreTrue, InboxIsOwn
<1>5. PressesInOrder'
    BY <1>1, <1>2 DEF IInv, PressesInOrder
<1>6. LastPressWaits'
    <2>1. ~Settled(r)
        BY <1>1 DEF Settled
    <2>2. \A q \in Requests : q # r /\ Settled(q) => Settled(q)'
        BY <1>1, <1>2 DEF Settled
    <2>3. ~crossed => \A q \in Requests : r < q => post[q] = "none"
        BY <2>1 DEF IInv, LastPressWaits
    <2> QED BY <1>1, <1>2, <2>2, <2>3 DEF IInv, LastPressWaits
<1>7. Grows
    BY <1>1 DEF Grows
<1>8. LoadsAreOwn' /\ WaitBringsItsDocument' /\ ExportIsShown' /\ ClaimsAreOfDocument'
    BY <1>1, <1>7, LoadsStay, ShownStays, ClaimsStay
<1> QED BY <1>3, <1>4, <1>5, <1>6, <1>8 DEF IInv

LEMMA GenerateKeeps ==
    ASSUME IInv, NEW r \in Requests, Generate(r)
    PROVE  IInv'
<1>1. /\ post[r] = "none" /\ \A q \in Requests : q < r => post[q] # "none"
      /\ post' = [post EXCEPT ![r] = "sent"]
      /\ crossed' = (crossed \/ Busy \/ \E q \in 1..(r - 1) : ~Settled(q))
      /\ switched' = (switched \/ page.export # 0)
      /\ UNCHANGED <<lifeVars, announced, wait, loads, reloads>>
    BY DEF Generate
<1>2. post \in [Requests -> PostState] /\ {crossed, switched} \subseteq BOOLEAN /\ wait \in WaitRow
    BY DEF IInv, Types
<1>3. /\ page' \in Page /\ page'.for = 0 /\ page'.document = 0 /\ page'.export = page.export
    BY DEF Generate, IInv, Types, Page
<1>4. /\ crossed' \in BOOLEAN /\ (crossed => crossed')
      /\ ~crossed' => /\ wait.for = 0 /\ \A q \in Requests : post[q] \notin {"sent", "asked"}
                      /\ \A q \in Requests : q < r => Settled(q)
    <2>1. \A q \in Requests : q < r => q \in 1..(r - 1)
        BY RequestsAreNat
    <2> QED BY <1>1, <1>2, <2>1 DEF Busy
<1>5. Types'
    BY <1>1, <1>2, <1>3, <1>4 DEF IInv, Types, PostState, lifeVars
<1>6. HeardOnce' /\ EndsAreTrue' /\ InboxIsOwn'
    <2>1. wait.for # 0 => wait.for \in Requests
        BY <1>2 DEF WaitRow
    <2> QED BY <1>1, <1>2, <1>4, <2>1 DEF IInv, HeardOnce, EndsAreTrue, InboxIsOwn, lifeVars
<1>7. PressesInOrder'
    BY <1>1, <1>2, RequestsAreNat DEF IInv, PressesInOrder, lifeVars
<1>8. LastPressWaits'
    <2>1. \A q \in Requests : q # r /\ Settled(q) => Settled(q)'
        BY <1>1, <1>2 DEF Settled, lifeVars
    <2>2. \A q \in Requests : r < q => post[q] = "none"
        BY <1>1 DEF IInv, PressesInOrder
    <2>3. \A q \in Requests : ~(r < r) /\ wait.for = q => wait.for # 0
        BY RequestsAreNat
    <2> QED BY <1>1, <1>2, <1>4, <2>1, <2>2, <2>3, RequestsAreNat DEF IInv, LastPressWaits
<1>9. Grows
    BY <1>1 DEF Grows, lifeVars
<1>10. LoadsAreOwn' /\ WaitBringsItsDocument'
    BY <1>1, <1>3, <1>4, <1>9, LoadsStay, ShownStays
<1>11. ExportIsShown' /\ ClaimsAreOfDocument'
    BY <1>1, <1>3 DEF ExportIsShown, ClaimsAreOfDocument
<1> QED BY <1>5, <1>6, <1>7, <1>8, <1>10, <1>11 DEF IInv
-----------------------------------------------------------------------------
(* Steps of the worker. *)

LEMMA RunBeginsKeeps ==
    ASSUME IInv, NEW r \in Requests, RunBegins(r)
    PROVE  IInv'
<1> DEFINE row == [request |-> r, status |-> "running"]
           n == Len(runs) + 1
<1>1. /\ r \in requested /\ Len(runs) < MaxRuns /\ runs' = Append(runs, row)
      /\ crossed' = (crossed \/ \E q \in Requests : q > r /\ post[q] # "none")
      /\ UNCHANGED <<requested, docs, announced, post, wait, loads, page, reloads, switched>>
    BY DEF RunBegins, Begin
<1>2. row \in RunRow /\ row.request = r /\ row.status = "running"
    BY DEF RunRow
<1>3. Len(runs) \in Nat /\ DOMAIN runs = 1..Len(runs)
    BY RunsAre DEF IInv
<1>4. /\ runs' \in Seq(RunRow) /\ Len(runs') = n /\ DOMAIN runs' = 1..n
      /\ runs'[n] = row /\ \A k \in DOMAIN runs : runs'[k] = runs[k]
    <2> HIDE DEF row
    <2> QED BY <1>1, <1>2, AppendProperties DEF IInv, Types
<1>5. /\ Len(runs') <= MaxRuns /\ n \notin DOMAIN runs
      /\ \A k \in DOMAIN runs' : k \in DOMAIN runs \/ k = n
      /\ n \in DOMAIN runs' /\ DOMAIN runs \subseteq DOMAIN runs'
    BY <1>1, <1>3, <1>4, BoundsAreNat
<1> HIDE DEF row, n
<1>6. crossed' \in BOOLEAN /\ (crossed => crossed')
      /\ (~crossed' => \A q \in Requests : r < q => post[q] = "none")
    <2>1. \A q \in Requests : r < q => q > r
        BY RequestsAreNat
    <2> QED BY <1>1, <2>1 DEF IInv, Types
<1>7. Types'
    BY <1>1, <1>4, <1>5, <1>6 DEF IInv, Types
<1>8. Grows
    BY <1>1, <1>4, <1>5 DEF Grows
<1>9. PressesInOrder'
    BY <1>1, <1>2, <1>4, <1>5 DEF IInv, PressesInOrder
<1>10. EndsAreTrue'
    BY <1>1, <1>2, <1>4, <1>5 DEF IInv, EndsAreTrue
<1>11. LastPressWaits'
    <2>1. \A q \in Requests : q # r /\ Settled(q) => Settled(q)'
        BY <1>1, <1>2, <1>4, <1>5, <1>8, SettledStays
    <2> QED BY <1>1, <1>6, <2>1 DEF IInv, LastPressWaits
<1>12. InboxIsOwn'
    <2>1. \A i \in DOMAIN wait.inbox : wait.inbox[i].run \in DOMAIN runs
        BY DEF IInv, EndsAreTrue
    <2> QED BY <1>1, <1>4, <1>6, <2>1 DEF IInv, InboxIsOwn
<1>13. HeardOnce' /\ LoadsAreOwn' /\ WaitBringsItsDocument' /\ ExportIsShown' /\ ClaimsAreOfDocument'
    BY <1>1, <1>6, <1>8, LoadsStay, ShownStays, ClaimsStay DEF IInv, HeardOnce
<1> QED BY <1>7, <1>9, <1>10, <1>11, <1>12, <1>13 DEF IInv

LEMMA RunMovesKeeps ==
    ASSUME IInv, NEW k \in DOMAIN runs, RunMoves(k)
    PROVE  IInv'
<1>1. UNCHANGED <<requested, announced, post, wait, loads, page, reloads, crossed, switched>>
    BY DEF RunMoves, Succeed, Stop, Overwrite, Ends, pageVars
<1>2. PICK status \in {"succeeded", "failed", "cancelled"} :
          /\ runs' = [runs EXCEPT ![k].status = status]
          /\ runs[k].status \in {"running", "succeeded"}
          /\ status = "succeeded" => docs' = docs \cup {k}
          /\ status # "succeeded" => UNCHANGED docs
    BY DEF RunMoves, Succeed, Stop, Overwrite, Ends
<1>3. runs \in Seq(RunRow) /\ Len(runs) \in Nat /\ DOMAIN runs = 1..Len(runs) /\ runs[k] \in RunRow
    BY RunsAre DEF IInv, Types
<1> DEFINE row == [runs[k] EXCEPT !.status = status]
<1>4. row \in RunRow /\ row.request = runs[k].request /\ row.status = status
    BY <1>3 DEF RunRow
<1>5. runs' = [runs EXCEPT ![k] = row]
    BY <1>2
<1> HIDE DEF row
<1>6. /\ runs' \in Seq(RunRow) /\ Len(runs') = Len(runs) /\ DOMAIN runs' = DOMAIN runs
      /\ runs'[k] = row /\ \A j \in DOMAIN runs \ {k} : runs'[j] = runs[j]
    BY <1>3, <1>4, <1>5, ExceptSeq
<1>7. \A j \in DOMAIN runs : runs'[j].request = runs[j].request
    BY <1>4, <1>6
<1>8. docs \subseteq docs' /\ docs' \subseteq DOMAIN runs
    BY <1>2 DEF IInv, Types
<1>9. Types'
    BY <1>1, <1>6, <1>8 DEF IInv, Types
<1>10. Grows
    BY <1>1, <1>6, <1>7, <1>8 DEF Grows
<1>11. PressesInOrder'
    BY <1>1, <1>6, <1>7 DEF IInv, PressesInOrder
<1>12. EndsAreTrue'
    <2>1. \A j \in DOMAIN runs' : runs'[j].status = "succeeded" => j \in docs'
        BY <1>2, <1>4, <1>6, <1>8 DEF IInv, EndsAreTrue
    <2>2. \A e \in announced : e.name = "failed" => e.run # k
        BY <1>2 DEF IInv, EndsAreTrue
    <2> QED BY <1>1, <1>6, <1>8, <2>1, <2>2 DEF IInv, EndsAreTrue
<1>13. LastPressWaits'
    <2>1. \A q \in Requests : Settled(q) => Settled(q)'
        BY <1>1, <1>6, <1>10, SettledStays
    <2> QED BY <1>1, <2>1 DEF IInv, LastPressWaits
<1>14. InboxIsOwn'
    <2>1. \A i \in DOMAIN wait.inbox : wait.inbox[i].run \in DOMAIN runs
        BY DEF IInv, EndsAreTrue
    <2> QED BY <1>1, <1>7, <2>1 DEF IInv, InboxIsOwn
<1>15. HeardOnce' /\ LoadsAreOwn' /\ WaitBringsItsDocument' /\ ExportIsShown' /\ ClaimsAreOfDocument'
    BY <1>1, <1>10, LoadsStay, ShownStays, ClaimsStay DEF IInv, HeardOnce
<1> QED BY <1>9, <1>11, <1>12, <1>13, <1>14, <1>15 DEF IInv

LEMMA PublishKeeps ==
    ASSUME IInv, NEW k \in DOMAIN runs, Publish(k)
    PROVE  IInv'
<1> DEFINE e == [run |-> k, name |-> EndOf(k)]
<1>1. /\ runs[k].status # "running" /\ e \notin announced /\ announced' = announced \cup {e}
      /\ (wait.stream = "open" /\ Hears(e)) \/ UNCHANGED wait
      /\ UNCHANGED <<lifeVars, post, loads, page, reloads, crossed, switched>>
    BY DEF Publish
<1>2. k \in Runs /\ runs[k] \in RunRow /\ k \in Nat
    BY RunsAre DEF IInv, Types
<1>3. /\ e \in Event /\ e.run = k /\ e.name \in {"completed", "failed"}
      /\ e.name = "completed" <=> runs[k].status = "succeeded"
      /\ e.name = "failed" => runs[k].status \in {"failed", "cancelled"}
    BY <1>1, <1>2 DEF EndOf, Event, RunRow
<1>4. \A f \in Event : f.run = k /\ f.name = e.name => f = e
    BY <1>3 DEF Event
<1> HIDE DEF e
<1>5. wait \in WaitRow /\ Len(wait.inbox) \in Nat /\ DOMAIN wait.inbox = 1..Len(wait.inbox)
    BY LenProperties DEF IInv, Types, WaitRow
<1>6. /\ wait' \in WaitRow /\ wait'.for = wait.for /\ wait'.stream = wait.stream
      /\ Len(wait'.inbox) <= Len(wait.inbox) + 1 /\ Len(wait'.inbox) \in Nat
      /\ \A i \in DOMAIN wait'.inbox :
            \/ i \in DOMAIN wait.inbox /\ wait'.inbox[i] = wait.inbox[i]
            \/ wait.stream = "open" /\ wait'.inbox[i] = e
    <2>1. CASE UNCHANGED wait
        BY <1>5, <2>1
    <2>2. CASE wait.stream = "open" /\ wait' = [wait EXCEPT !.inbox = Append(@, e)]
        <3> DEFINE longer == Append(wait.inbox, e)
        <3>1. wait.inbox \in Seq(Event)
            BY <1>5 DEF WaitRow
        <3>2. /\ longer \in Seq(Event) /\ Len(longer) = Len(wait.inbox) + 1
              /\ DOMAIN longer = 1..(Len(wait.inbox) + 1)
              /\ longer[Len(wait.inbox) + 1] = e
              /\ \A i \in 1..Len(wait.inbox) : longer[i] = wait.inbox[i]
            BY <1>3, <1>5, <3>1, AppendProperties
        <3>3. wait' = [wait EXCEPT !.inbox = longer]
            BY <2>2
        <3> HIDE DEF longer
        <3>4. /\ wait' \in WaitRow /\ wait'.for = wait.for /\ wait'.stream = wait.stream
              /\ wait'.inbox = longer
            BY <1>5, <3>2, <3>3 DEF WaitRow
        <3>5. \A i \in 1..(Len(wait.inbox) + 1) :
                  i \in 1..Len(wait.inbox) \/ i = Len(wait.inbox) + 1
            BY <1>5
        <3> QED BY <1>5, <2>2, <3>2, <3>4, <3>5
    <2> QED BY <1>1, <2>1, <2>2 DEF Hears
<1>7. Types'
    BY <1>1, <1>3, <1>6 DEF IInv, Types, lifeVars
<1>8. HeardOnce'
    <2>1. IsFiniteSet(announced) /\ Cardinality(announced) \in Nat
        BY EventsAreFinite, FS_Subset, FS_CardinalityType DEF IInv, Types
    <2>2. Cardinality(announced') = Cardinality(announced) + 1
        BY <1>1, <2>1, FS_AddElement
    <2> QED BY <1>5, <1>6, <2>1, <2>2 DEF IInv, HeardOnce
<1>9. Grows
    BY <1>1 DEF Grows, lifeVars
<1>10. PressesInOrder'
    BY <1>1 DEF IInv, PressesInOrder, lifeVars
<1>11. EndsAreTrue'
    BY <1>1, <1>3, <1>6 DEF IInv, EndsAreTrue, lifeVars
<1>12. LastPressWaits'
    <2>1. \A q \in Requests : Settled(q) => Settled(q)'
        BY <1>1, <1>9, SettledStays DEF lifeVars
    <2> QED BY <1>1, <1>6, <2>1 DEF IInv, LastPressWaits
<1>13. InboxIsOwn'
    <2>1. ASSUME ~crossed, wait.stream = "open", e.name = "completed"
          PROVE  runs[k].request = wait.for
        <3> DEFINE q == runs[k].request
        <3>1. q \in Requests /\ q \in requested /\ post[q] # "none"
            BY DEF IInv, Types, PressesInOrder
        <3>2. wait.for \in Requests /\ post[wait.for] # "none"
            BY <1>5, <2>1 DEF IInv, InboxIsOwn, WaitRow
        <3>3. ~Settled(q)
            <4>1. SUFFICES ASSUME NEW f \in announced, f.run = k PROVE FALSE
                BY DEF Settled
            <4>2. f \in Event
                BY DEF IInv, Types
            <4>3. CASE f.name = "completed"
                BY <1>1, <1>4, <2>1, <4>1, <4>2, <4>3
            <4>4. CASE f.name = "failed"
                BY <1>3, <2>1, <4>1, <4>4 DEF IInv, EndsAreTrue
            <4> QED BY <4>2, <4>3, <4>4 DEF Event
        <3>4. ~(q < wait.for) /\ ~(wait.for < q)
            BY <2>1, <3>1, <3>2, <3>3 DEF IInv, LastPressWaits
        <3>5. q \in Nat /\ wait.for \in Nat
            BY <3>1, <3>2, RequestsAreNat
        <3> HIDE DEF q
        <3>6. q = wait.for
            BY <3>4, <3>5
        <3> QED BY <3>6 DEF q
    <2> QED BY <1>1, <1>3, <1>6, <2>1 DEF IInv, InboxIsOwn, lifeVars
<1>14. LoadsAreOwn' /\ WaitBringsItsDocument' /\ ExportIsShown' /\ ClaimsAreOfDocument'
    BY <1>1, <1>9, LoadsStay, ShownStays, ClaimsStay
<1> QED BY <1>7, <1>8, <1>10, <1>11, <1>12, <1>13, <1>14 DEF IInv

-----------------------------------------------------------------------------
(* The theorems. *)

LEMMA InitIInv == Init => IInv
<1> SUFFICES ASSUME Init PROVE IInv
    OBVIOUS
<1> USE DEF Init, LifeInit
<1>1. page \in Page /\ page.for = 0 /\ page.document = 0 /\ page.export = 0
    BY DEF Fresh, Page
<1>2. runs \in Seq(RunRow) /\ Len(runs) = 0 /\ DOMAIN runs = {}
    BY EmptySeq
<1>3. Types
    <2>1. 0 \in 0..MaxReloads /\ 0 <= MaxRuns
        BY BoundsAreNat
    <2>2. post \in [Requests -> PostState]
        BY DEF PostState
    <2> QED BY <1>1, <1>2, <2>1, <2>2, NoWaitIs DEF Types
<1>4. HeardOnce
    BY NoWaitIs, FS_EmptySet DEF HeardOnce
<1>5. PressesInOrder /\ EndsAreTrue /\ LastPressWaits
    BY <1>2, NoWaitIs DEF PressesInOrder, EndsAreTrue, LastPressWaits
<1>6. InboxIsOwn /\ LoadsAreOwn /\ WaitBringsItsDocument
    BY <1>1, NoWaitIs DEF InboxIsOwn, LoadsAreOwn, WaitBringsItsDocument
<1>7. ExportIsShown /\ ClaimsAreOfDocument
    BY <1>1 DEF ExportIsShown, ClaimsAreOfDocument
<1> QED BY <1>3, <1>4, <1>5, <1>6, <1>7 DEF IInv

LEMMA NextIInv == IInv /\ [Next]_vars => IInv'
<1> SUFFICES ASSUME IInv, [Next]_vars PROVE IInv'
    OBVIOUS
<1>1. CASE UNCHANGED vars
    BY <1>1 DEF vars, pageVars, lifeVars, IInv, Types, HeardOnce, PressesInOrder, EndsAreTrue,
       LastPressWaits, Settled, InboxIsOwn, LoadsAreOwn, IsOwn, WaitBringsItsDocument,
       ExportIsShown, ClaimsAreOfDocument
<1>2. CASE \E r \in Requests : RunBegins(r) \/ PostHandled(r) \/ PostAnswered(r) \/ PostFails(r)
    BY <1>2, RunBeginsKeeps, PostHandledKeeps, PostAnsweredKeeps, PostFailsKeeps
<1>3. CASE \E k \in DOMAIN runs : RunMoves(k) \/ Publish(k)
    BY <1>3, RunMovesKeeps, PublishKeeps
<1>4. CASE \E r \in Requests : Generate(r)
    BY <1>4, GenerateKeeps
<1>5. CASE Subscribe \/ StreamFails \/ StreamEndsQuietly \/ TimeOut
    BY <1>5, StreamKeeps
<1>6. CASE Forward
    BY <1>6, ForwardKeeps
<1>7. CASE (\E k \in Runs : Pick(k)) \/ (\E l \in loads : LoadEnds(l) \/ LoadFails(l))
    BY <1>7, LoadKeeps
<1>8. CASE Export \/ ExportEnds
    BY <1>8, ExportKeeps
<1>9. CASE Reload
    BY <1>9, ReloadKeeps
<1> QED BY <1>1, <1>2, <1>3, <1>4, <1>5, <1>6, <1>7, <1>8, <1>9 DEF Next

\* The invariant holds in every reachable state.
THEOREM Inductive == Spec => []IInv
<1>1. Init => IInv
    BY InitIInv
<1>2. IInv /\ [Next]_vars => IInv'
    BY NextIInv
<1> QED BY <1>1, <1>2, PTL DEF Spec

\* The variables have their types; a wait hears of each run at most two ends, for nothing
\* is published twice (publish_event, waitForCompletion).
THEOREM TypesHold == Spec => []TypeOK
<1>1. IInv => TypeOK
    <2> SUFFICES ASSUME IInv PROVE TypeOK
        OBVIOUS
    <2>1. docs \subseteq Runs
        BY RunsAre DEF IInv, Types
    <2>2. wait \in Wait
        <3>1. Len(wait.inbox) \in Nat /\ wait.inbox \in [1..Len(wait.inbox) -> Event]
            BY LenProperties DEF IInv, Types, WaitRow
        <3>2. Cardinality(announced) <= Cardinality(Event) /\ Cardinality(announced) \in Nat
            BY EventsAreFinite, FS_Subset, FS_CardinalityType DEF IInv, Types
        <3>3. Cardinality(Event) \in Nat /\ 2 * MaxRuns \in Nat
            BY EventsAreFinite, FS_CardinalityType, BoundsAreNat
        <3>4. Len(wait.inbox) \in 0..2 * MaxRuns
            <4>1. Len(wait.inbox) <= Cardinality(announced)
                BY DEF IInv, HeardOnce
            <4>2. Cardinality(Event) <= 2 * MaxRuns
                BY EventsAreFinite
            <4> QED BY <3>1, <3>2, <3>3, <4>1, <4>2
        <3>5. wait.inbox \in UNION {[1..n -> Event] : n \in 0..2 * MaxRuns}
            BY <3>1, <3>4
        <3>6. wait \in WaitRow
            BY DEF IInv, Types
        <3> QED BY <3>5, <3>6 DEF WaitRow, Wait
    <2> QED BY <2>1, <2>2 DEF IInv, Types, TypeOK, RunRow
<1> QED BY <1>1, Inductive, PTL

\* Whatever is lost, late or failed on the way, and however often the button is pressed,
\* a wait brings the document of its press, and claims are shown beside their document,
\* but for the overlaps that the history notes (generate, loadDocument, exportPdf).
THEOREM PageShows == Spec => []PageShowsItsOwn
<1>1. IInv => PageShowsItsOwn
    BY DEF IInv, PageShowsItsOwn
<1> QED BY <1>1, Inductive, PTL

=============================================================================
