--------------------------- MODULE Generation_proofs ---------------------------
(***************************************************************************)
(* Proofs about Generation, for any number of workers and requests, any    *)
(* drafts and any bounds: it implements GenerationLife, no request gets a  *)
(* second document without a crash, the units that were refused are not in *)
(* the stored document, and none is exported whose removal took what a     *)
(* supported claim quotes.  The first two need nothing of the texts, the   *)
(* last two little of the rows: each part has its invariant, IInv and      *)
(* TextsInv.                                                               *)
(***************************************************************************)
EXTENDS Generation, SequenceTheorems, FiniteSetTheorems, TLAPS

Busy(w) == run[w].pc # "idle"

\* The fields of a run and of a document; their texts are the matter of TextsInv.
IsRun(x) ==
    x \in [pc: {x.pc}, message: {x.message}, row: {x.row}, draft: {x.draft},
           content: {x.content}, verified: {x.verified}, claims: {x.claims}]

IsDocument(d) ==
    d \in [row: {d.row}, content: {d.content}, verified: {d.verified},
           claims: {d.claims}, exported: {d.exported}]

\* Whatever is under way was asked for.
Structure ==
    /\ asked \subseteq Requests
    /\ queue \subseteq Message /\ \A m \in queue : m.request \in asked
    /\ rows \in Seq(Row) /\ \A k \in DOMAIN rows : rows[k].request \in asked
    /\ run = [w \in Workers |-> run[w]] /\ \A w \in Workers : IsRun(run[w])
    /\ \A d \in documents : IsDocument(d) /\ d.row \in DOMAIN rows

\* The status a run's row has while a worker is at it.
StatusAt(pc) == CASE pc = "announce" -> "succeeded" [] pc = "clear" -> "cancelled"
                  [] OTHER -> "running"

\* A worker works on a message and on its row, which tells how far it is.
RowFollowsRun ==
    \A w \in Workers : Busy(w) =>
        /\ run[w].row \in DOMAIN rows
        /\ rows[run[w].row].status = StatusAt(run[w].pc)
        /\ rows[run[w].row].mishap = "none"
        /\ \E m \in Message : run[w].message = {m} /\ m.request = rows[run[w].row].request

RowsAreOwned ==
    \A v, w \in Workers : Busy(v) /\ Busy(w) /\ run[v].row = run[w].row => v = w

\* A message is waiting for the first time, or since its last run crashed.
WaitingOnce ==
    /\ \A m, n \in queue : m.request = n.request => m = n
    /\ \A m \in queue, k \in DOMAIN rows :
          rows[k].request = m.request => rows[k].mishap = "crashed"

SecondRowNeedsCrash ==
    \A j, k \in DOMAIN rows :
        j < k /\ rows[j].request = rows[k].request => rows[j].mishap = "crashed"

\* The inductive invariant.
IInv == Structure /\ RowFollowsRun /\ RowsAreOwned /\ WaitingOnce /\ SecondRowNeedsCrash
-----------------------------------------------------------------------------
(* What a worker's step does to its run, and to the row of it. *)

\* Only the run of w changes.
Only(w, x) ==
    /\ run' = [v \in Workers |-> run'[v]]
    /\ run'[w] = x
    /\ \A v \in Workers \ {w} : run'[v] = run[v]

LEMMA OnlyOne ==
    ASSUME Structure, NEW w \in Workers, NEW x, run' = [run EXCEPT ![w] = x]
    PROVE  Only(w, x)
<1>1. run' = [v \in Workers |-> IF v = w THEN x ELSE run[v]]
    BY DEF Structure
<1> QED BY <1>1 DEF Only

\* Of the rows only the k-th changes, and keeps its request.
Wrote(k, status, mishap) ==
    /\ rows' \in Seq(Row) /\ DOMAIN rows' = DOMAIN rows
    /\ \A j \in DOMAIN rows \ {k} : rows'[j] = rows[j]
    /\ rows'[k].request = rows[k].request
    /\ rows'[k].status = status /\ rows'[k].mishap = mishap

LEMMA RowsAreRows ==
    ASSUME Structure, NEW k \in DOMAIN rows
    PROVE  /\ rows[k] \in Row /\ k \in Nat /\ DOMAIN rows = 1..Len(rows) /\ Len(rows) \in Nat
BY DEF Structure

LEMMA WroteNothing ==
    ASSUME Structure, NEW k \in DOMAIN rows, UNCHANGED rows
    PROVE  Wrote(k, rows[k].status, rows[k].mishap)
BY DEF Structure, Wrote

LEMMA WroteRow ==
    ASSUME Structure, NEW k \in DOMAIN rows, NEW row \in Row, row.request = rows[k].request,
           rows' = [rows EXCEPT ![k] = row]
    PROVE  Wrote(k, row.status, row.mishap)
<1>1. rows' \in Seq(Row)
    BY RowsAreRows, ExceptSeq DEF Structure
<1> QED BY <1>1 DEF Wrote, Structure

LEMMA BusyRow ==
    ASSUME IInv, NEW w \in Workers, Busy(w)
    PROVE  LET k == run[w].row IN
           /\ k \in DOMAIN rows /\ rows[k] \in Row
           /\ rows[k].status = StatusAt(run[w].pc) /\ rows[k].mishap = "none"
BY RowsAreRows DEF IInv, RowFollowsRun

LEMMA IdleIs == IsRun(Idle) /\ Idle.pc = "idle"
BY DEF IsRun, Idle

\* The row of a busy worker is the last one of its request.
LEMMA LastOfItsRequest ==
    ASSUME IInv, NEW w \in Workers, Busy(w), NEW j \in DOMAIN rows, j # run[w].row,
           rows[j].request = rows[run[w].row].request
    PROVE  rows[j].mishap = "crashed"
<1> DEFINE k == run[w].row
<1>1. k \in DOMAIN rows /\ rows[k].mishap = "none"
    BY BusyRow
<1>2. j \in Nat /\ k \in Nat
    BY <1>1, RowsAreRows DEF IInv
<1>3. ~(k < j)
    BY <1>1 DEF IInv, SecondRowNeedsCrash
<1>4. j < k
    BY <1>2, <1>3
<1> QED BY <1>1, <1>4 DEF IInv, SecondRowNeedsCrash

\* A worker goes on with its row, or leaves it; a message goes back only after a crash.
LEMMA WorkerKeeps ==
    ASSUME IInv, NEW w \in Workers, Busy(w), NEW x, Only(w, x), IsRun(x),
           NEW status, NEW mishap, Wrote(run[w].row, status, mishap),
           \/ x.pc = "idle"
           \/ /\ x.message = run[w].message /\ x.row = run[w].row
              /\ status = StatusAt(x.pc) /\ mishap = "none",
           UNCHANGED asked,
           \/ UNCHANGED queue
           \/ queue' = queue \cup run[w].message /\ mishap = "crashed" /\ x.pc = "idle",
           \A d \in documents' : IsDocument(d) /\ d.row \in DOMAIN rows
    PROVE  IInv'
<1> DEFINE k == run[w].row
<1>1. k \in DOMAIN rows /\ rows[k].mishap = "none"
    BY BusyRow
<1>2. PICK m \in Message : run[w].message = {m} /\ m.request = rows[k].request
    BY DEF IInv, RowFollowsRun
<1>3. \A j \in DOMAIN rows' : j \in DOMAIN rows /\ rows'[j].request = rows[j].request
    BY DEF Wrote
<1>4. Structure'
    <2>1. queue' \subseteq Message /\ \A n \in queue' : n.request \in asked'
        BY <1>1, <1>2 DEF IInv, Structure
    <2>2. rows' \in Seq(Row) /\ \A j \in DOMAIN rows' : rows'[j].request \in asked'
        BY <1>3 DEF IInv, Structure, Wrote
    <2>3. run' = [v \in Workers |-> run'[v]] /\ \A v \in Workers : IsRun(run'[v])
        BY DEF IInv, Structure, Only
    <2>4. \A d \in documents' : IsDocument(d) /\ d.row \in DOMAIN rows'
        BY DEF Wrote
    <2> QED BY <2>1, <2>2, <2>3, <2>4 DEF IInv, Structure, IsRun, IsDocument
<1>5. RowFollowsRun'
    <2>1. ASSUME NEW v \in Workers, run'[v].pc # "idle"
          PROVE  /\ run'[v].row \in DOMAIN rows'
                 /\ rows'[run'[v].row].status = StatusAt(run'[v].pc)
                 /\ rows'[run'[v].row].mishap = "none"
                 /\ \E n \in Message :
                       run'[v].message = {n} /\ n.request = rows'[run'[v].row].request
        <3>1. CASE v = w
            BY <1>1, <1>2, <2>1, <3>1 DEF Only, Wrote
        <3>2. CASE v # w
            <4>1. run'[v] = run[v] /\ Busy(v) /\ run[v].row # k
                BY <2>1, <3>2 DEF Only, IInv, RowsAreOwned, Busy
            <4>2. run[v].row \in DOMAIN rows /\ rows'[run[v].row] = rows[run[v].row]
                BY <4>1, BusyRow DEF Wrote
            <4> QED BY <4>1, <4>2 DEF IInv, RowFollowsRun, Wrote
        <3> QED BY <3>1, <3>2
    <2> QED BY <2>1 DEF RowFollowsRun, Busy
<1>6. RowsAreOwned'
    <2>1. \A v \in Workers : run'[v].pc # "idle" => Busy(v) /\ run'[v].row = run[v].row
        BY DEF Only, Busy
    <2> QED BY <2>1 DEF IInv, RowsAreOwned, Busy
<1>7. WaitingOnce'
    <2>1. \A n \in queue : n.request # m.request
        BY <1>1, <1>2 DEF IInv, WaitingOnce
    <2>2. \A j \in DOMAIN rows : j # k /\ rows[j].request = m.request => rows[j].mishap = "crashed"
        BY <1>2, LastOfItsRequest
    <2>3. \A n1, n2 \in queue' : n1.request = n2.request => n1 = n2
        BY <1>2, <2>1 DEF IInv, WaitingOnce
    <2>4. ASSUME NEW n \in queue', NEW j \in DOMAIN rows', rows'[j].request = n.request
          PROVE  rows'[j].mishap = "crashed"
        <3>1. CASE n \in queue
            BY <1>2, <1>3, <2>1, <2>4, <3>1 DEF IInv, WaitingOnce, Wrote
        <3>2. CASE n = m /\ mishap = "crashed"
            BY <1>3, <2>2, <2>4, <3>2 DEF Wrote
        <3> QED BY <1>2, <2>4, <3>1, <3>2
    <2> QED BY <2>3, <2>4 DEF WaitingOnce
<1>8. SecondRowNeedsCrash'
    <2>1. ASSUME NEW i \in DOMAIN rows', NEW j \in DOMAIN rows', i < j,
                 rows'[i].request = rows'[j].request
          PROVE  rows'[i].mishap = "crashed"
        <3>1. rows[i].mishap = "crashed"
            BY <1>3, <2>1 DEF IInv, SecondRowNeedsCrash
        <3> QED BY <1>1, <1>3, <3>1 DEF Wrote
    <2> QED BY <2>1 DEF SecondRowNeedsCrash
<1> QED BY <1>4, <1>5, <1>6, <1>7, <1>8 DEF IInv

-----------------------------------------------------------------------------
(* What the watchers see. *)

watchedRuns == [k \in DOMAIN rows |-> [request |-> rows[k].request, status |-> rows[k].status]]
watchedDocs == {d.row : d \in documents}

LifeStep == [Life!LifeNext]_(Life!lifeVars)

LEMMA NothingSeen ==
    ASSUME UNCHANGED <<asked, watchedRuns, watchedDocs>>
    PROVE  LifeStep
BY DEF LifeStep, Life!lifeVars, watchedRuns, watchedDocs

\* A run that is seen to end.
LEMMA EndSeen ==
    ASSUME NEW k \in DOMAIN rows, NEW status, UNCHANGED asked,
           watchedRuns' = [watchedRuns EXCEPT ![k].status = status],
           \/ /\ rows[k].status = "running" /\ status = "succeeded"
              /\ watchedDocs' = watchedDocs \cup {k}
           \/ /\ rows[k].status = "running" /\ status \in {"failed", "cancelled"}
              /\ UNCHANGED watchedDocs
           \/ /\ rows[k].status = "succeeded" /\ status = "failed"
              /\ UNCHANGED watchedDocs
    PROVE  LifeStep
<1>1. k \in DOMAIN watchedRuns /\ watchedRuns[k].status = rows[k].status
    BY DEF watchedRuns
<1>2. Life!Succeed(k) \/ Life!Stop(k) \/ Life!Overwrite(k)
    BY <1>1 DEF Life!Succeed, Life!Stop, Life!Overwrite, Life!Ends, watchedRuns, watchedDocs
<1> QED BY <1>1, <1>2 DEF LifeStep, Life!LifeNext, watchedRuns

LEMMA WroteSeen ==
    ASSUME NEW k \in DOMAIN rows, NEW status, NEW mishap, Wrote(k, status, mishap)
    PROVE  watchedRuns' = [watchedRuns EXCEPT ![k].status = status]
BY DEF Wrote, watchedRuns

LEMMA StatusKept ==
    ASSUME NEW k \in DOMAIN rows, NEW mishap, Wrote(k, rows[k].status, mishap)
    PROVE  UNCHANGED watchedRuns
BY DEF Wrote, watchedRuns
-----------------------------------------------------------------------------
(* The steps of a worker. *)

\* Steps before the document is stored leave the tables alone.
Working == {"enter", "position", "write", "verify", "judge", "persist", "cancelled"}

LEMMA Advances ==
    ASSUME IInv, NEW w \in Workers,
           \/ GenEnter(w) \/ GenPosition(w) \/ GenWrite(w)
           \/ GenVerify(w) \/ GenRepair(w) \/ GenRemove(w)
    PROVE  /\ run[w].pc \in Working /\ Busy(w)
           /\ UNCHANGED <<queue, rows, documents, asked>>
           /\ \E x : /\ Only(w, x) /\ IsRun(x) /\ x.pc \in Working
                    /\ x.message = run[w].message /\ x.row = run[w].row
<1> USE DEF outside, Working, Busy
<1>1. ASSUME NEW x, IsRun(x), x.pc \in Working,
             x.message = run[w].message, x.row = run[w].row, run' = [run EXCEPT ![w] = x]
      PROVE  \E y : /\ Only(w, y) /\ IsRun(y) /\ y.pc \in Working
                   /\ y.message = run[w].message /\ y.row = run[w].row
    BY <1>1, OnlyOne DEF IInv
<1>2. IsRun(run[w]) /\ run = [u \in Workers |-> run[u]]
    BY DEF IInv, Structure
<1>3. CASE GenEnter(w)
    <2> DEFINE x == [run[w] EXCEPT !.pc = IF flag THEN "cancelled" ELSE "position"]
    <2>1. /\ IsRun(x) /\ x.pc \in Working
          /\ x.message = run[w].message /\ x.row = run[w].row
        BY <1>2 DEF IsRun
    <2>2. run' = [run EXCEPT ![w] = x]
        BY <1>3 DEF GenEnter
    <2> HIDE DEF x
    <2> QED BY <1>1, <1>3, <2>1, <2>2 DEF GenEnter, At
<1>4. CASE GenPosition(w)
    <2> DEFINE x == [run[w] EXCEPT !.pc = IF flag THEN "cancelled" ELSE "write"]
    <2>1. /\ IsRun(x) /\ x.pc \in Working
          /\ x.message = run[w].message /\ x.row = run[w].row
        BY <1>2 DEF IsRun
    <2>2. run' = [run EXCEPT ![w] = x]
        BY <1>4 DEF GenPosition
    <2> HIDE DEF x
    <2> QED BY <1>1, <1>4, <2>1, <2>2 DEF GenPosition, At
<1>5. CASE GenWrite(w)
    <2>1. PICK c :
              run' = [run EXCEPT ![w].pc = "verify", ![w].content = c]
        BY <1>5 DEF GenWrite
    <2> DEFINE x == [run[w] EXCEPT !.pc = "verify", !.content = c]
    <2>2. /\ IsRun(x) /\ x.pc \in Working
          /\ x.message = run[w].message /\ x.row = run[w].row
        BY <1>2 DEF IsRun
    <2>3. run' = [run EXCEPT ![w] = x]
        BY <2>1
    <2> HIDE DEF x
    <2> QED BY <1>1, <1>5, <2>2, <2>3 DEF GenWrite, At
<1>6. CASE GenVerify(w)
    <2>1. PICK answer :
              run' = [run EXCEPT ![w].pc = "judge", ![w].claims = answer]
        BY <1>6 DEF GenVerify
    <2> DEFINE x == [run[w] EXCEPT !.pc = "judge", !.claims = answer]
    <2>2. /\ IsRun(x) /\ x.pc \in Working
          /\ x.message = run[w].message /\ x.row = run[w].row
        BY <1>2 DEF IsRun
    <2>3. run' = [run EXCEPT ![w] = x]
        BY <2>1
    <2> HIDE DEF x
    <2> QED BY <1>1, <1>6, <2>2, <2>3 DEF GenVerify, At
<1>7. CASE GenRepair(w)
    <2>1. PICK c :
              run' = [run EXCEPT ![w].pc = "verify", ![w].content = c, ![w].draft = @ + 1, ![w].claims = {}]
        BY <1>7 DEF GenRepair
    <2> DEFINE x == [run[w] EXCEPT !.pc = "verify", !.content = c, !.draft = @ + 1, !.claims = {}]
    <2>2. /\ IsRun(x) /\ x.pc \in Working
          /\ x.message = run[w].message /\ x.row = run[w].row
        BY <1>2 DEF IsRun
    <2>3. run' = [run EXCEPT ![w] = x]
        BY <2>1
    <2> HIDE DEF x
    <2> QED BY <1>1, <1>7, <2>2, <2>3 DEF GenRepair, At
<1>8. CASE GenRemove(w)
    <2>1. PICK c :
              run' = [run EXCEPT ![w].pc = "persist", ![w].verified = run[w].content, ![w].content = c]
        BY <1>8 DEF GenRemove
    <2> DEFINE x == [run[w] EXCEPT !.pc = "persist", !.verified = run[w].content, !.content = c]
    <2>2. /\ IsRun(x) /\ x.pc \in Working
          /\ x.message = run[w].message /\ x.row = run[w].row
        BY <1>2 DEF IsRun
    <2>3. run' = [run EXCEPT ![w] = x]
        BY <2>1
    <2> HIDE DEF x
    <2> QED BY <1>1, <1>8, <2>2, <2>3 DEF GenRemove, At
<1> QED BY <1>3, <1>4, <1>5, <1>6, <1>7, <1>8

LEMMA AdvanceKeeps ==
    ASSUME IInv, NEW w \in Workers,
           \/ GenEnter(w) \/ GenPosition(w) \/ GenWrite(w)
           \/ GenVerify(w) \/ GenRepair(w) \/ GenRemove(w)
    PROVE  IInv' /\ LifeStep
<1>1. /\ run[w].pc \in Working /\ Busy(w)
      /\ UNCHANGED <<queue, rows, documents, asked>>
    BY Advances
<1>2. PICK x : /\ Only(w, x) /\ IsRun(x) /\ x.pc \in Working
               /\ x.message = run[w].message /\ x.row = run[w].row
    BY Advances
<1> DEFINE k == run[w].row
<1>3. /\ k \in DOMAIN rows /\ rows[k].status = StatusAt(run[w].pc)
      /\ rows[k].mishap = "none"
    BY <1>1, BusyRow
<1>4. StatusAt(run[w].pc) = StatusAt(x.pc)
    BY <1>1, <1>2 DEF StatusAt, Working
<1>5. Wrote(k, StatusAt(x.pc), "none")
    BY <1>1, <1>3, <1>4, WroteNothing DEF IInv
<1>6. IInv'
    <2>1. \A d \in documents' : IsDocument(d) /\ d.row \in DOMAIN rows
        BY <1>1 DEF IInv, Structure
    <2>2. UNCHANGED asked /\ UNCHANGED queue
        BY <1>1
    <2> HIDE DEF k
    <2> QED BY <1>1, <1>2, <1>5, <2>1, <2>2, WorkerKeeps DEF k
<1>7. LifeStep
    BY <1>1, NothingSeen DEF watchedRuns, watchedDocs
<1> QED BY <1>6, <1>7

\* A worker leaves its row, with the status and the mishap that it writes.
LEMMA LeaveKeeps ==
    ASSUME IInv, NEW w \in Workers, Busy(w), run' = [run EXCEPT ![w] = Idle],
           NEW status, NEW mishap, Wrote(run[w].row, status, mishap),
           \/ UNCHANGED queue
           \/ queue' = queue \cup run[w].message /\ mishap = "crashed",
           UNCHANGED <<documents, asked>>
    PROVE  IInv'
<1>1. Only(w, Idle)
    BY OnlyOne DEF IInv
<1>2. \A d \in documents' : IsDocument(d) /\ d.row \in DOMAIN rows
    BY DEF IInv, Structure
<1> QED BY <1>1, <1>2, IdleIs, WorkerKeeps

LEMMA PersistKeeps ==
    ASSUME IInv, NEW w \in Workers, GenPersist(w)
    PROVE  IInv' /\ LifeStep
<1> DEFINE k == run[w].row
           x == [Idle EXCEPT !.pc = "announce", !.message = run[w].message, !.row = k]
           doc == [row |-> k, content |-> run[w].content, verified |-> run[w].verified,
                   claims |-> run[w].claims, exported |-> FALSE]
<1>1. Busy(w) /\ run[w].pc = "persist" /\ UNCHANGED <<queue, asked>>
    BY DEF GenPersist, At, Busy, outside
<1>2. k \in DOMAIN rows /\ rows[k] \in Row /\ rows[k].status = "running" /\ rows[k].mishap = "none"
    BY <1>1, BusyRow DEF StatusAt
<1>3. Wrote(k, "succeeded", "none")
    <2> DEFINE row == [rows[k] EXCEPT !.status = "succeeded"]
    <2>1. row \in Row /\ row.request = rows[k].request /\ row.status = "succeeded" /\ row.mishap = "none"
        BY <1>2 DEF Row, RowStatus
    <2>2. rows' = [rows EXCEPT ![k] = row]
        BY DEF GenPersist
    <2> HIDE DEF row, k
    <2> QED BY <1>2, <2>1, <2>2, WroteRow DEF IInv
<1>4. /\ IsRun(x) /\ x.pc = "announce" /\ x.message = run[w].message /\ x.row = k
      /\ StatusAt(x.pc) = "succeeded"
    BY DEF IsRun, Idle, StatusAt
<1>5. run' = [run EXCEPT ![w] = x]
    BY DEF GenPersist
<1>6. documents' = documents \cup {doc} /\ IsDocument(doc) /\ doc.row = k
    BY DEF GenPersist, IsDocument
<1> HIDE DEF x, doc
<1>7. Only(w, x)
    BY <1>5, OnlyOne DEF IInv
<1>8. \A d \in documents' : IsDocument(d) /\ d.row \in DOMAIN rows
    BY <1>2, <1>6 DEF IInv, Structure
<1>9. IInv'
    BY <1>1, <1>3, <1>4, <1>7, <1>8, WorkerKeeps
<1>10. LifeStep
    <2>1. watchedRuns' = [watchedRuns EXCEPT ![k].status = "succeeded"]
        BY <1>2, <1>3, WroteSeen
    <2>2. watchedDocs' = watchedDocs \cup {k}
        BY <1>6 DEF watchedDocs
    <2> QED BY <1>1, <1>2, <2>1, <2>2, EndSeen
<1> QED BY <1>9, <1>10

LEMMA AnnounceKeeps ==
    ASSUME IInv, NEW w \in Workers, GenAnnounce(w) \/ GenClear(w)
    PROVE  IInv' /\ LifeStep
<1>1. Busy(w) /\ run' = [run EXCEPT ![w] = Idle] /\ UNCHANGED <<queue, rows, documents, asked>>
    BY DEF GenAnnounce, GenClear, At, Busy, outside
<1>2. run[w].row \in DOMAIN rows
    BY <1>1, BusyRow
<1>3. Wrote(run[w].row, rows[run[w].row].status, rows[run[w].row].mishap)
    BY <1>1, <1>2, WroteNothing DEF IInv
<1>4. IInv'
    BY <1>1, <1>3, LeaveKeeps
<1>5. LifeStep
    BY <1>1, NothingSeen DEF watchedRuns, watchedDocs
<1> QED BY <1>4, <1>5

LEMMA CancelledKeeps ==
    ASSUME IInv, NEW w \in Workers, GenCancelled(w)
    PROVE  IInv' /\ LifeStep
<1> DEFINE k == run[w].row
           x == [run[w] EXCEPT !.pc = "clear"]
<1>1. /\ Busy(w) /\ run[w].pc = "cancelled"
      /\ UNCHANGED <<queue, documents, asked>>
    BY DEF GenCancelled, At, Busy, outside
<1>2. k \in DOMAIN rows /\ rows[k] \in Row /\ rows[k].status = "running" /\ rows[k].mishap = "none"
    BY <1>1, BusyRow DEF StatusAt
<1>3. Wrote(k, "cancelled", "none")
    <2> DEFINE row == [rows[k] EXCEPT !.status = "cancelled"]
    <2>1. row \in Row /\ row.request = rows[k].request /\ row.status = "cancelled" /\ row.mishap = "none"
        BY <1>2 DEF Row, RowStatus
    <2>2. rows' = [rows EXCEPT ![k] = row]
        BY DEF GenCancelled
    <2> HIDE DEF row, k
    <2> QED BY <1>2, <2>1, <2>2, WroteRow DEF IInv
<1>4. /\ IsRun(x) /\ x.pc = "clear" /\ x.message = run[w].message /\ x.row = k
      /\ StatusAt(x.pc) = "cancelled"
    BY DEF IsRun, StatusAt, IInv, Structure
<1>5. run' = [run EXCEPT ![w] = x]
    BY DEF GenCancelled
<1> HIDE DEF x
<1>6. Only(w, x)
    BY <1>5, OnlyOne DEF IInv
<1>7. \A d \in documents' : IsDocument(d) /\ d.row \in DOMAIN rows
    BY <1>1 DEF IInv, Structure
<1>8. IInv'
    BY <1>1, <1>3, <1>4, <1>6, <1>7, WorkerKeeps
<1>9. LifeStep
    <2>1. watchedRuns' = [watchedRuns EXCEPT ![k].status = "cancelled"]
        BY <1>2, <1>3, WroteSeen
    <2> QED BY <1>1, <1>2, <2>1, EndSeen DEF watchedDocs
<1> QED BY <1>8, <1>9
-----------------------------------------------------------------------------
(* Faults. *)

LEMMA RaisesKeeps ==
    ASSUME IInv, NEW w \in Workers, GenRaises(w)
    PROVE  IInv' /\ LifeStep
<1> DEFINE k == run[w].row
           wrong == IF At(w, "announce") THEN "unannounced" ELSE rows[k].mishap
           row == [rows[k] EXCEPT !.status = "failed", !.mishap = wrong]
<1>1. /\ Busy(w) /\ run' = [run EXCEPT ![w] = Idle]
      /\ run[w].pc \in {"enter", "position", "write", "verify", "judge", "announce"}
      /\ UNCHANGED <<queue, documents, asked>>
    BY DEF GenRaises, Busy, outside
<1>2. k \in DOMAIN rows /\ rows[k] \in Row /\ rows[k].status \in {"running", "succeeded"}
    BY <1>1, BusyRow DEF StatusAt
<1>3. /\ row \in Row /\ row.request = rows[k].request
      /\ row.status = "failed" /\ row.mishap = wrong
    BY <1>2 DEF Row, RowStatus
<1>4. rows' = [rows EXCEPT ![k] = row]
    BY DEF GenRaises
<1> HIDE DEF k, row, wrong
<1>5. Wrote(k, "failed", wrong)
    BY <1>2, <1>3, <1>4, WroteRow DEF IInv
<1>6. IInv'
    BY <1>1, <1>5, LeaveKeeps DEF k
<1>7. LifeStep
    <2>1. watchedRuns' = [watchedRuns EXCEPT ![k].status = "failed"]
        BY <1>2, <1>5, WroteSeen
    <2> QED BY <1>1, <1>2, <2>1, EndSeen DEF watchedDocs
<1> QED BY <1>6, <1>7

LEMMA CutKeeps ==
    ASSUME IInv, NEW w \in Workers, GenCut(w) \/ GenCrash(w)
    PROVE  IInv' /\ LifeStep
<1> DEFINE k == run[w].row
<1>1. Busy(w) /\ run' = [run EXCEPT ![w] = Idle] /\ UNCHANGED <<documents, asked>>
    BY DEF GenCut, GenCrash, At, Busy, outside
<1>2. k \in DOMAIN rows /\ rows[k] \in Row
    BY <1>1, BusyRow
<1>3. PICK mishap \in {"cut", "crashed"} :
          /\ rows' = [rows EXCEPT ![k].mishap = mishap]
          /\ UNCHANGED queue \/ (queue' = queue \cup run[w].message /\ mishap = "crashed")
    BY DEF GenCut, GenCrash
<1> DEFINE row == [rows[k] EXCEPT !.mishap = mishap]
<1>4. /\ row \in Row /\ row.request = rows[k].request
      /\ row.status = rows[k].status /\ row.mishap = mishap
    BY <1>2 DEF Row
<1>5. rows' = [rows EXCEPT ![k] = row]
    BY <1>3
<1> HIDE DEF k, row
<1>6. Wrote(k, rows[k].status, mishap)
    BY <1>2, <1>4, <1>5, WroteRow DEF IInv
<1>7. IInv'
    BY <1>1, <1>3, <1>6, LeaveKeeps DEF k
<1>8. LifeStep
    BY <1>1, <1>2, <1>6, StatusKept, NothingSeen DEF watchedDocs
<1> QED BY <1>7, <1>8

LEMMA RestartKeeps ==
    ASSUME IInv, Restart
    PROVE  IInv' /\ LifeStep
<1> DEFINE Hit(k) == \E w \in Workers : ~At(w, "idle") /\ run[w].row = k
<1>1. /\ rows' = [k \in DOMAIN rows |->
                     IF Hit(k) THEN [rows[k] EXCEPT !.mishap = "cut"] ELSE rows[k]]
      /\ queue' = {} /\ run' = [w \in Workers |-> Idle]
      /\ UNCHANGED <<documents, asked>>
    BY DEF Restart, outside
<1>2. \A k \in DOMAIN rows : Hit(k) => rows[k].mishap = "none"
    BY BusyRow DEF At, Busy
<1> HIDE DEF Hit
<1>3. \A k \in DOMAIN rows :
          /\ rows'[k] \in Row /\ rows'[k].request = rows[k].request
          /\ rows'[k].status = rows[k].status
          /\ rows[k].mishap = "crashed" => rows'[k].mishap = "crashed"
    <2>1. ASSUME NEW k \in DOMAIN rows
          PROVE  /\ rows'[k] \in Row /\ rows'[k].request = rows[k].request
                 /\ rows'[k].status = rows[k].status
                 /\ rows[k].mishap = "crashed" => rows'[k].mishap = "crashed"
        <3>1. rows[k] \in Row
            BY RowsAreRows DEF IInv
        <3>2. CASE Hit(k)
            BY <1>1, <1>2, <3>1, <3>2 DEF Row
        <3>3. CASE ~Hit(k)
            BY <1>1, <3>1, <3>3
        <3> QED BY <3>2, <3>3
    <2> QED BY <2>1
<1>4. DOMAIN rows' = DOMAIN rows
    BY <1>1
<1>5. rows' \in Seq(Row)
    <2>1. Len(rows) \in Nat /\ DOMAIN rows = 1..Len(rows)
        BY DEF IInv, Structure
    <2>2. rows' = [k \in 1..Len(rows) |-> rows'[k]] /\ \A k \in 1..Len(rows) : rows'[k] \in Row
        BY <1>1, <1>3, <2>1
    <2> QED BY <2>1, <2>2
<1>6. Structure'
    <2>1. run' = [w \in Workers |-> run'[w]] /\ \A w \in Workers : IsRun(run'[w])
        BY <1>1, IdleIs
    <2> QED BY <1>1, <1>3, <1>4, <1>5, <2>1 DEF IInv, Structure, IsRun, IsDocument
<1>7. RowFollowsRun' /\ RowsAreOwned'
    BY <1>1, IdleIs DEF RowFollowsRun, RowsAreOwned, Busy
<1>8. WaitingOnce'
    BY <1>1 DEF WaitingOnce
<1>9. SecondRowNeedsCrash'
    BY <1>3, <1>4 DEF IInv, SecondRowNeedsCrash
<1>10. LifeStep
    BY <1>1, <1>3, <1>4, NothingSeen DEF watchedRuns, watchedDocs
<1> QED BY <1>6, <1>7, <1>8, <1>9, <1>10 DEF IInv

-----------------------------------------------------------------------------
(* The queue, the requests and the exports. *)

LEMMA TakeKeeps ==
    ASSUME IInv, NEW w \in Workers, NEW m \in queue, GenTake(w, m)
    PROVE  IInv' /\ LifeStep
<1> DEFINE row == [request |-> m.request, status |-> "running", mishap |-> "none"]
           n == Len(rows) + 1
           x == [Idle EXCEPT !.pc = "enter", !.message = {m}, !.row = n]
<1>1. /\ run[w].pc = "idle" /\ rows' = Append(rows, row) /\ queue' = queue \ {m}
      /\ UNCHANGED <<documents, asked>>
    BY DEF GenTake, At, outside
<1>2. m \in Message /\ m.request \in asked
    BY DEF IInv, Structure
<1>3. /\ row \in Row /\ row.request = m.request
      /\ row.status = "running" /\ row.mishap = "none"
    BY <1>2 DEF Row, RowStatus, Message
<1>4. /\ Len(rows) \in Nat /\ DOMAIN rows = 1..Len(rows)
      /\ rows' \in Seq(Row) /\ Len(rows') = n /\ DOMAIN rows' = 1..n
      /\ rows'[n] = row /\ \A j \in DOMAIN rows : rows'[j] = rows[j]
    <2> HIDE DEF row
    <2> QED BY <1>1, <1>3, AppendProperties DEF IInv, Structure
<1>5. IsRun(x) /\ x.pc = "enter" /\ x.message = {m} /\ x.row = n /\ StatusAt(x.pc) = "running"
    BY DEF IsRun, Idle, StatusAt
<1>6. run' = [run EXCEPT ![w] = x]
    BY <1>4 DEF GenTake
<1>7. /\ n \notin DOMAIN rows /\ \A j \in DOMAIN rows : j < n
      /\ \A j \in DOMAIN rows' : j \in DOMAIN rows \/ j = n
      /\ n \in DOMAIN rows' /\ DOMAIN rows \subseteq DOMAIN rows'
      /\ \A j \in DOMAIN rows' : ~(n < j)
    BY <1>4
<1> HIDE DEF row, n, x
<1>8. Only(w, x)
    BY <1>6, OnlyOne DEF IInv
<1>9. Structure'
    <2>1. run' = [v \in Workers |-> run'[v]] /\ \A v \in Workers : IsRun(run'[v])
        BY <1>5, <1>8 DEF Only, IInv, Structure
    <2>2. \A j \in DOMAIN rows' : rows'[j].request \in asked'
        BY <1>1, <1>2, <1>3, <1>4, <1>7 DEF IInv, Structure
    <2>3. \A d \in documents' : IsDocument(d) /\ d.row \in DOMAIN rows'
        BY <1>1, <1>7 DEF IInv, Structure
    <2> QED BY <1>1, <1>4, <2>1, <2>2, <2>3 DEF IInv, Structure, IsRun, IsDocument
<1>10. RowFollowsRun'
    <2>1. ASSUME NEW v \in Workers, run'[v].pc # "idle"
          PROVE  /\ run'[v].row \in DOMAIN rows'
                 /\ rows'[run'[v].row].status = StatusAt(run'[v].pc)
                 /\ rows'[run'[v].row].mishap = "none"
                 /\ \E l \in Message :
                       run'[v].message = {l} /\ l.request = rows'[run'[v].row].request
        <3>1. CASE v = w
            BY <1>2, <1>3, <1>4, <1>5, <1>7, <1>8, <3>1 DEF Only
        <3>2. CASE v # w
            <4>1. run'[v] = run[v] /\ Busy(v)
                BY <1>8, <2>1, <3>2 DEF Only, Busy
            <4>2. run[v].row \in DOMAIN rows /\ rows'[run[v].row] = rows[run[v].row]
                BY <1>4, <4>1, BusyRow
            <4> QED BY <1>7, <4>1, <4>2 DEF IInv, RowFollowsRun
        <3> QED BY <3>1, <3>2
    <2> QED BY <2>1 DEF RowFollowsRun, Busy
<1>11. RowsAreOwned'
    <2>1. \A v \in Workers \ {w} : run'[v] = run[v]
        BY <1>8 DEF Only
    <2>2. \A v \in Workers \ {w} : Busy(v) => run[v].row # n
        BY <1>7, BusyRow
    <2>3. run'[w].row = n
        BY <1>5, <1>8 DEF Only
    <2> QED BY <2>1, <2>2, <2>3 DEF IInv, RowsAreOwned, Busy
<1>12. WaitingOnce'
    <2>1. \A l \in queue' : l \in queue /\ l.request # m.request
        BY <1>1 DEF IInv, WaitingOnce
    <2> QED BY <1>3, <1>4, <1>7, <2>1 DEF IInv, WaitingOnce
<1>13. SecondRowNeedsCrash'
    <2>1. ASSUME NEW i \in DOMAIN rows', NEW j \in DOMAIN rows', i < j,
                 rows'[i].request = rows'[j].request
          PROVE  rows'[i].mishap = "crashed"
        <3>1. i \in DOMAIN rows /\ rows'[i] = rows[i]
            BY <1>4, <1>7, <2>1
        <3>2. CASE j = n
            BY <1>3, <1>4, <2>1, <3>1, <3>2 DEF IInv, WaitingOnce
        <3>3. CASE j \in DOMAIN rows
            BY <1>4, <2>1, <3>1, <3>3 DEF IInv, SecondRowNeedsCrash
        <3> QED BY <1>7, <3>2, <3>3
    <2> QED BY <2>1 DEF SecondRowNeedsCrash
<1>14. LifeStep
    <2> DEFINE seen == [request |-> m.request, status |-> "running"]
    <2>1. watchedRuns \in Seq({watchedRuns[j] : j \in DOMAIN rows}) /\ Len(watchedRuns) = Len(rows)
        BY <1>4 DEF watchedRuns
    <2>2. watchedRuns' = Append(watchedRuns, seen)
        <3>1. /\ DOMAIN watchedRuns' = 1..n /\ watchedRuns'[n] = seen
              /\ \A j \in DOMAIN rows : watchedRuns'[j] = watchedRuns[j]
            BY <1>3, <1>4, <1>7 DEF watchedRuns
        <3>2. watchedRuns' = [j \in 1..n |-> watchedRuns'[j]]
            BY <1>4 DEF watchedRuns
        <3> QED BY <1>4, <1>7, <2>1, <3>1, <3>2 DEF n
    <2>3. Life!Begin(m.request)
        BY <1>1, <1>2, <2>2 DEF Life!Begin, watchedRuns
    <2>4. m.request \in Requests
        BY <1>2 DEF Message
    <2> QED BY <2>3, <2>4 DEF LifeStep, Life!LifeNext
<1> QED BY <1>9, <1>10, <1>11, <1>12, <1>13, <1>14 DEF IInv

LEMMA QueueKeeps ==
    ASSUME IInv, \/ \E m \in queue : GenNeverStarts(m)
                 \/ Cancel \/ FlagVanishes
    PROVE  IInv' /\ LifeStep
<1>1. queue' \subseteq queue /\ UNCHANGED <<run, rows, documents, asked>>
    BY DEF GenNeverStarts, Cancel, FlagVanishes, outside
<1>2. Structure'
    BY <1>1 DEF IInv, Structure, IsRun, IsDocument
<1>3. RowFollowsRun' /\ RowsAreOwned' /\ WaitingOnce' /\ SecondRowNeedsCrash'
    BY <1>1 DEF IInv, RowFollowsRun, RowsAreOwned, WaitingOnce, SecondRowNeedsCrash, Busy
<1>4. LifeStep
    BY <1>1, NothingSeen DEF watchedRuns, watchedDocs
<1> QED BY <1>2, <1>3, <1>4 DEF IInv

LEMMA GenerateKeeps ==
    ASSUME IInv, NEW r \in Requests, NEW t \in Types, Generate(r, t)
    PROVE  IInv' /\ LifeStep
<1> DEFINE m == [request |-> r, type |-> t]
<1>1. /\ r \notin asked /\ asked' = asked \cup {r}
      /\ queue' = queue \cup {m} /\ UNCHANGED <<run, rows, documents>>
    BY DEF Generate
<1>2. m \in Message /\ m.request = r
    BY DEF Message
<1> HIDE DEF m
<1>3. Structure'
    BY <1>1, <1>2 DEF IInv, Structure, IsRun, IsDocument
<1>4. RowFollowsRun' /\ RowsAreOwned' /\ SecondRowNeedsCrash'
    BY <1>1 DEF IInv, RowFollowsRun, RowsAreOwned, SecondRowNeedsCrash, Busy
<1>5. WaitingOnce'
    <2>1. \A l \in queue : l.request # r
        BY <1>1 DEF IInv, Structure
    <2>2. \A k \in DOMAIN rows : rows[k].request # r
        BY <1>1 DEF IInv, Structure
    <2> QED BY <1>1, <1>2, <2>1, <2>2 DEF IInv, WaitingOnce
<1>6. LifeStep
    <2>1. Life!Ask(r)
        BY <1>1 DEF Life!Ask
    <2> QED BY <2>1 DEF LifeStep, Life!LifeNext
<1> QED BY <1>3, <1>4, <1>5, <1>6 DEF IInv

LEMMA ExportKeeps ==
    ASSUME IInv, NEW d \in documents, Export(d)
    PROVE  IInv' /\ LifeStep
<1> DEFINE new == [d EXCEPT !.exported = TRUE]
<1>1. documents' = (documents \ {d}) \cup {new} /\ UNCHANGED <<queue, run, rows, asked>>
    BY DEF Export
<1>2. IsDocument(d) /\ d.row \in DOMAIN rows
    BY DEF IInv, Structure
<1>3. IsDocument(new) /\ new.row = d.row
    BY <1>2 DEF IsDocument
<1> HIDE DEF new
<1>4. Structure'
    <2>1. \A e \in documents' : IsDocument(e) /\ e.row \in DOMAIN rows'
        BY <1>1, <1>2, <1>3 DEF IInv, Structure
    <2> QED BY <1>1, <2>1 DEF IInv, Structure, IsRun, IsDocument
<1>5. RowFollowsRun' /\ RowsAreOwned' /\ WaitingOnce' /\ SecondRowNeedsCrash'
    BY <1>1 DEF IInv, RowFollowsRun, RowsAreOwned, WaitingOnce, SecondRowNeedsCrash, Busy
<1>6. LifeStep
    <2>1. watchedDocs' = watchedDocs
        BY <1>1, <1>3 DEF watchedDocs
    <2> QED BY <1>1, <2>1, NothingSeen DEF watchedRuns
<1> QED BY <1>4, <1>5, <1>6 DEF IInv

-----------------------------------------------------------------------------
(* The rows and the documents: theorems. *)

LEMMA InitIInv == Init => IInv /\ Life!LifeInit
<1> SUFFICES ASSUME Init PROVE IInv /\ Life!LifeInit
    OBVIOUS
<1>1. \A w \in Workers : run[w] = Idle /\ ~Busy(w)
    BY IdleIs DEF Init, Busy
<1>2. Structure
    BY <1>1, IdleIs, EmptySeq DEF Init, Structure
<1>3. RowFollowsRun /\ RowsAreOwned
    BY <1>1 DEF RowFollowsRun, RowsAreOwned
<1>4. WaitingOnce /\ SecondRowNeedsCrash
    BY DEF Init, WaitingOnce, SecondRowNeedsCrash
<1>5. Life!LifeInit
    BY DEF Init, Life!LifeInit
<1> QED BY <1>2, <1>3, <1>4, <1>5 DEF IInv

LEMMA NextIInv == IInv /\ [Next]_vars => IInv' /\ LifeStep
<1> SUFFICES ASSUME IInv, [Next]_vars PROVE IInv' /\ LifeStep
    OBVIOUS
<1>1. CASE UNCHANGED vars
    <2>1. IInv'
        BY <1>1 DEF vars, IInv, Structure, RowFollowsRun, RowsAreOwned, WaitingOnce,
           SecondRowNeedsCrash, Busy, IsRun, IsDocument
    <2>2. LifeStep
        BY <1>1, NothingSeen DEF vars, watchedRuns, watchedDocs
    <2> QED BY <2>1, <2>2
<1>2. CASE \E w \in Workers : GenStep(w)
    BY <1>2, AdvanceKeeps, PersistKeeps, AnnounceKeeps, CancelledKeeps DEF GenStep
<1>3. CASE \E w \in Workers : GenRaises(w) \/ GenCut(w) \/ GenCrash(w)
    BY <1>3, RaisesKeeps, CutKeeps
<1>4. CASE \E w \in Workers, m \in queue : GenTake(w, m)
    BY <1>4, TakeKeeps
<1>5. CASE FlagVanishes \/ Cancel \/ \E m \in queue : GenNeverStarts(m)
    BY <1>5, QueueKeeps
<1>6. CASE \E r \in Requests, t \in Types : Generate(r, t)
    BY <1>6, GenerateKeeps
<1>7. CASE \E d \in documents : Export(d)
    BY <1>7, ExportKeeps
<1>8. CASE Restart
    BY <1>8, RestartKeeps
<1> QED BY <1>1, <1>2, <1>3, <1>4, <1>5, <1>6, <1>7, <1>8 DEF Next, UserNext

\* The invariant holds in every reachable state.
THEOREM Inductive == Spec => []IInv
<1>1. Init => IInv
    BY InitIInv
<1>2. IInv /\ [Next]_vars => IInv'
    BY NextIInv
<1> QED BY <1>1, <1>2, PTL DEF Spec

\* Nothing but a crash leads to a second document of one request, whatever is cancelled,
\* raised, cut short or lost (max_retries=0 of generate_document).
THEOREM OneDocumentEach == Spec => []SecondDocumentNeedsCrash
<1>1. IInv => SecondDocumentNeedsCrash
    BY DEF IInv, Structure, SecondRowNeedsCrash, SecondDocumentNeedsCrash
<1> QED BY <1>1, Inductive, PTL

\* Generation implements GenerationLife: for those who watch its rows and documents each
\* step of the actor, of a fault or of the user is a step of that specification, or none
\* (generate_document, _generate).
THEOREM Refinement == Spec => ImplementsLife
<1>1. Init => Life!LifeInit
    BY InitIInv
<1>2. IInv /\ [Next]_vars => [Life!LifeNext]_(Life!lifeVars)
    BY NextIInv DEF LifeStep
<1> QED BY <1>1, <1>2, Inductive, PTL DEF Spec, ImplementsLife, Life!LifeSpec

-----------------------------------------------------------------------------
(* Drafts, and what a removal takes out of them. *)

AResume(n, s) ==
    [type |-> "resume", summary |-> <<n, 0, 0>>, skills |-> <<n, 0, 1>>,
     heads |-> [e \in DOMAIN s |-> <<n, e, 0>>],
     experience |-> [e \in DOMAIN s |-> [b \in 1..s[e] |-> <<n, e, b>>]]]

ALetter(n, k) == [type |-> "cover_letter", paragraphs |-> [p \in 1..k |-> <<n, 1, p>>]]

\* A document as the writer wrote it.
IsDraft(c) ==
    \E n \in Nat : \/ \E s \in Seq(Nat) : c = AResume(n, s)
                   \/ \E k \in Nat : c = ALetter(n, k)

LEMMA WrittenIsDraft ==
    ASSUME NEW type \in {"resume", "cover_letter"}, NEW n \in Nat, NEW c \in Written(type, n)
    PROVE  IsDraft(c)
<1>1. CASE type = "resume"
    <2>1. PICK s \in Shapes : c = AResume(n, s)
        BY <1>1 DEF Written, AResume
    <2>2. s \in Seq(Nat)
        BY DraftsAreFinite
    <2> QED BY <2>1, <2>2 DEF IsDraft
<1>2. CASE type = "cover_letter"
    <2>1. PICK k \in Lengths : c = ALetter(n, k)
        BY <1>2 DEF Written, ALetter
    <2>2. k \in Nat
        BY DraftsAreFinite
    <2> QED BY <2>1, <2>2 DEF IsDraft
<1> QED BY <1>1, <1>2

\* What counting over the entries needs to know of a resume.
ShapedBy(c, n, s) ==
    /\ n \in Nat /\ Len(s) \in Nat
    /\ c \in [type: {c.type}, summary: {c.summary}, skills: {c.skills},
              heads: {c.heads}, experience: {c.experience}]
    /\ c.type = "resume" /\ c.summary = <<n, 0, 0>> /\ c.skills = <<n, 0, 1>>
    /\ c.heads = [e \in 1..Len(s) |-> <<n, e, 0>>]
    /\ DOMAIN c.experience = 1..Len(s)
    /\ \A e \in 1..Len(s) : /\ s[e] \in Nat /\ DOMAIN c.experience[e] = 1..s[e]
                           /\ \A b \in 1..s[e] : c.experience[e][b] = <<n, e, b>>

LEMMA ResumeIsShaped ==
    ASSUME NEW n \in Nat, NEW s \in Seq(Nat)
    PROVE  ShapedBy(AResume(n, s), n, s)
<1> DEFINE c == AResume(n, s)
<1>1. DOMAIN s = 1..Len(s) /\ Len(s) \in Nat /\ \A e \in 1..Len(s) : s[e] \in Nat
    OBVIOUS
<1>2. /\ c.type = "resume" /\ c.summary = <<n, 0, 0>> /\ c.skills = <<n, 0, 1>>
      /\ c.heads = [e \in DOMAIN s |-> <<n, e, 0>>]
      /\ c.experience = [e \in DOMAIN s |-> [b \in 1..s[e] |-> <<n, e, b>>]]
      /\ c \in [type: {c.type}, summary: {c.summary}, skills: {c.skills},
                heads: {c.heads}, experience: {c.experience}]
    BY DEF AResume
<1> HIDE DEF c
<1>3. DOMAIN c.experience = 1..Len(s)
    BY <1>1, <1>2
<1>4. ASSUME NEW e \in 1..Len(s)
      PROVE  /\ DOMAIN c.experience[e] = 1..s[e]
             /\ \A b \in 1..s[e] : c.experience[e][b] = <<n, e, b>>
    <2>1. c.experience[e] = [b \in 1..s[e] |-> <<n, e, b>>]
        BY <1>1, <1>2
    <2> QED BY <2>1
<1>5. ShapedBy(c, n, s)
    BY <1>1, <1>2, <1>3, <1>4 DEF ShapedBy
<1> QED BY <1>5 DEF c

LEMMA Interval ==
    ASSUME NEW k \in Nat PROVE IsFiniteSet(1..k) /\ Cardinality(1..k) = k
<1>1. IsFiniteSet(1..k) /\ Cardinality(1..k) = IF 1 > k THEN 0 ELSE k - 1 + 1
    BY FS_Interval
<1> QED BY <1>1

LEMMA Entry ==
    ASSUME NEW e, NEW k \in Nat
    PROVE  IsFiniteSet({e} \X (1..k)) /\ Cardinality({e} \X (1..k)) = k
<1>1. IsFiniteSet({e}) /\ Cardinality({e}) = 1
    BY FS_Singleton
<1>2. IsFiniteSet(1..k) /\ Cardinality(1..k) = k
    BY Interval
<1> DEFINE S == {e}
           T == 1..k
<1> HIDE DEF S, T
<1>3. IsFiniteSet(S \X T) /\ Cardinality(S \X T) = Cardinality(S) * Cardinality(T)
    BY <1>1, <1>2, FS_Product DEF S, T
<1>4. Cardinality(S) = 1 /\ Cardinality(T) = k
    BY <1>1, <1>2 DEF S, T
<1>5. Cardinality(S) * Cardinality(T) = k
    BY <1>4
<1> QED BY <1>3, <1>5 DEF S, T

LEMMA DisjointUnion ==
    ASSUME NEW S, IsFiniteSet(S), NEW T, IsFiniteSet(T), S \cap T = {}
    PROVE  IsFiniteSet(S \cup T) /\ Cardinality(S \cup T) = Cardinality(S) + Cardinality(T)
<1>1. Cardinality(S \cup T) = Cardinality(S) + Cardinality(T) - Cardinality(S \cap T)
    BY FS_Union
<1>2. Cardinality(S \cap T) = 0
    BY FS_EmptySet
<1> QED BY <1>1, <1>2, FS_Union, FS_CardinalityType

\* Counting over one more entry adds its bullets.
LEMMA BulletsAdd ==
    ASSUME NEW c, NEW n, NEW s, ShapedBy(c, n, s), NEW e \in 1..Len(s)
    PROVE  /\ IsFiniteSet(Bullets(c, 1..e - 1)) /\ BulletsUpTo(c, e - 1) \in Nat
           /\ BulletsUpTo(c, e) = BulletsUpTo(c, e - 1) + s[e]
<1>1. \A d \in 1..Len(s) : s[d] \in Nat /\ DOMAIN c.experience[d] = 1..s[d]
    BY DEF ShapedBy
<1>2. \A d \in 1..Len(s) : /\ IsFiniteSet({d} \X (1..s[d]))
                           /\ Cardinality({d} \X (1..s[d])) = s[d]
    BY <1>1, Entry
<1> DEFINE B(d) == {d} \X DOMAIN c.experience[d]
           parts == {B(d) : d \in 1..e - 1}
<1>3. Len(s) \in Nat /\ e \in Nat /\ 1..e - 1 \subseteq 1..Len(s)
    OBVIOUS
<1>4. IsFiniteSet(Bullets(c, 1..e - 1))
    <2> DEFINE f == [d \in 1..e - 1 |-> B(d)]
    <2>1. f \in Surjection(1..e - 1, parts)
        BY DEF Surjection
    <2>2. IsFiniteSet(1..e - 1)
        BY <1>3, Interval
    <2>3. IsFiniteSet(parts)
        BY <2>1, <2>2, FS_Surjection
    <2>4. \A T \in parts : IsFiniteSet(T)
        BY <1>1, <1>2, <1>3
    <2> QED BY <2>3, <2>4, FS_UNION DEF Bullets
<1>5. BulletsUpTo(c, e - 1) \in Nat
    BY <1>4, FS_CardinalityType DEF BulletsUpTo
<1>6. Bullets(c, 1..e) = Bullets(c, 1..e - 1) \cup B(e)
    BY <1>3 DEF Bullets
<1>7. Bullets(c, 1..e - 1) \cap B(e) = {}
    BY <1>3 DEF Bullets
<1>8. IsFiniteSet(B(e)) /\ Cardinality(B(e)) = s[e]
    BY <1>1, <1>2
<1> HIDE DEF B
<1>9. Cardinality(Bullets(c, 1..e)) = Cardinality(Bullets(c, 1..e - 1)) + s[e]
    BY <1>4, <1>6, <1>7, <1>8, DisjointUnion
<1> QED BY <1>4, <1>5, <1>9 DEF BulletsUpTo

\* The number under which the verifier is shown a bullet leads back to it.
LEMMA NumberOfBullet ==
    ASSUME NEW c, NEW n, NEW s, ShapedBy(c, n, s),
           NEW e \in 1..Len(s), NEW b \in 1..s[e]
    PROVE  Number(c, <<e, b>>) = BulletsUpTo(c, e - 1) + b
<1> DEFINE before == {q \in Places(c) : Before(q, <<e, b>>)}
           earlier == Bullets(c, 1..e - 1)
           own == {e} \X (1..b - 1)
<1>1. /\ c.type = "resume" /\ DOMAIN c.experience = 1..Len(s) /\ Len(s) \in Nat
      /\ \A d \in 1..Len(s) : s[d] \in Nat /\ DOMAIN c.experience[d] = 1..s[d]
    BY DEF ShapedBy
<1>2. /\ IsFiniteSet(earlier) /\ Cardinality(earlier) = BulletsUpTo(c, e - 1)
      /\ BulletsUpTo(c, e - 1) \in Nat
    BY BulletsAdd DEF BulletsUpTo
<1>3. IsFiniteSet(own) /\ Cardinality(own) = b - 1
    <2>1. b - 1 \in Nat
        BY <1>1
    <2> QED BY <2>1, Entry
<1>4. before = {<<0, 0>>} \cup (earlier \cup own)
    <2>1. ASSUME NEW q \in before PROVE q \in {<<0, 0>>} \cup (earlier \cup own)
        <3>1. CASE q = <<0, 0>>
            BY <3>1
        <3>2. ASSUME NEW d \in 1..Len(s), NEW a \in 1..s[d], q = <<d, a>>
              PROVE  q \in earlier \cup own
            <4>1. d < e \/ (d = e /\ a < b)
                BY <3>2 DEF Before
            <4>2. CASE d < e
                BY <1>1, <3>2, <4>2 DEF Bullets
            <4>3. CASE d = e /\ a < b
                BY <1>1, <3>2, <4>3
            <4> QED BY <4>1, <4>2, <4>3
        <3> QED BY <1>1, <3>1, <3>2 DEF Places, Bullets
    <2>2. <<0, 0>> \in before
        BY <1>1 DEF Places, Before
    <2>3. ASSUME NEW q \in earlier PROVE q \in before
        BY <1>1 DEF Places, Bullets, Before
    <2>4. ASSUME NEW q \in own PROVE q \in before
        BY <1>1 DEF Places, Bullets, Before
    <2> QED BY <2>1, <2>2, <2>3, <2>4
<1>5. earlier \cap own = {} /\ <<0, 0>> \notin earlier \cup own
    BY <1>1 DEF Bullets
<1> HIDE DEF earlier, own
<1>6. /\ IsFiniteSet(earlier \cup own)
      /\ Cardinality(earlier \cup own) = BulletsUpTo(c, e - 1) + (b - 1)
    BY <1>2, <1>3, <1>5, DisjointUnion
<1>7. Cardinality((earlier \cup own) \cup {<<0, 0>>}) = BulletsUpTo(c, e - 1) + (b - 1) + 1
    BY <1>5, <1>6, FS_AddElement
<1>8. (earlier \cup own) \cup {<<0, 0>>} = before
    BY <1>4
<1> HIDE DEF before
<1>9. Cardinality(before) = BulletsUpTo(c, e - 1) + (b - 1) + 1
    BY <1>7, <1>8
<1>10. b \in Nat /\ BulletsUpTo(c, e - 1) + (b - 1) + 1 = BulletsUpTo(c, e - 1) + b
    BY <1>1, <1>2
<1> QED BY <1>9, <1>10 DEF Number, before

LEMMA LocationOfBullet ==
    ASSUME NEW c, NEW n, NEW s, ShapedBy(c, n, s),
           NEW e \in 1..Len(s), NEW b \in 1..s[e], NEW i \in Nat
    PROVE  <<e, b>> \in LocationForIndex(c, i) <=> i = Number(c, <<e, b>>)
<1>1. /\ DOMAIN c.experience = 1..Len(s) /\ s[e] \in Nat
    BY DEF ShapedBy
<1>2. /\ BulletsUpTo(c, e - 1) \in Nat /\ BulletsUpTo(c, e) = BulletsUpTo(c, e - 1) + s[e]
      /\ Number(c, <<e, b>>) = BulletsUpTo(c, e - 1) + b
    BY BulletsAdd, NumberOfBullet
<1>3. ASSUME <<e, b>> \in LocationForIndex(c, i) PROVE i = Number(c, <<e, b>>)
    <2>1. <<e, b>> # <<0, 0>>
        OBVIOUS
    <2>2. PICK d \in DOMAIN c.experience : <<e, b>> = <<d, i - BulletsUpTo(c, d - 1)>>
        BY <1>3, <2>1 DEF LocationForIndex, Counted
    <2>3. b = i - BulletsUpTo(c, e - 1)
        BY <2>2
    <2> QED BY <1>1, <1>2, <2>3
<1>4. ASSUME i = Number(c, <<e, b>>) PROVE <<e, b>> \in LocationForIndex(c, i)
    <2>1. /\ i # 0 /\ BulletsUpTo(c, e - 1) < i /\ i <= BulletsUpTo(c, e)
          /\ i - BulletsUpTo(c, e - 1) = b
        BY <1>1, <1>2, <1>4
    <2> QED BY <1>1, <2>1 DEF LocationForIndex, Counted
<1> QED BY <1>3, <1>4

-----------------------------------------------------------------------------
\* What is written: each place has a text of its own, and a number.
Drafted(c, n) ==
    /\ n \in Nat /\ IsFiniteSet(Places(c))
    /\ \A p \in Places(c) :
          /\ p = <<p[1], p[2]>> /\ p[1] \in Nat /\ p[2] \in Nat
          /\ Unit(c, p) = <<n, p[1], p[2]>>
          /\ Number(c, p) \in Nat

\* A removal blanks what has one of the numbers, and nothing else.
Blanks(c, I) ==
    /\ Places(Removed(c, I)) = Places(c)
    /\ \A p \in Places(c) :
          Unit(Removed(c, I), p) = IF Number(c, p) \in I THEN Blank ELSE Unit(c, p)

LEMMA NumberType ==
    ASSUME NEW c, IsFiniteSet(Places(c)), NEW p PROVE Number(c, p) \in Nat
<1>1. {q \in Places(c) : Before(q, p)} \in SUBSET Places(c)
    OBVIOUS
<1> QED BY <1>1, FS_Subset, FS_CardinalityType DEF Number

LEMMA ShapedPlaces ==
    ASSUME NEW c, NEW n, NEW s, ShapedBy(c, n, s), NEW p \in Places(c)
    PROVE  p = <<0, 0>> \/ \E e \in 1..Len(s) : \E b \in 1..s[e] : p = <<e, b>>
<1>1. /\ c.type = "resume" /\ DOMAIN c.experience = 1..Len(s)
      /\ \A e \in 1..Len(s) : DOMAIN c.experience[e] = 1..s[e]
    BY DEF ShapedBy
<1>2. CASE p \in Bullets(c, DOMAIN c.experience)
    <2>1. PICK e \in 1..Len(s) : p \in {e} \X DOMAIN c.experience[e]
        BY <1>1, <1>2 DEF Bullets
    <2>2. p \in {e} \X (1..s[e])
        BY <1>1, <2>1
    <2>3. PICK b \in 1..s[e] : p = <<e, b>>
        BY <2>2
    <2> QED BY <2>3
<1> QED BY <1>1, <1>2 DEF Places

LEMMA ShapedPlace ==
    ASSUME NEW c, NEW n, NEW s, ShapedBy(c, n, s), NEW e \in 1..Len(s), NEW b \in 1..s[e]
    PROVE  <<e, b>> \in Places(c) /\ Unit(c, <<e, b>>) = <<n, e, b>>
<1>1. /\ c.type = "resume" /\ DOMAIN c.experience = 1..Len(s) /\ Len(s) \in Nat
      /\ DOMAIN c.experience[e] = 1..s[e] /\ c.experience[e][b] = <<n, e, b>>
    BY DEF ShapedBy
<1>2. <<e, b>> \in {e} \X DOMAIN c.experience[e]
    BY <1>1
<1>3. <<e, b>> \in Bullets(c, DOMAIN c.experience)
    BY <1>1, <1>2 DEF Bullets
<1> QED BY <1>1, <1>3 DEF Places, Unit

LEMMA ShapedFinite ==
    ASSUME NEW c, NEW n, NEW s, ShapedBy(c, n, s)
    PROVE  IsFiniteSet(Places(c))
<1>1. c.type = "resume" /\ DOMAIN c.experience = 1..Len(s) /\ Len(s) \in Nat
    BY DEF ShapedBy
<1>2. IsFiniteSet(Bullets(c, 1..Len(s)))
    <2>1. CASE Len(s) = 0
        <3>1. Bullets(c, 1..Len(s)) = {}
            BY <2>1 DEF Bullets
        <3> QED BY <3>1, FS_EmptySet
    <2>2. CASE Len(s) # 0
        <3> DEFINE e == Len(s)
        <3>1. e \in 1..Len(s) /\ e \in Nat
            BY <1>1, <2>2
        <3>2. IsFiniteSet(Bullets(c, 1..e - 1))
            BY <3>1, BulletsAdd
        <3>3. s[e] \in Nat /\ DOMAIN c.experience[e] = 1..s[e]
            BY <3>1 DEF ShapedBy
        <3>4. IsFiniteSet({e} \X DOMAIN c.experience[e])
            BY <3>3, Entry
        <3>5. Bullets(c, 1..e) = Bullets(c, 1..e - 1) \cup ({e} \X DOMAIN c.experience[e])
            BY <3>1 DEF Bullets
        <3>6. IsFiniteSet(Bullets(c, 1..e - 1) \cup ({e} \X DOMAIN c.experience[e]))
            BY <3>2, <3>4, FS_Union
        <3> QED BY <3>5, <3>6
    <2> QED BY <2>1, <2>2
<1> QED BY <1>1, <1>2, FS_Singleton, FS_Union DEF Places

LEMMA ResumeIsDrafted ==
    ASSUME NEW c, NEW n, NEW s, ShapedBy(c, n, s)
    PROVE  Drafted(c, n)
<1>1. /\ c.type = "resume" /\ c.summary = <<n, 0, 0>> /\ n \in Nat /\ Len(s) \in Nat
      /\ \A e \in 1..Len(s) : s[e] \in Nat
    BY DEF ShapedBy
<1>2. IsFiniteSet(Places(c))
    BY ShapedFinite
<1>3. ASSUME NEW p \in Places(c)
      PROVE  /\ p = <<p[1], p[2]>> /\ p[1] \in Nat /\ p[2] \in Nat
             /\ Unit(c, p) = <<n, p[1], p[2]>>
    <2>1. CASE p = <<0, 0>>
        BY <1>1, <2>1 DEF Unit
    <2>2. ASSUME NEW e \in 1..Len(s), NEW b \in 1..s[e], p = <<e, b>>
          PROVE  /\ p = <<p[1], p[2]>> /\ p[1] \in Nat /\ p[2] \in Nat
                 /\ Unit(c, p) = <<n, p[1], p[2]>>
        <3>1. e \in Nat /\ b \in Nat
            BY <1>1
        <3>2. Unit(c, <<e, b>>) = <<n, e, b>>
            BY ShapedPlace
        <3> QED BY <2>2, <3>1, <3>2
    <2> QED BY <2>1, <2>2, ShapedPlaces
<1> QED BY <1>1, <1>2, <1>3, NumberType DEF Drafted

LEMMA NumberOfSummary ==
    ASSUME NEW c, NEW n, NEW s, ShapedBy(c, n, s) PROVE Number(c, <<0, 0>>) = 0
<1>1. \A e \in 1..Len(s) : e \in Nat /\ e # 0
    BY DEF ShapedBy
<1>2. ASSUME NEW q \in Places(c) PROVE ~Before(q, <<0, 0>>)
    <2>1. CASE q = <<0, 0>>
        BY <2>1 DEF Before
    <2>2. ASSUME NEW e \in 1..Len(s), NEW b \in 1..s[e], q = <<e, b>> PROVE ~Before(q, <<0, 0>>)
        BY <1>1, <2>2 DEF Before
    <2> QED BY <2>1, <2>2, ShapedPlaces
<1>3. {q \in Places(c) : Before(q, <<0, 0>>)} = {}
    BY <1>2
<1> QED BY <1>3, FS_EmptySet DEF Number

LEMMA ResumeBlanks ==
    ASSUME NEW c, NEW n, NEW s, ShapedBy(c, n, s), NEW I \in SUBSET Nat
    PROVE  Blanks(c, I)
<1> DEFINE failed == UNION {LocationForIndex(c, i) : i \in I}
           r == Removed(c, I)
<1>1. /\ c.type = "resume" /\ DOMAIN c.experience = 1..Len(s) /\ Len(s) \in Nat
      /\ \A e \in 1..Len(s) : s[e] \in Nat /\ DOMAIN c.experience[e] = 1..s[e]
    BY DEF ShapedBy
<1>2. r = [c EXCEPT !.summary = IF <<0, 0>> \in failed THEN Blank ELSE @,
                    !.experience = [e \in DOMAIN @ |->
                        [b \in DOMAIN @[e] |->
                            IF <<e, b>> \in failed THEN Blank ELSE @[e][b]]]]
    BY <1>1 DEF Removed
<1>3. /\ r.type = "resume"
      /\ r.summary = IF <<0, 0>> \in failed THEN Blank ELSE c.summary
      /\ r.experience = [e \in DOMAIN c.experience |-> [b \in DOMAIN c.experience[e] |->
                            IF <<e, b>> \in failed THEN Blank ELSE c.experience[e][b]]]
    BY <1>1, <1>2 DEF ShapedBy
<1> HIDE DEF failed, r
<1>4. /\ DOMAIN r.experience = 1..Len(s)
      /\ \A e \in 1..Len(s) :
            /\ DOMAIN r.experience[e] = 1..s[e]
            /\ \A b \in 1..s[e] : r.experience[e][b] =
                   IF <<e, b>> \in failed THEN Blank ELSE c.experience[e][b]
    BY <1>1, <1>3
<1>5. Places(r) = Places(c)
    <2>1. Bullets(r, DOMAIN r.experience) = Bullets(c, DOMAIN c.experience)
        <3>1. \A e \in 1..Len(s) : {e} \X DOMAIN r.experience[e] = {e} \X DOMAIN c.experience[e]
            BY <1>1, <1>4
        <3> QED BY <1>1, <1>4, <3>1 DEF Bullets
    <2> QED BY <1>1, <1>3, <2>1 DEF Places
<1>6. ASSUME NEW p \in Places(c)
      PROVE  Unit(r, p) = IF Number(c, p) \in I THEN Blank ELSE Unit(c, p)
    <2>1. CASE p = <<0, 0>>
        <3>1. Unit(r, p) = r.summary /\ Unit(c, p) = c.summary
            BY <1>1, <1>3, <2>1 DEF Unit
        <3>2. <<0, 0>> \in failed <=> 0 \in I
            <4>1. ASSUME NEW i \in I, <<0, 0>> \in LocationForIndex(c, i) PROVE i = 0
                <5>1. \A e \in DOMAIN c.experience : e # 0
                    BY <1>1
                <5> QED BY <4>1, <5>1 DEF LocationForIndex, Counted
            <4>2. <<0, 0>> \in LocationForIndex(c, 0)
                BY DEF LocationForIndex
            <4> QED BY <4>1, <4>2 DEF failed
        <3> QED BY <1>3, <2>1, <3>1, <3>2, NumberOfSummary
    <2>2. ASSUME NEW e \in 1..Len(s), NEW b \in 1..s[e], p = <<e, b>>
          PROVE  Unit(r, p) = IF Number(c, p) \in I THEN Blank ELSE Unit(c, p)
        <3>1. /\ Unit(r, <<e, b>>) = r.experience[e][b]
              /\ Unit(c, <<e, b>>) = c.experience[e][b]
            BY <1>1, <1>3 DEF Unit
        <3>2. <<e, b>> \in failed <=> Number(c, <<e, b>>) \in I
            <4>1. \A i \in I : <<e, b>> \in LocationForIndex(c, i) <=> i = Number(c, <<e, b>>)
                BY LocationOfBullet
            <4> QED BY <4>1 DEF failed
        <3> QED BY <1>4, <2>2, <3>1, <3>2
    <2> QED BY <2>1, <2>2, ShapedPlaces
<1> QED BY <1>5, <1>6 DEF Blanks, r

-----------------------------------------------------------------------------
LEMMA LetterIs ==
    ASSUME NEW n \in Nat, NEW k \in Nat
    PROVE  LET c == ALetter(n, k) IN
           /\ c.type = "cover_letter" /\ c \in [type: {c.type}, paragraphs: {c.paragraphs}]
           /\ c.paragraphs = [p \in 1..k |-> <<n, 1, p>>]
           /\ Places(c) = {1} \X (1..k)
           /\ \A p \in 1..k : Unit(c, <<1, p>>) = <<n, 1, p>>
<1> DEFINE c == ALetter(n, k)
<1>1. /\ c.type = "cover_letter" /\ c \in [type: {c.type}, paragraphs: {c.paragraphs}]
      /\ c.paragraphs = [p \in 1..k |-> <<n, 1, p>>]
    BY DEF ALetter
<1> HIDE DEF c
<1>2. Places(c) = {1} \X (1..k) /\ \A p \in 1..k : Unit(c, <<1, p>>) = <<n, 1, p>>
    BY <1>1 DEF Places, Unit
<1> QED BY <1>1, <1>2 DEF c

LEMMA NumberOfParagraph ==
    ASSUME NEW k \in Nat, NEW c, Places(c) = {1} \X (1..k), NEW p \in 1..k
    PROVE  Number(c, <<1, p>>) = p - 1
<1>1. {q \in Places(c) : Before(q, <<1, p>>)} = {1} \X (1..p - 1)
    <2>1. ASSUME NEW a \in 1..k PROVE Before(<<1, a>>, <<1, p>>) <=> a < p
        BY DEF Before
    <2>2. \A q \in Places(c) : q = <<1, q[2]>> /\ q[2] \in 1..k
        OBVIOUS
    <2>3. ASSUME NEW q \in Places(c), Before(q, <<1, p>>) PROVE q \in {1} \X (1..p - 1)
        <3>1. q[2] < p
            BY <2>1, <2>2, <2>3
        <3> QED BY <2>2, <3>1
    <2>4. ASSUME NEW q \in {1} \X (1..p - 1) PROVE q \in Places(c) /\ Before(q, <<1, p>>)
        <3>1. q = <<1, q[2]>> /\ q[2] \in 1..k /\ q[2] < p
            OBVIOUS
        <3> QED BY <2>1, <3>1
    <2> QED BY <2>3, <2>4
<1>2. p - 1 \in Nat
    OBVIOUS
<1>3. Cardinality({1} \X (1..p - 1)) = p - 1
    BY <1>2, Entry
<1> QED BY <1>1, <1>3 DEF Number

LEMMA LetterIsDrafted ==
    ASSUME NEW n \in Nat, NEW k \in Nat PROVE Drafted(ALetter(n, k), n)
<1> DEFINE c == ALetter(n, k)
<1>1. /\ Places(c) = {1} \X (1..k)
      /\ \A p \in 1..k : Unit(c, <<1, p>>) = <<n, 1, p>>
    BY LetterIs
<1> HIDE DEF c
<1>2. IsFiniteSet(Places(c))
    <2>1. IsFiniteSet({1} \X (1..k))
        BY Entry
    <2> QED BY <1>1, <2>1
<1>3. ASSUME NEW p \in Places(c)
      PROVE  /\ p = <<p[1], p[2]>> /\ p[1] \in Nat /\ p[2] \in Nat
             /\ Unit(c, p) = <<n, p[1], p[2]>>
    <2>1. p = <<1, p[2]>> /\ p[2] \in 1..k
        BY <1>1
    <2>2. Unit(c, <<1, p[2]>>) = <<n, 1, p[2]>>
        BY <1>1, <2>1
    <2> QED BY <2>1, <2>2
<1>4. Drafted(c, n)
    BY <1>2, <1>3, NumberType DEF Drafted
<1> QED BY <1>4 DEF c

LEMMA LetterBlanks ==
    ASSUME NEW n \in Nat, NEW k \in Nat, NEW I \in SUBSET Nat
    PROVE  Blanks(ALetter(n, k), I)
<1> DEFINE c == ALetter(n, k)
           r == Removed(c, I)
<1>1. /\ c.type = "cover_letter" /\ c \in [type: {c.type}, paragraphs: {c.paragraphs}]
      /\ c.paragraphs = [p \in 1..k |-> <<n, 1, p>>]
      /\ Places(c) = {1} \X (1..k)
    BY LetterIs
<1> HIDE DEF c
<1>2. /\ r.type = "cover_letter"
      /\ r.paragraphs = [p \in 1..k |-> IF p - 1 \in I THEN Blank ELSE c.paragraphs[p]]
    BY <1>1 DEF Removed
<1> HIDE DEF r
<1>3. Places(r) = Places(c)
    BY <1>1, <1>2 DEF Places
<1>4. ASSUME NEW p \in Places(c)
      PROVE  Unit(r, p) = IF Number(c, p) \in I THEN Blank ELSE Unit(c, p)
    <2>1. p = <<1, p[2]>> /\ p[2] \in 1..k
        BY <1>1
    <2>2. Number(c, p) = p[2] - 1
        BY <1>1, <2>1, NumberOfParagraph
    <2>3. Unit(r, p) = r.paragraphs[p[2]] /\ Unit(c, p) = c.paragraphs[p[2]]
        BY <1>1, <1>2 DEF Unit
    <2> QED BY <1>2, <2>1, <2>2, <2>3
<1> QED BY <1>3, <1>4 DEF Blanks, r, c

-----------------------------------------------------------------------------
\* What a resume prints besides its units.
Fixed(c) == IF c.type = "resume" THEN {c.skills} \cup Range(c.heads) ELSE {}

LEMMA RenderedIs ==
    ASSUME NEW c PROVE Rendered(c) = ({Unit(c, p) : p \in Places(c)} \ {Blank}) \cup Fixed(c)
<1>1. {u[2] : u \in Units(c)} = {Unit(c, p) : p \in Places(c)}
    <2>1. ASSUME NEW p \in Places(c) PROVE <<Number(c, p), Unit(c, p)>>[2] = Unit(c, p)
        OBVIOUS
    <2>2. ASSUME NEW u \in Units(c) PROVE \E p \in Places(c) : u[2] = Unit(c, p)
        BY <2>1 DEF Units
    <2>3. ASSUME NEW p \in Places(c) PROVE \E u \in Units(c) : u[2] = Unit(c, p)
        BY <2>1 DEF Units
    <2> QED BY <2>2, <2>3
<1> QED BY <1>1 DEF Rendered, Fixed

LEMMA DraftedUnits ==
    ASSUME NEW c, NEW n, Drafted(c, n)
    PROVE  /\ \A p \in Places(c) : Unit(c, p) \in Text /\ Unit(c, p) # Blank
           /\ \A p, q \in Places(c) : Unit(c, p) = Unit(c, q) => p = q
<1>1. ASSUME NEW p \in Places(c) PROVE Unit(c, p) \in Text /\ Unit(c, p) # Blank
    <2>1. n \in Nat /\ p[1] \in Nat /\ p[2] \in Nat /\ Unit(c, p) = <<n, p[1], p[2]>>
        BY DEF Drafted
    <2> QED BY <2>1 DEF Text, Blank
<1>2. ASSUME NEW p \in Places(c), NEW q \in Places(c), Unit(c, p) = Unit(c, q) PROVE p = q
    <2>1. /\ p = <<p[1], p[2]>> /\ Unit(c, p) = <<n, p[1], p[2]>>
          /\ q = <<q[1], q[2]>> /\ Unit(c, q) = <<n, q[1], q[2]>>
        BY DEF Drafted
    <2>2. /\ Unit(c, p)[2] = p[1] /\ Unit(c, p)[3] = p[2]
          /\ Unit(c, q)[2] = q[1] /\ Unit(c, q)[3] = q[2]
        BY <2>1
    <2>3. p[1] = q[1] /\ p[2] = q[2]
        BY <1>2, <2>2
    <2> QED BY <2>1, <2>3
<1> QED BY <1>1, <1>2

\* The skills line and the heads are no units, and no removal takes them.
LEMMA ResumeFixed ==
    ASSUME NEW c, NEW n, NEW s, ShapedBy(c, n, s)
    PROVE  /\ \A p \in Places(c) : Unit(c, p) \notin Fixed(c)
           /\ \A I \in SUBSET Nat : Fixed(Removed(c, I)) = Fixed(c)
<1>1. /\ c.type = "resume" /\ n \in Nat /\ Len(s) \in Nat
      /\ c.skills = <<n, 0, 1>> /\ c.heads = [e \in 1..Len(s) |-> <<n, e, 0>>]
      /\ \A e \in 1..Len(s) : s[e] \in Nat
    BY DEF ShapedBy
<1>2. \A x \in Fixed(c) : x = <<n, 0, 1>> \/ \E e \in 1..Len(s) : x = <<n, e, 0>>
    BY <1>1 DEF Fixed, Range
<1>3. ASSUME NEW p \in Places(c) PROVE Unit(c, p) \notin Fixed(c)
    <2>1. CASE p = <<0, 0>>
        <3>1. Unit(c, p) = <<n, 0, 0>>
            BY <1>1, <2>1 DEF Unit, ShapedBy
        <3>2. \A e \in 1..Len(s) : e # 0
            BY <1>1
        <3> QED BY <1>2, <3>1, <3>2
    <2>2. ASSUME NEW e \in 1..Len(s), NEW b \in 1..s[e], p = <<e, b>>
          PROVE  Unit(c, p) \notin Fixed(c)
        <3>1. Unit(c, p) = <<n, e, b>>
            BY <2>2, ShapedPlace
        <3>2. e # 0 /\ b # 0
            BY <1>1
        <3> QED BY <1>2, <3>1, <3>2
    <2> QED BY <2>1, <2>2, ShapedPlaces
<1>4. ASSUME NEW I \in SUBSET Nat PROVE Fixed(Removed(c, I)) = Fixed(c)
    <2> DEFINE failed == UNION {LocationForIndex(c, i) : i \in I}
               body == [e \in DOMAIN c.experience |-> [b \in DOMAIN c.experience[e] |->
                            IF <<e, b>> \in failed THEN Blank ELSE c.experience[e][b]]]
               head == IF <<0, 0>> \in failed THEN Blank ELSE c.summary
               r == Removed(c, I)
    <2>1. r = [c EXCEPT !.summary = head, !.experience = body]
        BY <1>1 DEF Removed
    <2> HIDE DEF failed, body, head, r
    <2>2. r.type = "resume" /\ r.skills = c.skills /\ r.heads = c.heads
        BY <1>1, <2>1 DEF ShapedBy
    <2>3. Fixed(r) = Fixed(c)
        BY <1>1, <2>2 DEF Fixed
    <2> QED BY <2>3 DEF r
<1> QED BY <1>3, <1>4

LEMMA LetterFixed ==
    ASSUME NEW n \in Nat, NEW k \in Nat, NEW I
    PROVE  Fixed(ALetter(n, k)) = {} /\ Fixed(Removed(ALetter(n, k), I)) = {}
<1> DEFINE c == ALetter(n, k)
<1>1. c.type = "cover_letter" /\ c \in [type: {c.type}, paragraphs: {c.paragraphs}]
    BY LetterIs
<1> HIDE DEF c
<1>2. Removed(c, I).type = "cover_letter"
    BY <1>1 DEF Removed
<1>3. Fixed(c) = {} /\ Fixed(Removed(c, I)) = {}
    BY <1>1, <1>2 DEF Fixed
<1> QED BY <1>3 DEF c

\* All that is needed to know of a draft.
LEMMA DraftFacts ==
    ASSUME NEW c, IsDraft(c)
    PROVE  /\ IsFiniteSet(Places(c))
           /\ \A p \in Places(c) : /\ Number(c, p) \in Nat
                                  /\ Unit(c, p) \in Text /\ Unit(c, p) # Blank
                                  /\ Unit(c, p) \notin Fixed(c)
           /\ \A p, q \in Places(c) : Unit(c, p) = Unit(c, q) => p = q
           /\ \A I \in SUBSET Nat : Blanks(c, I) /\ Fixed(Removed(c, I)) = Fixed(c)
<1>1. PICK n \in Nat : \/ \E s \in Seq(Nat) : c = AResume(n, s)
                       \/ \E k \in Nat : c = ALetter(n, k)
    BY DEF IsDraft
<1>2. /\ Drafted(c, n) /\ \A p \in Places(c) : Unit(c, p) \notin Fixed(c)
      /\ \A I \in SUBSET Nat : Blanks(c, I) /\ Fixed(Removed(c, I)) = Fixed(c)
    <2>1. ASSUME NEW s \in Seq(Nat), c = AResume(n, s)
          PROVE  /\ Drafted(c, n) /\ \A p \in Places(c) : Unit(c, p) \notin Fixed(c)
                 /\ \A I \in SUBSET Nat : Blanks(c, I) /\ Fixed(Removed(c, I)) = Fixed(c)
        <3>1. ShapedBy(c, n, s)
            BY <2>1, ResumeIsShaped
        <3> QED BY <3>1, ResumeIsDrafted, ResumeBlanks, ResumeFixed
    <2>2. ASSUME NEW k \in Nat, c = ALetter(n, k)
          PROVE  /\ Drafted(c, n) /\ \A p \in Places(c) : Unit(c, p) \notin Fixed(c)
                 /\ \A I \in SUBSET Nat : Blanks(c, I) /\ Fixed(Removed(c, I)) = Fixed(c)
        BY <2>2, LetterIsDrafted, LetterBlanks, LetterFixed
    <2> QED BY <1>1, <2>1, <2>2
<1> QED BY <1>2, DraftedUnits DEF Drafted

\* A unit is printed after a removal unless its number was removed.
LEMMA RenderedAfter ==
    ASSUME NEW c, IsDraft(c), NEW I \in SUBSET Nat, NEW p \in Places(c)
    PROVE  Unit(c, p) \in Rendered(Removed(c, I)) <=> Number(c, p) \notin I
<1> DEFINE r == Removed(c, I)
<1>1. /\ Places(r) = Places(c) /\ Fixed(r) = Fixed(c)
      /\ \A q \in Places(c) : Unit(r, q) = IF Number(c, q) \in I THEN Blank ELSE Unit(c, q)
    BY DraftFacts DEF Blanks
<1> HIDE DEF r
<1>2. Rendered(r) = ({Unit(r, q) : q \in Places(c)} \ {Blank}) \cup Fixed(c)
    BY <1>1, RenderedIs
<1>3. /\ Unit(c, p) # Blank /\ Unit(c, p) \notin Fixed(c)
      /\ \A q \in Places(c) : Unit(c, q) = Unit(c, p) => q = p
    BY DraftFacts
<1>4. Unit(c, p) \in Rendered(r) <=> \E q \in Places(c) : Unit(r, q) = Unit(c, p)
    BY <1>2, <1>3
<1> QED BY <1>1, <1>3, <1>4 DEF r

-----------------------------------------------------------------------------
(* Claims about a draft. *)

LEMMA StatusIsVerdict ==
    ASSUME NEW j \in Judgement
    PROVE  /\ FinalStatus(j) \in Verdict
           /\ j.type # "other" /\ ~PassesGuard(j) => FinalStatus(j) = "unsupported"
BY DEF Judgement, FinalStatus, Verdict

LEMMA ClaimFacts ==
    ASSUME NEW c, IsDraft(c), NEW k \in Claims(c)
    PROVE  /\ k \in Claim /\ k.index \in Nat
           /\ k.invented => k.status = "unsupported"
<1>1. PICK i \in 0..Cardinality(Units(c)), words \in Wordings(c), j \in Judgement :
          k = [index |-> i, text |-> words, status |-> FinalStatus(j),
               invented |-> j.type # "other" /\ ~PassesGuard(j)]
    BY DEF Claims
<1>2. i \in Nat
    <2> DEFINE f == [p \in Places(c) |-> <<Number(c, p), Unit(c, p)>>]
    <2>1. f \in Surjection(Places(c), Units(c))
        BY DEF Surjection, Units
    <2>2. IsFiniteSet(Units(c))
        BY <2>1, DraftFacts, FS_Surjection
    <2> QED BY <2>2, FS_CardinalityType
<1>3. ASSUME NEW u \in Units(c) PROVE u[2] \in Text
    <2>1. PICK p \in Places(c) : u = <<Number(c, p), Unit(c, p)>>
        BY DEF Units
    <2> QED BY <2>1, DraftFacts
<1>4. words \in Text \cup {OwnWords}
    BY <1>1, <1>3 DEF Wordings
<1>5. k.status \in Verdict /\ k.invented \in BOOLEAN /\ (k.invented => k.status = "unsupported")
    BY <1>1, StatusIsVerdict
<1> QED BY <1>1, <1>2, <1>4, <1>5 DEF Claim

\* What is stored of a draft: its claims, and what the removal left.
IsStored(v, claims, content) ==
    /\ IsDraft(v) /\ claims \subseteq Claims(v)
    /\ content = Removed(v, {k.index : k \in Refused(claims)})

LEMMA StoredUnits ==
    ASSUME NEW v, NEW claims, NEW content, IsStored(v, claims, content), NEW p \in Places(v)
    PROVE  Unit(v, p) \in Rendered(content) <=> \A k \in Refused(claims) : k.index # Number(v, p)
<1> DEFINE I == {k.index : k \in Refused(claims)}
<1>1. I \in SUBSET Nat
    BY ClaimFacts DEF IsStored, Refused
<1>2. Unit(v, p) \in Rendered(Removed(v, I)) <=> Number(v, p) \notin I
    BY <1>1, RenderedAfter DEF IsStored
<1> QED BY <1>2 DEF IsStored

-----------------------------------------------------------------------------
(* Types of documents. *)

LEMMA DraftContent == ASSUME NEW c, IsDraft(c) PROVE c \in Content
<1>1. PICK n \in Nat : \/ \E s \in Seq(Nat) : c = AResume(n, s)
                       \/ \E k \in Nat : c = ALetter(n, k)
    BY DEF IsDraft
<1>2. ASSUME NEW s \in Seq(Nat), c = AResume(n, s) PROVE c \in Resume
    <2> DEFINE heads == [e \in DOMAIN s |-> <<n, e, 0>>]
               experience == [e \in DOMAIN s |-> [b \in 1..s[e] |-> <<n, e, b>>]]
    <2>1. DOMAIN s = 1..Len(s) /\ Len(s) \in Nat /\ \A e \in 1..Len(s) : s[e] \in Nat
        OBVIOUS
    <2>2. heads \in Seq(Text)
        BY <2>1 DEF Text
    <2>3. \A e \in 1..Len(s) : [b \in 1..s[e] |-> <<n, e, b>>] \in Seq(Text \cup {Blank})
        BY <2>1 DEF Text
    <2>4. experience \in Seq(Seq(Text \cup {Blank}))
        BY <2>1, <2>3
    <2>5. c = [type |-> "resume", summary |-> <<n, 0, 0>>, skills |-> <<n, 0, 1>>,
               heads |-> heads, experience |-> experience]
        BY <1>2 DEF AResume
    <2>6. <<n, 0, 0>> \in Text /\ <<n, 0, 1>> \in Text
        BY DEF Text
    <2> HIDE DEF heads, experience
    <2> QED BY <2>2, <2>4, <2>5, <2>6 DEF Resume
<1>3. ASSUME NEW k \in Nat, c = ALetter(n, k) PROVE c \in Letter
    <2>1. [p \in 1..k |-> <<n, 1, p>>] \in Seq(Text \cup {Blank})
        BY DEF Text
    <2> QED BY <1>3, <2>1 DEF ALetter, Letter
<1> QED BY <1>1, <1>2, <1>3 DEF Content

LEMMA RemovedContent == ASSUME NEW c \in Content, NEW I PROVE Removed(c, I) \in Content
<1> DEFINE Units0 == Text \cup {Blank}
<1>1. CASE c \in Resume
    <2> DEFINE failed == UNION {LocationForIndex(c, i) : i \in I}
               body == [e \in DOMAIN c.experience |-> [b \in DOMAIN c.experience[e] |->
                            IF <<e, b>> \in failed THEN Blank ELSE c.experience[e][b]]]
               head == IF <<0, 0>> \in failed THEN Blank ELSE c.summary
    <2>1. /\ c.type = "resume" /\ c.summary \in Units0
          /\ c.experience \in Seq(Seq(Units0))
        BY <1>1 DEF Resume
    <2>2. Removed(c, I) = [c EXCEPT !.summary = head, !.experience = body]
        BY <2>1 DEF Removed
    <2>3. head \in Units0
        BY <2>1
    <2>4. body \in Seq(Seq(Units0))
        <3> DEFINE x == c.experience
                   y(e) == [b \in DOMAIN x[e] |-> IF <<e, b>> \in failed THEN Blank ELSE x[e][b]]
        <3>1. Len(x) \in Nat /\ DOMAIN x = 1..Len(x) /\ \A e \in 1..Len(x) : x[e] \in Seq(Units0)
            BY <2>1
        <3>2. ASSUME NEW e \in 1..Len(x) PROVE y(e) \in Seq(Units0)
            <4> DEFINE z == x[e]
            <4>1. z \in Seq(Units0)
                BY <3>1
            <4> HIDE DEF x, z, Units0
            <4>2. Len(z) \in Nat /\ DOMAIN z = 1..Len(z) /\ \A b \in 1..Len(z) : z[b] \in Units0
                BY <4>1
            <4>3. Blank \in Units0
                BY DEF Units0
            <4>4. [b \in DOMAIN z |-> IF <<e, b>> \in failed THEN Blank ELSE z[b]] \in Seq(Units0)
                BY <4>2, <4>3
            <4> QED BY <4>4 DEF z
        <3>3. body = [e \in 1..Len(x) |-> y(e)]
            BY <3>1
        <3> HIDE DEF x, y, body, Units0
        <3> QED BY <3>1, <3>2, <3>3
    <2> HIDE DEF failed, body, head
    <2>5. Removed(c, I) \in Resume
        BY <1>1, <2>2, <2>3, <2>4 DEF Resume
    <2> QED BY <2>5 DEF Content
<1>2. CASE c \in Letter
    <2> DEFINE z == c.paragraphs
               body == [p \in DOMAIN z |-> IF p - 1 \in I THEN Blank ELSE z[p]]
    <2>1. c.type = "cover_letter" /\ z \in Seq(Units0)
        BY <1>2 DEF Letter
    <2>2. Removed(c, I) = [c EXCEPT !.paragraphs = body]
        BY <2>1 DEF Removed
    <2>3. body \in Seq(Units0)
        <3> HIDE DEF z, Units0
        <3>1. Len(z) \in Nat /\ DOMAIN z = 1..Len(z) /\ \A b \in 1..Len(z) : z[b] \in Units0
            BY <2>1
        <3>2. Blank \in Units0
            BY DEF Units0
        <3> QED BY <3>1, <3>2
    <2> HIDE DEF body
    <2>4. Removed(c, I) \in Letter
        BY <1>2, <2>2, <2>3 DEF Letter
    <2> QED BY <2>4 DEF Content
<1> QED BY <1>1, <1>2 DEF Content

-----------------------------------------------------------------------------
(* What the runs hold, and what is stored. *)

IsWork(x) ==
    /\ x.pc \in Pc /\ x.draft \in 0..MaxRepairs /\ x.claims \subseteq Claim
    /\ {x.content, x.verified} \subseteq Content \cup {NoContent}
    /\ x.pc = "idle" => x = Idle
    /\ x.pc \in {"verify", "judge"} => IsDraft(x.content)
    /\ x.pc = "judge" => x.claims \subseteq Claims(x.content)
    /\ x.pc = "persist" => IsStored(x.verified, x.claims, x.content)

Scalars ==
    /\ flag \in BOOLEAN
    /\ cancels \in 0..MaxCancels
    /\ faults \in 0..MaxFaults

TextsInv ==
    /\ Scalars
    /\ \A w \in Workers : IsWork(run[w])
    /\ \A d \in documents :
          /\ IsStored(d.verified, d.claims, d.content)
          /\ d.exported \in BOOLEAN /\ (d.exported => Exportable(d))

LEMMA IdleWorks == IsWork(Idle)
BY LimitsAreNat DEF IsWork, Idle, Pc

LEMMA ScalarsStay == Scalars /\ [Next]_vars => Scalars'
<1> SUFFICES ASSUME Scalars, [Next]_vars PROVE Scalars'
    OBVIOUS
<1> USE LimitsAreNat DEF Scalars, outside
<1>1. CASE UNCHANGED vars
    BY <1>1 DEF vars
<1>2. ASSUME NEW w \in Workers, GenStep(w) PROVE Scalars'
    BY <1>2 DEF GenStep, GenEnter, GenPosition, GenWrite, GenVerify, GenRepair, GenRemove,
                GenPersist, GenAnnounce, GenCancelled, GenClear
<1>3. ASSUME NEW w \in Workers, GenRaises(w) \/ GenCut(w) \/ GenCrash(w) PROVE Scalars'
    BY <1>3 DEF GenRaises, GenCut, GenCrash, Fault
<1>4. ASSUME NEW w \in Workers, NEW m \in queue, GenTake(w, m) PROVE Scalars'
    BY <1>4 DEF GenTake
<1>5. ASSUME NEW m \in queue, GenNeverStarts(m) PROVE Scalars'
    BY <1>5 DEF GenNeverStarts, Fault
<1>6. CASE FlagVanishes \/ Cancel \/ Restart
    <2>1. flag' \in BOOLEAN
        BY <1>6 DEF FlagVanishes, Cancel, Restart
    <2>2. cancels' \in 0..MaxCancels
        BY <1>6 DEF FlagVanishes, Cancel, Restart
    <2>3. faults' \in 0..MaxFaults
        BY <1>6 DEF FlagVanishes, Cancel, Restart, Fault
    <2> QED BY <2>1, <2>2, <2>3
<1>7. CASE \/ \E r \in Requests, t \in Types : Generate(r, t)
           \/ \E d \in documents : Export(d)
    BY <1>7 DEF Generate, Export
<1> QED BY <1>1, <1>2, <1>3, <1>4, <1>5, <1>6, <1>7 DEF Next, UserNext

\* A run that goes on with texts of its own.
LEMMA WorkKept ==
    ASSUME Structure, TextsInv, NEW w \in Workers, NEW x, IsWork(x),
           run' = [run EXCEPT ![w] = x], UNCHANGED documents, Scalars'
    PROVE  TextsInv'
<1>1. Only(w, x)
    BY OnlyOne
<1>2. \A v \in Workers : IsWork(run'[v])
    BY <1>1 DEF Only, TextsInv
<1> QED BY <1>2 DEF TextsInv

LEMMA AnswersAreClaims ==
    ASSUME NEW c, NEW answer \in Answers(c) PROVE answer \subseteq Claims(c)
<1>1. answer = {} \/ \E f \in [1..MaxClaims -> Claims(c)] : answer = Range(f)
    BY DEF Answers
<1>2. \A f \in [1..MaxClaims -> Claims(c)] : Range(f) \subseteq Claims(c)
    BY DEF Range
<1> QED BY <1>1, <1>2

\* The message a worker has, and its run as a record.
LEMMA WorkerHas ==
    ASSUME IInv, TextsInv, NEW w \in Workers, Busy(w)
    PROVE  /\ IsWork(run[w]) /\ IsRun(run[w])
           /\ \E m \in Message : run[w].message = {m} /\ m.type \in {"resume", "cover_letter"}
<1>1. PICK m \in Message : run[w].message = {m}
    BY DEF IInv, RowFollowsRun
<1>2. m.type \in {"resume", "cover_letter"}
    BY TypesAreDocumentTypes DEF Message
<1> QED BY <1>1, <1>2 DEF IInv, Structure, TextsInv

LEMMA WriteKeepsTexts ==
    ASSUME IInv, TextsInv, Scalars', NEW w \in Workers, GenWrite(w)
    PROVE  TextsInv'
<1>1. /\ Busy(w) /\ run[w].pc = "write" /\ UNCHANGED documents
    BY DEF GenWrite, At, Busy, outside
<1>2. PICK m \in Message : run[w].message = {m} /\ m.type \in {"resume", "cover_letter"}
    BY <1>1, WorkerHas
<1>3. PICK c \in Written(m.type, 0) :
          run' = [run EXCEPT ![w].pc = "verify", ![w].content = c]
    BY <1>2 DEF GenWrite
<1>4. IsDraft(c) /\ c \in Content
    BY <1>2, WrittenIsDraft, DraftContent
<1> DEFINE x == [run[w] EXCEPT !.pc = "verify", !.content = c]
<1>5. /\ x.pc = "verify" /\ x.content = c /\ x.draft = run[w].draft
      /\ x.verified = run[w].verified /\ x.claims = run[w].claims
    BY <1>1, WorkerHas DEF IsRun
<1>6. run' = [run EXCEPT ![w] = x]
    BY <1>3
<1> HIDE DEF x
<1>7. IsWork(x)
    BY <1>1, <1>4, <1>5, WorkerHas DEF IsWork, Pc
<1> QED BY <1>1, <1>6, <1>7, WorkKept DEF IInv

LEMMA RepairKeepsTexts ==
    ASSUME IInv, TextsInv, Scalars', NEW w \in Workers, GenRepair(w)
    PROVE  TextsInv'
<1>1. /\ Busy(w) /\ run[w].pc = "judge" /\ UNCHANGED documents
      /\ run[w].draft < MaxRepairs
    BY DEF GenRepair, At, Busy, outside
<1>2. PICK m \in Message : run[w].message = {m} /\ m.type \in {"resume", "cover_letter"}
    BY <1>1, WorkerHas
<1>3. PICK c \in Written(m.type, run[w].draft + 1) :
          run' = [run EXCEPT ![w].pc = "verify", ![w].content = c, ![w].draft = @ + 1,
                             ![w].claims = {}]
    BY <1>2 DEF GenRepair
<1>4. run[w].draft + 1 \in 0..MaxRepairs /\ run[w].draft + 1 \in Nat
    BY <1>1, WorkerHas, LimitsAreNat DEF IsWork
<1>5. IsDraft(c) /\ c \in Content
    BY <1>2, <1>4, WrittenIsDraft, DraftContent
<1> DEFINE x == [run[w] EXCEPT !.pc = "verify", !.content = c, !.draft = @ + 1, !.claims = {}]
<1>6. /\ x.pc = "verify" /\ x.content = c /\ x.draft = run[w].draft + 1
      /\ x.verified = run[w].verified /\ x.claims = {}
    BY <1>1, WorkerHas DEF IsRun
<1>7. run' = [run EXCEPT ![w] = x]
    BY <1>3
<1> HIDE DEF x
<1>8. IsWork(x)
    BY <1>1, <1>4, <1>5, <1>6, WorkerHas DEF IsWork, Pc
<1> QED BY <1>1, <1>7, <1>8, WorkKept DEF IInv

LEMMA VerifyKeepsTexts ==
    ASSUME IInv, TextsInv, Scalars', NEW w \in Workers, GenVerify(w)
    PROVE  TextsInv'
<1>1. Busy(w) /\ run[w].pc = "verify" /\ UNCHANGED documents
    BY DEF GenVerify, At, Busy, outside
<1>2. PICK answer \in Answers(run[w].content) :
          run' = [run EXCEPT ![w].pc = "judge", ![w].claims = answer]
    BY DEF GenVerify
<1>3. IsDraft(run[w].content)
    BY <1>1, WorkerHas DEF IsWork
<1>4. answer \subseteq Claims(run[w].content)
    BY AnswersAreClaims
<1>5. answer \subseteq Claim
    BY <1>3, <1>4, ClaimFacts
<1> DEFINE x == [run[w] EXCEPT !.pc = "judge", !.claims = answer]
<1>6. /\ x.pc = "judge" /\ x.content = run[w].content /\ x.draft = run[w].draft
      /\ x.verified = run[w].verified /\ x.claims = answer
    BY <1>1, WorkerHas DEF IsRun
<1>7. run' = [run EXCEPT ![w] = x]
    BY <1>2
<1> HIDE DEF x
<1>8. IsWork(x)
    BY <1>1, <1>3, <1>4, <1>5, <1>6, WorkerHas DEF IsWork, Pc
<1> QED BY <1>1, <1>7, <1>8, WorkKept DEF IInv

LEMMA RemoveKeepsTexts ==
    ASSUME IInv, TextsInv, Scalars', NEW w \in Workers, GenRemove(w)
    PROVE  TextsInv'
<1> DEFINE c == run[w].content
           rest == Removed(c, {k.index : k \in Refused(run[w].claims)})
           x == [run[w] EXCEPT !.pc = "persist", !.verified = c, !.content = rest]
<1>1. Busy(w) /\ run[w].pc = "judge" /\ UNCHANGED documents
    BY DEF GenRemove, At, Busy, outside
<1>2. IsDraft(c) /\ run[w].claims \subseteq Claims(c)
    BY <1>1, WorkerHas DEF IsWork
<1>3. c \in Content /\ rest \in Content
    BY <1>2, DraftContent, RemovedContent
<1>4. /\ x.pc = "persist" /\ x.content = rest /\ x.draft = run[w].draft
      /\ x.verified = c /\ x.claims = run[w].claims
    BY <1>1, WorkerHas DEF IsRun
<1>5. run' = [run EXCEPT ![w] = x]
    BY DEF GenRemove
<1>6. IsStored(c, run[w].claims, rest)
    BY <1>2 DEF IsStored
<1> HIDE DEF c, rest, x
<1>7. IsWork(x)
    BY <1>1, <1>3, <1>4, <1>6, WorkerHas DEF IsWork, Pc
<1> QED BY <1>1, <1>5, <1>7, WorkKept DEF IInv

\* Steps that only move the run on, or end it.
LEMMA MovesKeepTexts ==
    ASSUME IInv, TextsInv, Scalars', NEW w \in Workers,
           \/ GenEnter(w) \/ GenPosition(w) \/ GenCancelled(w)
           \/ GenAnnounce(w) \/ GenClear(w) \/ GenRaises(w) \/ GenCut(w) \/ GenCrash(w)
    PROVE  TextsInv'
<1>1. UNCHANGED documents
    BY DEF GenEnter, GenPosition, GenCancelled, GenAnnounce, GenClear, GenRaises, GenCut,
           GenCrash, outside
<1>2. CASE GenEnter(w) \/ GenPosition(w) \/ GenCancelled(w)
    <2>1. PICK pc \in {"position", "write", "cancelled", "clear"} :
              Busy(w) /\ run' = [run EXCEPT ![w].pc = pc]
        BY <1>2 DEF GenEnter, GenPosition, GenCancelled, Busy, At
    <2> DEFINE x == [run[w] EXCEPT !.pc = pc]
    <2>2. /\ x.pc = pc /\ x.content = run[w].content /\ x.draft = run[w].draft
          /\ x.verified = run[w].verified /\ x.claims = run[w].claims
        BY <2>1, WorkerHas DEF IsRun
    <2>3. run' = [run EXCEPT ![w] = x]
        BY <2>1
    <2> HIDE DEF x
    <2>4. IsWork(x)
        BY <2>1, <2>2, WorkerHas DEF IsWork, Pc
    <2> QED BY <1>1, <2>3, <2>4, WorkKept DEF IInv
<1>3. CASE GenAnnounce(w) \/ GenClear(w) \/ GenRaises(w) \/ GenCut(w) \/ GenCrash(w)
    <2>1. run' = [run EXCEPT ![w] = Idle]
        BY <1>3 DEF GenAnnounce, GenClear, GenRaises, GenCut, GenCrash
    <2> QED BY <1>1, <2>1, IdleWorks, WorkKept DEF IInv
<1> QED BY <1>2, <1>3

\* A run whose texts are gone.
LEMMA EmptyWorks ==
    ASSUME NEW pc \in Pc \ {"idle", "verify", "judge", "persist"}, NEW message, NEW row
    PROVE  IsWork([Idle EXCEPT !.pc = pc, !.message = message, !.row = row])
<1> DEFINE x == [Idle EXCEPT !.pc = pc, !.message = message, !.row = row]
<1>1. /\ x.pc = pc /\ x.content = NoContent /\ x.verified = NoContent
      /\ x.draft = 0 /\ x.claims = {}
    BY DEF Idle
<1> HIDE DEF x
<1>2. IsWork(x)
    BY <1>1, LimitsAreNat DEF IsWork
<1> QED BY <1>2 DEF x

LEMMA TakeKeepsTexts ==
    ASSUME IInv, TextsInv, Scalars', NEW w \in Workers, NEW m \in queue, GenTake(w, m)
    PROVE  TextsInv'
<1> DEFINE x == [Idle EXCEPT !.pc = "enter", !.message = {m}, !.row = Len(rows')]
<1>1. run' = [run EXCEPT ![w] = x] /\ UNCHANGED documents
    BY DEF GenTake
<1>2. IsWork(x)
    BY EmptyWorks DEF Pc
<1> HIDE DEF x
<1> QED BY <1>1, <1>2, WorkKept DEF IInv

LEMMA PersistKeepsTexts ==
    ASSUME IInv, TextsInv, Scalars', NEW w \in Workers, GenPersist(w)
    PROVE  TextsInv'
<1> DEFINE x == [Idle EXCEPT !.pc = "announce", !.message = run[w].message, !.row = run[w].row]
           doc == [row |-> run[w].row, content |-> run[w].content, verified |-> run[w].verified,
                   claims |-> run[w].claims, exported |-> FALSE]
<1>1. /\ Busy(w) /\ run[w].pc = "persist" /\ run' = [run EXCEPT ![w] = x]
      /\ documents' = documents \cup {doc}
    BY DEF GenPersist, At, Busy
<1>2. IsWork(x)
    BY EmptyWorks DEF Pc
<1>3. IsStored(doc.verified, doc.claims, doc.content) /\ doc.exported = FALSE
    BY <1>1, WorkerHas DEF IsWork
<1> HIDE DEF x, doc
<1>4. Only(w, x)
    BY <1>1, OnlyOne DEF IInv
<1> QED BY <1>1, <1>2, <1>3, <1>4 DEF TextsInv, Only

LEMMA ExportKeepsTexts ==
    ASSUME IInv, TextsInv, Scalars', NEW d \in documents, Export(d)
    PROVE  TextsInv'
<1> DEFINE new == [d EXCEPT !.exported = TRUE]
<1>1. documents' = (documents \ {d}) \cup {new} /\ UNCHANGED run /\ Exportable(d)
    BY DEF Export
<1>2. IsDocument(d)
    BY DEF IInv, Structure
<1>3. /\ new.verified = d.verified /\ new.claims = d.claims /\ new.content = d.content
      /\ new.exported \in BOOLEAN
    BY <1>2 DEF IsDocument
<1> HIDE DEF new
<1>4. Exportable(new)
    BY <1>1, <1>3 DEF Exportable
<1> QED BY <1>1, <1>3, <1>4 DEF TextsInv

LEMMA InitTexts == Init => TextsInv
<1> SUFFICES ASSUME Init PROVE TextsInv
    OBVIOUS
<1>1. Scalars
    <2>1. flag = FALSE /\ cancels = 0 /\ faults = 0
        BY DEF Init
    <2>2. flag \in BOOLEAN
        BY <2>1
    <2>3. cancels \in 0..MaxCancels /\ faults \in 0..MaxFaults
        BY <2>1, LimitsAreNat
    <2> QED BY <2>2, <2>3 DEF Scalars
<1>2. \A w \in Workers : IsWork(run[w])
    BY IdleWorks DEF Init
<1> QED BY <1>1, <1>2 DEF TextsInv, Init

LEMMA NextTexts == IInv /\ TextsInv /\ [Next]_vars => TextsInv'
<1> SUFFICES ASSUME IInv, TextsInv, [Next]_vars PROVE TextsInv'
    OBVIOUS
<1> Scalars'
    BY ScalarsStay DEF TextsInv
<1>1. ASSUME UNCHANGED <<run, documents>> PROVE TextsInv'
    BY <1>1 DEF TextsInv
<1>2. CASE UNCHANGED vars
    BY <1>1, <1>2 DEF vars
<1>3. CASE \E w \in Workers : GenStep(w)
    BY <1>3, WriteKeepsTexts, RepairKeepsTexts, VerifyKeepsTexts, RemoveKeepsTexts,
       PersistKeepsTexts, MovesKeepTexts DEF GenStep
<1>4. CASE \E w \in Workers : GenRaises(w) \/ GenCut(w) \/ GenCrash(w)
    BY <1>4, MovesKeepTexts
<1>5. CASE \E w \in Workers, m \in queue : GenTake(w, m)
    BY <1>5, TakeKeepsTexts
<1>6. CASE \E d \in documents : Export(d)
    BY <1>6, ExportKeepsTexts
<1>7. CASE Restart
    BY <1>7, IdleWorks DEF Restart, TextsInv
<1>8. CASE \/ FlagVanishes \/ Cancel \/ \E m \in queue : GenNeverStarts(m)
           \/ \E r \in Requests, t \in Types : Generate(r, t)
    BY <1>1, <1>8 DEF FlagVanishes, Cancel, GenNeverStarts, Generate
<1> QED BY <1>2, <1>3, <1>4, <1>5, <1>6, <1>7, <1>8 DEF Next, UserNext

\* What a worker holds and what is stored comes from a draft, by its claims.
LEMMA TextsHold == Spec => []TextsInv
<1>1. Init => TextsInv
    BY InitTexts
<1>2. IInv /\ TextsInv /\ [Next]_vars => TextsInv'
    BY NextTexts
<1> QED BY <1>1, <1>2, Inductive, PTL DEF Spec

\* The variables have the types the code gives them, for any drafts the writer may give
\* and any bounds (generate_document and the rows it writes).
THEOREM TypesHold == Spec => []TypeOK
<1>1. ASSUME IInv, TextsInv PROVE TypeOK
    <2>1. ASSUME NEW w \in Workers
          PROVE  run[w].message \subseteq Message /\ run[w].row \in {0} \cup DOMAIN rows
        <3>1. CASE Busy(w)
            BY <1>1, <3>1 DEF IInv, RowFollowsRun
        <3>2. CASE ~Busy(w)
            <4>1. run[w] = Idle
                BY <1>1, <3>2 DEF TextsInv, IsWork, Busy
            <4> QED BY <4>1 DEF Idle
        <3> QED BY <3>1, <3>2
    <2>2. ASSUME NEW d \in documents
          PROVE  {d.content, d.verified} \subseteq Content /\ d.claims \subseteq Claim
        <3>1. IsStored(d.verified, d.claims, d.content)
            BY <1>1 DEF TextsInv
        <3>2. d.verified \in Content /\ d.content \in Content
            BY <3>1, DraftContent, RemovedContent DEF IsStored
        <3>3. d.claims \subseteq Claim
            BY <3>1, ClaimFacts DEF IsStored
        <3> QED BY <3>2, <3>3
    <2> QED BY <1>1, <2>1, <2>2 DEF TypeOK, IInv, Structure, TextsInv, IsWork, Scalars
<1> QED BY <1>1, Inductive, TextsHold, PTL

\* Of every draft, however many entries, bullets or paragraphs it has and however the
\* claims are worded and numbered: the unit a claim was refused for, or asserts an invented
\* hard fact in, is not in the stored document (_location_for_index, _apply_removals,
\* finalize_claim_status).
THEOREM UnbackedAreGone == Spec => []UnbackedUnitsAreGone
<1>1. ASSUME TextsInv PROVE UnbackedUnitsAreGone
    <2> SUFFICES ASSUME NEW d \in documents, NEW c \in d.claims,
                        c \in Refused(d.claims) \/ c.invented, NEW t \in NumberedUnit(d, c)
                 PROVE  t \notin Rendered(d.content)
        BY DEF UnbackedUnitsAreGone
    <2>1. IsStored(d.verified, d.claims, d.content)
        BY <1>1 DEF TextsInv
    <2>2. c \in Refused(d.claims)
        BY <2>1, ClaimFacts DEF IsStored, Refused
    <2>3. PICK p \in Places(d.verified) : t = Unit(d.verified, p) /\ c.index = Number(d.verified, p)
        BY DEF NumberedUnit, Units
    <2> QED BY <2>1, <2>2, <2>3, StoredUnits
<1> QED BY <1>1, TextsHold, PTL

\* Whatever the draft and the claims: a document that lost a unit which a supported claim
\* quotes is never exported, however often it is asked for (_apply_removals against
\* export_document).
THEOREM ExportsAreUnhurt == Spec => []ExportedIsUnhurt
<1>1. ASSUME TextsInv PROVE ExportedIsUnhurt
    <2> SUFFICES ASSUME NEW d \in documents, NEW lost \in d.claims,
                        NEW refused \in Refused(d.claims),
                        d.exported, lost.status = "supported",
                        lost.text \in NumberedUnit(d, refused)
                 PROVE  FALSE
        BY DEF ExportedIsUnhurt
    <2>1. IsStored(d.verified, d.claims, d.content) /\ Exportable(d)
        BY <1>1 DEF TextsInv
    <2>2. PICK p \in Places(d.verified) :
              lost.text = Unit(d.verified, p) /\ refused.index = Number(d.verified, p)
        BY DEF NumberedUnit, Units
    <2>3. lost.text \notin Rendered(d.content)
        BY <2>1, <2>2, StoredUnits
    <2>4. lost.text \in Text
        BY <2>1, <2>2, DraftFacts DEF IsStored
    <2>5. OwnWords \notin Text
        <3>1. \A a, b, c \in Nat : OwnWords # <<a, b, c>>
            BY DEF OwnWords
        <3>2. \A x \in Text : x = <<x[1], x[2], x[3]>> /\ {x[1], x[2], x[3]} \subseteq Nat
            BY DEF Text
        <3> QED BY <3>1, <3>2
    <2> QED BY <2>1, <2>3, <2>4, <2>5 DEF Exportable, MayBeFound
<1> QED BY <1>1, TextsHold, PTL
=============================================================================
