------------------------- MODULE JobPipeline_proofs -------------------------
(***************************************************************************)
(* Proofs about JobPipeline for every number of threads, requests, texts,  *)
(* evidence items, retries and faults: its type invariant; that a job      *)
(* whose status says it is in flight is backed by work unless a message    *)
(* was lost; that runs which do not overlap leave one row of a requirement *)
(* and one match of it; that a job at rest and ready has been judged.      *)
(***************************************************************************)
EXTENDS JobPipeline, TLAPS

\* What a run's program counter says about the rest of its record: the actor it
\* belongs to, and the status an analysis run last wrote.
Shape(x) ==
    /\ x.pc \in {"llm", "save"} => x.kind = "analyze" /\ x.seen = "analyzing"
    /\ x.pc = "match" => x.kind = "analyze" /\ x.seen = "analyzed"
    /\ x.pc = "send" => x.kind = "analyze"
    /\ x.pc \in Open => x.kind = "coverage"
    /\ x.kind = "none" => x.pc = "idle"

RunShape == \A w \in Workers : Shape(run[w])

\* The inductive invariant.
IInv == TypeOK /\ RunShape /\ BusyHasWork

-----------------------------------------------------------------------------
(* Types. *)

\* An idle thread, the state every run starts from and ends in, is well typed.
LEMMA IdleIsRun == Idle \in Run
BY BoundsAreNat DEF Idle, Run, Kinds, Retries, Status, Settled, Unsettled, Busy, Open

\* What is left of a run after its last commit is well typed.
LEMMA WrappedIsRun ==
    ASSUME TypeOK, NEW w \in Workers, NEW pc \in {"match", "send", "ack", "clear"}
    PROVE  Wrapped(w, pc) \in Run
BY IdleIsRun DEF TypeOK, Wrapped, Idle, Run

\* A run that lost rows to another's commit is well typed, and otherwise the same.
LEMMA BereftIsRun ==
    ASSUME NEW x \in Run, NEW rowsGone
    PROVE  /\ Bereft(x, rowsGone) \in Run
           /\ Bereft(x, rowsGone).pc = x.pc
           /\ Bereft(x, rowsGone).kind = x.kind
           /\ Bereft(x, rowsGone).seen = x.seen
BY DEF Bereft, Run

\* The initial state is well typed.
LEMMA InitTypeOK == Init => TypeOK
<1> SUFFICES ASSUME Init PROVE TypeOK
    OBVIOUS
<1>1. lost \in BOOLEAN
    BY Zenon DEF Init
<1>2. run \in [Workers -> Run]
    BY IdleIsRun DEF Init
<1>3. queue \in [Kinds \X Retries -> Nat]
    BY DEF Init
<1> QED
    BY <1>1, <1>2, <1>3 DEF Init, TypeOK, Status, Settled

\* The endpoints of routers/jobs.py and the expiry of the flag keep the types.
LEMMA ApiTypeOK == TypeOK /\ ApiNext => TypeOK'
<1> SUFFICES ASSUME TypeOK, ApiNext PROVE TypeOK'
    OBVIOUS
<1> USE DEF TypeOK
<1>1. ASSUME NEW r \in Requests, AnalyzeCheck(r) PROVE TypeOK'
    BY <1>1 DEF AnalyzeCheck
<1>2. ASSUME NEW r \in Requests, AnalyzeCommit(r) PROVE TypeOK'
    BY <1>2 DEF AnalyzeCommit, Status, Unsettled, Busy
<1>3. ASSUME NEW r \in Requests, AnalyzeSend(r) PROVE TypeOK'
    <2>1. queue' \in [Kinds \X Retries -> Nat]
        BY <1>3, BoundsAreNat DEF AnalyzeSend, Kinds, Retries
    <2> QED
        BY <1>3, <2>1 DEF AnalyzeSend
<1>4. CASE CancelJob
    BY <1>4 DEF CancelJob
<1>5. CASE FlagExpires
    BY <1>5 DEF FlagExpires
<1> QED
    BY <1>1, <1>2, <1>3, <1>4, <1>5 DEF ApiNext

\* An actor that raised is retried or given up: the queue stays well typed.
LEMMA AbandonTypeOK ==
    ASSUME TypeOK, NEW w \in Workers, Abandon(w)
    PROVE  /\ run' \in [Workers -> Run]
           /\ queue' \in [Kinds \X Retries -> Nat]
           /\ lost' \in BOOLEAN
<1> USE DEF TypeOK
<1>1. run' \in [Workers -> Run]
    BY IdleIsRun DEF Abandon
<1>2. queue' \in [Kinds \X Retries -> Nat]
    BY DEF Abandon
<1>3. lost' \in BOOLEAN
    <2>1. CASE run[w].retries < MaxRetries
        BY <2>1, Zenon DEF Abandon
    <2>2. CASE ~(run[w].retries < MaxRetries)
        BY <2>2, Zenon DEF Abandon
    <2> QED
        BY <2>1, <2>2
<1> QED
    BY <1>1, <1>2, <1>3

\* Exceptions, crashes, restarts and dying requests keep the types.
LEMMA FaultTypeOK == TypeOK /\ FaultNext => TypeOK'
<1> SUFFICES ASSUME TypeOK, FaultNext PROVE TypeOK'
    OBVIOUS
<1>1. ASSUME NEW r \in Requests, AnalyzeDies(r) PROVE TypeOK'
    BY <1>1 DEF TypeOK, AnalyzeDies
<1>2. ASSUME NEW w \in Workers, Fail(w) PROVE TypeOK'
    BY <1>2, AbandonTypeOK DEF TypeOK, Fail
<1>3. ASSUME NEW w \in Workers, Crash(w) PROVE TypeOK'
    <2>1. run[w].kind \in Kinds /\ run[w].retries \in Retries
        BY <1>3 DEF TypeOK, Run, Crash
    <2>2. queue' \in [Kinds \X Retries -> Nat]
        BY <1>3, <2>1 DEF TypeOK, Crash
    <2> QED
        BY <1>3, <2>2, IdleIsRun DEF TypeOK, Crash
<1>4. CASE Restart
    BY <1>4, IdleIsRun DEF TypeOK, Restart
<1> QED
    BY <1>1, <1>2, <1>3, <1>4 DEF FaultNext

\* Each step of analyze_job keeps the types.
LEMMA AnalysisTypeOK ==
    ASSUME TypeOK, NEW w \in Workers, AnalysisNext(w)
    PROVE  TypeOK'
<1>1. CASE AnalysisStart(w)
    <2>1. PICK n \in Retries :
              Take(w, "analyze", n, [Idle EXCEPT !.pc = "llm", !.seen = "analyzing"])
        BY <1>1 DEF AnalysisStart
    <2>2. run' \in [Workers -> Run]
        BY <2>1, IdleIsRun DEF Take, TypeOK, Idle, Run, Kinds, Status, Unsettled, Busy
    <2>3. queue' \in [Kinds \X Retries -> Nat]
        BY <2>1 DEF Take, TypeOK, Kinds
    <2>4. overlap' \subseteq Kinds
        BY <1>1 DEF AnalysisStart, Opens, TypeOK, Kinds
    <2> QED
        BY <1>1, <2>2, <2>3, <2>4 DEF AnalysisStart, TypeOK, Status, Unsettled, Busy
<1>2. CASE AnalysisFails(w)
    BY <1>2, WrappedIsRun DEF AnalysisFails, Assign, TypeOK, Status, Settled
<1>3. CASE AnalysisReply(w)
    <2>1. PICK answer \in SUBSET Texts :
              run' = [run EXCEPT ![w].pc = "save",
                                 ![w].new = answer \ {r.text : r \in rows}]
        BY <1>3 DEF AnalysisReply
    <2> DEFINE x == [run[w] EXCEPT !.pc = "save", !.new = answer \ {r.text : r \in rows}]
    <2>2. x \in Run
        <3>1. run[w] \in Run
            BY DEF TypeOK
        <3>2. answer \ {r.text : r \in rows} \in SUBSET Texts
            OBVIOUS
        <3> QED
            BY <3>1, <3>2 DEF Run
    <2>3. run' = [run EXCEPT ![w] = x]
        BY <2>1 DEF TypeOK
    <2>4. run' \in [Workers -> Run]
        BY <2>2, <2>3 DEF TypeOK
    <2> QED
        BY <1>3, <2>4 DEF AnalysisReply, TypeOK
<1>4. CASE AnalysisSave(w)
    <2> DEFINE x == [Wrapped(w, "match") EXCEPT !.seen = "analyzed"]
    <2>0. x \in Run
        BY WrappedIsRun DEF Run, Status, Unsettled
    <2>1. run' \in [Workers -> Run]
        BY <1>4, <2>0 DEF AnalysisSave, TypeOK
    <2>2. rows' \subseteq Row
        BY <1>4 DEF AnalysisSave, TypeOK, Run, Row
    <2> QED
        BY <1>4, <2>1, <2>2 DEF AnalysisSave, Assign, TypeOK, Status, Unsettled
<1>5. CASE AnalysisMatching(w)
    BY <1>5, WrappedIsRun DEF AnalysisMatching, Assign, TypeOK, Status, Unsettled, Busy
<1>6. CASE AnalysisSend(w)
    <2>1. queue' \in [Kinds \X Retries -> Nat]
        BY <1>6, BoundsAreNat DEF AnalysisSend, TypeOK, Kinds, Retries
    <2> QED
        BY <1>6, <2>1, WrappedIsRun DEF AnalysisSend, TypeOK
<1> QED
    BY <1>1, <1>2, <1>3, <1>4, <1>5, <1>6 DEF AnalysisNext

\* Persisting a best hit, in place or as a new row, keeps a run well typed.
LEMMA PersistIsRun ==
    ASSUME NEW x \in Run, NEW m \in Match
    PROVE  Persist(x, m) \in Run
<1>1. [x EXCEPT !.kept = @ \cup {m}] \in Run
    BY DEF Run
<1>2. [x EXCEPT !.added = @ \cup {m}] \in Run
    BY DEF Run
<1> QED
    BY <1>1, <1>2 DEF Persist

\* Whatever the judgement of a requirement, the run stays well typed.
LEMMA JudgementsAreRuns ==
    ASSUME TypeOK, NEW w \in Workers, NEW row \in Row, NEW x \in Judgements(w, row)
    PROVE  x \in Run
<1> DEFINE y == [run[w] EXCEPT !.todo = @ \ {row}]
<1>1. y \in Run
    BY DEF TypeOK, Run
<1>2. [y EXCEPT !.verdict = @ \cup {row}] \in Run
    BY <1>1 DEF Run
<1>3. [y EXCEPT !.unknown = TRUE] \in Run
    BY <1>1 DEF Run
<1> QED
    BY <1>2, <1>3 DEF Judgements

\* Each step of compute_coverage keeps the types.
LEMMA CoverageTypeOK ==
    ASSUME TypeOK, NEW w \in Workers, CoverageNext(w)
    PROVE  TypeOK'
<1>1. CASE CoverageStart(w)
    <2>1. PICK n \in Retries :
              Take(w, "coverage", n, [Idle EXCEPT !.pc = "read", !.seen = status])
        BY <1>1 DEF CoverageStart
    <2>2. run' \in [Workers -> Run]
        BY <2>1, IdleIsRun DEF Take, TypeOK, Idle, Run, Kinds, Open
    <2>3. queue' \in [Kinds \X Retries -> Nat]
        BY <2>1 DEF Take, TypeOK, Kinds
    <2>4. overlap' \subseteq Kinds
        BY <1>1 DEF CoverageStart, Opens, TypeOK, Kinds
    <2> QED
        BY <1>1, <2>2, <2>3, <2>4 DEF CoverageStart, TypeOK
<1>2. CASE CoverageEmpty(w)
    BY <1>2, WrappedIsRun DEF CoverageEmpty, Assign, TypeOK, Status, Settled
<1>3. CASE CoverageRead(w)
    <2> DEFINE x == [run[w] EXCEPT !.pc = "delete", !.read = rows, !.todo = rows]
    <2>1. x \in Run
        <3>1. run[w] \in Run /\ rows \in SUBSET Row
            BY DEF TypeOK
        <3> QED
            BY <3>1 DEF Run, Open
    <2>2. run' = [run EXCEPT ![w] = x]
        BY <1>3 DEF CoverageRead, TypeOK
    <2>3. run' \in [Workers -> Run]
        BY <2>1, <2>2 DEF TypeOK
    <2> QED
        BY <1>3, <2>3 DEF CoverageRead, TypeOK
<1>4. CASE CoverageDelete(w)
    <2> DEFINE x == [run[w] EXCEPT !.pc = "lock",
                              !.deleted = {m \in matches : m.row \in run[w].read}]
    <2>1. x \in Run
        <3>1. run[w] \in Run /\ {m \in matches : m.row \in run[w].read} \in SUBSET Match
            BY DEF TypeOK
        <3> QED
            BY <3>1 DEF Run, Open
    <2>2. run' = [run EXCEPT ![w] = x]
        BY <1>4 DEF CoverageDelete, TypeOK
    <2>3. run' \in [Workers -> Run]
        BY <2>1, <2>2 DEF TypeOK
    <2> QED
        BY <1>4, <2>3 DEF CoverageDelete, TypeOK
<1>5. CASE CoverageLock(w)
    <2> DEFINE x == [run[w] EXCEPT !.pc = "loop"]
    <2>1. x \in Run
        <3>1. run[w] \in Run
            BY DEF TypeOK
        <3> QED
            BY <3>1 DEF Run, Open
    <2>2. run' = [run EXCEPT ![w] = x]
        BY <1>5 DEF CoverageLock, TypeOK
    <2>3. run' \in [Workers -> Run]
        BY <2>1, <2>2 DEF TypeOK
    <2> QED
        BY <1>5, <2>3 DEF CoverageLock, TypeOK
<1>6. ASSUME NEW row \in Row, CoverageJudge(w, row) PROVE TypeOK'
    <2>1. PICK x \in Judgements(w, row) :
              \/ run' = [run EXCEPT ![w] = x]
              \/ \E e \in Evidence :
                    run' = [run EXCEPT ![w] = Persist(x, [row |-> row, evidence |-> e])]
        BY <1>6 DEF CoverageJudge
    <2>2. ASSUME NEW e \in Evidence
          PROVE  Persist(x, [row |-> row, evidence |-> e]) \in Run
        BY JudgementsAreRuns, PersistIsRun DEF Match
    <2>3. run' \in [Workers -> Run]
        BY <2>1, <2>2, JudgementsAreRuns DEF TypeOK
    <2> QED
        BY <1>6, <2>3 DEF CoverageJudge, TypeOK
<1>7. ASSUME NEW pc \in {"ack", "clear"}, CommitMatches(w, pc)
      PROVE  /\ matches' \subseteq Match /\ judged' \subseteq Row
             /\ run' \in [Workers -> Run]
    <2>1. matches' \subseteq Match /\ judged' \subseteq Row
        BY <1>7 DEF CommitMatches, TypeOK, Run
    <2>2. Wrapped(w, pc) \in Run
        BY WrappedIsRun
    <2>3. \A v \in Workers : Bereft(run[v], run[w].deleted) \in Run
        BY BereftIsRun DEF TypeOK
    <2> QED
        BY <1>7, <2>1, <2>2, <2>3 DEF CommitMatches
<1>8. CASE CoverageCommit(w)
    BY <1>7, <1>8 DEF CoverageCommit, Assign, TypeOK, Status, Settled
<1>9. CASE CoverageCancelled(w)
    BY <1>7, <1>9 DEF CoverageCancelled, Assign, TypeOK, Status, Settled
<1>10. CASE CoverageConflict(w)
    BY <1>10, AbandonTypeOK DEF CoverageConflict, TypeOK
<1>11. CASE CoverageClear(w)
    BY <1>11, WrappedIsRun DEF CoverageClear, TypeOK
<1> QED
    BY <1>1, <1>2, <1>3, <1>4, <1>5, <1>6, <1>8, <1>9, <1>10, <1>11 DEF CoverageNext

\* The type invariant is inductive.
LEMMA NextTypeOK == TypeOK /\ [Next]_vars => TypeOK'
<1> SUFFICES ASSUME TypeOK, [Next]_vars PROVE TypeOK'
    OBVIOUS
<1>1. ASSUME NEW w \in Workers, Ack(w) PROVE TypeOK'
    BY <1>1, WrappedIsRun, IdleIsRun DEF Ack, TypeOK
<1>2. CASE UNCHANGED vars
    BY <1>2 DEF vars, TypeOK
<1> QED
    BY <1>1, <1>2, ApiTypeOK, FaultTypeOK, AnalysisTypeOK, CoverageTypeOK
    DEF Next, WorkerNext

\* The type invariant of the pipeline.
THEOREM TypeCorrect == Spec => []TypeOK
<1> QED
    BY InitTypeOK, NextTypeOK, PTL DEF Spec

-----------------------------------------------------------------------------
(* The shape of runs. *)

\* An idle thread satisfies the relation between actor and program counter.
LEMMA IdleShape == Shape(Idle)
BY DEF Shape, Idle, Open

\* A wrapped run keeps its actor; only "send" demands a particular one.
LEMMA WrappedShape ==
    ASSUME NEW w \in Workers, run[w].kind # "none",
           NEW pc \in {"send", "ack", "clear"},
           pc = "send" => run[w].kind = "analyze"
    PROVE  Shape(Wrapped(w, pc))
BY DEF Shape, Wrapped, Idle, Open

\* The loop changes what a coverage run has gathered, never where it is.
LEMMA JudgedShape ==
    ASSUME TypeOK, NEW w \in Workers, run[w].pc = "loop", run[w].kind = "coverage",
           NEW row \in Row, NEW x \in Judgements(w, row)
    PROVE  /\ x.pc = "loop" /\ x.kind = "coverage" /\ x.seen = run[w].seen
           /\ Shape(x)
           /\ \A m : /\ Shape(Persist(x, m))
                     /\ Persist(x, m).pc = "loop"
                     /\ Persist(x, m).kind = "coverage"
                     /\ Persist(x, m).seen = run[w].seen
<1>1. run[w] \in Run
    BY DEF TypeOK
<1>2. x \in Run
    BY JudgementsAreRuns
<1>3. x.pc = "loop" /\ x.kind = "coverage" /\ x.seen = run[w].seen
    BY <1>1 DEF Judgements, Run
<1>4. ASSUME NEW m
      PROVE  /\ Persist(x, m).pc = "loop"
             /\ Persist(x, m).kind = "coverage"
             /\ Persist(x, m).seen = run[w].seen
    BY <1>2, <1>3 DEF Persist, Run
<1> QED
    BY <1>3, <1>4 DEF Shape

\* No step puts a thread of one actor at a program counter of the other.
LEMMA NextRunShape == TypeOK /\ RunShape /\ [Next]_vars => RunShape'
<1> SUFFICES ASSUME TypeOK, RunShape, [Next]_vars, NEW v \in Workers
             PROVE  Shape(run[v])'
    BY DEF RunShape
<1>1. Shape(run[v]) /\ run \in [Workers -> Run]
    BY DEF RunShape, TypeOK
<1>2. ASSUME run' = run PROVE Shape(run[v])'
    BY <1>1, <1>2 DEF Shape
<1>3. ASSUME NEW w \in Workers, NEW x, Shape(x), run' = [run EXCEPT ![w] = x]
      PROVE  Shape(run[v])'
    BY <1>1, <1>3 DEF Shape
<1>4. ASSUME NEW w \in Workers, Abandon(w) PROVE Shape(run[v])'
    BY <1>3, <1>4, IdleShape DEF Abandon
<1>5. ASSUME ApiNext PROVE Shape(run[v])'
    BY <1>2, <1>5 DEF ApiNext, AnalyzeCheck, AnalyzeCommit, AnalyzeSend, CancelJob, FlagExpires
<1>6. ASSUME FaultNext PROVE Shape(run[v])'
    <2>1. ASSUME NEW r \in Requests, AnalyzeDies(r) PROVE Shape(run[v])'
        BY <1>2, <2>1 DEF AnalyzeDies
    <2>2. ASSUME NEW w \in Workers, Fail(w) PROVE Shape(run[v])'
        BY <1>4, <2>2 DEF Fail
    <2>3. ASSUME NEW w \in Workers, Crash(w) PROVE Shape(run[v])'
        BY <1>3, <2>3, IdleShape DEF Crash
    <2>4. CASE Restart
        <3>1. run'[v] = Idle
            BY <2>4 DEF Restart
        <3> QED
            BY <3>1, IdleShape DEF Shape
    <2> QED
        BY <1>6, <2>1, <2>2, <2>3, <2>4 DEF FaultNext
<1>7. ASSUME NEW w \in Workers, AnalysisNext(w) PROVE Shape(run[v])'
    <2> HIDE DEF Shape
    <2>1. CASE AnalysisStart(w)
        <3>1. PICK n \in Retries :
                  Take(w, "analyze", n, [Idle EXCEPT !.pc = "llm", !.seen = "analyzing"])
            BY <2>1 DEF AnalysisStart
        <3> DEFINE x == [[Idle EXCEPT !.pc = "llm", !.seen = "analyzing"]
                            EXCEPT !.kind = "analyze", !.retries = n]
        <3>2. Shape(x)
            BY DEF Shape, Idle, Open
        <3> QED
            BY <1>3, <3>1, <3>2 DEF Take
    <2>2. CASE AnalysisFails(w)
        BY <1>3, <2>2, WrappedShape DEF AnalysisFails, RunShape, Shape
    <2>3. CASE AnalysisReply(w)
        <3>1. PICK answer \in SUBSET Texts :
                  run' = [run EXCEPT ![w].pc = "save",
                                     ![w].new = answer \ {r.text : r \in rows}]
            BY <2>3 DEF AnalysisReply
        <3> DEFINE x == [run[w] EXCEPT !.pc = "save", !.new = answer \ {r.text : r \in rows}]
        <3>2. Shape(x)
            BY <2>3 DEF AnalysisReply, RunShape, Shape, Open, TypeOK, Run
        <3> QED
            BY <1>1, <1>3, <3>1, <3>2
    <2>4. CASE AnalysisSave(w)
        <3> DEFINE x == [Wrapped(w, "match") EXCEPT !.seen = "analyzed"]
        <3>1. Shape(x)
            BY <2>4 DEF AnalysisSave, RunShape, Shape, Wrapped, Idle, Open
        <3> QED
            BY <1>3, <2>4, <3>1 DEF AnalysisSave
    <2>5. CASE AnalysisMatching(w)
        BY <1>3, <2>5, WrappedShape DEF AnalysisMatching, RunShape, Shape
    <2>6. CASE AnalysisSend(w)
        BY <1>3, <2>6, WrappedShape DEF AnalysisSend, RunShape, Shape
    <2> QED
        BY <1>7, <2>1, <2>2, <2>3, <2>4, <2>5, <2>6 DEF AnalysisNext
<1>8. ASSUME NEW w \in Workers, CoverageNext(w) PROVE Shape(run[v])'
    <2>1. CASE CoverageStart(w)
        <3>1. PICK n \in Retries :
                  Take(w, "coverage", n, [Idle EXCEPT !.pc = "read", !.seen = status])
            BY <2>1 DEF CoverageStart
        <3> DEFINE x == [[Idle EXCEPT !.pc = "read", !.seen = status]
                            EXCEPT !.kind = "coverage", !.retries = n]
        <3>2. Shape(x)
            BY DEF Shape, Idle, Open
        <3> QED
            BY <1>3, <3>1, <3>2 DEF Take
    <2>2. ASSUME run[w].pc \in Open PROVE run[w].kind = "coverage" /\ run[w] \in Run
        BY <2>2 DEF RunShape, Shape, TypeOK
    <2>3. CASE CoverageEmpty(w)
        BY <1>3, <2>2, <2>3, WrappedShape DEF CoverageEmpty, Open
    <2>4. CASE CoverageRead(w)
        <3> DEFINE x == [run[w] EXCEPT !.pc = "delete", !.read = rows, !.todo = rows]
        <3>1. Shape(x)
            BY <2>2, <2>4 DEF CoverageRead, Shape, Open, Run
        <3> QED
            BY <1>1, <1>3, <2>4, <3>1 DEF CoverageRead
    <2>5. CASE CoverageDelete(w)
        <3> DEFINE x == [run[w] EXCEPT !.pc = "lock",
                                       !.deleted = {m \in matches : m.row \in run[w].read}]
        <3>1. Shape(x)
            BY <2>2, <2>5 DEF CoverageDelete, Shape, Open, Run
        <3> QED
            BY <1>1, <1>3, <2>5, <3>1 DEF CoverageDelete
    <2>6. CASE CoverageLock(w)
        <3> DEFINE x == [run[w] EXCEPT !.pc = "loop"]
        <3>1. Shape(x)
            BY <2>2, <2>6 DEF CoverageLock, Shape, Open, Run
        <3> QED
            BY <1>1, <1>3, <2>6, <3>1 DEF CoverageLock
    <2>7. ASSUME NEW row \in Row, CoverageJudge(w, row) PROVE Shape(run[v])'
        <3>1. run[w].pc = "loop" /\ run[w].kind = "coverage"
            BY <2>2, <2>7 DEF CoverageJudge, Open
        <3>2. PICK x \in Judgements(w, row) :
                  \/ run' = [run EXCEPT ![w] = x]
                  \/ \E e \in Evidence :
                        run' = [run EXCEPT ![w] = Persist(x, [row |-> row, evidence |-> e])]
            BY <2>7 DEF CoverageJudge
        <3>3. Shape(x) /\ \A m : Shape(Persist(x, m))
            BY <3>1, JudgedShape
        <3> QED
            BY <1>3, <3>2, <3>3
    <2>7a. ASSUME run[w].pc \in Open, NEW pc \in {"ack", "clear"}, CommitMatches(w, pc)
           PROVE  Shape(run[v])'
        <3>1. Shape(Wrapped(w, pc))
            BY <2>2, <2>7a, WrappedShape
        <3>2. CASE v = w
            BY <2>7a, <3>1, <3>2 DEF CommitMatches, Shape
        <3>3. CASE v # w
            BY <1>1, <2>7a, <3>3, BereftIsRun DEF CommitMatches, Shape
        <3> QED
            BY <3>2, <3>3
    <2>8. CASE CoverageCommit(w)
        BY <2>8, <2>7a DEF CoverageCommit, Open
    <2>9. CASE CoverageCancelled(w)
        BY <2>9, <2>7a DEF CoverageCancelled, Open
    <2>10. CASE CoverageConflict(w)
        BY <1>4, <2>10 DEF CoverageConflict
    <2>11. CASE CoverageClear(w)
        <3>1. run[w].kind # "none"
            BY <2>11 DEF CoverageClear, RunShape, Shape
        <3> QED
            BY <1>3, <2>11, <3>1, WrappedShape DEF CoverageClear
    <2> QED
        BY <1>8, <2>1, <2>3, <2>4, <2>5, <2>6, <2>7, <2>8, <2>9, <2>10, <2>11
        DEF CoverageNext
<1>9. ASSUME NEW w \in Workers, Ack(w) PROVE Shape(run[v])'
    BY <1>3, <1>9, IdleShape DEF Ack
<1>10. CASE UNCHANGED vars
    BY <1>2, <1>10 DEF vars
<1> QED
    BY <1>5, <1>6, <1>7, <1>8, <1>9, <1>10 DEF Next, WorkerNext

-----------------------------------------------------------------------------
(* A job in flight is backed by work. *)

\* A step of one run that neither was nor is needed as a witness, and takes
\* nothing from the queue or the requests, leaves the pending work alone.
LEMMA PendingKept ==
    ASSUME TypeOK, RunShape, NEW w \in Workers, NEW x, run'[w] = x,
           \A v \in Workers \ {w} : /\ run'[v].kind = run[v].kind
                                    /\ run'[v].pc = run[v].pc
                                    /\ run'[v].seen = run[v].seen,
           \A m \in Kinds \X Retries : queue[m] > 0 => queue'[m] > 0,
           api' = api
    PROVE  /\ ~(run[w].kind = "analyze" /\ run[w].pc \in {"llm", "save", "match"})
                => (AnalysisPending => AnalysisPending')
           /\ /\ run[w].pc # "send"
              /\ run[w].pc \in Open /\ run[w].seen \in Unsettled
                   => x.pc \in Open /\ x.seen \in Unsettled
              => (CoveragePending => CoveragePending')
<1>1. ASSUME ~(run[w].kind = "analyze" /\ run[w].pc \in {"llm", "save", "match"}),
             AnalysisPending
      PROVE  AnalysisPending'
    <2>1. CASE \E r \in Requests : api[r] = "sending"
        BY <2>1 DEF AnalysisPending
    <2>2. CASE \E n \in Retries : queue[<<"analyze", n>>] > 0
        BY <2>2 DEF AnalysisPending, Kinds
    <2>3. CASE \E u \in Workers : run[u].kind = "analyze" /\ run[u].pc \in {"llm", "save", "match"}
        BY <1>1, <2>3 DEF AnalysisPending, TypeOK
    <2> QED
        BY <1>1, <2>1, <2>2, <2>3 DEF AnalysisPending
<1>2. ASSUME run[w].pc # "send",
             run[w].pc \in Open /\ run[w].seen \in Unsettled
                => x.pc \in Open /\ x.seen \in Unsettled,
             CoveragePending
      PROVE  CoveragePending'
    <2>1. CASE \E u \in Workers : run[u].pc = "send"
        BY <1>2, <2>1 DEF CoveragePending, TypeOK
    <2>2. CASE \E n \in Retries : queue[<<"coverage", n>>] > 0
        BY <2>2 DEF CoveragePending, Kinds
    <2>3. CASE \E u \in Workers : run[u].pc \in Open /\ run[u].seen \in Unsettled
        BY <1>2, <2>3 DEF CoveragePending, TypeOK
    <2> QED
        BY <1>2, <2>1, <2>2, <2>3 DEF CoveragePending
<1> QED
    BY <1>1, <1>2

\* A run that dies and whose message goes back to the queue is still pending.
LEMMA RequeuedIsPending ==
    ASSUME TypeOK, RunShape, NEW w \in Workers, run[w].kind # "none",
           NEW n \in Retries,
           run' = [run EXCEPT ![w] = Idle],
           queue' = [queue EXCEPT ![<<run[w].kind, n>>] = @ + 1],
           api' = api, status' = status, ~lost, BusyHasWork
    PROVE  BusyHasWork'
<1>1. run[w].kind \in Kinds
    BY DEF TypeOK, Run
<1>2. \A m \in Kinds \X Retries : queue[m] > 0 => queue'[m] > 0
    BY DEF TypeOK
<1>3. queue'[<<run[w].kind, n>>] > 0
    BY <1>1 DEF TypeOK
<1>4. CASE run[w].kind = "analyze"
    <2>1. AnalysisPending'
        BY <1>3, <1>4 DEF AnalysisPending
    <2> QED
        BY <2>1 DEF BusyHasWork
<1>5. CASE run[w].kind = "coverage"
    <2>1. CoveragePending'
        BY <1>3, <1>5 DEF CoveragePending
    <2>2. AnalysisPending => AnalysisPending'
        BY <1>2, <1>5, PendingKept
    <2> QED
        BY <2>1, <2>2 DEF BusyHasWork
<1> QED
    BY <1>1, <1>4, <1>5 DEF Kinds

\* A coverage run that ends by assigning a settled status: the job is settled, or
\* the run was no witness because it had loaded that very status.
LEMMA SettledOrNoWitness ==
    ASSUME TypeOK, RunShape, NEW w \in Workers, NEW s \in Settled, NEW pc \in {"ack", "clear"},
           run[w].pc \in Open, Assign(w, s), run'[w] = Wrapped(w, pc),
           \A v \in Workers \ {w} : /\ run'[v].kind = run[v].kind
                                    /\ run'[v].pc = run[v].pc
                                    /\ run'[v].seen = run[v].seen,
           UNCHANGED <<queue, api, lost>>, BusyHasWork
    PROVE  BusyHasWork'
<1>1. CASE run[w].seen = s
    <2>1. run[w].seen \notin Unsettled
        BY <1>1 DEF Settled, Unsettled, Busy
    <2>2. run[w].kind = "coverage" /\ run[w].pc # "send"
        BY DEF RunShape, Shape, Open
    <2>3. (AnalysisPending => AnalysisPending') /\ (CoveragePending => CoveragePending')
        BY <2>1, <2>2, PendingKept
    <2> QED
        BY <1>1, <2>3 DEF BusyHasWork, Assign
<1>2. CASE run[w].seen # s
    BY <1>2 DEF BusyHasWork, Assign, Settled
<1> QED
    BY <1>1, <1>2

\* The status and the pending work through one step.
LEMMA NextBusyHasWork ==
    TypeOK /\ RunShape /\ BusyHasWork /\ [Next]_vars => BusyHasWork'
<1> SUFFICES ASSUME TypeOK, RunShape, BusyHasWork, [Next]_vars, ~lost'
             PROVE  BusyHasWork'
    BY DEF BusyHasWork
<1>1. CASE UNCHANGED vars
    BY <1>1 DEF vars, BusyHasWork, AnalysisPending, CoveragePending
<1>2. CASE ApiNext
    <2>1. ASSUME NEW r \in Requests, AnalyzeCheck(r) PROVE BusyHasWork'
        <3>1. AnalysisPending => AnalysisPending'
            BY <2>1 DEF AnalyzeCheck, AnalysisPending, TypeOK
        <3>2. CoveragePending => CoveragePending'
            BY <2>1 DEF AnalyzeCheck, CoveragePending
        <3> QED
            BY <2>1, <3>1, <3>2 DEF AnalyzeCheck, BusyHasWork
    <2>2. ASSUME NEW r \in Requests, AnalyzeCommit(r) PROVE BusyHasWork'
        <3>1. AnalysisPending'
            BY <2>2 DEF AnalyzeCommit, AnalysisPending, TypeOK
        <3> QED
            BY <2>2, <3>1 DEF AnalyzeCommit, BusyHasWork
    <2>3. ASSUME NEW r \in Requests, AnalyzeSend(r) PROVE BusyHasWork'
        <3>1. <<"analyze", 0>> \in Kinds \X Retries
            BY BoundsAreNat DEF Kinds, Retries
        <3>2. queue'[<<"analyze", 0>>] > 0
            BY <2>3, <3>1 DEF AnalyzeSend, TypeOK
        <3>3. AnalysisPending'
            BY <3>1, <3>2, BoundsAreNat DEF AnalysisPending, Retries
        <3>4. CoveragePending => CoveragePending'
            BY <2>3 DEF AnalyzeSend, CoveragePending, TypeOK, Kinds
        <3> QED
            BY <2>3, <3>3, <3>4 DEF AnalyzeSend, BusyHasWork
    <2>4. CASE CancelJob \/ FlagExpires
        BY <2>4 DEF CancelJob, FlagExpires, BusyHasWork, AnalysisPending, CoveragePending
    <2> QED
        BY <1>2, <2>1, <2>2, <2>3, <2>4 DEF ApiNext
<1>3. ASSUME NEW w \in Workers, run[w].kind # "none", Abandon(w),
             UNCHANGED <<api, status>>
      PROVE  BusyHasWork'
    <2>1. run[w].retries < MaxRetries /\ ~lost
        BY <1>3 DEF Abandon
    <2>2. run[w].retries + 1 \in Retries
        BY <2>1, BoundsAreNat DEF TypeOK, Run, Retries
    <2> QED
        BY <1>3, <2>1, <2>2, RequeuedIsPending DEF Abandon
<1>4. CASE FaultNext
    <2>1. ASSUME NEW w \in Workers, Fail(w) PROVE BusyHasWork'
        BY <1>3, <2>1 DEF Fail
    <2>2. ASSUME NEW w \in Workers, Crash(w) PROVE BusyHasWork'
        <3>1. run[w].retries \in Retries
            BY DEF TypeOK, Run
        <3> QED
            BY <2>2, <3>1, RequeuedIsPending DEF Crash
    <2>3. CASE (\E r \in Requests : AnalyzeDies(r)) \/ Restart
        BY <2>3 DEF AnalyzeDies, Restart
    <2> QED
        BY <1>4, <2>1, <2>2, <2>3 DEF FaultNext
<1>5. ASSUME NEW w \in Workers, AnalysisNext(w) PROVE BusyHasWork'
    <2>1. CASE AnalysisStart(w)
        <3>1. AnalysisPending'
            BY <2>1 DEF AnalysisStart, Take, AnalysisPending, TypeOK, Idle
        <3> QED
            BY <2>1, <3>1 DEF AnalysisStart, BusyHasWork
    <2>2. CASE AnalysisFails(w)
        BY <2>2 DEF AnalysisFails, Assign, BusyHasWork, RunShape, Shape
    <2>3. CASE AnalysisReply(w)
        <3>1. AnalysisPending'
            BY <2>3 DEF AnalysisReply, AnalysisPending, TypeOK, RunShape, Shape, Run
        <3> QED
            BY <2>3, <3>1 DEF AnalysisReply, BusyHasWork
    <2>4. CASE AnalysisSave(w)
        <3>1. AnalysisPending'
            BY <2>4 DEF AnalysisSave, AnalysisPending, TypeOK, RunShape, Shape, Wrapped, Idle
        <3>2. status' = "analyzed"
            BY <2>4 DEF AnalysisSave, Assign, RunShape, Shape
        <3> QED
            BY <3>1, <3>2 DEF BusyHasWork
    <2>5. CASE AnalysisMatching(w)
        <3>1. CoveragePending'
            BY <2>5 DEF AnalysisMatching, CoveragePending, TypeOK, Wrapped, Idle
        <3>2. status' = "matching"
            BY <2>5 DEF AnalysisMatching, Assign, RunShape, Shape
        <3> QED
            BY <3>1, <3>2 DEF BusyHasWork
    <2>6. CASE AnalysisSend(w)
        <3>1. <<"coverage", 0>> \in Kinds \X Retries
            BY BoundsAreNat DEF Kinds, Retries
        <3>2. queue'[<<"coverage", 0>>] > 0
            BY <2>6, <3>1 DEF AnalysisSend, TypeOK
        <3>3. CoveragePending'
            BY <3>2, BoundsAreNat DEF CoveragePending, Retries
        <3>4. \A m \in Kinds \X Retries : queue[m] > 0 => queue'[m] > 0
            BY <2>6 DEF AnalysisSend, TypeOK
        <3>5. AnalysisPending => AnalysisPending'
            BY <2>6, <3>4, PendingKept DEF AnalysisSend
        <3> QED
            BY <2>6, <3>3, <3>5 DEF AnalysisSend, BusyHasWork
    <2> QED
        BY <1>5, <2>1, <2>2, <2>3, <2>4, <2>5, <2>6 DEF AnalysisNext
<1>6. ASSUME NEW w \in Workers, CoverageStart(w) PROVE BusyHasWork'
    <2>1. PICK n \in Retries :
              Take(w, "coverage", n, [Idle EXCEPT !.pc = "read", !.seen = status])
        BY <1>6 DEF CoverageStart
    <2>2. AnalysisPending => AnalysisPending'
        <3>1. CASE \E r \in Requests : api[r] = "sending"
            BY <1>6, <3>1 DEF AnalysisPending, CoverageStart
        <3>2. CASE \E k \in Retries : queue[<<"analyze", k>>] > 0
            <4>1. PICK k \in Retries : queue[<<"analyze", k>>] > 0
                BY <3>2
            <4>2. queue'[<<"analyze", k>>] = queue[<<"analyze", k>>]
                BY <2>1 DEF Take, TypeOK, Kinds
            <4> QED
                BY <4>1, <4>2 DEF AnalysisPending
        <3>3. CASE \E u \in Workers : /\ run[u].kind = "analyze"
                                      /\ run[u].pc \in {"llm", "save", "match"}
            <4>1. PICK u \in Workers : /\ run[u].kind = "analyze"
                                       /\ run[u].pc \in {"llm", "save", "match"}
                BY <3>3
            <4>2. run'[u] = run[u]
                BY <2>1, <4>1 DEF Take, TypeOK
            <4> QED
                BY <4>1, <4>2 DEF AnalysisPending
        <3> QED
            BY <3>1, <3>2, <3>3 DEF AnalysisPending
    <2>3. status = "matching" => CoveragePending'
        BY <2>1 DEF CoveragePending, Take, TypeOK, Idle, Open, Unsettled, Busy
    <2> QED
        BY <1>6, <2>2, <2>3 DEF CoverageStart, BusyHasWork
<1>7. ASSUME NEW w \in Workers, NEW x, run[w].pc \in Open \cup {"clear", "ack"},
             run[w].pc \in Open => x.pc \in Open /\ x.seen = run[w].seen,
             run' = [run EXCEPT ![w] = x], UNCHANGED <<status, queue, api, lost>>
      PROVE  BusyHasWork'
    <2>1. /\ AnalysisPending => AnalysisPending'
          /\ CoveragePending => CoveragePending'
        BY <1>7, PendingKept DEF Open
    <2> QED
        BY <1>7, <2>1 DEF BusyHasWork
<1>8. ASSUME NEW w \in Workers, CoverageNext(w) PROVE BusyHasWork'
    <2>1. run[w] \in Run /\ run = [run EXCEPT ![w] = run[w]]
        BY DEF TypeOK
    <2>2. CASE CoverageEmpty(w)
        <3>1. run'[w] = Wrapped(w, "ack") /\ \A v \in Workers \ {w} : run'[v] = run[v]
            BY <2>2 DEF CoverageEmpty, TypeOK
        <3> QED
            BY <2>2, <3>1, SettledOrNoWitness DEF CoverageEmpty, Settled, Open
    <2>6a. ASSUME NEW pc \in {"ack", "clear"}, CommitMatches(w, pc), NEW s \in Settled,
                  Assign(w, s), run[w].pc \in Open, UNCHANGED <<queue, api, lost>>
           PROVE  BusyHasWork'
        <3>1. \A v \in Workers \ {w} : /\ run'[v].kind = run[v].kind
                                        /\ run'[v].pc = run[v].pc
                                        /\ run'[v].seen = run[v].seen
            BY <2>6a, BereftIsRun DEF CommitMatches, TypeOK
        <3>2. run'[w] = Wrapped(w, pc)
            BY <2>6a DEF CommitMatches
        <3> QED
            BY <2>6a, <3>1, <3>2, SettledOrNoWitness
    <2>3. CASE CoverageRead(w)
        <3> DEFINE x == [run[w] EXCEPT !.pc = "delete", !.read = rows, !.todo = rows]
        <3>1. x.pc \in Open /\ x.seen = run[w].seen
            BY <2>1 DEF Run, Open
        <3>2. run' = [run EXCEPT ![w] = x]
            BY <2>3 DEF CoverageRead, TypeOK
        <3> HIDE DEF x
        <3> QED
            BY <1>7, <2>3, <3>1, <3>2 DEF CoverageRead, Open
    <2>4. CASE CoverageDelete(w)
        <3> DEFINE x == [run[w] EXCEPT !.pc = "lock",
                                       !.deleted = {m \in matches : m.row \in run[w].read}]
        <3>1. x.pc \in Open /\ x.seen = run[w].seen
            BY <2>1 DEF Run, Open
        <3>2. run' = [run EXCEPT ![w] = x]
            BY <2>4 DEF CoverageDelete, TypeOK
        <3> HIDE DEF x
        <3> QED
            BY <1>7, <2>4, <3>1, <3>2 DEF CoverageDelete, Open
    <2>5. CASE CoverageLock(w)
        <3> DEFINE x == [run[w] EXCEPT !.pc = "loop"]
        <3>1. x.pc \in Open /\ x.seen = run[w].seen
            BY <2>1 DEF Run, Open
        <3>2. run' = [run EXCEPT ![w] = x]
            BY <2>5 DEF CoverageLock, TypeOK
        <3> HIDE DEF x
        <3> QED
            BY <1>7, <2>5, <3>1, <3>2 DEF CoverageLock, Open
    <2>6. ASSUME NEW row \in Row, CoverageJudge(w, row) PROVE BusyHasWork'
        <3>1. run[w].pc = "loop" /\ run[w].kind = "coverage"
            BY <2>6 DEF CoverageJudge, RunShape, Shape, Open
        <3>2. PICK x \in Judgements(w, row) :
                  \/ run' = [run EXCEPT ![w] = x]
                  \/ \E e \in Evidence :
                        run' = [run EXCEPT ![w] = Persist(x, [row |-> row, evidence |-> e])]
            BY <2>6 DEF CoverageJudge
        <3>3. /\ x.pc = "loop" /\ x.seen = run[w].seen
              /\ \A m : Persist(x, m).pc = "loop" /\ Persist(x, m).seen = run[w].seen
            BY <3>1, JudgedShape
        <3>4. PICK y : /\ y.pc = "loop" /\ y.seen = run[w].seen
                       /\ run' = [run EXCEPT ![w] = y]
            BY <3>2, <3>3
        <3> QED
            BY <1>7, <2>6, <3>1, <3>4 DEF CoverageJudge, Open
    <2>7. CASE CoverageCommit(w)
        BY <2>7, <2>6a DEF CoverageCommit, Settled, Open
    <2>8. CASE CoverageCancelled(w)
        BY <2>8, <2>6a DEF CoverageCancelled, Settled, Open
    <2>9. CASE CoverageConflict(w)
        BY <1>3, <2>9 DEF CoverageConflict, RunShape, Shape, Open
    <2>10. CASE CoverageClear(w)
        BY <1>7, <2>10 DEF CoverageClear, Open
    <2> QED
        BY <1>6, <1>8, <2>2, <2>3, <2>4, <2>5, <2>6, <2>7, <2>8, <2>9, <2>10
        DEF CoverageNext
<1>9. ASSUME NEW w \in Workers, Ack(w) PROVE BusyHasWork'
    BY <1>7, <1>9 DEF Ack, Open
<1> QED
    BY <1>1, <1>2, <1>4, <1>5, <1>8, <1>9 DEF Next, WorkerNext

\* A status that says "in flight" is backed by pending work unless a message was
\* lost, for any number of threads, requests, retries and faults.
THEOREM BusyJobsHaveWork == Spec => []BusyHasWork
<1>1. Init => IInv
    <2>1. Init => RunShape
        BY IdleShape DEF Init, RunShape
    <2>2. Init => BusyHasWork
        BY DEF Init, BusyHasWork
    <2> QED
        BY <2>1, <2>2, InitTypeOK DEF IInv
<1>2. IInv /\ [Next]_vars => IInv'
    BY NextTypeOK, NextRunShape, NextBusyHasWork DEF IInv
<1>3. IInv => BusyHasWork
    BY DEF IInv
<1> QED
    BY <1>1, <1>2, <1>3, PTL DEF Spec
-----------------------------------------------------------------------------
(* Requirements, matches and verdicts. *)

\* Two runs of one actor that are open together are noticed.
Alone ==
    \A v, w \in Workers : v # w =>
        /\ run[v].pc \in {"llm", "save"} /\ run[w].pc \in {"llm", "save"} => "analyze" \in overlap
        /\ run[v].pc \in Open /\ run[w].pc \in Open => "coverage" \in overlap

\* What a lone analysis is about to insert is not there.
NewIsNew ==
    "analyze" \notin overlap =>
        \A w \in Workers, r \in rows : run[w].pc = "save" => r.text \notin run[w].new

\* A lone coverage run deletes every match of what it has read, adds one at most for each
\* requirement it is done with, and has a verdict on those unless a rerank failed.
Gathers(x) ==
    /\ x.todo \subseteq x.read /\ (x.pc = "read" => x.read = {})
    /\ x.unknown \/ x.read \subseteq x.todo \cup x.verdict
    /\ \A m \in x.added : m.row \in x.read \ x.todo
    /\ \A m1, m2 \in x.added : m1.row = m2.row => m1 = m2
    /\ x.pc \in {"lock", "loop"} => x.deleted = {m \in matches : m.row \in x.read}
    /\ x.gone = {} /\ x.kept = {}

GathersOwn == "coverage" \notin overlap => \A w \in Workers : Gathers(run[w])

\* A coverage run is still to come.
Awaited ==
    \/ \E w \in Workers : run[w].pc \in {"match", "send"}
    \/ \E n \in Retries : queue[<<"coverage", n>>] > 0

\* A requirement that a lone coverage run has not read is one that another will.
ReadIsAll ==
    "coverage" \notin overlap /\ faults = 0 =>
        \A w \in Workers : run[w].pc \in Open \ {"read"} => rows \subseteq run[w].read \/ Awaited

\* Only a coverage run makes a job ready.
SeenReady ==
    "coverage" \notin overlap =>
        \A w \in Workers : run[w].pc \in Open /\ status = "ready" => run[w].seen = "ready"

JudgedOrPending ==
    "coverage" \notin overlap /\ faults = 0 /\ status = "ready" =>
        rows \subseteq judged \/ Awaited \/ \E w \in Workers : run[w].pc \in Open

\* The inductive invariant of the rows.
RowsInv ==
    /\ TypeOK /\ RunShape /\ Alone
    /\ NewIsNew /\ NoDuplicateRequirement
    /\ GathersOwn /\ OneMatchPerRequirement

\* With it, that of the verdicts.
VerdictsInv == RowsInv /\ ReadIsAll /\ SeenReady /\ JudgedOrPending

\* A run that has not started to gather, or is done, has nothing.
Blank(x) ==
    /\ x.read = {} /\ x.todo = {} /\ x.deleted = {} /\ x.added = {} /\ x.kept = {}
    /\ x.gone = {} /\ x.unknown \in BOOLEAN /\ x.pc \notin {"lock", "loop"}

LEMMA BlankGathers ==
    ASSUME NEW x, Blank(x)
    PROVE  Gathers(x)
BY DEF Blank, Gathers

LEMMA IdleIsBlank == Blank(Idle) /\ Idle.pc = "idle"
BY DEF Blank, Idle

LEMMA WrappedIsBlank ==
    ASSUME NEW w \in Workers, NEW pc \in {"match", "send", "ack", "clear"}
    PROVE  Blank(Wrapped(w, pc)) /\ Wrapped(w, pc).pc = pc
BY DEF Blank, Wrapped, Idle

\* One run takes a step in which it opens nothing, and the rows stay.
LEMMA RowsStay ==
    ASSUME RowsInv, TypeOK', RunShape', NEW w \in Workers, NEW x,
           run' = [run EXCEPT ![w] = x], UNCHANGED <<rows, matches, overlap>>,
           x.pc \in {"llm", "save"} => run[w].pc \in {"llm", "save"},
           x.pc \in Open => run[w].pc \in Open,
           x.pc = "save" => \A r \in rows : r.text \notin x.new,
           "coverage" \notin overlap => Gathers(x)
    PROVE  RowsInv'
<1> USE DEF RowsInv
<1>1. run'[w] = x /\ \A v \in Workers \ {w} : run'[v] = run[v]
    BY DEF TypeOK
<1>2. Alone'
    BY <1>1 DEF Alone
<1>3. NewIsNew' /\ NoDuplicateRequirement' /\ OneMatchPerRequirement'
    BY <1>1 DEF NewIsNew, NoDuplicateRequirement, OneMatchPerRequirement
<1>4. ASSUME "coverage" \notin overlap', NEW v \in Workers
      PROVE  Gathers(run[v])'
    <2>1. Gathers(run'[v])
        BY <1>1, <1>4 DEF GathersOwn
    <2> QED BY <2>1 DEF Gathers
<1> QED BY <1>2, <1>3, <1>4 DEF GathersOwn

\* No run takes a step, or all end.
LEMMA RowsRest ==
    ASSUME RowsInv, TypeOK', RunShape', UNCHANGED <<rows, matches, overlap>>,
           run' = run \/ run' = [w \in Workers |-> Idle]
    PROVE  RowsInv'
<1> USE DEF RowsInv
<1>1. CASE run' = run
    <2>1. Alone' /\ NewIsNew' /\ NoDuplicateRequirement' /\ OneMatchPerRequirement'
        BY <1>1 DEF Alone, NewIsNew, NoDuplicateRequirement, OneMatchPerRequirement
    <2>2. GathersOwn'
        BY <1>1 DEF GathersOwn, Gathers
    <2> QED BY <2>1, <2>2
<1>2. CASE run' = [w \in Workers |-> Idle]
    <2>1. \A v \in Workers : run'[v] = Idle
        BY <1>2
    <2>2. Alone' /\ NewIsNew' /\ NoDuplicateRequirement' /\ OneMatchPerRequirement'
        BY <2>1, IdleIsBlank DEF Alone, NewIsNew, NoDuplicateRequirement, OneMatchPerRequirement,
                                 Open
    <2>3. GathersOwn'
        BY <2>1, IdleIsBlank DEF GathersOwn, Gathers, Blank
    <2> QED BY <2>2, <2>3
<1> QED BY <1>1, <1>2

\* A run starts: others that are open are noticed.
LEMMA RowsStart ==
    ASSUME RowsInv, TypeOK', RunShape', NEW w \in Workers, NEW x, Blank(x),
           run' = [run EXCEPT ![w] = x], UNCHANGED <<rows, matches>>,
           \/ x.pc = "llm" /\ Opens(w, "analyze", {"llm", "save"})
           \/ x.pc = "read" /\ Opens(w, "coverage", Open)
    PROVE  RowsInv'
<1> USE DEF RowsInv
<1>1. run'[w] = x /\ \A v \in Workers \ {w} : run'[v] = run[v]
    BY DEF TypeOK
<1>2. overlap \subseteq overlap'
    BY DEF Opens
<1>3. ASSUME NEW v \in Workers, v # w
      PROVE  /\ x.pc = "llm" /\ run[v].pc \in {"llm", "save"} => "analyze" \in overlap'
             /\ x.pc = "read" /\ run[v].pc \in Open => "coverage" \in overlap'
    BY <1>3 DEF Opens, RunShape, Shape
<1>4. Alone'
    <2> SUFFICES ASSUME NEW u \in Workers, NEW v \in Workers, u # v
                 PROVE  /\ run'[u].pc \in {"llm", "save"} /\ run'[v].pc \in {"llm", "save"}
                           => "analyze" \in overlap'
                        /\ run'[u].pc \in Open /\ run'[v].pc \in Open
                           => "coverage" \in overlap'
        BY DEF Alone
    <2>1. CASE u # w /\ v # w
        BY <1>1, <1>2, <2>1 DEF Alone
    <2>2. CASE u = w
        BY <1>1, <1>3, <2>2 DEF Open
    <2>3. CASE v = w
        BY <1>1, <1>3, <2>3 DEF Open
    <2> QED BY <2>1, <2>2, <2>3
<1>5. NewIsNew' /\ NoDuplicateRequirement' /\ OneMatchPerRequirement'
    BY <1>1, <1>2 DEF NewIsNew, NoDuplicateRequirement, OneMatchPerRequirement
<1>6. GathersOwn'
    BY <1>1, <1>2, BlankGathers DEF GathersOwn, Gathers
<1> QED BY <1>4, <1>5, <1>6

\* save_analysis inserts what is not there.
LEMMA RowsSaved ==
    ASSUME RowsInv, TypeOK', RunShape', NEW w \in Workers, AnalysisSave(w)
    PROVE  RowsInv'
<1> USE DEF RowsInv
<1> DEFINE x == [Wrapped(w, "match") EXCEPT !.seen = "analyzed"]
           added == {[text |-> t, by |-> w] : t \in run[w].new}
<1>1. /\ run[w].pc = "save" /\ rows' = rows \cup added /\ run' = [run EXCEPT ![w] = x]
      /\ UNCHANGED <<matches, overlap>>
    BY DEF AnalysisSave
<1>2. Blank(x) /\ x.pc = "match"
    BY DEF Blank, Wrapped, Idle
<1> HIDE DEF x
<1>3. run'[w] = x /\ \A v \in Workers \ {w} : run'[v] = run[v]
    BY <1>1 DEF TypeOK
<1>4. Alone' /\ OneMatchPerRequirement'
    BY <1>1, <1>2, <1>3 DEF Alone, OneMatchPerRequirement, Open
<1>5. GathersOwn'
    BY <1>1, <1>2, <1>3, BlankGathers DEF GathersOwn, Gathers
<1>6. NoDuplicateRequirement'
    <2> SUFFICES ASSUME "analyze" \notin overlap, NEW r1 \in rows', NEW r2 \in rows',
                        r1.text = r2.text
                 PROVE  r1 = r2
        BY <1>1 DEF NoDuplicateRequirement
    <2>1. \A r \in added : r.text \in run[w].new /\ r = [text |-> r.text, by |-> w]
        OBVIOUS
    <2>2. \A r \in rows : r.text \notin run[w].new
        BY <1>1 DEF NewIsNew
    <2> QED BY <1>1, <2>1, <2>2 DEF NoDuplicateRequirement
<1>7. NewIsNew'
    BY <1>1, <1>2, <1>3 DEF NewIsNew, Alone
<1> QED BY <1>4, <1>5, <1>6, <1>7

\* Losing rows to another's commit changes nothing of a run but what it was to update.
LEMMA BereftIs ==
    ASSUME NEW x \in Run, NEW rowsGone
    PROVE  LET y == Bereft(x, rowsGone) IN
           /\ y.todo = x.todo /\ y.read = x.read /\ y.unknown = x.unknown
           /\ y.verdict = x.verdict /\ y.added = x.added /\ y.kept = x.kept /\ y.pc = x.pc
           /\ y.gone = x.gone \cup (x.kept \cap rowsGone)
BY DEF Bereft, Run

\* The commit of a lone coverage run replaces the matches of what it has read.
LEMMA RowsCommitted ==
    ASSUME RowsInv, TypeOK', RunShape', NEW w \in Workers, NEW pc \in {"ack", "clear"},
           run[w].pc = "loop", CommitMatches(w, pc), UNCHANGED <<rows, overlap>>
    PROVE  RowsInv'
<1> USE DEF RowsInv
<1>1. /\ run'[w] = Wrapped(w, pc)
      /\ \A v \in Workers \ {w} : run'[v] = Bereft(run[v], run[w].deleted)
    BY DEF CommitMatches
<1>2. Blank(Wrapped(w, pc)) /\ Wrapped(w, pc).pc = pc
    BY WrappedIsBlank
<1>3. \A v \in Workers \ {w} :
          /\ run'[v].pc = run[v].pc /\ run'[v].new = run[v].new
          /\ "coverage" \notin overlap => run[v].pc \notin Open
    <2>1. \A v \in Workers : run[v] \in Run
        BY DEF TypeOK
    <2>2. \A v \in Workers \ {w} : run'[v].pc = run[v].pc /\ run'[v].new = run[v].new
        BY <1>1, <2>1 DEF Bereft, Run
    <2> QED BY <2>2 DEF Alone, Open
<1>4. Alone' /\ NewIsNew' /\ NoDuplicateRequirement'
    BY <1>1, <1>2, <1>3 DEF Alone, NewIsNew, NoDuplicateRequirement, Open
<1>5. OneMatchPerRequirement'
    <2> SUFFICES ASSUME "coverage" \notin overlap, NEW m1 \in matches', NEW m2 \in matches',
                        m1.row = m2.row
                 PROVE  m1 = m2
        BY DEF OneMatchPerRequirement
    <2>1. Gathers(run[w]) /\ matches' = (matches \ run[w].deleted) \cup run[w].added
        BY DEF GathersOwn, CommitMatches
    <2>2. \A m \in matches \ run[w].deleted : m.row \notin run[w].read
        BY <2>1 DEF Gathers
    <2>3. \A m \in run[w].added : m.row \in run[w].read
        BY <2>1 DEF Gathers
    <2> QED BY <2>1, <2>2, <2>3 DEF OneMatchPerRequirement, Gathers
<1>6. GathersOwn'
    <2> SUFFICES ASSUME "coverage" \notin overlap, NEW v \in Workers
                 PROVE  Gathers(run[v])'
        BY DEF GathersOwn
    <2>1. CASE v = w
        BY <1>1, <1>2, <2>1 DEF Gathers, Blank
    <2>2. CASE v # w
        <3>1. run[v] \in Run /\ Gathers(run[v]) /\ run[v].pc \notin Open
            BY <1>3, <2>2 DEF TypeOK, GathersOwn
        <3>2. /\ run'[v].todo = run[v].todo /\ run'[v].read = run[v].read
              /\ run'[v].unknown = run[v].unknown /\ run'[v].verdict = run[v].verdict
              /\ run'[v].added = run[v].added /\ run'[v].kept = run[v].kept
              /\ run'[v].pc = run[v].pc
              /\ run'[v].gone = run[v].gone \cup (run[v].kept \cap run[w].deleted)
            BY <1>1, <2>2, <3>1, BereftIs
        <3> QED BY <3>1, <3>2 DEF Gathers, Open
    <2> QED BY <2>1, <2>2
<1> QED BY <1>4, <1>5, <1>6

\* A lone run that judges a requirement adds at most one match, where it has deleted all.
LEMMA JudgedGathers ==
    ASSUME RowsInv, "coverage" \notin overlap, NEW w \in Workers, run[w].pc = "loop",
           NEW row \in run[w].todo, NEW x \in Judgements(w, row)
    PROVE  /\ Gathers(x)
           /\ \A m \in Match : m.row = row => Gathers(Persist(x, m))
<1>1. run[w] \in Run /\ Gathers(run[w])
    BY DEF RowsInv, TypeOK, GathersOwn
<1>2. row \in Row /\ x \in Run
    BY <1>1, JudgementsAreRuns DEF Run, RowsInv
<1>3. /\ x.todo = run[w].todo \ {row} /\ x.read = run[w].read /\ x.added = run[w].added
      /\ x.deleted = run[w].deleted /\ x.kept = run[w].kept /\ x.gone = run[w].gone
      /\ x.pc = "loop"
      /\ \/ x.verdict = run[w].verdict \cup {row} /\ x.unknown = run[w].unknown
         \/ x.unknown
    BY <1>1 DEF Judgements, Run
<1>4. Gathers(x)
    BY <1>1, <1>3 DEF Gathers
<1>5. ASSUME NEW m \in Match, m.row = row
      PROVE  Gathers(Persist(x, m))
    <2>1. m \notin matches \ x.deleted
        BY <1>1, <1>3, <1>5 DEF Gathers
    <2>2. Persist(x, m) = [x EXCEPT !.added = @ \cup {m}]
        BY <2>1 DEF Persist
    <2>3. /\ Persist(x, m).todo = x.todo /\ Persist(x, m).read = x.read
          /\ Persist(x, m).added = x.added \cup {m} /\ Persist(x, m).deleted = x.deleted
          /\ Persist(x, m).kept = x.kept /\ Persist(x, m).gone = x.gone
          /\ Persist(x, m).pc = x.pc /\ Persist(x, m).verdict = x.verdict
          /\ Persist(x, m).unknown = x.unknown
        BY <1>2, <2>2 DEF Run
    <2>4. \A n \in x.added : n.row # row
        BY <1>1, <1>3 DEF Gathers
    <2> HIDE DEF Persist
    <2>5. row \in x.read \ x.todo
        BY <1>1, <1>3 DEF Gathers
    <2> QED BY <1>4, <1>5, <2>3, <2>4, <2>5 DEF Gathers
<1> QED BY <1>4, <1>5

\* The steps of analyze_job.
LEMMA AnalysisRows ==
    ASSUME RowsInv, TypeOK', RunShape', NEW w \in Workers, AnalysisNext(w)
    PROVE  RowsInv'
<1> USE DEF RowsInv
<1>1. CASE AnalysisStart(w)
    <2>1. PICK n \in Retries :
              Take(w, "analyze", n, [Idle EXCEPT !.pc = "llm", !.seen = "analyzing"])
        BY <1>1 DEF AnalysisStart
    <2> DEFINE x == [[Idle EXCEPT !.pc = "llm", !.seen = "analyzing"]
                        EXCEPT !.kind = "analyze", !.retries = n]
    <2>2. Blank(x) /\ x.pc = "llm" /\ run' = [run EXCEPT ![w] = x]
        BY <2>1 DEF Take, Blank, Idle
    <2> HIDE DEF x
    <2> QED BY <1>1, <2>2, RowsStart DEF AnalysisStart
<1>2. CASE AnalysisFails(w)
    BY <1>2, WrappedIsBlank, BlankGathers, RowsStay DEF AnalysisFails, Open
<1>3. CASE AnalysisReply(w)
    <2>1. PICK answer \in SUBSET Texts :
              run' = [run EXCEPT ![w].pc = "save",
                                 ![w].new = answer \ {r.text : r \in rows}]
        BY <1>3 DEF AnalysisReply
    <2> DEFINE x == [run[w] EXCEPT !.pc = "save", !.new = answer \ {r.text : r \in rows}]
    <2>2. run' = [run EXCEPT ![w] = x]
        BY <2>1 DEF TypeOK
    <2>3. run[w] \in Run /\ run[w].pc = "llm"
        BY <1>3 DEF AnalysisReply, TypeOK
    <2>4. /\ x.pc = "save" /\ \A r \in rows : r.text \notin x.new
          /\ x.todo = run[w].todo /\ x.read = run[w].read /\ x.unknown = run[w].unknown
          /\ x.verdict = run[w].verdict /\ x.added = run[w].added /\ x.gone = run[w].gone
          /\ x.kept = run[w].kept
        BY <2>3 DEF Run
    <2>5. "coverage" \notin overlap => Gathers(x)
        BY <2>4 DEF GathersOwn, Gathers
    <2> HIDE DEF x
    <2> QED BY <1>3, <2>2, <2>3, <2>4, <2>5, RowsStay DEF AnalysisReply, Open
<1>4. CASE AnalysisSave(w)
    BY <1>4, RowsSaved
<1>5. CASE AnalysisMatching(w)
    BY <1>5, WrappedIsBlank, BlankGathers, RowsStay DEF AnalysisMatching, Open
<1>6. CASE AnalysisSend(w)
    BY <1>6, WrappedIsBlank, BlankGathers, RowsStay DEF AnalysisSend, Open
<1> QED BY <1>1, <1>2, <1>3, <1>4, <1>5, <1>6 DEF AnalysisNext

\* The steps of compute_coverage.
LEMMA CoverageRows ==
    ASSUME RowsInv, TypeOK', RunShape', NEW w \in Workers, CoverageNext(w)
    PROVE  RowsInv'
<1> USE DEF RowsInv
<1>0. run[w] \in Run /\ ("coverage" \notin overlap => Gathers(run[w]))
    BY DEF TypeOK, GathersOwn
<1>1. CASE CoverageStart(w)
    <2>1. PICK n \in Retries :
              Take(w, "coverage", n, [Idle EXCEPT !.pc = "read", !.seen = status])
        BY <1>1 DEF CoverageStart
    <2> DEFINE x == [[Idle EXCEPT !.pc = "read", !.seen = status]
                        EXCEPT !.kind = "coverage", !.retries = n]
    <2>2. Blank(x) /\ x.pc = "read" /\ run' = [run EXCEPT ![w] = x]
        BY <2>1 DEF Take, Blank, Idle
    <2> HIDE DEF x
    <2> QED BY <1>1, <2>2, RowsStart DEF CoverageStart
<1>2. CASE CoverageEmpty(w)
    BY <1>2, WrappedIsBlank, BlankGathers, RowsStay DEF CoverageEmpty, Open
<1>3. CASE CoverageRead(w)
    <2> DEFINE x == [run[w] EXCEPT !.pc = "delete", !.read = rows, !.todo = rows]
    <2>1. run' = [run EXCEPT ![w] = x] /\ run[w].pc = "read"
        BY <1>3 DEF CoverageRead, TypeOK
    <2>2. /\ x.pc = "delete" /\ x.todo = rows /\ x.read = rows /\ x.added = run[w].added
          /\ x.gone = run[w].gone /\ x.kept = run[w].kept
        BY <1>0 DEF Run
    <2>3. "coverage" \notin overlap => Gathers(x)
        <3>1. "coverage" \notin overlap =>
                  run[w].added = {} /\ run[w].gone = {} /\ run[w].kept = {}
            BY <1>0, <2>1 DEF Gathers
        <3> HIDE DEF x
        <3> QED BY <2>2, <3>1 DEF Gathers
    <2> HIDE DEF x
    <2> QED BY <1>3, <2>1, <2>2, <2>3, RowsStay DEF CoverageRead, Open
<1>4. CASE CoverageDelete(w)
    <2> DEFINE x == [run[w] EXCEPT !.pc = "lock",
                                   !.deleted = {m \in matches : m.row \in run[w].read}]
    <2>1. run' = [run EXCEPT ![w] = x] /\ run[w].pc = "delete"
        BY <1>4 DEF CoverageDelete, TypeOK
    <2>2. /\ x.pc = "lock" /\ x.todo = run[w].todo /\ x.read = run[w].read
          /\ x.added = run[w].added /\ x.gone = run[w].gone /\ x.kept = run[w].kept
          /\ x.unknown = run[w].unknown /\ x.verdict = run[w].verdict
          /\ x.deleted = {m \in matches : m.row \in run[w].read}
        BY <1>0 DEF Run
    <2> HIDE DEF x
    <2>3. "coverage" \notin overlap => Gathers(x)
        BY <1>0, <2>2 DEF Gathers
    <2> QED BY <1>4, <2>1, <2>2, <2>3, RowsStay DEF CoverageDelete, Open
<1>5. CASE CoverageLock(w)
    <2> DEFINE x == [run[w] EXCEPT !.pc = "loop"]
    <2>1. run' = [run EXCEPT ![w] = x] /\ run[w].pc = "lock"
        BY <1>5 DEF CoverageLock, TypeOK
    <2>2. /\ x.pc = "loop" /\ x.todo = run[w].todo /\ x.read = run[w].read
          /\ x.added = run[w].added /\ x.gone = run[w].gone /\ x.kept = run[w].kept
          /\ x.unknown = run[w].unknown /\ x.verdict = run[w].verdict
          /\ x.deleted = run[w].deleted
        BY <1>0 DEF Run
    <2> HIDE DEF x
    <2>3. "coverage" \notin overlap => Gathers(x)
        BY <1>0, <2>1, <2>2 DEF Gathers
    <2> QED BY <1>5, <2>1, <2>2, <2>3, RowsStay DEF CoverageLock, Open
<1>6. ASSUME NEW row \in Row, CoverageJudge(w, row)
      PROVE  RowsInv'
    <2>1. run[w].pc = "loop" /\ run[w].kind = "coverage" /\ row \in run[w].todo
        BY <1>6 DEF CoverageJudge, RunShape, Shape, Open
    <2>2. PICK x \in Judgements(w, row) :
              \/ run' = [run EXCEPT ![w] = x]
              \/ \E e \in Evidence :
                    run' = [run EXCEPT ![w] = Persist(x, [row |-> row, evidence |-> e])]
        BY <1>6 DEF CoverageJudge
    <2>3. x.pc = "loop" /\ \A m : Persist(x, m).pc = "loop"
        BY <2>1, JudgedShape
    <2>4. "coverage" \notin overlap =>
              Gathers(x) /\ \A m \in Match : m.row = row => Gathers(Persist(x, m))
        BY <2>1, JudgedGathers
    <2>5. PICK y : /\ run' = [run EXCEPT ![w] = y] /\ y.pc = "loop"
                   /\ "coverage" \notin overlap => Gathers(y)
        <3>1. CASE run' = [run EXCEPT ![w] = x]
            BY <2>3, <2>4, <3>1
        <3>2. ASSUME NEW e \in Evidence,
                     run' = [run EXCEPT ![w] = Persist(x, [row |-> row, evidence |-> e])]
              PROVE  \E y : /\ run' = [run EXCEPT ![w] = y] /\ y.pc = "loop"
                            /\ "coverage" \notin overlap => Gathers(y)
            <4>1. [row |-> row, evidence |-> e] \in Match
                BY DEF Match
            <4> QED BY <2>3, <2>4, <3>2, <4>1
        <3> QED BY <2>2, <3>1, <3>2
    <2> QED BY <1>6, <2>1, <2>5, RowsStay DEF CoverageJudge, Open
<1>7. CASE CoverageCommit(w)
    BY <1>7, RowsCommitted DEF CoverageCommit
<1>8. CASE CoverageCancelled(w)
    BY <1>8, RowsCommitted DEF CoverageCancelled
<1>9. CASE CoverageConflict(w)
    BY <1>9, IdleIsBlank, BlankGathers, RowsStay DEF CoverageConflict, Abandon, Open
<1>10. CASE CoverageClear(w)
    BY <1>10, WrappedIsBlank, BlankGathers, RowsStay DEF CoverageClear, Open
<1> QED BY <1>1, <1>2, <1>3, <1>4, <1>5, <1>6, <1>7, <1>8, <1>9, <1>10 DEF CoverageNext

LEMMA NextRowsInv == RowsInv /\ [Next]_vars => RowsInv'
<1> SUFFICES ASSUME RowsInv, [Next]_vars PROVE RowsInv'
    OBVIOUS
<1>1. TypeOK' /\ RunShape'
    BY NextTypeOK, NextRunShape DEF RowsInv
<1>2. CASE ApiNext \/ UNCHANGED vars
    BY <1>1, <1>2, RowsRest DEF ApiNext, AnalyzeCheck, AnalyzeCommit, AnalyzeSend, CancelJob,
                                FlagExpires, vars
<1>3. CASE FaultNext
    <2>1. CASE (\E r \in Requests : AnalyzeDies(r)) \/ Restart
        BY <1>1, <2>1, RowsRest DEF AnalyzeDies, Restart
    <2>2. ASSUME NEW w \in Workers, Fail(w) \/ Crash(w) PROVE RowsInv'
        BY <1>1, <2>2, IdleIsBlank, BlankGathers, RowsStay DEF Fail, Crash, Abandon, Open
    <2> QED BY <1>3, <2>1, <2>2 DEF FaultNext
<1>4. ASSUME NEW w \in Workers, WorkerNext(w) PROVE RowsInv'
    <2>1. CASE Ack(w)
        BY <1>1, <2>1, IdleIsBlank, BlankGathers, RowsStay DEF Ack, Open
    <2> QED BY <1>1, <1>4, <2>1, AnalysisRows, CoverageRows DEF WorkerNext
<1> QED BY <1>2, <1>3, <1>4 DEF Next

LEMMA InitRowsInv == Init => RowsInv
<1> SUFFICES ASSUME Init PROVE RowsInv
    OBVIOUS
<1>1. TypeOK /\ \A w \in Workers : run[w] = Idle
    BY InitTypeOK DEF Init
<1>2. RunShape /\ Alone /\ GathersOwn
    BY <1>1, IdleShape, IdleIsBlank, BlankGathers DEF RunShape, Alone, GathersOwn, Open
<1>3. NewIsNew /\ NoDuplicateRequirement /\ OneMatchPerRequirement
    BY DEF Init, NewIsNew, NoDuplicateRequirement, OneMatchPerRequirement
<1> QED BY <1>1, <1>2, <1>3 DEF RowsInv

\* Analyses that do not overlap never store a text twice, however often they are repeated,
\* retried or delivered again (save_analysis).
THEOREM RequirementsAreDistinct == Spec => []NoDuplicateRequirement
<1>1. RowsInv => NoDuplicateRequirement
    BY DEF RowsInv
<1> QED BY <1>1, InitRowsInv, NextRowsInv, PTL DEF Spec

\* Coverage runs that do not overlap leave one match of a requirement at most, whatever
\* failed, was cancelled or delivered twice before (_compute_coverage).
THEOREM MatchesAreDistinct == Spec => []OneMatchPerRequirement
<1>1. RowsInv => OneMatchPerRequirement
    BY DEF RowsInv
<1> QED BY <1>1, InitRowsInv, NextRowsInv, PTL DEF Spec

-----------------------------------------------------------------------------
(* Every requirement of a job that is ready has a verdict, or waits for one. *)

LEMMA AwaitedStays ==
    ASSUME TypeOK, NEW w \in Workers, run[w].pc \notin {"match", "send"}, queue' = queue,
           \A v \in Workers \ {w} : run'[v].pc = run[v].pc,
           Awaited
    PROVE  Awaited'
BY DEF Awaited

\* One run takes a step and no verdict is taken back; an open one ends only by a fault.
LEMMA VerdictsStay ==
    ASSUME VerdictsInv, RowsInv', NEW w \in Workers, NEW x,
           run' = [run EXCEPT ![w] = x], UNCHANGED <<rows, judged>>, overlap \subseteq overlap',
           status' = "ready" => status = "ready",
           faults' = 0 => faults = 0 /\ (Awaited => Awaited'),
           x.pc \in Open =>
               /\ run[w].pc \in Open /\ x.seen = run[w].seen
               /\ \/ x.pc = "read"
                  \/ rows \subseteq x.read
                  \/ run[w].pc # "read" /\ x.read = run[w].read,
           run[w].pc \in Open => x.pc \in Open \/ "coverage" \in overlap \/ faults' # 0
    PROVE  VerdictsInv'
<1> USE DEF VerdictsInv
<1>1. run'[w] = x /\ \A v \in Workers \ {w} : run'[v] = run[v]
    BY DEF RowsInv, TypeOK
<1>2. SeenReady'
    BY <1>1 DEF SeenReady
<1>3. ReadIsAll'
    <2> SUFFICES ASSUME "coverage" \notin overlap, faults = 0, Awaited => Awaited',
                        NEW v \in Workers, run'[v].pc \in Open \ {"read"}, ~Awaited'
                 PROVE  rows \subseteq run'[v].read
        BY DEF ReadIsAll
    <2>1. run[v].pc \in Open \ {"read"} => rows \subseteq run[v].read
        BY DEF ReadIsAll
    <2> QED BY <1>1, <2>1
<1>4. JudgedOrPending'
    <2> SUFFICES ASSUME "coverage" \notin overlap, faults = 0, faults' = 0, status = "ready",
                        Awaited => Awaited', ~Awaited', ~(rows \subseteq judged)
                 PROVE  \E v \in Workers : run'[v].pc \in Open
        BY DEF JudgedOrPending
    <2>1. PICK v \in Workers : run[v].pc \in Open
        BY DEF JudgedOrPending
    <2> QED BY <1>1, <2>1
<1> QED BY <1>2, <1>3, <1>4

\* No run takes a step, or a fault ends all.
LEMMA VerdictsRest ==
    ASSUME VerdictsInv, RowsInv', UNCHANGED <<rows, judged, overlap>>,
           status' = "ready" => status = "ready",
           \/ run' = run /\ (Awaited => Awaited') /\ (faults' = 0 => faults = 0)
           \/ faults' # 0 /\ \A w \in Workers : run'[w] = Idle
    PROVE  VerdictsInv'
<1> USE DEF VerdictsInv
<1>1. CASE run' = run /\ (Awaited => Awaited') /\ (faults' = 0 => faults = 0)
    BY <1>1 DEF ReadIsAll, SeenReady, JudgedOrPending
<1>2. CASE faults' # 0 /\ \A w \in Workers : run'[w] = Idle
    BY <1>2, IdleIsBlank DEF ReadIsAll, SeenReady, JudgedOrPending, Open
<1> QED BY <1>1, <1>2

\* What an analysis saves is awaited from then on.
LEMMA VerdictsSaved ==
    ASSUME VerdictsInv, RowsInv', NEW w \in Workers, AnalysisSave(w)
    PROVE  VerdictsInv'
<1> USE DEF VerdictsInv
<1> DEFINE x == [Wrapped(w, "match") EXCEPT !.seen = "analyzed"]
<1>1. x.pc = "match" /\ run'[w] = x /\ \A v \in Workers \ {w} : run'[v] = run[v]
    BY DEF AnalysisSave, Wrapped, Idle, RowsInv, TypeOK
<1>2. Awaited'
    BY <1>1 DEF Awaited
<1>3. (status' = "ready" => status = "ready") /\ overlap' = overlap
    BY DEF AnalysisSave, Assign
<1>4. SeenReady'
    BY <1>1, <1>3 DEF SeenReady, Open
<1> QED BY <1>2, <1>4 DEF ReadIsAll, JudgedOrPending

\* The awaited run starts.
LEMMA VerdictsStart ==
    ASSUME VerdictsInv, RowsInv', NEW w \in Workers, CoverageStart(w)
    PROVE  VerdictsInv'
<1> USE DEF VerdictsInv
<1>1. PICK n \in Retries :
          Take(w, "coverage", n, [Idle EXCEPT !.pc = "read", !.seen = status])
    BY DEF CoverageStart
<1>2. /\ run'[w].pc = "read" /\ run'[w].seen = status
      /\ \A v \in Workers \ {w} : run'[v] = run[v]
    BY <1>1 DEF Take, Idle, RowsInv, TypeOK
<1>3. status' = status /\ overlap \subseteq overlap'
    BY DEF CoverageStart, Opens
<1>4. SeenReady'
    BY <1>2, <1>3 DEF SeenReady
<1>5. ASSUME "coverage" \notin overlap', NEW v \in Workers, v # w
      PROVE  run'[v].pc \notin Open
    BY <1>2, <1>5 DEF RowsInv, Alone, Open
<1>6. ReadIsAll' /\ JudgedOrPending'
    BY <1>2, <1>5 DEF ReadIsAll, JudgedOrPending, Open
<1> QED BY <1>4, <1>6

\* The only open run commits its verdicts and the status that goes with them.
LEMMA VerdictsCommitted ==
    ASSUME VerdictsInv, RowsInv', NEW w \in Workers, NEW pc \in {"ack", "clear"},
           run[w].pc = "loop", CommitMatches(w, pc), UNCHANGED <<rows, overlap, faults, queue>>,
           \/ /\ run[w].todo = {}
              /\ Assign(w, IF run[w].unknown THEN "coverage_failed" ELSE "ready")
           \/ Assign(w, "cancelled")
    PROVE  VerdictsInv'
<1> USE DEF VerdictsInv, RowsInv
<1>1. run'[w].pc = pc /\ \A v \in Workers \ {w} : run'[v].pc = run[v].pc
    <2>1. \A v \in Workers : run[v] \in Run
        BY DEF TypeOK
    <2> QED BY <2>1, BereftIsRun, WrappedIsBlank DEF CommitMatches
<1>2. "coverage" \notin overlap => \A v \in Workers : run'[v].pc \notin Open
    BY <1>1 DEF Alone, Open
<1>3. SeenReady' /\ ReadIsAll'
    BY <1>2 DEF SeenReady, ReadIsAll
<1>4. JudgedOrPending'
    <2> SUFFICES ASSUME "coverage" \notin overlap, faults = 0, status' = "ready", ~Awaited'
                 PROVE  rows \subseteq judged'
        BY DEF JudgedOrPending
    <2>1. ~Awaited
        BY <1>1, AwaitedStays
    <2>2. rows \subseteq run[w].read
        BY <2>1 DEF ReadIsAll, Open
    <2>3. status = "ready" => run[w].seen = "ready"
        BY DEF SeenReady, Open
    <2>4. run[w].todo = {} /\ ~run[w].unknown
        BY <2>3 DEF Assign
    <2>5. run[w].read \subseteq run[w].verdict
        BY <2>4 DEF GathersOwn, Gathers
    <2> QED BY <2>2, <2>5 DEF CommitMatches
<1> QED BY <1>3, <1>4

LEMMA AnalysisVerdicts ==
    ASSUME VerdictsInv, RowsInv', NEW w \in Workers, AnalysisNext(w)
    PROVE  VerdictsInv'
<1> USE DEF VerdictsInv, RowsInv
<1>0. run \in [Workers -> Run]
    BY DEF TypeOK
<1>1. CASE AnalysisStart(w)
    <2>1. PICK n \in Retries :
              Take(w, "analyze", n, [Idle EXCEPT !.pc = "llm", !.seen = "analyzing"])
        BY <1>1 DEF AnalysisStart
    <2> DEFINE x == [[Idle EXCEPT !.pc = "llm", !.seen = "analyzing"]
                        EXCEPT !.kind = "analyze", !.retries = n]
    <2>2. x.pc = "llm" /\ run' = [run EXCEPT ![w] = x] /\ run[w].pc = "idle"
        BY <2>1 DEF Take, Idle, RunShape, Shape
    <2> HIDE DEF x
    <2>3. Awaited => Awaited'
        <3>1. \A n1 \in Retries : queue'[<<"coverage", n1>>] = queue[<<"coverage", n1>>]
            BY <2>1 DEF Take, TypeOK, Kinds
        <3>2. \A v \in Workers \ {w} : run'[v] = run[v]
            BY <2>2
        <3> QED BY <2>2, <3>1, <3>2 DEF Awaited
    <2>4. UNCHANGED <<rows, judged>> /\ faults' = faults /\ status' = "analyzing"
          /\ overlap \subseteq overlap'
        BY <1>1 DEF AnalysisStart, Opens
    <2> QED BY <2>2, <2>3, <2>4, VerdictsStay DEF Open
<1>2. CASE AnalysisFails(w)
    <2> DEFINE x == Wrapped(w, "ack")
    <2>1. x.pc = "ack"
        BY WrappedIsBlank
    <2>2. /\ run' = [run EXCEPT ![w] = x] /\ run[w].pc = "llm" /\ queue' = queue
          /\ UNCHANGED <<rows, judged, overlap>> /\ faults' = faults
          /\ status' = "ready" => status = "ready"
        BY <1>2 DEF AnalysisFails, Assign
    <2> HIDE DEF x
    <2>3. Awaited => Awaited'
        BY <1>0, <2>2, AwaitedStays
    <2> QED BY <2>1, <2>2, <2>3, VerdictsStay DEF Open
<1>3. CASE AnalysisReply(w)
    <2>1. PICK answer \in SUBSET Texts :
              run' = [run EXCEPT ![w].pc = "save",
                                 ![w].new = answer \ {r.text : r \in rows}]
        BY <1>3 DEF AnalysisReply
    <2> DEFINE x == [run[w] EXCEPT !.pc = "save", !.new = answer \ {r.text : r \in rows}]
    <2>2. run' = [run EXCEPT ![w] = x]
        BY <2>1 DEF TypeOK
    <2>3. x.pc = "save"
        BY <1>0 DEF Run
    <2>4. /\ run[w].pc = "llm" /\ queue' = queue
          /\ UNCHANGED <<rows, judged, overlap, status>> /\ faults' = faults
        BY <1>3 DEF AnalysisReply
    <2> HIDE DEF x
    <2>5. Awaited => Awaited'
        BY <1>0, <2>2, <2>4, AwaitedStays
    <2> QED BY <2>2, <2>3, <2>4, <2>5, VerdictsStay DEF Open
<1>4. CASE AnalysisSave(w)
    BY <1>4, VerdictsSaved
<1>5. CASE AnalysisMatching(w)
    <2> DEFINE x == Wrapped(w, "send")
    <2>1. x.pc = "send"
        BY WrappedIsBlank
    <2>2. /\ run' = [run EXCEPT ![w] = x] /\ run[w].pc = "match"
          /\ UNCHANGED <<rows, judged, overlap>> /\ faults' = faults
          /\ status' = "ready" => status = "ready"
        BY <1>5 DEF AnalysisMatching, Assign
    <2> HIDE DEF x
    <2>3. Awaited'
        BY <1>0, <2>1, <2>2 DEF Awaited
    <2> QED BY <2>1, <2>2, <2>3, VerdictsStay DEF Open
<1>6. CASE AnalysisSend(w)
    <2> DEFINE x == Wrapped(w, "ack")
    <2>1. x.pc = "ack"
        BY WrappedIsBlank
    <2>2. /\ run' = [run EXCEPT ![w] = x] /\ run[w].pc = "send"
          /\ queue' = [queue EXCEPT ![<<"coverage", 0>>] = @ + 1]
          /\ UNCHANGED <<rows, judged, overlap, status>> /\ faults' = faults
        BY <1>6 DEF AnalysisSend
    <2> HIDE DEF x
    <2>3. Awaited'
        <3>1. <<"coverage", 0>> \in Kinds \X Retries /\ 0 \in Retries
            BY BoundsAreNat DEF Kinds, Retries
        <3>2. queue'[<<"coverage", 0>>] > 0
            BY <2>2, <3>1 DEF TypeOK
        <3> QED BY <3>1, <3>2 DEF Awaited
    <2> QED BY <2>1, <2>2, <2>3, VerdictsStay DEF Open
<1> QED BY <1>1, <1>2, <1>3, <1>4, <1>5, <1>6 DEF AnalysisNext

\* A lone run never finds a row to insert there, nor one to update gone.
LEMMA NoConflictAlone ==
    ASSUME RowsInv, NEW w \in Workers, run[w].pc = "loop", Conflict(w)
    PROVE  "coverage" \in overlap
<1> SUFFICES ASSUME "coverage" \notin overlap PROVE FALSE
    OBVIOUS
<1>1. Gathers(run[w])
    BY DEF RowsInv, GathersOwn
<1> QED BY <1>1 DEF Conflict, Gathers

LEMMA CoverageVerdicts ==
    ASSUME VerdictsInv, RowsInv', NEW w \in Workers, CoverageNext(w)
    PROVE  VerdictsInv'
<1> USE DEF VerdictsInv, RowsInv
<1>0. run \in [Workers -> Run] /\ run[w] \in Run
    BY DEF TypeOK
\* A step inside the transaction.
<1>1. ASSUME NEW x, run' = [run EXCEPT ![w] = x], run[w].pc \in Open, x.pc \in Open \ {"read"},
             x.seen = run[w].seen,
             rows \subseteq x.read \/ (run[w].pc # "read" /\ x.read = run[w].read),
             UNCHANGED <<status, rows, judged, queue, overlap, faults>>
      PROVE  VerdictsInv'
    <2>1. Awaited => Awaited'
        BY <1>0, <1>1, AwaitedStays DEF Open
    <2>2. x.pc \in Open
        BY <1>1
    <2> QED BY <1>1, <2>1, <2>2, VerdictsStay
<1>2. CASE CoverageStart(w)
    BY <1>2, VerdictsStart
<1>3. CASE CoverageEmpty(w)
    <2>1. /\ rows' = {} /\ run[w].pc = "read" /\ run' = [run EXCEPT ![w] = Wrapped(w, "ack")]
          /\ overlap' = overlap
        BY <1>3 DEF CoverageEmpty
    <2>2. "coverage" \notin overlap => \A v \in Workers : run'[v].pc \notin Open
        BY <1>0, <2>1, WrappedIsBlank DEF Alone, Open
    <2> QED BY <2>1, <2>2 DEF SeenReady, ReadIsAll, JudgedOrPending
<1>4. CASE CoverageRead(w)
    <2> DEFINE x == [run[w] EXCEPT !.pc = "delete", !.read = rows, !.todo = rows]
    <2>1. x.pc = "delete" /\ x.seen = run[w].seen /\ x.read = rows
        BY <1>0 DEF Run
    <2>2. run' = [run EXCEPT ![w] = x]
        BY <1>0, <1>4 DEF CoverageRead
    <2>3. /\ run[w].pc = "read"
          /\ UNCHANGED <<status, rows, judged, queue, overlap, faults>>
        BY <1>4 DEF CoverageRead
    <2> HIDE DEF x
    <2>4. rows \subseteq x.read
        BY <2>1
    <2> QED BY <1>1, <2>1, <2>2, <2>3, <2>4 DEF Open
<1>5. CASE CoverageDelete(w)
    <2> DEFINE x == [run[w] EXCEPT !.pc = "lock",
                                   !.deleted = {m \in matches : m.row \in run[w].read}]
    <2>1. x.pc = "lock" /\ x.seen = run[w].seen /\ x.read = run[w].read
        BY <1>0 DEF Run
    <2>2. run' = [run EXCEPT ![w] = x]
        BY <1>0, <1>5 DEF CoverageDelete
    <2> HIDE DEF x
    <2> QED BY <1>1, <1>5, <2>1, <2>2 DEF CoverageDelete, Open
<1>6. CASE CoverageLock(w)
    <2> DEFINE x == [run[w] EXCEPT !.pc = "loop"]
    <2>1. x.pc = "loop" /\ x.seen = run[w].seen /\ x.read = run[w].read
        BY <1>0 DEF Run
    <2>2. run' = [run EXCEPT ![w] = x]
        BY <1>0, <1>6 DEF CoverageLock
    <2> HIDE DEF x
    <2> QED BY <1>1, <1>6, <2>1, <2>2 DEF CoverageLock, Open
<1>7. ASSUME NEW row \in Row, CoverageJudge(w, row)
      PROVE  VerdictsInv'
    <2>1. run[w].pc = "loop" /\ run[w].kind = "coverage"
        BY <1>7 DEF CoverageJudge, RunShape, Shape, Open
    <2>2. PICK x \in Judgements(w, row) :
              \/ run' = [run EXCEPT ![w] = x]
              \/ \E e \in Evidence :
                    run' = [run EXCEPT ![w] = Persist(x, [row |-> row, evidence |-> e])]
        BY <1>7 DEF CoverageJudge
    <2>3. x \in Run /\ x.read = run[w].read
        <3>1. x \in Run
            BY <1>7, <2>2, JudgementsAreRuns
        <3>2. x.read = run[w].read
            BY <1>0, <2>2 DEF Judgements, Run
        <3> QED BY <3>1, <3>2
    <2>4. /\ x.pc = "loop" /\ x.seen = run[w].seen
          /\ \A m : /\ Persist(x, m).pc = "loop" /\ Persist(x, m).seen = run[w].seen
                    /\ Persist(x, m).read = run[w].read
        <3>1. \A m : Persist(x, m).read = run[w].read
            BY <2>3 DEF Persist, Run
        <3> QED BY <2>1, <3>1, JudgedShape
    <2>5. PICK y : /\ run' = [run EXCEPT ![w] = y] /\ y.pc = "loop" /\ y.seen = run[w].seen
                   /\ y.read = run[w].read
        BY <2>2, <2>3, <2>4
    <2> QED BY <1>1, <1>7, <2>1, <2>5 DEF CoverageJudge, Open
<1>8. CASE CoverageCommit(w)
    BY <1>8, VerdictsCommitted DEF CoverageCommit
<1>9. CASE CoverageCancelled(w)
    BY <1>9, VerdictsCommitted DEF CoverageCancelled
<1>10. CASE CoverageConflict(w)
    <2>1. /\ run' = [run EXCEPT ![w] = Idle] /\ run[w].pc = "loop" /\ "coverage" \in overlap
          /\ overlap' = overlap
        BY <1>10, NoConflictAlone DEF CoverageConflict, Abandon
    <2> QED BY <2>1 DEF SeenReady, ReadIsAll, JudgedOrPending
<1>11. CASE CoverageClear(w)
    <2> DEFINE x == Wrapped(w, "ack")
    <2>1. x.pc = "ack"
        BY WrappedIsBlank
    <2>2. /\ run' = [run EXCEPT ![w] = x] /\ run[w].pc = "clear" /\ queue' = queue
          /\ UNCHANGED <<rows, judged, overlap, status>> /\ faults' = faults
        BY <1>11 DEF CoverageClear
    <2> HIDE DEF x
    <2>3. Awaited => Awaited'
        BY <1>0, <2>2, AwaitedStays
    <2> QED BY <2>1, <2>2, <2>3, VerdictsStay DEF Open
<1> QED BY <1>2, <1>3, <1>4, <1>5, <1>6, <1>7, <1>8, <1>9, <1>10, <1>11 DEF CoverageNext

LEMMA NextVerdicts == VerdictsInv /\ [Next]_vars => VerdictsInv'
<1> SUFFICES ASSUME VerdictsInv, [Next]_vars PROVE VerdictsInv'
    OBVIOUS
<1> USE DEF VerdictsInv, RowsInv
<1>1. RowsInv' /\ run \in [Workers -> Run] /\ faults \in Nat
    BY NextRowsInv DEF TypeOK
<1>2. CASE ApiNext
    <2>1. /\ run' = run /\ UNCHANGED <<rows, judged, overlap>> /\ faults' = faults
          /\ status' = "ready" => status = "ready"
        BY <1>2 DEF ApiNext, AnalyzeCheck, AnalyzeCommit, AnalyzeSend, CancelJob, FlagExpires
    <2>2. \A n \in Retries : queue'[<<"coverage", n>>] = queue[<<"coverage", n>>]
        BY <1>2 DEF ApiNext, AnalyzeCheck, AnalyzeCommit, AnalyzeSend, CancelJob, FlagExpires,
                    TypeOK, Kinds
    <2>3. Awaited => Awaited'
        BY <2>1, <2>2 DEF Awaited
    <2> QED BY <1>1, <2>1, <2>3, VerdictsRest
<1>3. CASE UNCHANGED vars
    <2>1. Awaited => Awaited'
        BY <1>3 DEF vars, Awaited
    <2> QED BY <1>1, <1>3, <2>1, VerdictsRest DEF vars
<1>4. CASE FaultNext
    <2>1. faults' # 0 /\ UNCHANGED <<status, rows, judged, overlap>>
        <3>1. faults' = faults + 1 /\ UNCHANGED <<status, rows, judged, overlap>>
            BY <1>4 DEF FaultNext, AnalyzeDies, Fail, Crash, Restart
        <3> QED BY <1>1, <3>1
    <2>2. \A v \in Workers : run'[v] = run[v] \/ run'[v] = Idle
        BY <1>1, <1>4 DEF FaultNext, AnalyzeDies, Fail, Crash, Restart, Abandon
    <2>3. SeenReady'
        BY <2>1, <2>2, IdleIsBlank DEF SeenReady, Open
    <2> QED BY <1>1, <2>1, <2>3 DEF ReadIsAll, JudgedOrPending
<1>5. ASSUME NEW w \in Workers, Ack(w) PROVE VerdictsInv'
    <2>1. /\ run' = [run EXCEPT ![w] = Idle] /\ run[w].pc = "ack" /\ queue' = queue
          /\ UNCHANGED <<rows, judged, overlap, status>> /\ faults' = faults
        BY <1>5 DEF Ack
    <2>2. Awaited => Awaited'
        BY <1>1, <2>1, AwaitedStays
    <2> QED BY <1>1, <2>1, <2>2, IdleIsBlank, VerdictsStay DEF Open
<1> QED BY <1>1, <1>2, <1>3, <1>4, <1>5, AnalysisVerdicts, CoverageVerdicts DEF Next, WorkerNext

\* When nothing is in flight, nothing has failed and coverage runs have not overlapped, a job
\* that is ready has a verdict on each of its requirements, whatever analyses came in between
\* (_compute_coverage, get_coverage).
THEOREM ReadyIsJudged == Spec => []ReadyMeansJudged
<1>1. Init => VerdictsInv
    <2>1. Init => SeenReady /\ ReadIsAll /\ JudgedOrPending
        BY DEF Init, SeenReady, ReadIsAll, JudgedOrPending
    <2> QED BY <2>1, InitRowsInv DEF VerdictsInv
<1>2. VerdictsInv /\ [Next]_vars => VerdictsInv'
    BY NextVerdicts
<1>3. VerdictsInv => ReadyMeansJudged
    <2> SUFFICES ASSUME VerdictsInv, Quiet, status = "ready", "coverage" \notin overlap,
                        faults = 0
                 PROVE  rows \subseteq judged
        BY DEF ReadyMeansJudged
    <2>1. \A w \in Workers : run[w].pc = "idle"
        BY DEF Quiet, VerdictsInv, RowsInv, RunShape, Shape
    <2>2. \A n \in Retries : queue[<<"coverage", n>>] = 0
        BY DEF Quiet, Kinds
    <2>3. ~Awaited
        <3>1. ASSUME NEW w \in Workers PROVE run[w].pc \notin {"match", "send"}
            BY <2>1
        <3>2. ASSUME NEW n \in Retries PROVE ~(queue[<<"coverage", n>>] > 0)
            <4>1. queue[<<"coverage", n>>] = 0
                BY <2>2
            <4> QED BY <4>1
        <3> QED BY <3>1, <3>2 DEF Awaited
    <2>4. \A w \in Workers : run[w].pc \notin Open
        BY <2>1 DEF Open
    <2> QED BY <2>3, <2>4 DEF VerdictsInv, JudgedOrPending
<1> QED BY <1>1, <1>2, <1>3, PTL DEF Spec

=============================================================================
