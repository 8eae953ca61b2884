----------------------------- MODULE JobPipeline -----------------------------
(***************************************************************************)
(* One job's path through the analysis pipeline: the API endpoints that    *)
(* start and cancel it (routers/jobs.py), the Dramatiq queue, and the two  *)
(* actors analyze_job (intelligence/job_analysis.py) and compute_coverage  *)
(* (intelligence/coverage.py), run by several worker threads at once.      *)
(*                                                                         *)
(* The database is shared (READ COMMITTED); what a run has written and not *)
(* committed is in run[w] and disappears with it.  A session keeps the job *)
(* row it loaded, and SQLAlchemy emits an UPDATE only when the attribute   *)
(* differs from the value the session knows (run[w].seen).                 *)
(***************************************************************************)
EXTENDS Naturals

CONSTANTS
    Workers,     \* worker threads (infra/docker/space-entrypoint.sh starts two)
    Requests,    \* calls of POST /jobs/{id}/analyze
    Texts,       \* requirement texts the LLM may extract from the posting
    Evidence,    \* evidence items retrieval may return
    MaxRetries,  \* max_retries of both actors (1 in the code)
    MaxFaults,   \* bound: exceptions, time limits and crashes in a behaviour
    MaxCancels   \* bound: calls of POST /jobs/{id}/cancel in a behaviour

ASSUME BoundsAreNat ==
    /\ MaxRetries \in Nat
    /\ MaxFaults \in Nat
    /\ MaxCancels \in Nat

VARIABLES
    status,   \* Job.status, as committed
    rows,     \* Requirement rows of the job
    matches,  \* committed EvidenceMatch rows: requirement row and evidence
    flag,     \* Redis key cancel:job:{id}; the code sees only set or unset
    queue,    \* messages of the "ai" queue, counted per actor and retry number
    run,      \* what each worker thread is executing
    api,      \* where each analyze request is in its handler
    cancels, faults,   \* counters for the bounds
    judged,   \* history: rows the last coverage commits reached a verdict on
    overlap,  \* history: actors of which two runs were once open together
    lost      \* history: a message was dropped or never sent

vars == <<status, rows, matches, flag, queue, run, api, cancels, faults,
          judged, overlap, lost>>

Kinds == {"analyze", "coverage"}
Retries == 0..MaxRetries
Row == [text: Texts, by: Workers]   \* a row is known by its text and its writer
Match == [row: Row, evidence: Evidence]

Busy == {"analyzing", "matching"}   \* the endpoint refuses to start these again
Unsettled == Busy \cup {"analyzed"}
Settled == {"captured", "failed", "ready", "coverage_failed", "cancelled"}
Status == Unsettled \cup Settled

\* A coverage run between loading the job and its one commit.
Open == {"read", "delete", "lock", "loop"}

Run == [kind: Kinds \cup {"none"}, retries: Retries,
        pc: {"idle", "llm", "save", "match", "send", "ack", "clear"} \cup Open,
        seen: Status,            \* job.status as this session knows it
        new: SUBSET Texts,       \* texts to insert as requirements
        read: SUBSET Row,        \* the requirements the coverage run works on
        todo: SUBSET Row,        \* those the loop has not reached
        deleted: SUBSET Match,   \* rows deleted, not yet committed
        added: SUBSET Match,     \* rows inserted, not yet committed
        kept: SUBSET Match,      \* rows updated in place, not yet committed
        verdict: SUBSET Row,     \* requirements matched or found to be a gap
        unknown: BOOLEAN,        \* some rerank failed
        gone: SUBSET Match]      \* rows kept that another run has deleted

Idle == [kind |-> "none", retries |-> 0, pc |-> "idle", seen |-> "captured",
         new |-> {}, read |-> {}, todo |-> {}, deleted |-> {}, added |-> {},
         kept |-> {}, verdict |-> {}, unknown |-> FALSE, gone |-> {}]

TypeOK ==
    /\ status \in Status
    /\ rows \subseteq Row
    /\ matches \subseteq Match
    /\ flag \in {"unset", "set", "set_while_idle"}
    /\ queue \in [Kinds \X Retries -> Nat]
    /\ run \in [Workers -> Run]
    /\ api \in [Requests -> {"idle", "checked", "sending", "done"}]
    /\ cancels \in Nat
    /\ faults \in Nat
    /\ judged \subseteq Row
    /\ overlap \subseteq Kinds
    /\ lost \in BOOLEAN

Init ==
    /\ status = "captured"
    /\ rows = {}
    /\ matches = {}
    /\ flag = "unset"
    /\ queue = [m \in Kinds \X Retries |-> 0]
    /\ run = [w \in Workers |-> Idle]
    /\ api = [r \in Requests |-> "idle"]
    /\ cancels = 0
    /\ faults = 0
    /\ judged = {}
    /\ overlap = {}
    /\ lost = FALSE

-----------------------------------------------------------------------------
(* The API. *)

\* The handler loads the job and returns early when it is already in flight.
AnalyzeCheck(r) ==
    /\ api[r] = "idle"
    /\ api' = [api EXCEPT ![r] = IF status \in Busy THEN "done" ELSE "checked"]
    /\ UNCHANGED <<status, rows, matches, flag, queue, run, cancels, faults,
                   judged, overlap, lost>>

AnalyzeCommit(r) ==
    /\ api[r] = "checked"
    /\ api' = [api EXCEPT ![r] = "sending"]
    /\ status' = "analyzing"
    /\ UNCHANGED <<rows, matches, flag, queue, run, cancels, faults,
                   judged, overlap, lost>>

AnalyzeSend(r) ==
    /\ api[r] = "sending"
    /\ api' = [api EXCEPT ![r] = "done"]
    /\ queue' = [queue EXCEPT ![<<"analyze", 0>>] = @ + 1]
    /\ UNCHANGED <<status, rows, matches, flag, run, cancels, faults,
                   judged, overlap, lost>>

\* The process dies, or Redis refuses the message, after the commit.
AnalyzeDies(r) ==
    /\ faults < MaxFaults
    /\ api[r] = "sending"
    /\ api' = [api EXCEPT ![r] = "done"]
    /\ faults' = faults + 1
    /\ lost' = TRUE
    /\ UNCHANGED <<status, rows, matches, flag, queue, run, cancels,
                   judged, overlap>>

Quiet ==
    /\ \A m \in Kinds \X Retries : queue[m] = 0
    /\ \A w \in Workers : run[w].kind = "none"
    /\ \A r \in Requests : api[r] \in {"idle", "done"}

\* The flag is set whatever the job is doing; its colour is a history variable.
CancelJob ==
    /\ cancels < MaxCancels
    /\ cancels' = cancels + 1
    /\ flag' = IF Quiet THEN "set_while_idle" ELSE "set"
    /\ UNCHANGED <<status, rows, matches, queue, run, api, faults,
                   judged, overlap, lost>>

\* CANCEL_TTL_SECONDS have passed.
FlagExpires ==
    /\ flag # "unset"
    /\ flag' = "unset"
    /\ UNCHANGED <<status, rows, matches, queue, run, api, cancels, faults,
                   judged, overlap, lost>>

-----------------------------------------------------------------------------
(* Delivery, shared by both actors. *)

\* Variant: without looking whether there is a message.
TakeBlindly(w, kind, n, started) ==
    /\ run[w].kind = "none"
    /\ queue' = [queue EXCEPT ![<<kind, n>>] = @ - 1]
    /\ run' = [run EXCEPT ![w] = [started EXCEPT !.kind = kind, !.retries = n]]

\* A thread takes a message of this kind; started is its run after the first
\* statements of the actor.
Take(w, kind, n, started) ==
    /\ run[w].kind = "none"
    /\ queue[<<kind, n>>] > 0
    /\ queue' = [queue EXCEPT ![<<kind, n>>] = @ - 1]
    /\ run' = [run EXCEPT ![w] = [started EXCEPT !.kind = kind, !.retries = n]]

\* job.status = s: an UPDATE reaches the database only if the value is new to
\* the session.
Assign(w, s) == status' = IF run[w].seen = s THEN status ELSE s

\* The rest of a run whose last commit is behind it.
Wrapped(w, pc) ==
    [Idle EXCEPT !.kind = run[w].kind, !.retries = run[w].retries, !.pc = pc]

Opens(w, kind, pcs) ==
    overlap' = IF \E v \in Workers \ {w} : run[v].kind = kind /\ run[v].pc \in pcs
               THEN overlap \cup {kind} ELSE overlap

\* The actor raised: its session rolls back, and Dramatiq enqueues the message
\* once more or gives it up.
Abandon(w) ==
    /\ run' = [run EXCEPT ![w] = Idle]
    /\ IF run[w].retries < MaxRetries
       THEN /\ queue' = [queue EXCEPT ![<<run[w].kind, run[w].retries + 1>>] = @ + 1]
            /\ UNCHANGED lost
       ELSE /\ lost' = TRUE
            /\ UNCHANGED queue

\* An exception or the actor's time_limit, at any statement.
Fail(w) ==
    /\ faults < MaxFaults
    /\ run[w].kind # "none" /\ run[w].pc # "ack"
    /\ faults' = faults + 1
    /\ Abandon(w)
    /\ UNCHANGED <<status, rows, matches, flag, api, cancels, judged, overlap>>

\* Variant: the message was acknowledged when it was taken.
CrashDropsMessage(w) ==
    /\ faults < MaxFaults
    /\ run[w].kind # "none"
    /\ faults' = faults + 1
    /\ run' = [run EXCEPT ![w] = Idle]
    /\ UNCHANGED <<status, rows, matches, flag, queue, api, cancels, judged,
                   overlap, lost>>

\* The process dies: the unacknowledged message is delivered again.
Crash(w) ==
    /\ faults < MaxFaults
    /\ run[w].kind # "none"
    /\ faults' = faults + 1
    /\ run' = [run EXCEPT ![w] = Idle]
    /\ queue' = [queue EXCEPT ![<<run[w].kind, run[w].retries>>] = @ + 1]
    /\ UNCHANGED <<status, rows, matches, flag, api, cancels, judged, overlap, lost>>

Ack(w) ==
    /\ run[w].pc = "ack"
    /\ run' = [run EXCEPT ![w] = Idle]
    /\ UNCHANGED <<status, rows, matches, flag, queue, api, cancels, faults,
                   judged, overlap, lost>>

-----------------------------------------------------------------------------
(* analyze_job *)

\* Loading the job and committing "analyzing": with the session's own copy in
\* between, the two amount to one write.
AnalysisStart(w) ==
    /\ \E n \in Retries :
          Take(w, "analyze", n, [Idle EXCEPT !.pc = "llm", !.seen = "analyzing"])
    /\ status' = "analyzing"
    /\ Opens(w, "analyze", {"llm", "save"})
    /\ UNCHANGED <<rows, matches, flag, api, cancels, faults, judged, lost>>

\* Variant: the exception is only logged.
AnalysisFailsSilently(w) ==
    /\ run[w].pc = "llm"
    /\ run' = [run EXCEPT ![w] = Wrapped(w, "ack")]
    /\ UNCHANGED <<status, rows, matches, flag, queue, api, cancels, faults,
                   judged, overlap, lost>>

\* structured_generate raised.
AnalysisFails(w) ==
    /\ run[w].pc = "llm"
    /\ Assign(w, "failed")
    /\ run' = [run EXCEPT ![w] = Wrapped(w, "ack")]
    /\ UNCHANGED <<rows, matches, flag, queue, api, cancels, faults,
                   judged, overlap, lost>>

\* Variant: every text of the answer is inserted.
ReplyWithoutDedup(w) ==
    /\ run[w].pc = "llm"
    /\ \E answer \in SUBSET Texts :
          run' = [run EXCEPT ![w].pc = "save", ![w].new = answer]
    /\ UNCHANGED <<status, rows, matches, flag, queue, api, cancels, faults,
                   judged, overlap, lost>>

\* The LLM answered; save_analysis reads the texts the job already has.
AnalysisReply(w) ==
    /\ run[w].pc = "llm"
    /\ \E answer \in SUBSET Texts :
          run' = [run EXCEPT ![w].pc = "save",
                             ![w].new = answer \ {r.text : r \in rows}]
    /\ UNCHANGED <<status, rows, matches, flag, queue, api, cancels, faults,
                   judged, overlap, lost>>

\* save_analysis commits the new requirements together with "analyzed".
AnalysisSave(w) ==
    /\ run[w].pc = "save"
    /\ rows' = rows \cup {[text |-> t, by |-> w] : t \in run[w].new}
    /\ Assign(w, "analyzed")
    /\ run' = [run EXCEPT ![w] = [Wrapped(w, "match") EXCEPT !.seen = "analyzed"]]
    /\ UNCHANGED <<matches, flag, queue, api, cancels, faults,
                   judged, overlap, lost>>

AnalysisMatching(w) ==
    /\ run[w].pc = "match"
    /\ Assign(w, "matching")
    /\ run' = [run EXCEPT ![w] = Wrapped(w, "send")]
    /\ UNCHANGED <<rows, matches, flag, queue, api, cancels, faults,
                   judged, overlap, lost>>

AnalysisSend(w) ==
    /\ run[w].pc = "send"
    /\ queue' = [queue EXCEPT ![<<"coverage", 0>>] = @ + 1]
    /\ run' = [run EXCEPT ![w] = Wrapped(w, "ack")]
    /\ UNCHANGED <<status, rows, matches, flag, api, cancels, faults,
                   judged, overlap, lost>>

-----------------------------------------------------------------------------
(* compute_coverage: one transaction from the first SELECT to the commit. *)

CoverageStart(w) ==
    /\ \E n \in Retries :
          Take(w, "coverage", n, [Idle EXCEPT !.pc = "read", !.seen = status])
    /\ Opens(w, "coverage", Open)
    /\ UNCHANGED <<status, rows, matches, flag, api, cancels, faults, judged, lost>>

\* A job without requirements is ready at once.
CoverageEmpty(w) ==
    /\ run[w].pc = "read"
    /\ rows = {}
    /\ Assign(w, "ready")
    /\ run' = [run EXCEPT ![w] = Wrapped(w, "ack")]
    /\ UNCHANGED <<rows, matches, flag, queue, api, cancels, faults,
                   judged, overlap, lost>>

CoverageRead(w) ==
    /\ run[w].pc = "read"
    /\ rows # {}
    /\ run' = [run EXCEPT ![w].pc = "delete", ![w].read = rows, ![w].todo = rows]
    /\ UNCHANGED <<status, rows, matches, flag, queue, api, cancels, faults,
                   judged, overlap, lost>>

\* Variant: the old matches are kept and updated in place.
CoverageKeepsOld(w) ==
    /\ run[w].pc = "delete"
    /\ run' = [run EXCEPT ![w].pc = "lock"]
    /\ UNCHANGED <<status, rows, matches, flag, queue, api, cancels, faults,
                   judged, overlap, lost>>

\* DELETE ... WHERE requirement_id IN: the statement's snapshot.
CoverageDelete(w) ==
    /\ run[w].pc = "delete"
    /\ run' = [run EXCEPT ![w].pc = "lock",
                          ![w].deleted = {m \in matches : m.row \in run[w].read}]
    /\ UNCHANGED <<status, rows, matches, flag, queue, api, cancels, faults,
                   judged, overlap, lost>>

\* Match rows another open transaction has deleted are locked.  An UPDATE is sent
\* by the next query or the commit: it is taken to happen in the commit, as sending
\* it earlier only makes the DELETE of another run wait.
Locked(w) ==
    UNION {run[v].deleted : v \in {u \in Workers \ {w} : run[u].pc = "loop"}}

\* The statement waits for those locks; rows gone by then it skips (Bereft).
CoverageLock(w) ==
    /\ run[w].pc = "lock"
    /\ run[w].deleted \cap Locked(w) = {}
    /\ run' = [run EXCEPT ![w].pc = "loop"]
    /\ UNCHANGED <<status, rows, matches, flag, queue, api, cancels, faults,
                   judged, overlap, lost>>

\* The best hit's row: updated in place if this transaction sees it, else added.
Persist(x, m) == IF m \in matches \ x.deleted THEN [x EXCEPT !.kept = @ \cup {m}]
                                              ELSE [x EXCEPT !.added = @ \cup {m}]

\* What retrieval and rerank make of one requirement: a verdict, or a failed call
\* or a label that is unknown.
Judgements(w, row) ==
    LET x == [run[w] EXCEPT !.todo = @ \ {row}]
    IN  {[x EXCEPT !.verdict = @ \cup {row}], [x EXCEPT !.unknown = TRUE]}

\* One pass of the loop, no flag seen; with a best hit there is a row to persist.
CoverageJudge(w, row) ==
    /\ run[w].pc = "loop"
    /\ flag = "unset"
    /\ row \in run[w].todo
    /\ \E x \in Judgements(w, row) :
          \/ run' = [run EXCEPT ![w] = x]
          \/ \E e \in Evidence :
                run' = [run EXCEPT ![w] = Persist(x, [row |-> row, evidence |-> e])]
    /\ UNCHANGED <<status, rows, matches, flag, queue, api, cancels, faults,
                   judged, overlap, lost>>

\* Committing waits for the rows other transactions have deleted ...
MayCommit(w) == (run[w].added \cup run[w].kept) \cap Locked(w) = {}

\* ... and raises when a row to insert exists or a row to update is gone.
Conflict(w) == run[w].added \cap (matches \ run[w].deleted) # {} \/ run[w].gone # {}

\* Another open run once these rows are gone: its DELETE skips them, an UPDATE of
\* one will fail, though an equal row may have been inserted meanwhile.
Bereft(x, rowsGone) ==
    [x EXCEPT !.deleted = @ \ rowsGone,
              !.gone = @ \cup (x.kept \cap rowsGone)]

CommitMatches(w, pc) ==
    /\ matches' = (matches \ run[w].deleted) \cup run[w].added
    /\ judged' = (judged \ run[w].read) \cup run[w].verdict
    /\ run' = [v \in Workers |-> IF v = w THEN Wrapped(w, pc)
                                         ELSE Bereft(run[v], run[w].deleted)]

\* Variant: a failed rerank is forgotten.
CommitForgetsFailures(w) ==
    /\ run[w].pc = "loop"
    /\ run[w].todo = {}
    /\ MayCommit(w) /\ ~Conflict(w)
    /\ CommitMatches(w, "ack")
    /\ Assign(w, "ready")
    /\ UNCHANGED <<rows, flag, queue, api, cancels, faults, overlap, lost>>

CoverageCommit(w) ==
    /\ run[w].pc = "loop"
    /\ run[w].todo = {}
    /\ MayCommit(w) /\ ~Conflict(w)
    /\ CommitMatches(w, "ack")
    /\ Assign(w, IF run[w].unknown THEN "coverage_failed" ELSE "ready")
    /\ UNCHANGED <<rows, flag, queue, api, cancels, faults, overlap, lost>>

\* The flag is checked before each requirement, never after the last one.
CoverageCancelled(w) ==
    /\ run[w].pc = "loop"
    /\ run[w].todo # {}
    /\ flag # "unset"
    /\ MayCommit(w) /\ ~Conflict(w)
    /\ CommitMatches(w, "clear")
    /\ Assign(w, "cancelled")
    /\ UNCHANGED <<rows, flag, queue, api, cancels, faults, overlap, lost>>

CoverageConflict(w) ==
    /\ run[w].pc = "loop"
    /\ run[w].todo = {} \/ flag # "unset"
    /\ MayCommit(w) /\ Conflict(w)
    /\ Abandon(w)
    /\ UNCHANGED <<status, rows, matches, flag, api, cancels, faults,
                   judged, overlap>>

CoverageClear(w) ==
    /\ run[w].pc = "clear"
    /\ flag' = "unset"
    /\ run' = [run EXCEPT ![w] = Wrapped(w, "ack")]
    /\ UNCHANGED <<status, rows, matches, queue, api, cancels, faults,
                   judged, overlap, lost>>

\* The container restarts.  Redis keeps nothing (--save "" --appendonly no), so
\* every message and the flag are gone with the threads and the requests.
Restart ==
    /\ faults < MaxFaults
    /\ faults' = faults + 1
    /\ lost' = TRUE
    /\ flag' = "unset"
    /\ queue' = [m \in Kinds \X Retries |-> 0]
    /\ run' = [w \in Workers |-> Idle]
    /\ api' = [r \in Requests |-> IF api[r] = "idle" THEN "idle" ELSE "done"]
    /\ UNCHANGED <<status, rows, matches, cancels, judged, overlap>>

-----------------------------------------------------------------------------

ApiNext ==
    \/ \E r \in Requests : AnalyzeCheck(r) \/ AnalyzeCommit(r) \/ AnalyzeSend(r)
    \/ CancelJob
    \/ FlagExpires

AnalysisNext(w) ==
    \/ AnalysisStart(w) \/ AnalysisFails(w) \/ AnalysisReply(w)
    \/ AnalysisSave(w) \/ AnalysisMatching(w) \/ AnalysisSend(w)

CoverageNext(w) ==
    \/ CoverageStart(w) \/ CoverageEmpty(w) \/ CoverageRead(w)
    \/ CoverageDelete(w) \/ CoverageLock(w)
    \/ \E row \in Row : CoverageJudge(w, row)
    \/ CoverageCommit(w) \/ CoverageCancelled(w) \/ CoverageConflict(w)
    \/ CoverageClear(w)

WorkerNext(w) == AnalysisNext(w) \/ CoverageNext(w) \/ Ack(w)

FaultNext ==
    \/ \E r \in Requests : AnalyzeDies(r)
    \/ \E w \in Workers : Fail(w) \/ Crash(w)
    \/ Restart

Next == ApiNext \/ FaultNext \/ \E w \in Workers : WorkerNext(w)

\* A request that was admitted runs to its end, and a worker thread keeps
\* working; nobody is obliged to call an endpoint and no fault is obliged to
\* happen, and the flag need not expire.
Fairness ==
    /\ \A r \in Requests : WF_vars(AnalyzeCommit(r) \/ AnalyzeSend(r))
    /\ \A w \in Workers : WF_vars(WorkerNext(w))

Spec == Init /\ [][Next]_vars /\ Fairness

-----------------------------------------------------------------------------
(* What the pipeline promises. *)

AnalysisPending ==
    \/ \E r \in Requests : api[r] = "sending"
    \/ \E n \in Retries : queue[<<"analyze", n>>] > 0
    \/ \E w \in Workers : run[w].kind = "analyze" /\ run[w].pc \in {"llm", "save", "match"}

\* A coverage run that loaded a settled status may write nothing at its end, so
\* it does not count as work that will settle the job.
CoveragePending ==
    \/ \E w \in Workers : run[w].pc = "send"
    \/ \E n \in Retries : queue[<<"coverage", n>>] > 0
    \/ \E w \in Workers : run[w].pc \in Open /\ run[w].seen \in Unsettled

\* The endpoint refuses to start a job whose status says it is in flight, and
\* the web page waits for it.  So such a status must always be backed by work
\* that will replace it: a message, a run, or a request about to send one.  Only
\* a dropped or unsent message (lost) may break that, and no interleaving of
\* requests, runs, retries and redeliveries.
BusyHasWork ==
    \/ lost
    \/ /\ status \in {"analyzing", "analyzed"} => AnalysisPending
       /\ status = "matching" => AnalysisPending \/ CoveragePending

\* get_coverage reads one match per requirement.  Unless two coverage runs of
\* the job were open together, there is one to read at most, whatever the runs
\* that failed, were cancelled or were delivered twice left behind.
OneMatchPerRequirement ==
    "coverage" \notin overlap =>
        \A m1, m2 \in matches : m1.row = m2.row => m1 = m2

\* A requirement with no match is shown as a gap.  When nothing is in flight and
\* the job is "ready", every requirement it has was really judged (no two
\* coverage runs together, no fault): a gap shown is a gap found.
ReadyMeansJudged ==
    (status = "ready" /\ Quiet /\ "coverage" \notin overlap /\ faults = 0)
        => rows \subseteq judged

\* Re-analysis adds no second row with the text of an old one, as long as no two
\* analysis runs were both between their start and their save.
NoDuplicateRequirement ==
    "analyze" \notin overlap =>
        \A r1, r2 \in rows : r1.text = r2.text => r1 = r2

\* A job in flight settles, or a message of its was lost.
BusySettles == status \in Busy ~> (status \in Settled \/ lost)

=============================================================================
