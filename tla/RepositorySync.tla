--------------------------- MODULE RepositorySync ---------------------------
(***************************************************************************)
(* One GitHub repository on its way into the evidence graph: the sync actor *)
(* (ingestion/sync.py, ingestion/staleness.py), the extraction actor        *)
(* (intelligence/evidence_extraction.py, repositories/evidence.py), the     *)
(* endpoints that start a sync, review evidence and disconnect GitHub, and  *)
(* the repository changing meanwhile.                                       *)
(*                                                                         *)
(* A path holds one of Contents, or Absent: deleted, excluded, not text, or *)
(* flagged by the secret scan.  All paths are of priority P0 or P1; files of *)
(* priority P2 never reach extraction.                                      *)
(***************************************************************************)
EXTENDS Integers, Sequences

CONSTANTS
    Workers,        \* worker threads
    Runs,           \* calls of POST /github/sync
    NumPaths,       \* files, handled in the order of the git tree
    Contents,       \* what a file may contain (its hash)
    Absent,
    Claims,         \* normalized claims the LLM may find
    SyncRetries,    \* max_retries of sync_repositories (2 in the code)
    ExtractRetries, \* max_retries of extract_evidence (1 in the code)
    MaxPushes, MaxReviews, MaxFaults, MaxDisconnects   \* bounds on a behaviour

ASSUME ConstantsAreSane ==
    /\ {NumPaths, SyncRetries, ExtractRetries, MaxPushes, MaxReviews, MaxFaults,
        MaxDisconnects} \subseteq Nat
    /\ Absent \notin Contents

VARIABLES
    tree,       \* head of the default branch, at GitHub
    artifacts,  \* committed SourceArtifact rows
    evidence,   \* committed Evidence rows with their sources, in order of insertion
    present,    \* the connection and the repository row exist
    analyzed,   \* repository.last_analyzed_sha: the tree of that commit, or none
    sync,       \* SyncRun.status, or "none"
    sending,    \* sync runs the endpoint has committed and not yet enqueued
    queue,      \* messages
    run,        \* what each worker thread is executing
    handled,    \* history: artifacts of the groups the LLM has answered for
    past,       \* history: what each path has ever held
    mishaps,    \* history: events after which some promise is off
    pushes, reviews, faults   \* counters for the bounds

vars == <<tree, artifacts, evidence, present, analyzed, sync, sending, queue,
          run, handled, past, mishaps, pushes, reviews, faults>>

Paths == 1..NumPaths
Artifact == [path: Paths, content: Contents]
Tree == [Paths -> Contents \cup {Absent}]
NoTree == <<>>   \* never analyzed

Live == {"candidate", "confirmed"}
EvidenceStatus == Live \cup {"rejected", "private", "stale"}
Evidence == [claim: Claims, cites: SUBSET Artifact, status: EvidenceStatus]

MaxRetries(kind) == IF kind = "sync" THEN SyncRetries ELSE ExtractRetries

\* A message of either actor; batch holds the artifacts to extract from.
Message == [kind: {"sync", "extract"}, no: Runs, retries: Nat, batch: SUBSET Artifact]

Idle == [msg |-> <<>>, pc |-> "idle", tree |-> NoTree, at |-> 1, added |-> {},
         superseded |-> {}, todo |-> {}, group |-> {}, new |-> <<>>]

IsRun(x) ==
    /\ x.msg = <<>> \/ x.msg \in Message
    /\ x.pc \in {"idle", "load", "files", "insert", "send", "end", "ack",
                 "groups", "save"}
    /\ x.tree = NoTree \/ x.tree \in Tree   \* the commit this sync looks at
    /\ x.at \in 1..(NumPaths + 1)           \* the file it looks at next
    /\ x.added \subseteq Artifact           \* flushed; until "send", not committed
    /\ x.superseded \subseteq Artifact
    /\ x.todo \subseteq Artifact            \* not yet part of a group
    /\ x.group \subseteq Artifact           \* sent to the LLM
    /\ x.new \in Seq(Evidence)              \* flushed, not committed

TypeOK ==
    /\ tree \in Tree
    /\ artifacts \subseteq Artifact
    /\ evidence \in Seq(Evidence)
    /\ present \in BOOLEAN
    /\ analyzed = NoTree \/ analyzed \in Tree
    /\ sync \in [Runs -> {"none", "queued", "syncing", "completed", "failed"}]
    /\ sending \subseteq Runs
    /\ queue \subseteq Message
    /\ \A w \in Workers : IsRun(run[w])
    /\ handled \subseteq Artifact
    /\ past \subseteq Artifact
    /\ mishaps \subseteq {"reverted", "removed", "overlap", "late", "parallel",
                          "revived", "aborted", "lost"}
    /\ {pushes, reviews, faults} \subseteq Nat

Held(t) == {[path |-> p, content |-> t[p]] : p \in {q \in Paths : t[q] # Absent}}

Init ==
    /\ tree \in Tree
    /\ artifacts = {}
    /\ evidence = <<>>
    /\ present = TRUE
    /\ analyzed = NoTree
    /\ sync = [r \in Runs |-> "none"]
    /\ sending = {}
    /\ queue = {}
    /\ run = [w \in Workers |-> Idle]
    /\ handled = {}
    /\ past = Held(tree)
    /\ mishaps = {}
    /\ pushes = 0 /\ reviews = 0 /\ faults = 0

Mishap(S) == mishaps' = mishaps \cup S

\* Batches on their way to the LLM, wherever they are.
Batch(w) == IF run[w].pc = "send" THEN run[w].added
            ELSE IF run[w].pc = "idle" THEN {} ELSE run[w].msg.batch
Underway == (UNION {m.batch : m \in queue}) \cup (UNION {Batch(w) : w \in Workers})

-----------------------------------------------------------------------------
(* The repository at GitHub, the user and the API. *)

Push(p, c) ==
    /\ pushes < MaxPushes
    /\ tree[p] # c
    /\ pushes' = pushes + 1
    /\ tree' = [tree EXCEPT ![p] = c]
    /\ past' = past \cup Held(tree')
    /\ Mishap(IF c = Absent THEN {"removed"}
              ELSE IF [path |-> p, content |-> c] \in past THEN {"reverted"} ELSE {})
    /\ UNCHANGED <<artifacts, evidence, present, analyzed, sync, sending, queue,
                   run, handled, reviews, faults>>

TriggerSync(r) ==
    /\ present
    /\ sync[r] = "none"
    /\ sync' = [sync EXCEPT ![r] = "queued"]
    /\ sending' = sending \cup {r}
    /\ UNCHANGED <<tree, artifacts, evidence, present, analyzed, queue, run,
                   handled, past, mishaps, pushes, reviews, faults>>

TriggerSend(r) ==
    /\ r \in sending
    /\ sending' = sending \ {r}
    /\ queue' = queue \cup {[kind |-> "sync", no |-> r, retries |-> 0, batch |-> {}]}
    /\ UNCHANGED <<tree, artifacts, evidence, present, analyzed, sync, run,
                   handled, past, mishaps, pushes, reviews, faults>>

TriggerDies(r) ==
    /\ faults < MaxFaults
    /\ r \in sending
    /\ faults' = faults + 1
    /\ sending' = sending \ {r}
    /\ Mishap({"lost"})
    /\ UNCHANGED <<tree, artifacts, evidence, present, analyzed, sync, queue, run,
                   handled, past, pushes, reviews>>

\* PATCH /evidence/{id} accepts any status.
Review(i, s) ==
    /\ reviews < MaxReviews
    /\ reviews' = reviews + 1
    /\ evidence' = [evidence EXCEPT ![i].status = s]
    /\ Mishap(IF s \in Live /\ evidence[i].status \notin Live THEN {"revived"} ELSE {})
    /\ UNCHANGED <<tree, artifacts, present, analyzed, sync, sending, queue, run,
                   handled, past, pushes, faults>>

\* DELETE /github/connection: the repository's artifacts and evidence go with it
\* (ON DELETE CASCADE).  The DELETE waits for open transactions with new children.
\* Connecting again makes another repository row, which is not this one.
Disconnect ==
    /\ MaxDisconnects > 0
    /\ present
    /\ \A w \in Workers : run[w].new = <<>> /\ (run[w].pc = "send" \/ run[w].added = {})
    /\ present' = FALSE
    /\ artifacts' = {}
    /\ evidence' = <<>>
    /\ analyzed' = NoTree
    /\ UNCHANGED <<tree, sync, sending, queue, run, handled, past,
                   mishaps, pushes, reviews, faults>>

-----------------------------------------------------------------------------
(* Delivery, shared by both actors. *)

Take(w, m, started) ==
    /\ run[w].pc = "idle"
    /\ m \in queue
    /\ queue' = queue \ {m}
    /\ run' = [run EXCEPT ![w] = [started EXCEPT !.msg = m]]

At(w, pc) == run' = [run EXCEPT ![w].pc = pc]

\* The actor raised: the message comes back once more or is given up.
Abandon(w, events) ==
    LET m == run[w].msg
    IN  /\ run' = [run EXCEPT ![w] = Idle]
        /\ IF m.retries < MaxRetries(m.kind)
           THEN queue' = queue \cup {[m EXCEPT !.retries = @ + 1]} /\ Mishap(events)
           ELSE queue' = queue /\ Mishap(events \cup {"lost"})

\* A commit of new artifacts whose batch has not been sent.
Unsent(w) == run[w].pc = "send" /\ run[w].added # {}

\* The process dies; what it had not committed is rolled back and the message is
\* delivered again.
Crash(w) ==
    /\ faults < MaxFaults
    /\ run[w].pc # "idle"
    /\ faults' = faults + 1
    /\ run' = [run EXCEPT ![w] = Idle]
    /\ queue' = queue \cup {run[w].msg}
    /\ Mishap(IF Unsent(w) THEN {"lost"} ELSE {})
    /\ UNCHANGED <<tree, artifacts, evidence, present, analyzed, sync, sending,
                   handled, past, pushes, reviews>>

Ack(w) ==
    /\ run[w].pc = "ack"
    /\ run' = [run EXCEPT ![w] = Idle]
    /\ UNCHANGED <<tree, artifacts, evidence, present, analyzed, sync, sending,
                   queue, handled, past, mishaps, pushes, reviews, faults>>

-----------------------------------------------------------------------------
(* sync_repositories *)

SyncTake(w) ==
    /\ \E m \in queue : /\ m.kind = "sync"
                        /\ Take(w, m, [Idle EXCEPT !.pc = "load"])
                        /\ sync' = [sync EXCEPT ![m.no] = "syncing"]
    /\ UNCHANGED <<tree, artifacts, evidence, present, analyzed, sending, handled,
                   past, mishaps, pushes, reviews, faults>>

\* Variant: a repository that is gone ends the actor at once.
SyncLoadOrReturn(w) ==
    /\ run[w].pc = "load"
    /\ run' = [run EXCEPT ![w].pc = IF present THEN "files" ELSE "ack",
                          ![w].tree = IF present THEN tree ELSE NoTree]
    /\ Mishap(IF \E v \in Workers \ {w} : run[v].pc \in {"files", "insert"}
              THEN {"overlap"} ELSE {})
    /\ UNCHANGED <<tree, artifacts, evidence, present, analyzed, sync, sending,
                   queue, handled, past, pushes, reviews, faults>>

\* The head's sha fixes the tree and every content read later.  A repository that
\* is gone is skipped.
SyncLoad(w) ==
    /\ run[w].pc = "load"
    /\ run' = [run EXCEPT ![w].pc = IF present THEN "files" ELSE "end",
                          ![w].tree = IF present THEN tree ELSE NoTree]
    /\ Mishap(IF \E v \in Workers \ {w} : run[v].pc \in {"files", "insert"}
              THEN {"overlap"} ELSE {})
    /\ UNCHANGED <<tree, artifacts, evidence, present, analyzed, sync, sending,
                   queue, handled, past, pushes, reviews, faults>>

\* The artifact at the position this sync has reached.
Found(w) == [path |-> run[w].at, content |-> run[w].tree[run[w].at]]

\* The rows of the path that this transaction sees.
Prior(w) == {a \in artifacts \cup run[w].added : a.path = run[w].at}

SyncSkip(w) ==
    /\ run[w].pc = "files"
    /\ run[w].at <= NumPaths
    /\ Found(w).content = Absent \/ Found(w) \in Prior(w)
    /\ run' = [run EXCEPT ![w].at = @ + 1]
    /\ UNCHANGED <<tree, artifacts, evidence, present, analyzed, sync, sending,
                   queue, handled, past, mishaps, pushes, reviews, faults>>

SyncChanged(w) ==
    /\ run[w].pc = "files"
    /\ run[w].at <= NumPaths
    /\ Found(w).content # Absent /\ Found(w) \notin Prior(w)
    /\ run' = [run EXCEPT ![w].pc = "insert",
                          ![w].superseded = @ \cup Prior(w)]
    /\ UNCHANGED <<tree, artifacts, evidence, present, analyzed, sync, sending,
                   queue, handled, past, mishaps, pushes, reviews, faults>>

\* The unique index makes an INSERT wait for another one of the same row.
Blocked(w) == \E v \in Workers \ {w} : run[v].pc # "send" /\ Found(w) \in run[v].added

SyncInsert(w) ==
    /\ run[w].pc = "insert"
    /\ ~Blocked(w)
    /\ present /\ Found(w) \notin artifacts
    /\ run' = [run EXCEPT ![w].pc = "files", ![w].at = @ + 1,
                          ![w].added = @ \cup {Found(w)}]
    /\ UNCHANGED <<tree, artifacts, evidence, present, analyzed, sync, sending,
                   queue, handled, past, mishaps, pushes, reviews, faults>>

\* Variant: only what the user has confirmed.
MarkConfirmedStale(superseded) ==
    evidence' = [i \in DOMAIN evidence |->
        IF evidence[i].status = "confirmed" /\ evidence[i].cites \cap superseded # {}
        THEN [evidence[i] EXCEPT !.status = "stale"] ELSE evidence[i]]

\* mark_evidence_stale_for_artifacts
MarkStale(superseded) ==
    evidence' = [i \in DOMAIN evidence |->
        IF evidence[i].status \in Live /\ evidence[i].cites \cap superseded # {}
        THEN [evidence[i] EXCEPT !.status = "stale"] ELSE evidence[i]]

SyncCommit(w) ==
    /\ run[w].pc = "files"
    /\ run[w].at > NumPaths
    /\ present
    /\ artifacts' = artifacts \cup run[w].added
    /\ MarkStale(run[w].superseded)
    /\ analyzed' = run[w].tree
    /\ At(w, "send")
    /\ Mishap(IF run[w].superseded \cap Underway # {} THEN {"late"} ELSE {})
    /\ UNCHANGED <<tree, present, sync, sending, queue, handled, past, pushes,
                   reviews, faults>>

\* Only new and changed artifacts are extracted from; without any, nothing is sent.
SyncSend(w) ==
    /\ run[w].pc = "send"
    /\ queue' = IF run[w].added = {} THEN queue
                ELSE queue \cup {[kind |-> "extract", no |-> run[w].msg.no,
                                  retries |-> 0, batch |-> run[w].added]}
    /\ run' = [run EXCEPT ![w].pc = "end", ![w].added = {}]
    /\ UNCHANGED <<tree, artifacts, evidence, present, analyzed, sync, sending,
                   handled, past, mishaps, pushes, reviews, faults>>

\* Variant: a status outside the enumeration.
SyncEndsDone(w) ==
    /\ run[w].pc = "end"
    /\ sync' = [sync EXCEPT ![run[w].msg.no] = "done"]
    /\ At(w, "ack")
    /\ UNCHANGED <<tree, artifacts, evidence, present, analyzed, sending, queue,
                   handled, past, mishaps, pushes, reviews, faults>>

SyncEnd(w) ==
    /\ run[w].pc = "end"
    /\ sync' = [sync EXCEPT ![run[w].msg.no] = "completed"]
    /\ At(w, "ack")
    /\ UNCHANGED <<tree, artifacts, evidence, present, analyzed, sending, queue,
                   handled, past, mishaps, pushes, reviews, faults>>

\* Variant: each file is committed by itself.
SyncConflictKeepsRows(w) ==
    /\ \/ run[w].pc = "insert" /\ ~Blocked(w) /\ (~present \/ Found(w) \in artifacts)
       \/ run[w].pc = "files" /\ run[w].at > NumPaths /\ ~present
    /\ artifacts' = artifacts \cup run[w].added
    /\ Abandon(w, {})
    /\ UNCHANGED <<tree, evidence, present, analyzed, sync, sending, handled, past,
                   pushes, reviews, faults>>

\* The INSERT or the UPDATE fails; so does the commit in the finally clause, on
\* the session that needs a rollback, and the actor raises.
SyncConflict(w) ==
    /\ \/ run[w].pc = "insert" /\ ~Blocked(w) /\ (~present \/ Found(w) \in artifacts)
       \/ run[w].pc = "files" /\ run[w].at > NumPaths /\ ~present
    /\ Abandon(w, {})
    /\ UNCHANGED <<tree, artifacts, evidence, present, analyzed, sync, sending,
                   handled, past, pushes, reviews, faults>>

\* An exception of another kind: the finally clause commits what was flushed.
SyncAborts(w) ==
    /\ faults < MaxFaults
    /\ run[w].pc \in {"load", "files", "insert", "send", "end"}
    /\ run[w].msg.kind = "sync"
    /\ faults' = faults + 1
    /\ artifacts' = artifacts \cup (IF present THEN run[w].added ELSE {})
    /\ UNCHANGED <<tree, evidence, present, analyzed, sending, handled, past,
                   pushes, reviews>>

Partial(w) ==
    IF run[w].added = {} THEN {} ELSE IF Unsent(w) THEN {"lost"} ELSE {"aborted", "lost"}

\* GitHub or Redis fails: the run is "failed" and the message is done.
SyncRaises(w) ==
    /\ SyncAborts(w)
    /\ sync' = [sync EXCEPT ![run[w].msg.no] = "failed"]
    /\ run' = [run EXCEPT ![w] = [Idle EXCEPT !.msg = run[w].msg, !.pc = "ack"]]
    /\ Mishap(Partial(w))
    /\ UNCHANGED queue

\* The actor's time limit interrupts it; no except clause catches that.
SyncTimesOut(w) ==
    /\ SyncAborts(w)
    /\ Abandon(w, Partial(w))
    /\ UNCHANGED sync

-----------------------------------------------------------------------------
(* extract_evidence *)

ExtractTake(w) ==
    /\ \E m \in queue :
          /\ m.kind = "extract"
          /\ Take(w, m, IF present THEN [Idle EXCEPT !.pc = "groups", !.todo = m.batch]
                                   ELSE [Idle EXCEPT !.pc = "ack"])
    /\ UNCHANGED <<tree, artifacts, evidence, present, analyzed, sync, sending,
                   handled, past, mishaps, pushes, reviews, faults>>

\* Variant: candidates are not looked at.
Confirmed(claim) == \E i \in DOMAIN evidence :
                       evidence[i].claim = claim /\ evidence[i].status = "confirmed"

\* save_candidates looks for a row with the same claim that is still live.
Known(claim) == \E i \in DOMAIN evidence :
                   evidence[i].claim = claim /\ evidence[i].status \in Live

\* What one LLM answer adds: nothing, or a claim citing files of the batch that is
\* not known.  Further claims of an answer are treated alike.
Answers(w) ==
    {<<>>} \cup {<<[claim |-> c, cites |-> S, status |-> "candidate"]>> :
                    c \in {d \in Claims : ~Known(d)},
                    S \in (SUBSET run[w].msg.batch) \ {{}}}

ExtractGroup(w) ==
    /\ run[w].pc = "groups"
    /\ \E g \in (SUBSET run[w].todo) \ {{}} :
          /\ \E rows \in Answers(w) :
                /\ present \/ rows = <<>>
                /\ run' = [run EXCEPT ![w].pc = "save", ![w].group = g, ![w].new = rows]
    /\ Mishap(IF \E v \in Workers \ {w} : run[v].pc = "save" THEN {"parallel"} ELSE {})
    /\ UNCHANGED <<tree, artifacts, evidence, present, analyzed, sync, sending,
                   queue, handled, past, pushes, reviews, faults>>

\* structured_generate raised: the group is skipped.
ExtractSkips(w) ==
    /\ faults < MaxFaults
    /\ run[w].pc = "groups"
    /\ faults' = faults + 1
    /\ \E g \in (SUBSET run[w].todo) \ {{}} :
          run' = [run EXCEPT ![w].todo = @ \ g]
    /\ Mishap({"lost"})
    /\ UNCHANGED <<tree, artifacts, evidence, present, analyzed, sync, sending,
                   queue, handled, past, pushes, reviews>>

ExtractSave(w) ==
    /\ run[w].pc = "save"
    /\ evidence' = evidence \o run[w].new
    /\ handled' = handled \cup run[w].group
    /\ run' = [run EXCEPT ![w].pc = "groups", ![w].todo = @ \ run[w].group,
                          ![w].group = {}, ![w].new = <<>>]
    /\ UNCHANGED <<tree, artifacts, present, analyzed, sync, sending, queue, past,
                   mishaps, pushes, reviews, faults>>

\* An INSERT for a repository that is gone: save_candidates raises.
ExtractConflict(w) ==
    /\ run[w].pc = "groups"
    /\ run[w].todo # {}
    /\ ~present
    /\ Abandon(w, {})
    /\ UNCHANGED <<tree, artifacts, evidence, present, analyzed, sync, sending,
                   handled, past, pushes, reviews, faults>>

ExtractDone(w) ==
    /\ run[w].pc = "groups"
    /\ run[w].todo = {}
    /\ run' = [run EXCEPT ![w] = [Idle EXCEPT !.msg = run[w].msg, !.pc = "ack"]]
    /\ UNCHANGED <<tree, artifacts, evidence, present, analyzed, sync, sending,
                   queue, handled, past, mishaps, pushes, reviews, faults>>

\* An exception outside the LLM call, a clash on a new skill's name, the time limit.
ExtractFails(w) ==
    /\ faults < MaxFaults
    /\ run[w].pc \in {"groups", "save"}
    /\ faults' = faults + 1
    /\ Abandon(w, {})
    /\ UNCHANGED <<tree, artifacts, evidence, present, analyzed, sync, sending,
                   handled, past, pushes, reviews>>

-----------------------------------------------------------------------------

SyncNext(w) ==
    \/ SyncTake(w) \/ SyncLoad(w) \/ SyncSkip(w) \/ SyncChanged(w) \/ SyncInsert(w)
    \/ SyncCommit(w) \/ SyncSend(w) \/ SyncEnd(w) \/ SyncConflict(w)

ExtractNext(w) ==
    \/ ExtractTake(w) \/ ExtractGroup(w) \/ ExtractSave(w) \/ ExtractDone(w)
    \/ ExtractConflict(w)

WorkerNext(w) == SyncNext(w) \/ ExtractNext(w) \/ Ack(w)

\* The container restarts; Redis keeps nothing.
Restart ==
    /\ faults < MaxFaults
    /\ faults' = faults + 1
    /\ sending' = {}
    /\ queue' = {}
    /\ run' = [w \in Workers |-> Idle]
    /\ Mishap({"lost"})
    /\ UNCHANGED <<tree, artifacts, evidence, present, analyzed, sync, handled,
                   past, pushes, reviews>>

FaultNext ==
    \/ \E r \in Runs : TriggerDies(r)
    \/ \E w \in Workers : Crash(w) \/ SyncRaises(w) \/ SyncTimesOut(w)
                          \/ ExtractSkips(w) \/ ExtractFails(w)
    \/ Restart

UserNext ==
    \/ \E p \in Paths, c \in Contents \cup {Absent} : Push(p, c)
    \/ \E r \in Runs : TriggerSync(r)
    \/ \E i \in DOMAIN evidence, s \in EvidenceStatus : Review(i, s)
    \/ Disconnect

Next ==
    \/ UserNext
    \/ FaultNext
    \/ \E r \in Runs : TriggerSend(r)
    \/ \E w \in Workers : WorkerNext(w)

\* A request in its handler and the worker threads go on; users, GitHub and
\* faults owe nothing.
Fairness ==
    /\ \A r \in Runs : WF_vars(TriggerSend(r))
    /\ \A w \in Workers : WF_vars(WorkerNext(w))

Spec == Init /\ [][Next]_vars /\ Fairness

-----------------------------------------------------------------------------
(* What syncing promises. *)

Citing(S) == {i \in DOMAIN evidence :
                evidence[i].status \in Live /\ evidence[i].cites \cap S # {}}

\* Live evidence cites only what the repository holds at last_analyzed_sha.
DescribesAnalyzed ==
    analyzed # NoTree => Citing(artifacts \ Held(analyzed)) = {}

\* Marking stale keeps live evidence true to last_analyzed_sha, in the presence of
\* crashes, redeliveries and failures between commits, as long as no file returns
\* to an earlier content or disappears, no two syncs overlap, none is cut short
\* after a flush, nothing superseded is still on its way to the LLM, and the user
\* revives nothing.
LiveEvidenceIsCurrent ==
    mishaps \cap {"reverted", "removed", "overlap", "late", "revived", "aborted"} = {}
        => DescribesAnalyzed

\* A stored artifact is never offered to extraction again.  So from its commit on
\* it has been through extraction, or is on its way there; overlapping syncs and
\* retries lose none.
ArtifactsReachExtraction ==
    "lost" \notin mishaps => artifacts \subseteq handled \cup Underway

\* The check for an equal claim and the insertion are two statements and no
\* constraint backs them: one live row per claim, if no two extractions were
\* between the two together and the user revived none.
OneLiveRowPerClaim ==
    mishaps \cap {"parallel", "revived"} = {} =>
        \A i, j \in DOMAIN evidence :
            /\ evidence[i].claim = evidence[j].claim
            /\ evidence[i].status \in Live /\ evidence[j].status \in Live
            => i = j

\* A sync run that was accepted reaches a final status, or something was lost.
SyncRunSettles ==
    \A r \in Runs :
        sync[r] \in {"queued", "syncing"}
            ~> (sync[r] \in {"completed", "failed"} \/ "lost" \in mishaps)

=============================================================================
