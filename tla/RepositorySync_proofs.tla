----------------------- MODULE RepositorySync_proofs -----------------------
(***************************************************************************)
(* Proofs about RepositorySync for any number of threads, syncs, files,     *)
(* contents, claims, pushes, reviews and faults: its types, and the three   *)
(* invariants ArtifactsReachExtraction, OneLiveRowPerClaim and              *)
(* LiveEvidenceIsCurrent, each from an inductive invariant of its own       *)
(* (ReachInv, ClaimsInv, CurrentInv).                                       *)
(***************************************************************************)
EXTENDS RepositorySync, SequenceTheorems, TLAPS

SyncSteps == {"load", "files", "insert", "send", "end"}
ExtractSteps == {"groups", "save"}

RunRecord ==
    [msg: {<<>>} \cup Message, pc: {"idle", "ack"} \cup SyncSteps \cup ExtractSteps,
     tree: {NoTree} \cup Tree, at: 1..(NumPaths + 1), added: SUBSET Artifact,
     superseded: SUBSET Artifact, todo: SUBSET Artifact, group: SUBSET Artifact,
     new: Seq(Evidence)]

\* A sync carries no batch.
Plain(m) == m.kind = "sync" => m.batch = {}

\* What the point a run has reached says about the rest of its record.
Shape(x) ==
    /\ x.pc = "idle" => x = Idle
    /\ x.pc # "idle" => x.msg \in Message /\ Plain(x.msg)
    /\ x.pc \in SyncSteps => x.msg.kind = "sync"
    /\ x.pc \in ExtractSteps => x.msg.kind = "extract"
    /\ x.pc \in {"files", "insert"} =>
           /\ x.tree \in Tree
           /\ \A a \in x.added : a.path < x.at /\ a.content = x.tree[a.path]
    /\ x.pc = "load" => x.at = 1
    /\ x.pc = "insert" => x.at <= NumPaths /\ x.tree[x.at] # Absent
    /\ x.added # {} => x.pc \in {"files", "insert", "send"}
    /\ x.new # <<>> =>
           /\ x.pc = "save"
           /\ \E e \in Evidence : x.new = <<e>> /\ e.cites \subseteq x.msg.batch

Types ==
    /\ TypeOK
    /\ run \in [Workers -> RunRecord]
    /\ \A w \in Workers : Shape(run[w])
    /\ \A m \in queue : Plain(m)

-----------------------------------------------------------------------------
(* Artifacts. *)

GoneIsEmpty == ~present => artifacts = {} /\ analyzed = NoTree

\* What an extraction has taken out of its list was answered for.
ExtractsAll ==
    "lost" \notin mishaps =>
        \A w \in Workers :
            /\ run[w].pc \in ExtractSteps => run[w].msg.batch \ run[w].todo \subseteq handled
            /\ run[w].pc = "ack" /\ run[w].msg.kind = "extract" /\ present =>
                   run[w].msg.batch \subseteq handled

ReachInv == Types /\ GoneIsEmpty /\ ExtractsAll /\ ArtifactsReachExtraction

(* Claims. *)

SavesAlone ==
    "parallel" \notin mishaps =>
        \A v, w \in Workers : run[v].pc = "save" /\ run[w].pc = "save" => v = w

\* What a lone extraction is about to insert has no live row.
NewIsUnknown ==
    mishaps \cap {"parallel", "revived"} = {} =>
        \A w \in Workers : run[w].new # <<>> => ~Known(run[w].new[1].claim)

ClaimsInv == Types /\ SavesAlone /\ NewIsUnknown /\ OneLiveRowPerClaim

(* Evidence and the commit it describes. *)

Clean == mishaps \cap {"reverted", "removed", "overlap", "late", "revived", "aborted"} = {}

Walks(w) == run[w].pc \in {"files", "insert"}

WalksAlone == "overlap" \notin mishaps => \A v, w \in Workers : Walks(v) /\ Walks(w) => v = w

\* The tree t came after the tree s: nothing was removed, and what changed is new.
Follows(t, s) ==
    \A p \in Paths : t[p] # s[p] =>
        t[p] # Absent /\ [path |-> p, content |-> t[p]] \notin artifacts

\* The analyzed tree, that of the sync under way, and the head come in this order.
TreesFollow ==
    Clean =>
        /\ analyzed # NoTree => Follows(tree, analyzed)
        /\ \A w \in Workers : Walks(w) =>
              /\ Follows(tree, run[w].tree)
              /\ analyzed # NoTree => Follows(run[w].tree, analyzed)

\* What is stored, or may come to be, was at GitHub once.
StoredIsPast ==
    /\ artifacts \subseteq past
    /\ Held(tree) \subseteq past
    /\ \A w \in Workers : Walks(w) => Held(run[w].tree) \subseteq past

NothingAnalyzed == Clean /\ analyzed = NoTree => artifacts = {}

\* Behind it a sync has put on its list what it found changed.
ListsChanged(x) ==
    \A a \in artifacts :
        /\ a.path < x.at \/ (x.pc = "insert" /\ a.path = x.at)
        /\ x.tree[a.path] # Absent
        /\ [path |-> a.path, content |-> x.tree[a.path]] \notin artifacts
        => a \in x.superseded

SupersededIsListed == Clean => \A w \in Workers : Walks(w) => ListsChanged(run[w])

\* What a sync is about to send is in the tables, unless the repository has gone.
CommittedIsStored ==
    \A w \in Workers : run[w].pc = "send" /\ present => run[w].added \subseteq artifacts

Outdated == artifacts \ Held(analyzed)

\* Nothing outdated is on its way to the LLM.
UnderwayIsCurrent == Clean /\ analyzed # NoTree => Underway \cap Outdated = {}

CurrentInv ==
    /\ Types /\ GoneIsEmpty /\ StoredIsPast /\ CommittedIsStored
    /\ WalksAlone /\ TreesFollow /\ NothingAnalyzed /\ SupersededIsListed
    /\ UnderwayIsCurrent /\ LiveEvidenceIsCurrent

-----------------------------------------------------------------------------
(* What the steps of a thread do to its run, and their types. *)

LEMMA NumPathsIsNat == NumPaths \in Nat /\ SyncRetries \in Nat /\ ExtractRetries \in Nat
BY ConstantsAreSane

LEMMA IdleIsRun == Idle \in RunRecord /\ Shape(Idle)
<1>1. <<>> \in Seq(Evidence) /\ 1 \in 1..(NumPaths + 1)
    BY NumPathsIsNat
<1>2. Idle \in RunRecord
    BY <1>1 DEF Idle, RunRecord, SyncSteps, ExtractSteps
<1> QED BY <1>2 DEF Shape, Idle, SyncSteps, ExtractSteps

\* Only the run of w has changed.
Moved(w) ==
    /\ run' \in [Workers -> RunRecord]
    /\ Shape(run'[w])
    /\ \A v \in Workers \ {w} : run'[v] = run[v]

LEMMA MovesTo ==
    ASSUME Types, NEW w \in Workers, NEW x \in RunRecord, Shape(x),
           run' = [run EXCEPT ![w] = x]
    PROVE  Moved(w) /\ run'[w] = x
BY DEF Types, Moved

LEMMA RunsAreRecords ==
    ASSUME Types, NEW w \in Workers
    PROVE  run[w] \in RunRecord /\ Shape(run[w])
BY DEF Types

\* The run of a message that has been taken, or is done with.
With(x, m) == [x EXCEPT !.msg = m]

LEMMA TakenIsRun ==
    ASSUME NEW m \in Message, Plain(m)
    PROVE  /\ m.kind = "sync" =>
                 LET x == With([Idle EXCEPT !.pc = "load"], m) IN
                 x \in RunRecord /\ Shape(x) /\ x.pc = "load" /\ x.msg = m /\ x.new = <<>>
           /\ m.kind = "extract" =>
                 LET x == With([Idle EXCEPT !.pc = "groups", !.todo = m.batch], m) IN
                 x \in RunRecord /\ Shape(x) /\ x.pc = "groups" /\ x.msg = m /\ x.todo = m.batch
                 /\ x.new = <<>>
           /\ LET x == With([Idle EXCEPT !.pc = "ack"], m) IN
              x \in RunRecord /\ Shape(x) /\ x.pc = "ack" /\ x.msg = m /\ x.new = <<>>
<1>1. m.batch \in SUBSET Artifact
    BY DEF Message
<1> DEFINE y == [Idle EXCEPT !.pc = "load"]
           z == [Idle EXCEPT !.pc = "groups", !.todo = m.batch]
           u == [Idle EXCEPT !.pc = "ack"]
<1>2. /\ With(y, m) \in RunRecord
      /\ With(z, m) \in RunRecord
      /\ With(u, m) \in RunRecord
    <2>1. Idle \in RunRecord
        BY IdleIsRun
    <2>2. y \in RunRecord /\ z \in RunRecord /\ u \in RunRecord
        BY <1>1, <2>1 DEF RunRecord, SyncSteps, ExtractSteps
    <2> QED BY <2>2 DEF With, RunRecord
<1>3. /\ With(y, m).pc = "load" /\ With(y, m).msg = m /\ With(y, m).new = <<>>
      /\ With(y, m).at = 1 /\ With(y, m).added = {}
    BY DEF With, Idle
<1>4. /\ With(z, m).pc = "groups" /\ With(z, m).msg = m /\ With(z, m).new = <<>>
      /\ With(z, m).todo = m.batch /\ With(z, m).added = {}
    BY DEF With, Idle
<1>5. /\ With(u, m).pc = "ack" /\ With(u, m).msg = m /\ With(u, m).new = <<>>
      /\ With(u, m).added = {}
    BY DEF With, Idle
<1> HIDE DEF y, z, u
<1>6. m.kind = "sync" => Shape(With(y, m))
    BY <1>3 DEF Shape, SyncSteps, ExtractSteps
<1>7. m.kind = "extract" => Shape(With(z, m))
    BY <1>4 DEF Shape, SyncSteps, ExtractSteps
<1>8. Shape(With(u, m))
    BY <1>5 DEF Shape, SyncSteps, ExtractSteps
<1> QED BY <1>2, <1>3, <1>4, <1>5, <1>6, <1>7, <1>8 DEF y, z, u

LEMMA SyncTakes ==
    ASSUME Types, NEW w \in Workers, SyncTake(w)
    PROVE  \E m \in queue :
               /\ m.kind = "sync" /\ queue' = queue \ {m} /\ run[w].pc = "idle"
               /\ sync' = [sync EXCEPT ![m.no] = "syncing"]
               /\ Moved(w) /\ run'[w].pc = "load" /\ run'[w].msg = m
<1>1. PICK m \in queue :
          /\ m.kind = "sync" /\ queue' = queue \ {m} /\ run[w].pc = "idle"
          /\ sync' = [sync EXCEPT ![m.no] = "syncing"]
          /\ run' = [run EXCEPT ![w] = With([Idle EXCEPT !.pc = "load"], m)]
    BY DEF SyncTake, Take, With
<1>2. m \in Message /\ Plain(m)
    BY DEF Types, TypeOK
<1> DEFINE x == With([Idle EXCEPT !.pc = "load"], m)
<1>3. x \in RunRecord /\ Shape(x) /\ x.pc = "load" /\ x.msg = m
    BY <1>1, <1>2, TakenIsRun
<1>4. run' = [run EXCEPT ![w] = x]
    BY <1>1
<1> HIDE DEF x
<1>5. Moved(w) /\ run'[w] = x
    BY <1>3, <1>4, MovesTo
<1> QED BY <1>1, <1>3, <1>5

LEMMA ExtractTakes ==
    ASSUME Types, NEW w \in Workers, ExtractTake(w)
    PROVE  \E m \in queue :
               /\ m.kind = "extract" /\ queue' = queue \ {m} /\ run[w].pc = "idle"
               /\ Moved(w) /\ run'[w].msg = m /\ run'[w].new = <<>>
               /\ \/ present /\ run'[w].pc = "groups" /\ run'[w].todo = m.batch
                  \/ ~present /\ run'[w].pc = "ack"
<1>1. PICK m \in queue :
          /\ m.kind = "extract" /\ queue' = queue \ {m} /\ run[w].pc = "idle"
          /\ run' = [run EXCEPT ![w] =
                        With(IF present THEN [Idle EXCEPT !.pc = "groups", !.todo = m.batch]
                                        ELSE [Idle EXCEPT !.pc = "ack"], m)]
    BY DEF ExtractTake, Take, With
<1>2. m \in Message /\ Plain(m)
    BY DEF Types, TypeOK
<1> DEFINE x == With(IF present THEN [Idle EXCEPT !.pc = "groups", !.todo = m.batch]
                                ELSE [Idle EXCEPT !.pc = "ack"], m)
<1>3. /\ x \in RunRecord /\ Shape(x) /\ x.msg = m /\ x.new = <<>>
      /\ \/ present /\ x.pc = "groups" /\ x.todo = m.batch
         \/ ~present /\ x.pc = "ack"
    <2>1. CASE present
        BY <1>1, <1>2, <2>1, TakenIsRun
    <2>2. CASE ~present
        BY <1>1, <1>2, <2>2, TakenIsRun
    <2> QED BY <2>1, <2>2
<1>4. run' = [run EXCEPT ![w] = x]
    BY <1>1
<1> HIDE DEF x
<1>5. Moved(w) /\ run'[w] = x
    BY <1>3, <1>4, MovesTo
<1> QED BY <1>1, <1>3, <1>5

LEMMA SyncLoads ==
    ASSUME Types, NEW w \in Workers, SyncLoad(w)
    PROVE  /\ Moved(w) /\ run[w].pc = "load"
           /\ run'[w].msg = run[w].msg /\ run'[w].at = 1
           /\ \/ present /\ run'[w].pc = "files" /\ run'[w].tree = tree
              \/ ~present /\ run'[w].pc = "end"
<1> DEFINE x == [run[w] EXCEPT !.pc = IF present THEN "files" ELSE "end",
                               !.tree = IF present THEN tree ELSE NoTree]
<1>1. run' = [run EXCEPT ![w] = x] /\ run[w].pc = "load"
    BY DEF SyncLoad, Types
<1>2. run[w] \in RunRecord /\ Shape(run[w]) /\ tree \in Tree
    BY RunsAreRecords DEF Types, TypeOK
<1>3. /\ x \in RunRecord
      /\ x.msg = run[w].msg /\ x.at = run[w].at /\ x.added = run[w].added /\ x.new = run[w].new
      /\ x.pc = IF present THEN "files" ELSE "end"
      /\ x.tree = IF present THEN tree ELSE NoTree
    BY <1>2 DEF RunRecord, SyncSteps
<1> HIDE DEF x
<1>4. run[w].at = 1 /\ run[w].added = {} /\ run[w].new = <<>>
    BY <1>1, <1>2 DEF Shape
<1>5. Shape(x)
    BY <1>1, <1>2, <1>3, <1>4 DEF Shape, SyncSteps, ExtractSteps
<1> QED BY <1>1, <1>3, <1>4, <1>5, MovesTo

LEMMA SyncSkips ==
    ASSUME Types, NEW w \in Workers, SyncSkip(w)
    PROVE  /\ Moved(w) /\ run[w].pc = "files" /\ run[w].at <= NumPaths
           /\ run'[w].pc = "files" /\ run'[w].at = run[w].at + 1
           /\ run'[w].msg = run[w].msg /\ run'[w].added = run[w].added
           /\ run'[w].tree = run[w].tree /\ run'[w].superseded = run[w].superseded
<1> DEFINE x == [run[w] EXCEPT !.at = @ + 1]
<1>1. run' = [run EXCEPT ![w] = x] /\ run[w].pc = "files" /\ run[w].at <= NumPaths
    BY DEF SyncSkip, Types
<1>2. run[w] \in RunRecord /\ Shape(run[w])
    BY RunsAreRecords
<1>3. run[w].at \in 1..(NumPaths + 1) /\ run[w].at + 1 \in 1..(NumPaths + 1)
    BY <1>1, <1>2, NumPathsIsNat DEF RunRecord
<1>4. /\ x \in RunRecord /\ x.pc = run[w].pc
      /\ x.msg = run[w].msg /\ x.at = run[w].at + 1 /\ x.added = run[w].added /\ x.new = run[w].new
      /\ x.tree = run[w].tree /\ x.superseded = run[w].superseded
    BY <1>2, <1>3 DEF RunRecord
<1> HIDE DEF x
<1>5. \A a \in run[w].added : a.path < run[w].at + 1 /\ a.content = run[w].tree[a.path]
    <2>1. SUFFICES ASSUME NEW a \in run[w].added PROVE a.path < run[w].at + 1
        BY <1>1, <1>2 DEF Shape
    <2>2. a.path < run[w].at /\ a \in Artifact
        BY <1>1, <1>2 DEF Shape, RunRecord
    <2> QED BY <1>3, <2>2, NumPathsIsNat DEF Artifact, Paths
<1>6. Shape(x)
    BY <1>1, <1>2, <1>4, <1>5 DEF Shape, SyncSteps, ExtractSteps
<1> QED BY <1>1, <1>4, <1>6, MovesTo

LEMMA SyncChanges ==
    ASSUME Types, NEW w \in Workers, SyncChanged(w)
    PROVE  /\ Moved(w) /\ run[w].pc = "files" /\ run[w].at <= NumPaths
           /\ run'[w].pc = "insert" /\ run'[w].at = run[w].at
           /\ run'[w].msg = run[w].msg /\ run'[w].added = run[w].added
           /\ run'[w].tree = run[w].tree
           /\ run'[w].superseded = run[w].superseded \cup Prior(w)
<1> DEFINE x == [run[w] EXCEPT !.pc = "insert", !.superseded = @ \cup Prior(w)]
<1>1. /\ run' = [run EXCEPT ![w] = x] /\ run[w].pc = "files" /\ run[w].at <= NumPaths
      /\ run[w].tree[run[w].at] # Absent
    BY DEF SyncChanged, Found, Types
<1>2. run[w] \in RunRecord /\ Shape(run[w])
    BY RunsAreRecords
<1>3. Prior(w) \subseteq Artifact
    BY <1>2 DEF Prior, RunRecord, Types, TypeOK
<1>4. /\ x \in RunRecord /\ x.pc = "insert"
      /\ x.msg = run[w].msg /\ x.at = run[w].at /\ x.added = run[w].added /\ x.new = run[w].new
      /\ x.tree = run[w].tree /\ x.superseded = run[w].superseded \cup Prior(w)
    BY <1>2, <1>3 DEF RunRecord, SyncSteps
<1> HIDE DEF x
<1>5. Shape(x)
    BY <1>1, <1>2, <1>4 DEF Shape, SyncSteps, ExtractSteps
<1> QED BY <1>1, <1>4, <1>5, MovesTo

LEMMA SyncInserts ==
    ASSUME Types, NEW w \in Workers, SyncInsert(w)
    PROVE  /\ Moved(w) /\ run[w].pc = "insert" /\ run[w].at <= NumPaths
           /\ run'[w].pc = "files" /\ run'[w].at = run[w].at + 1
           /\ run'[w].msg = run[w].msg /\ run'[w].added = run[w].added \cup {Found(w)}
           /\ run'[w].tree = run[w].tree /\ run'[w].superseded = run[w].superseded
<1> DEFINE x == [run[w] EXCEPT !.pc = "files", !.at = @ + 1, !.added = @ \cup {Found(w)}]
<1>1. run' = [run EXCEPT ![w] = x] /\ run[w].pc = "insert"
    BY DEF SyncInsert, Types
<1>2. run[w] \in RunRecord /\ Shape(run[w])
    BY RunsAreRecords
<1>3. run[w].at <= NumPaths /\ run[w].tree \in Tree /\ run[w].tree[run[w].at] # Absent
    BY <1>1, <1>2 DEF Shape
<1>4. run[w].at \in 1..(NumPaths + 1) /\ run[w].at + 1 \in 1..(NumPaths + 1) /\ run[w].at \in Paths
    BY <1>2, <1>3, NumPathsIsNat DEF RunRecord, Paths
<1>5. Found(w) \in Artifact /\ Found(w).path = run[w].at
      /\ Found(w).content = run[w].tree[run[w].at]
    BY <1>3, <1>4 DEF Found, Artifact, Tree
<1>6. /\ x \in RunRecord /\ x.pc = "files"
      /\ x.msg = run[w].msg /\ x.at = run[w].at + 1 /\ x.new = run[w].new
      /\ x.added = run[w].added \cup {Found(w)}
      /\ x.tree = run[w].tree /\ x.superseded = run[w].superseded
    BY <1>2, <1>4, <1>5 DEF RunRecord, SyncSteps
<1> HIDE DEF x
<1>7. \A a \in x.added : a.path < run[w].at + 1 /\ a.content = run[w].tree[a.path]
    <2>1. ASSUME NEW a \in run[w].added
          PROVE  a.path < run[w].at + 1 /\ a.content = run[w].tree[a.path]
        <3>1. a.path < run[w].at /\ a \in Artifact /\ a.content = run[w].tree[a.path]
            BY <1>1, <1>2 DEF Shape, RunRecord
        <3> QED BY <1>4, <3>1, NumPathsIsNat DEF Artifact, Paths
    <2>2. Found(w).path < run[w].at + 1
        BY <1>4, <1>5, NumPathsIsNat
    <2> QED BY <1>5, <1>6, <2>1, <2>2
<1>8. Shape(x)
    BY <1>1, <1>2, <1>3, <1>6, <1>7 DEF Shape, SyncSteps, ExtractSteps
<1> QED BY <1>1, <1>3, <1>6, <1>8, MovesTo

LEMMA SyncCommits ==
    ASSUME Types, NEW w \in Workers, SyncCommit(w)
    PROVE  /\ Moved(w) /\ run[w].pc = "files" /\ run[w].at = NumPaths + 1
           /\ run'[w].pc = "send" /\ run'[w].msg = run[w].msg /\ run'[w].added = run[w].added
<1> DEFINE x == [run[w] EXCEPT !.pc = "send"]
<1>1. run' = [run EXCEPT ![w] = x] /\ run[w].pc = "files" /\ run[w].at > NumPaths
    BY DEF SyncCommit, At, Types
<1>2. run[w] \in RunRecord /\ Shape(run[w])
    BY RunsAreRecords
<1>3. run[w].at = NumPaths + 1
    BY <1>1, <1>2, NumPathsIsNat DEF RunRecord
<1>4. /\ x \in RunRecord /\ x.pc = "send"
      /\ x.msg = run[w].msg /\ x.added = run[w].added /\ x.new = run[w].new
    BY <1>2 DEF RunRecord, SyncSteps
<1> HIDE DEF x
<1>5. Shape(x)
    BY <1>1, <1>2, <1>4 DEF Shape, SyncSteps, ExtractSteps
<1> QED BY <1>1, <1>3, <1>4, <1>5, MovesTo

LEMMA SyncSends ==
    ASSUME Types, NEW w \in Workers, SyncSend(w)
    PROVE  /\ Moved(w) /\ run[w].pc = "send"
           /\ run'[w].pc = "end" /\ run'[w].msg = run[w].msg
<1> DEFINE x == [run[w] EXCEPT !.pc = "end", !.added = {}]
<1>1. run' = [run EXCEPT ![w] = x] /\ run[w].pc = "send"
    BY DEF SyncSend, Types
<1>2. run[w] \in RunRecord /\ Shape(run[w])
    BY RunsAreRecords
<1>3. x \in RunRecord /\ x.pc = "end" /\ x.msg = run[w].msg /\ x.added = {} /\ x.new = run[w].new
    BY <1>2 DEF RunRecord, SyncSteps
<1> HIDE DEF x
<1>4. Shape(x)
    BY <1>1, <1>2, <1>3 DEF Shape, SyncSteps, ExtractSteps
<1> QED BY <1>1, <1>3, <1>4, MovesTo

LEMMA SyncEnds ==
    ASSUME Types, NEW w \in Workers, SyncEnd(w)
    PROVE  /\ Moved(w) /\ run[w].pc = "end" /\ run'[w].pc = "ack" /\ run'[w].msg = run[w].msg
<1> DEFINE x == [run[w] EXCEPT !.pc = "ack"]
<1>1. run' = [run EXCEPT ![w] = x] /\ run[w].pc = "end"
    BY DEF SyncEnd, At, Types
<1>2. run[w] \in RunRecord /\ Shape(run[w])
    BY RunsAreRecords
<1>3. /\ x \in RunRecord /\ x.pc = "ack" /\ x.msg = run[w].msg
      /\ x.added = run[w].added /\ x.new = run[w].new
    BY <1>2 DEF RunRecord
<1> HIDE DEF x
<1>4. Shape(x)
    BY <1>1, <1>2, <1>3 DEF Shape, SyncSteps, ExtractSteps
<1> QED BY <1>1, <1>3, <1>4, MovesTo

LEMMA RunsStop ==
    ASSUME Types, NEW w \in Workers, run' = [run EXCEPT ![w] = Idle]
    PROVE  Moved(w) /\ run'[w] = Idle /\ run'[w].pc = "idle"
<1>1. Idle.pc = "idle"
    BY DEF Idle
<1> QED BY <1>1, IdleIsRun, MovesTo

LEMMA RunsEnd ==
    ASSUME Types, NEW w \in Workers, run[w].pc # "idle",
           run' = [run EXCEPT ![w] = [Idle EXCEPT !.msg = run[w].msg, !.pc = "ack"]]
    PROVE  Moved(w) /\ run'[w].pc = "ack" /\ run'[w].msg = run[w].msg /\ run'[w].new = <<>>
<1>1. run[w].msg \in Message /\ Plain(run[w].msg)
    BY RunsAreRecords DEF Shape
<1>2. run' = [run EXCEPT ![w] = With([Idle EXCEPT !.pc = "ack"], run[w].msg)]
    BY DEF With, Idle
<1> DEFINE x == With([Idle EXCEPT !.pc = "ack"], run[w].msg)
<1>3. x \in RunRecord /\ Shape(x) /\ x.pc = "ack" /\ x.msg = run[w].msg /\ x.new = <<>>
    BY <1>1, TakenIsRun
<1> HIDE DEF x
<1>4. Moved(w) /\ run'[w] = x
    BY <1>2, <1>3, MovesTo DEF x
<1> QED BY <1>3, <1>4

LEMMA ExtractGroups ==
    ASSUME Types, NEW w \in Workers, ExtractGroup(w)
    PROVE  /\ Moved(w) /\ run[w].pc = "groups" /\ run'[w].pc = "save"
           /\ run'[w].msg = run[w].msg /\ run'[w].todo = run[w].todo
           /\ run'[w].new # <<>> =>
                \E e \in Evidence : run'[w].new = <<e>> /\ e.cites \subseteq run[w].msg.batch
                                    /\ ~Known(e.claim)
<1>0. PICK g \in (SUBSET run[w].todo) \ {{}} :
          \E rows \in Answers(w) :
              run' = [run EXCEPT ![w].pc = "save", ![w].group = g, ![w].new = rows]
    BY DEF ExtractGroup
<1>1. PICK rows \in Answers(w) :
          run' = [run EXCEPT ![w] = [run[w] EXCEPT !.pc = "save", !.group = g, !.new = rows]]
    BY <1>0 DEF Types
<1> DEFINE x == [run[w] EXCEPT !.pc = "save", !.group = g, !.new = rows]
<1>2. run[w] \in RunRecord /\ Shape(run[w]) /\ run[w].pc = "groups"
    BY RunsAreRecords DEF ExtractGroup
<1>3. run[w].msg \in Message /\ run[w].msg.kind = "extract" /\ run[w].msg.batch \subseteq Artifact
    BY <1>2 DEF Shape, ExtractSteps, Message
<1>4. rows # <<>> => \E e \in Evidence : rows = <<e>> /\ e.cites \subseteq run[w].msg.batch
                                         /\ ~Known(e.claim)
    <2>1. SUFFICES ASSUME rows # <<>>
                   PROVE  \E e \in Evidence : rows = <<e>> /\ e.cites \subseteq run[w].msg.batch
                                              /\ ~Known(e.claim)
        OBVIOUS
    <2>2. PICK c \in {d \in Claims : ~Known(d)}, S \in (SUBSET run[w].msg.batch) \ {{}} :
              rows = <<[claim |-> c, cites |-> S, status |-> "candidate"]>>
        BY <2>1 DEF Answers
    <2> DEFINE e == [claim |-> c, cites |-> S, status |-> "candidate"]
    <2>3. e \in Evidence /\ e.cites = S /\ e.claim = c
        BY <1>3, <2>2 DEF Evidence, EvidenceStatus, Live
    <2> HIDE DEF e
    <2>4. rows = <<e>>
        BY <2>2 DEF e
    <2> QED BY <2>2, <2>3, <2>4
<1>5. rows \in Seq(Evidence)
    <2>1. CASE rows = <<>>
        BY <2>1
    <2>2. CASE rows # <<>>
        <3>1. PICK e \in Evidence : rows = <<e>>
            BY <1>4, <2>2
        <3> QED BY <3>1
    <2> QED BY <2>1, <2>2
<1>6. /\ x \in RunRecord /\ x.pc = "save" /\ x.msg = run[w].msg /\ x.todo = run[w].todo
      /\ x.new = rows /\ x.added = run[w].added
    BY <1>2, <1>5 DEF RunRecord, ExtractSteps
<1> HIDE DEF x
<1>7. Shape(x)
    BY <1>2, <1>3, <1>4, <1>6 DEF Shape, SyncSteps, ExtractSteps
<1>8. Moved(w) /\ run'[w] = x
    BY <1>1, <1>6, <1>7, MovesTo DEF x
<1> QED BY <1>2, <1>4, <1>6, <1>8

LEMMA ExtractSkipped ==
    ASSUME Types, NEW w \in Workers, ExtractSkips(w)
    PROVE  /\ Moved(w) /\ run[w].pc = "groups" /\ run'[w].pc = "groups"
           /\ run'[w].msg = run[w].msg /\ run'[w].new = run[w].new
<1>1. PICK g \in (SUBSET run[w].todo) \ {{}} :
          run' = [run EXCEPT ![w] = [run[w] EXCEPT !.todo = @ \ g]]
    BY DEF ExtractSkips, Types
<1> DEFINE x == [run[w] EXCEPT !.todo = @ \ g]
<1>2. run[w] \in RunRecord /\ Shape(run[w]) /\ run[w].pc = "groups"
    BY RunsAreRecords DEF ExtractSkips
<1>3. /\ x \in RunRecord /\ x.pc = run[w].pc /\ x.msg = run[w].msg /\ x.new = run[w].new
      /\ x.added = run[w].added
    BY <1>2 DEF RunRecord
<1> HIDE DEF x
<1>4. Shape(x)
    BY <1>2, <1>3 DEF Shape, SyncSteps, ExtractSteps
<1>5. Moved(w) /\ run'[w] = x
    BY <1>1, <1>3, <1>4, MovesTo DEF x
<1> QED BY <1>2, <1>3, <1>5

LEMMA ExtractSaves ==
    ASSUME Types, NEW w \in Workers, ExtractSave(w)
    PROVE  /\ Moved(w) /\ run[w].pc = "save" /\ run'[w].pc = "groups"
           /\ run'[w].msg = run[w].msg /\ run'[w].todo = run[w].todo \ run[w].group
           /\ run'[w].new = <<>>
<1> DEFINE x == [run[w] EXCEPT !.pc = "groups", !.todo = @ \ run[w].group, !.group = {},
                               !.new = <<>>]
<1>1. run' = [run EXCEPT ![w] = x] /\ run[w].pc = "save"
    BY DEF ExtractSave, Types
<1>2. run[w] \in RunRecord /\ Shape(run[w])
    BY RunsAreRecords
<1>3. /\ x \in RunRecord /\ x.pc = "groups" /\ x.msg = run[w].msg /\ x.new = <<>>
      /\ x.added = run[w].added /\ x.todo = run[w].todo \ run[w].group
    <2>1. <<>> \in Seq(Evidence)
        OBVIOUS
    <2>2. run[w].todo \ run[w].group \in SUBSET Artifact
        BY <1>2 DEF RunRecord
    <2> QED BY <1>2, <2>1, <2>2 DEF RunRecord, ExtractSteps
<1> HIDE DEF x
<1>4. Shape(x)
    BY <1>1, <1>2, <1>3 DEF Shape, SyncSteps, ExtractSteps
<1> QED BY <1>1, <1>3, <1>4, MovesTo

\* A message that comes back is one, and its batch has stayed.
Returned(w, m) ==
    /\ m \in Message /\ Plain(m)
    /\ m.batch = run[w].msg.batch
    /\ queue' = queue \cup {m}

LEMMA Abandons ==
    ASSUME Types, NEW w \in Workers, run[w].pc # "idle", NEW events, Abandon(w, events)
    PROVE  /\ Moved(w) /\ run'[w] = Idle /\ run'[w].pc = "idle"
           /\ \/ (\E m : Returned(w, m)) /\ mishaps' = mishaps \cup events
              \/ queue' = queue /\ mishaps' = mishaps \cup events \cup {"lost"}
<1>1. run[w].msg \in Message /\ Plain(run[w].msg)
    BY RunsAreRecords DEF Shape
<1> DEFINE n == [run[w].msg EXCEPT !.retries = @ + 1]
<1>2. n \in Message /\ n.kind = run[w].msg.kind /\ n.batch = run[w].msg.batch
    BY <1>1 DEF Message
<1>3. \/ queue' = queue \cup {n} /\ mishaps' = mishaps \cup events
      \/ queue' = queue /\ mishaps' = mishaps \cup events \cup {"lost"}
    BY DEF Abandon, Mishap
<1> HIDE DEF n
<1>4. queue' = queue \cup {n} => Returned(w, n)
    BY <1>1, <1>2 DEF Returned, Plain
<1>5. Moved(w) /\ run'[w] = Idle /\ run'[w].pc = "idle"
    BY RunsStop DEF Abandon
<1> QED BY <1>3, <1>4, <1>5

LEMMA Crashes ==
    ASSUME Types, NEW w \in Workers, Crash(w)
    PROVE  /\ Moved(w) /\ run'[w] = Idle /\ run'[w].pc = "idle" /\ run[w].pc # "idle"
           /\ Returned(w, run[w].msg)
           /\ mishaps' = mishaps \cup (IF Unsent(w) THEN {"lost"} ELSE {})
<1>1. run[w].pc # "idle" /\ run[w].msg \in Message /\ Plain(run[w].msg)
    BY RunsAreRecords DEF Shape, Crash
<1>2. Moved(w) /\ run'[w] = Idle /\ run'[w].pc = "idle"
    BY RunsStop DEF Crash
<1> QED BY <1>1, <1>2 DEF Crash, Returned, Mishap

-----------------------------------------------------------------------------
(* Types. *)

Rows ==
    /\ tree \in Tree
    /\ artifacts \subseteq Artifact
    /\ evidence \in Seq(Evidence)
    /\ present \in BOOLEAN
    /\ analyzed = NoTree \/ analyzed \in Tree
    /\ sync \in [Runs -> {"none", "queued", "syncing", "completed", "failed"}]
    /\ sending \subseteq Runs
    /\ handled \subseteq Artifact
    /\ past \subseteq Artifact
    /\ mishaps \subseteq {"reverted", "removed", "overlap", "late", "parallel",
                          "revived", "aborted", "lost"}
    /\ {pushes, reviews, faults} \subseteq Nat

Messages == queue \subseteq Message /\ \A m \in queue : Plain(m)

RunsAreTyped == run \in [Workers -> RunRecord] /\ \A w \in Workers : Shape(run[w])

LEMMA TypesSplit == Types <=> Rows /\ Messages /\ RunsAreTyped
<1>1. RunsAreTyped => \A w \in Workers : IsRun(run[w])
    <2> SUFFICES ASSUME NEW x \in RunRecord PROVE IsRun(x)
        BY DEF RunsAreTyped
    <2> QED BY DEF RunRecord, IsRun, SyncSteps, ExtractSteps
<1> QED BY <1>1 DEF Types, TypeOK, Rows, Messages, RunsAreTyped

LEMMA MovedTypes ==
    ASSUME Types, NEW w \in Workers, Moved(w), Rows',
           queue' \subseteq queue \/ \E m \in Message : Plain(m) /\ queue' \subseteq queue \cup {m}
    PROVE  Types'
<1>1. RunsAreTyped'
    BY TypesSplit DEF RunsAreTyped, Moved
<1>2. Messages'
    BY TypesSplit DEF Messages
<1>3. Types' <=> Rows' /\ Messages' /\ RunsAreTyped'
    BY TypesSplit, PTL
<1> QED BY <1>1, <1>2, <1>3

\* Rows that change of their own.
LEMMA StaleIsTyped ==
    ASSUME Rows, NEW S, MarkStale(S)
    PROVE  /\ evidence' \in Seq(Evidence)
           /\ DOMAIN evidence' = DOMAIN evidence
           /\ \A i \in DOMAIN evidence :
                 /\ evidence'[i].claim = evidence[i].claim
                 /\ evidence'[i].cites = evidence[i].cites
                 /\ evidence'[i].status \in Live =>
                       evidence[i].status \in Live /\ evidence[i].cites \cap S = {}
<1>1. /\ Len(evidence) \in Nat /\ DOMAIN evidence = 1..Len(evidence)
      /\ \A i \in DOMAIN evidence : evidence[i] \in Evidence
    BY DEF Rows
<1>2. ASSUME NEW i \in DOMAIN evidence
      PROVE  /\ evidence'[i] \in Evidence
             /\ evidence'[i].claim = evidence[i].claim
             /\ evidence'[i].cites = evidence[i].cites
             /\ evidence'[i].status \in Live =>
                   evidence[i].status \in Live /\ evidence[i].cites \cap S = {}
    <2>1. evidence[i] \in Evidence
        BY <1>1
    <2>2. CASE evidence[i].status \in Live /\ evidence[i].cites \cap S # {}
        <3>1. evidence'[i] = [evidence[i] EXCEPT !.status = "stale"]
            BY <2>2 DEF MarkStale
        <3> QED BY <2>1, <3>1 DEF Evidence, EvidenceStatus, Live
    <2>3. CASE ~(evidence[i].status \in Live /\ evidence[i].cites \cap S # {})
        <3>1. evidence'[i] = evidence[i]
            BY <2>3 DEF MarkStale
        <3> QED BY <2>1, <2>3, <3>1
    <2> QED BY <2>2, <2>3
<1>3. DOMAIN evidence' = 1..Len(evidence) /\ evidence' = [i \in 1..Len(evidence) |-> evidence'[i]]
    BY <1>1 DEF MarkStale
<1>4. evidence' \in Seq(Evidence)
    BY <1>1, <1>2, <1>3
<1> QED BY <1>1, <1>2, <1>3, <1>4

LEMMA ReviewIsTyped ==
    ASSUME Rows, NEW i \in DOMAIN evidence, NEW s \in EvidenceStatus,
           evidence' = [evidence EXCEPT ![i].status = s]
    PROVE  /\ evidence' \in Seq(Evidence)
           /\ DOMAIN evidence' = DOMAIN evidence
           /\ \A j \in DOMAIN evidence :
                 /\ evidence'[j].claim = evidence[j].claim
                 /\ evidence'[j].cites = evidence[j].cites
                 /\ j # i => evidence'[j] = evidence[j]
           /\ evidence'[i].status = s
<1>1. /\ Len(evidence) \in Nat /\ DOMAIN evidence = 1..Len(evidence)
      /\ \A j \in DOMAIN evidence : evidence[j] \in Evidence
    BY DEF Rows
<1> DEFINE e == [evidence[i] EXCEPT !.status = s]
<1>2. e \in Evidence /\ e.status = s /\ e.claim = evidence[i].claim /\ e.cites = evidence[i].cites
    BY <1>1 DEF Evidence
<1>3. evidence' = [evidence EXCEPT ![i] = e]
    OBVIOUS
<1> HIDE DEF e
<1>4. evidence' \in Seq(Evidence) /\ DOMAIN evidence' = DOMAIN evidence
    BY <1>1, <1>2, <1>3, ExceptSeq DEF Rows
<1>5. evidence'[i] = e /\ \A j \in DOMAIN evidence : j # i => evidence'[j] = evidence[j]
    BY <1>1, <1>3
<1> QED BY <1>2, <1>4, <1>5

LEMMA HeldIsArtifacts ==
    ASSUME NEW t \in Tree
    PROVE  /\ Held(t) \subseteq Artifact
           /\ \A a \in Artifact : a \in Held(t) <=> t[a.path] = a.content
           /\ \A p \in Paths : t[p] # Absent => [path |-> p, content |-> t[p]] \in Held(t)
<1>1. \A p \in Paths : t[p] # Absent => [path |-> p, content |-> t[p]] \in Artifact
    BY DEF Tree, Artifact
<1>2. \A a \in Artifact : a.path \in Paths /\ a.content \in Contents
                          /\ a = [path |-> a.path, content |-> a.content]
    BY DEF Artifact
<1>3. Absent \notin Contents
    BY ConstantsAreSane
<1>4. Held(t) \subseteq Artifact
    BY <1>1 DEF Held
<1>5. ASSUME NEW a \in Artifact, a \in Held(t) PROVE t[a.path] = a.content
    <2>1. PICK p \in Paths : a = [path |-> p, content |-> t[p]]
        BY <1>5 DEF Held
    <2> QED BY <2>1
<1>6. ASSUME NEW a \in Artifact, t[a.path] = a.content PROVE a \in Held(t)
    BY <1>2, <1>3, <1>6 DEF Held
<1>7. \A p \in Paths : t[p] # Absent => [path |-> p, content |-> t[p]] \in Held(t)
    BY DEF Held
<1> QED BY <1>4, <1>5, <1>6, <1>7

LEMMA SyncTypes ==
    ASSUME Types, NEW w \in Workers, SyncNext(w)
    PROVE  Types'
<1>1. Rows /\ run[w] \in RunRecord /\ Shape(run[w])
    BY TypesSplit, RunsAreRecords
<1>2. run[w].pc # "idle" => run[w].msg \in Message /\ run[w].msg.no \in Runs /\ Plain(run[w].msg)
    BY <1>1 DEF Shape, Message
<1>3. CASE SyncTake(w)
    <2>1. PICK m \in queue : /\ sync' = [sync EXCEPT ![m.no] = "syncing"]
                             /\ queue' = queue \ {m} /\ Moved(w)
        BY <1>3, SyncTakes
    <2>2. m.no \in Runs
        BY TypesSplit DEF Messages, Message
    <2>3. Rows'
        BY <1>1, <1>3, <2>1, <2>2 DEF Rows, SyncTake
    <2> QED BY <2>1, <2>3, MovedTypes
<1>4. CASE SyncLoad(w)
    <2>1. Rows' /\ queue' = queue
        BY <1>1, <1>4 DEF Rows, SyncLoad, Mishap
    <2> QED BY <1>4, <2>1, SyncLoads, MovedTypes
<1>5. CASE SyncSkip(w)
    <2>1. Rows' /\ queue' = queue
        BY <1>1, <1>5 DEF Rows, SyncSkip
    <2> QED BY <1>5, <2>1, SyncSkips, MovedTypes
<1>6. CASE SyncChanged(w)
    <2>1. Rows' /\ queue' = queue
        BY <1>1, <1>6 DEF Rows, SyncChanged
    <2> QED BY <1>6, <2>1, SyncChanges, MovedTypes
<1>7. CASE SyncInsert(w)
    <2>1. Rows' /\ queue' = queue
        BY <1>1, <1>7 DEF Rows, SyncInsert
    <2> QED BY <1>7, <2>1, SyncInserts, MovedTypes
<1>8. CASE SyncCommit(w)
    <2>1. evidence' \in Seq(Evidence)
        BY <1>1, <1>8, StaleIsTyped DEF SyncCommit
    <2>2. run[w].tree \in Tree /\ run[w].added \subseteq Artifact
        BY <1>1, <1>8 DEF SyncCommit, Shape, RunRecord
    <2>3. mishaps' \subseteq mishaps \cup {"late"}
        BY <1>8 DEF SyncCommit, Mishap
    <2>4. Rows' /\ queue' = queue
        BY <1>1, <1>8, <2>1, <2>2, <2>3 DEF Rows, SyncCommit
    <2> QED BY <1>8, <2>4, SyncCommits, MovedTypes
<1>9. CASE SyncSend(w)
    <2> DEFINE m == [kind |-> "extract", no |-> run[w].msg.no, retries |-> 0,
                     batch |-> run[w].added]
    <2>1. m \in Message /\ Plain(m)
        BY <1>1, <1>2, <1>9 DEF SyncSend, Message, Plain, RunRecord
    <2>2. Rows' /\ queue' \subseteq queue \cup {m}
        BY <1>1, <1>9 DEF Rows, SyncSend
    <2> HIDE DEF m
    <2> QED BY <1>9, <2>1, <2>2, SyncSends, MovedTypes
<1>10. CASE SyncEnd(w)
    <2>1. run[w].msg.no \in Runs
        BY <1>2, <1>10 DEF SyncEnd
    <2>2. Rows' /\ queue' = queue
        BY <1>1, <1>10, <2>1 DEF Rows, SyncEnd
    <2> QED BY <1>10, <2>2, SyncEnds, MovedTypes
<1>11. CASE SyncConflict(w)
    <2>1. run[w].pc # "idle" /\ Abandon(w, {})
        BY <1>11 DEF SyncConflict
    <2>2. /\ Moved(w) /\ mishaps' \subseteq mishaps \cup {"lost"}
          /\ queue' = queue \/ \E m : Returned(w, m)
        BY <2>1, Abandons
    <2>3. Rows'
        BY <1>1, <1>11, <2>2 DEF Rows, SyncConflict
    <2> QED BY <2>2, <2>3, MovedTypes DEF Returned
<1> QED BY <1>3, <1>4, <1>5, <1>6, <1>7, <1>8, <1>9, <1>10, <1>11 DEF SyncNext

LEMMA ExtractTypes ==
    ASSUME Types, NEW w \in Workers, ExtractNext(w)
    PROVE  Types'
<1>1. Rows /\ run[w] \in RunRecord /\ Shape(run[w])
    BY TypesSplit, RunsAreRecords
<1>2. CASE ExtractTake(w)
    <2>1. queue' \subseteq queue /\ Moved(w)
        BY <1>2, ExtractTakes
    <2>2. Rows'
        BY <1>1, <1>2 DEF Rows, ExtractTake
    <2> QED BY <2>1, <2>2, MovedTypes
<1>3. CASE ExtractGroup(w)
    <2>1. mishaps' \subseteq mishaps \cup {"parallel"}
        BY <1>3 DEF ExtractGroup, Mishap
    <2>2. Rows' /\ queue' = queue
        BY <1>1, <1>3, <2>1 DEF Rows, ExtractGroup
    <2> QED BY <1>3, <2>2, ExtractGroups, MovedTypes
<1>4. CASE ExtractSave(w)
    <2>1. run[w].new \in Seq(Evidence) /\ run[w].group \subseteq Artifact
        BY <1>1 DEF RunRecord
    <2>2. evidence \o run[w].new \in Seq(Evidence)
        BY <1>1, <2>1 DEF Rows
    <2>3. Rows' /\ queue' = queue
        BY <1>1, <1>4, <2>1, <2>2 DEF Rows, ExtractSave
    <2> QED BY <1>4, <2>3, ExtractSaves, MovedTypes
<1>5. CASE ExtractDone(w)
    <2>1. Moved(w)
        BY <1>5, RunsEnd DEF ExtractDone
    <2>2. Rows' /\ queue' = queue
        BY <1>1, <1>5 DEF Rows, ExtractDone
    <2> QED BY <2>1, <2>2, MovedTypes
<1>6. CASE ExtractConflict(w)
    <2>1. run[w].pc # "idle" /\ Abandon(w, {})
        BY <1>6 DEF ExtractConflict
    <2>2. /\ Moved(w) /\ mishaps' \subseteq mishaps \cup {"lost"}
          /\ queue' = queue \/ \E m : Returned(w, m)
        BY <2>1, Abandons
    <2>3. Rows'
        BY <1>1, <1>6, <2>2 DEF Rows, ExtractConflict
    <2> QED BY <2>2, <2>3, MovedTypes DEF Returned
<1> QED BY <1>2, <1>3, <1>4, <1>5, <1>6 DEF ExtractNext

\* What a step of a fault leaves of the counters, and of what it may spoil.
LEMMA FaultTypes ==
    ASSUME Types, FaultNext
    PROVE  Types'
<1>1. Rows /\ faults \in Nat
    BY TypesSplit DEF Rows
<1>2. ASSUME NEW r \in Runs, TriggerDies(r)
      PROVE  Types'
    <2>1. Rows'
        BY <1>1, <1>2 DEF Rows, TriggerDies, Mishap
    <2>2. Messages' /\ RunsAreTyped'
        BY <1>2, TypesSplit DEF Messages, RunsAreTyped, TriggerDies
    <2>3. Types' <=> Rows' /\ Messages' /\ RunsAreTyped'
        BY TypesSplit, PTL
    <2> QED BY <2>1, <2>2, <2>3
<1>3. ASSUME NEW w \in Workers, Crash(w)
      PROVE  Types'
    <2>1. Moved(w) /\ Returned(w, run[w].msg) /\ mishaps' \subseteq mishaps \cup {"lost"}
        BY <1>3, Crashes
    <2>2. Rows'
        BY <1>1, <1>3, <2>1 DEF Rows, Crash
    <2> QED BY <2>1, <2>2, MovedTypes DEF Returned
<1>4. ASSUME NEW w \in Workers, SyncAborts(w)
      PROVE  /\ run[w].pc # "idle" /\ run[w].msg.no \in Runs
             /\ artifacts' \subseteq Artifact /\ faults' \in Nat
             /\ Partial(w) \subseteq {"aborted", "lost"}
    <2>1. run[w].pc # "idle" /\ run[w] \in RunRecord /\ Shape(run[w])
        BY <1>4, RunsAreRecords DEF SyncAborts
    <2>2. run[w].msg.no \in Runs
        BY <2>1 DEF Shape, Message
    <2>3. artifacts' \subseteq Artifact
        BY <1>1, <1>4, <2>1 DEF Rows, SyncAborts, RunRecord
    <2>4. Partial(w) \subseteq {"aborted", "lost"}
        BY DEF Partial
    <2> QED BY <1>1, <1>4, <2>1, <2>2, <2>3, <2>4 DEF SyncAborts
<1>5. ASSUME NEW w \in Workers, SyncRaises(w)
      PROVE  Types'
    <2>1. Moved(w) /\ queue' = queue
        BY <1>4, <1>5, RunsEnd DEF SyncRaises
    <2>2. mishaps' \subseteq mishaps \cup {"aborted", "lost"}
        BY <1>4, <1>5 DEF SyncRaises, Mishap
    <2>3. Rows'
        BY <1>1, <1>4, <1>5, <2>2 DEF Rows, SyncRaises, SyncAborts
    <2> QED BY <2>1, <2>3, MovedTypes
<1>6. ASSUME NEW w \in Workers, SyncTimesOut(w)
      PROVE  Types'
    <2>1. SyncAborts(w) /\ run[w].pc # "idle" /\ Abandon(w, Partial(w)) /\ sync' = sync
        BY <1>4, <1>6 DEF SyncTimesOut
    <2>2. /\ Moved(w) /\ mishaps' \subseteq mishaps \cup Partial(w) \cup {"lost"}
          /\ queue' = queue \/ \E m : Returned(w, m)
        BY <2>1, Abandons
    <2>3. Rows'
        BY <1>1, <1>4, <2>1, <2>2 DEF Rows, SyncAborts
    <2> QED BY <2>2, <2>3, MovedTypes DEF Returned
<1>7. ASSUME NEW w \in Workers, ExtractSkips(w)
      PROVE  Types'
    <2>1. Rows' /\ queue' = queue
        BY <1>1, <1>7 DEF Rows, ExtractSkips, Mishap
    <2> QED BY <1>7, <2>1, ExtractSkipped, MovedTypes
<1>8. ASSUME NEW w \in Workers, ExtractFails(w)
      PROVE  Types'
    <2>1. run[w].pc # "idle" /\ Abandon(w, {})
        BY <1>8 DEF ExtractFails
    <2>2. /\ Moved(w) /\ mishaps' \subseteq mishaps \cup {"lost"}
          /\ queue' = queue \/ \E m : Returned(w, m)
        BY <2>1, Abandons
    <2>3. Rows'
        BY <1>1, <1>8, <2>2 DEF Rows, ExtractFails
    <2> QED BY <2>2, <2>3, MovedTypes DEF Returned
<1>9. CASE Restart
    <2>1. Rows'
        BY <1>1, <1>9 DEF Rows, Restart, Mishap
    <2>2. Messages' /\ RunsAreTyped'
        BY <1>9, IdleIsRun DEF Messages, RunsAreTyped, Restart
    <2>3. Types' <=> Rows' /\ Messages' /\ RunsAreTyped'
        BY TypesSplit, PTL
    <2> QED BY <2>1, <2>2, <2>3
<1> QED BY <1>2, <1>3, <1>5, <1>6, <1>7, <1>8, <1>9 DEF FaultNext

LEMMA NextTypes == Types /\ [Next]_vars => Types'
<1> SUFFICES ASSUME Types, [Next]_vars PROVE Types'
    OBVIOUS
<1>1. Rows /\ Messages /\ RunsAreTyped /\ (Types' <=> Rows' /\ Messages' /\ RunsAreTyped')
    BY TypesSplit, PTL
<1>2. ASSUME NEW p \in Paths, NEW c \in Contents \cup {Absent}, Push(p, c)
      PROVE  Types'
    <2>1. tree' \in Tree
        BY <1>1, <1>2 DEF Rows, Push, Tree
    <2>2. past' \subseteq Artifact
        BY <1>1, <1>2, <2>1, HeldIsArtifacts DEF Rows, Push
    <2>3. mishaps' \subseteq mishaps \cup {"removed", "reverted"}
        BY <1>2 DEF Push, Mishap
    <2>4. Rows'
        <3>1. pushes' \in Nat
            BY <1>1, <1>2 DEF Rows, Push
        <3>2. UNCHANGED <<artifacts, evidence, present, analyzed, sync, sending, handled,
                          reviews, faults>>
            BY <1>2 DEF Push
        <3> QED BY <1>1, <2>1, <2>2, <2>3, <3>1, <3>2 DEF Rows
    <2> QED BY <1>1, <1>2, <2>4 DEF Messages, RunsAreTyped, Push
<1>3. ASSUME NEW r \in Runs, TriggerSync(r)
      PROVE  Types'
    BY <1>1, <1>3 DEF Rows, Messages, RunsAreTyped, TriggerSync
<1>4. ASSUME NEW i \in DOMAIN evidence, NEW s \in EvidenceStatus, Review(i, s)
      PROVE  Types'
    <2>1. evidence' \in Seq(Evidence) /\ mishaps' \subseteq mishaps \cup {"revived"}
        BY <1>1, <1>4, ReviewIsTyped DEF Review, Mishap
    <2>2. Rows'
        BY <1>1, <1>4, <2>1 DEF Rows, Review
    <2> QED BY <1>1, <1>4, <2>2 DEF Messages, RunsAreTyped, Review
<1>5. CASE Disconnect
    <2>1. Rows'
        <3>1. evidence' \in Seq(Evidence) /\ artifacts' \subseteq Artifact /\ present' \in BOOLEAN
            <4>1. evidence' = <<>> /\ artifacts' = {} /\ present' = FALSE
                BY <1>5 DEF Disconnect
            <4>2. <<>> \in Seq(Evidence) /\ {} \subseteq Artifact
                OBVIOUS
            <4>3. present' \in BOOLEAN
                BY <4>1
            <4> QED BY <4>1, <4>2, <4>3
        <3>2. analyzed' = NoTree /\ UNCHANGED <<tree, sync, sending, handled, past, mishaps,
                                                pushes, reviews, faults>>
            BY <1>5 DEF Disconnect
        <3> QED BY <1>1, <3>1, <3>2 DEF Rows
    <2> QED BY <1>1, <1>5, <2>1 DEF Messages, RunsAreTyped, Disconnect
<1>6. ASSUME NEW r \in Runs, TriggerSend(r)
      PROVE  Types'
    <2> DEFINE m == [kind |-> "sync", no |-> r, retries |-> 0, batch |-> {}]
    <2>1. m \in Message /\ Plain(m)
        BY DEF Message, Plain
    <2>2. queue' = queue \cup {m} /\ Rows' /\ run' = run
        BY <1>1, <1>6 DEF Rows, TriggerSend
    <2> HIDE DEF m
    <2> QED BY <1>1, <2>1, <2>2 DEF Messages, RunsAreTyped
<1>7. ASSUME NEW w \in Workers, Ack(w)
      PROVE  Types'
    <2>1. Rows' /\ queue' = queue
        BY <1>1, <1>7 DEF Rows, Ack
    <2> QED BY <1>7, <2>1, RunsStop, MovedTypes DEF Ack
<1>8. CASE UNCHANGED vars
    BY <1>1, <1>8 DEF Rows, Messages, RunsAreTyped, vars
<1> QED BY <1>2, <1>3, <1>4, <1>5, <1>6, <1>7, <1>8, SyncTypes, ExtractTypes, FaultTypes
        DEF Next, UserNext, WorkerNext

LEMMA InitTypes == Init => Types
<1> SUFFICES ASSUME Init PROVE Types
    OBVIOUS
<1>1. Rows
    BY HeldIsArtifacts DEF Init, Rows
<1>2. Messages /\ RunsAreTyped
    BY IdleIsRun DEF Init, Messages, RunsAreTyped
<1> QED BY <1>1, <1>2, TypesSplit

\* The rows, messages and runs of the sync have their types, for any number of threads,
\* syncs, files, contents and claims.
THEOREM TypesHold == Spec => []TypeOK
<1>1. Types => TypeOK
    BY DEF Types
<1> QED BY <1>1, InitTypes, NextTypes, PTL DEF Spec

-----------------------------------------------------------------------------
(* Batches on their way. *)

Queued == UNION {m.batch : m \in queue}

LEMMA UnderwayIs == \A a : a \in Underway <=> a \in Queued \/ \E w \in Workers : a \in Batch(w)
BY DEF Underway, Queued

\* What one thread puts on its way, and takes from it, is all that changes.
LEMMA Flows ==
    ASSUME NEW w \in Workers, Moved(w), NEW In, NEW Out,
           Queued' \cup Batch(w)' \subseteq Queued \cup Batch(w) \cup In,
           Queued \cup Batch(w) \subseteq Queued' \cup Batch(w)' \cup Out
    PROVE  Underway' \subseteq Underway \cup In /\ Underway \subseteq Underway' \cup Out
<1>1. \A v \in Workers \ {w} : Batch(v)' = Batch(v)
    BY DEF Moved, Batch
<1>2. \A a : a \in Underway' <=> a \in Queued' \/ \E v \in Workers : a \in Batch(v)'
    BY DEF Underway, Queued
<1> HIDE DEF Queued
<1>3. ASSUME NEW a \in Underway' PROVE a \in Underway \cup In
    BY <1>1, <1>2, <1>3, UnderwayIs
<1>4. ASSUME NEW a \in Underway PROVE a \in Underway' \cup Out
    BY <1>1, <1>2, <1>4, UnderwayIs
<1> QED BY <1>3, <1>4

LEMMA BatchIs ==
    ASSUME Types, NEW w \in Workers
    PROVE  /\ run[w].pc = "idle" => Batch(w) = {}
           /\ run[w].pc = "send" => Batch(w) = run[w].added /\ run[w].msg.batch = {}
           /\ run[w].pc \notin {"idle", "send"} => Batch(w) = run[w].msg.batch
           /\ run[w].pc \in SyncSteps \ {"send"} => Batch(w) = {}
<1>1. run[w].pc \in SyncSteps => run[w].msg.batch = {}
    BY RunsAreRecords DEF Shape, Plain, SyncSteps
<1> QED BY <1>1 DEF Batch, SyncSteps

LEMMA BatchBecomes ==
    ASSUME NEW w \in Workers
    PROVE  /\ run'[w].pc = "idle" => Batch(w)' = {}
           /\ run'[w].pc = "send" => Batch(w)' = run'[w].added
           /\ run'[w].pc \notin {"idle", "send"} => Batch(w)' = run'[w].msg.batch
BY DEF Batch

\* The step of a thread that neither commits artifacts nor acknowledges: nothing new is on
\* its way, and nothing has left it unless something was lost.
Keeps ==
    /\ Underway' \subseteq Underway
    /\ "lost" \notin mishaps' => Underway \subseteq Underway'

LEMMA StepKeeps ==
    ASSUME Types, NEW w \in Workers, Moved(w), queue' = queue,
           run[w].pc \notin {"idle", "send"}, run'[w].pc \notin {"idle", "send"},
           run'[w].msg = run[w].msg
    PROVE  Keeps
<1>1. Batch(w)' = Batch(w) /\ Queued' = Queued
    BY BatchIs, BatchBecomes DEF Queued
<1> QED BY <1>1, Flows DEF Keeps

LEMMA TakeKeeps ==
    ASSUME NEW w \in Workers, Moved(w), NEW m \in queue, queue' = queue \ {m},
           Batch(w) = {}, run'[w].pc \notin {"idle", "send"}, run'[w].msg = m
    PROVE  Keeps
<1>1. Batch(w)' = m.batch
    BY BatchBecomes
<1>2. Queued' \cup m.batch = Queued
    BY DEF Queued
<1> QED BY <1>1, <1>2, Flows DEF Keeps

LEMMA ReturnKeeps ==
    ASSUME Types, NEW w \in Workers, Moved(w), run[w].pc # "idle", run'[w].pc = "idle",
           \/ \E m : Returned(w, m)
           \/ queue' = queue /\ "lost" \in mishaps',
           Unsent(w) => "lost" \in mishaps'
    PROVE  Keeps
<1>1. Batch(w)' = {}
    BY BatchBecomes
<1>2. "lost" \notin mishaps' => Batch(w) = run[w].msg.batch
    BY BatchIs DEF Unsent
<1>3. run[w].msg.batch \subseteq Batch(w)
    BY BatchIs
<1>4. CASE \E m : Returned(w, m)
    <2>1. PICK m : Returned(w, m)
        BY <1>4
    <2>2. Queued' = Queued \cup run[w].msg.batch
        BY <2>1 DEF Returned, Queued
    <2>3. CASE "lost" \in mishaps'
        BY <1>1, <1>3, <2>2, <2>3, Flows DEF Keeps
    <2>4. CASE "lost" \notin mishaps'
        BY <1>1, <1>2, <2>2, <2>4, Flows DEF Keeps
    <2> QED BY <2>3, <2>4
<1>5. CASE queue' = queue /\ "lost" \in mishaps'
    <2>1. Queued' = Queued
        BY <1>5 DEF Queued
    <2> QED BY <1>1, <1>5, <2>1, Flows DEF Keeps
<1> QED BY <1>4, <1>5

LEMMA SyncKeeps ==
    ASSUME Types, NEW w \in Workers, SyncNext(w), ~SyncCommit(w)
    PROVE  Keeps
<1>1. CASE SyncTake(w)
    <2>1. PICK m \in queue : /\ queue' = queue \ {m} /\ run[w].pc = "idle"
                             /\ Moved(w) /\ run'[w].pc = "load" /\ run'[w].msg = m
        BY <1>1, SyncTakes
    <2> QED BY <2>1, BatchIs, TakeKeeps
<1>2. CASE SyncLoad(w)
    BY <1>2, SyncLoads, StepKeeps DEF SyncLoad
<1>3. CASE SyncSkip(w)
    BY <1>3, SyncSkips, StepKeeps DEF SyncSkip
<1>4. CASE SyncChanged(w)
    BY <1>4, SyncChanges, StepKeeps DEF SyncChanged
<1>5. CASE SyncInsert(w)
    BY <1>5, SyncInserts, StepKeeps DEF SyncInsert
<1>6. CASE SyncSend(w)
    <2>1. Moved(w) /\ run[w].pc = "send" /\ run'[w].pc = "end" /\ run'[w].msg = run[w].msg
        BY <1>6, SyncSends
    <2>2. Batch(w) = run[w].added /\ Batch(w)' = {}
        BY <2>1, BatchIs, BatchBecomes
    <2>3. Queued' = Queued \cup run[w].added
        <3>1. CASE run[w].added = {}
            BY <1>6, <3>1 DEF SyncSend, Queued
        <3>2. CASE run[w].added # {}
            <4> DEFINE m == [kind |-> "extract", no |-> run[w].msg.no, retries |-> 0,
                             batch |-> run[w].added]
            <4>1. m.batch = run[w].added /\ queue' = queue \cup {m}
                BY <1>6, <3>2 DEF SyncSend
            <4> HIDE DEF m
            <4> QED BY <4>1 DEF Queued
        <3> QED BY <3>1, <3>2
    <2> QED BY <2>1, <2>2, <2>3, Flows DEF Keeps
<1>7. CASE SyncEnd(w)
    BY <1>7, SyncEnds, StepKeeps DEF SyncEnd
<1>8. CASE SyncConflict(w)
    <2>1. run[w].pc \notin {"idle", "send"} /\ Abandon(w, {})
        BY <1>8 DEF SyncConflict
    <2> QED BY <2>1, Abandons, ReturnKeeps DEF Unsent
<1> QED BY <1>1, <1>2, <1>3, <1>4, <1>5, <1>6, <1>7, <1>8 DEF SyncNext

LEMMA CommitAdds ==
    ASSUME Types, NEW w \in Workers, SyncCommit(w)
    PROVE  Underway' \subseteq Underway \cup run[w].added
           /\ Underway \cup run[w].added \subseteq Underway'
<1>1. /\ Moved(w) /\ run[w].pc = "files" /\ run'[w].pc = "send" /\ run'[w].added = run[w].added
      /\ queue' = queue
    BY SyncCommits DEF SyncCommit
<1>2. Batch(w) = {} /\ Batch(w)' = run[w].added /\ Queued' = Queued
    BY <1>1, BatchIs, BatchBecomes DEF SyncSteps, Queued
<1>3. Underway' \subseteq Underway \cup run[w].added /\ Underway \subseteq Underway'
    BY <1>1, <1>2, Flows
<1>4. run[w].added \subseteq Underway'
    BY <1>2 DEF Underway
<1> QED BY <1>3, <1>4

LEMMA ExtractKeeps ==
    ASSUME Types, NEW w \in Workers, ExtractNext(w)
    PROVE  Keeps
<1>1. CASE ExtractTake(w)
    <2>1. PICK m \in queue : /\ queue' = queue \ {m} /\ run[w].pc = "idle"
                             /\ Moved(w) /\ run'[w].msg = m /\ run'[w].pc \in {"groups", "ack"}
        BY <1>1, ExtractTakes
    <2> QED BY <2>1, BatchIs, TakeKeeps
<1>2. CASE ExtractGroup(w)
    BY <1>2, ExtractGroups, StepKeeps DEF ExtractGroup
<1>3. CASE ExtractSave(w)
    BY <1>3, ExtractSaves, StepKeeps DEF ExtractSave
<1>4. CASE ExtractDone(w)
    BY <1>4, RunsEnd, StepKeeps DEF ExtractDone
<1>5. CASE ExtractConflict(w)
    <2>1. run[w].pc \notin {"idle", "send"} /\ Abandon(w, {})
        BY <1>5 DEF ExtractConflict
    <2> QED BY <2>1, Abandons, ReturnKeeps DEF Unsent
<1> QED BY <1>1, <1>2, <1>3, <1>4, <1>5 DEF ExtractNext

LEMMA AckDrops ==
    ASSUME Types, NEW w \in Workers, Ack(w)
    PROVE  Underway' \subseteq Underway /\ Underway \subseteq Underway' \cup run[w].msg.batch
<1>1. Moved(w) /\ run'[w].pc = "idle" /\ run[w].pc = "ack" /\ queue' = queue
    BY RunsStop DEF Ack
<1>2. Batch(w) = run[w].msg.batch /\ Batch(w)' = {} /\ Queued' = Queued
    BY <1>1, BatchIs, BatchBecomes DEF Queued
<1> QED BY <1>1, <1>2, Flows

\* What was flushed and is committed after an exception is lost.
LEMMA AbortLoses ==
    ASSUME Types, NEW w \in Workers, SyncRaises(w) \/ SyncTimesOut(w), "lost" \notin mishaps'
    PROVE  run[w].added = {} /\ artifacts' = artifacts
<1>1. Partial(w) \subseteq mishaps'
    BY DEF SyncRaises, SyncTimesOut, Abandon, Mishap
<1>2. run[w].added = {}
    BY <1>1 DEF Partial
<1> QED BY <1>2 DEF SyncRaises, SyncTimesOut, SyncAborts

LEMMA FaultKeeps ==
    ASSUME Types, FaultNext
    PROVE  Keeps
<1>1. ASSUME NEW r \in Runs, TriggerDies(r)
      PROVE  Keeps
    BY <1>1 DEF TriggerDies, Keeps, Underway, Batch
<1>2. ASSUME NEW w \in Workers, Crash(w)
      PROVE  Keeps
    <2>1. Unsent(w) => "lost" \in mishaps'
        BY <1>2, Crashes
    <2> QED BY <1>2, <2>1, Crashes, ReturnKeeps
<1>3. ASSUME NEW w \in Workers, SyncRaises(w)
      PROVE  Keeps
    <2>1. /\ run[w].pc \in SyncSteps /\ Moved(w) /\ run'[w].pc = "ack"
          /\ run'[w].msg = run[w].msg /\ queue' = queue
        BY <1>3, RunsEnd DEF SyncRaises, SyncAborts, SyncSteps
    <2>2. CASE run[w].pc # "send"
        BY <2>1, <2>2, StepKeeps DEF SyncSteps
    <2>3. CASE run[w].pc = "send"
        <3>1. Batch(w) = run[w].added /\ Batch(w)' = {} /\ Queued' = Queued
            BY <2>1, <2>3, BatchIs, BatchBecomes DEF Queued
        <3>2. "lost" \notin mishaps' => run[w].added = {}
            BY <1>3, AbortLoses
        <3>3. Underway' \subseteq Underway /\ Underway \subseteq Underway' \cup run[w].added
            BY <2>1, <3>1, Flows
        <3> QED BY <3>2, <3>3 DEF Keeps
    <2> QED BY <2>2, <2>3
<1>4. ASSUME NEW w \in Workers, SyncTimesOut(w)
      PROVE  Keeps
    <2>1. run[w].pc # "idle" /\ Abandon(w, Partial(w))
        BY <1>4 DEF SyncTimesOut, SyncAborts
    <2>2. Unsent(w) => "lost" \in mishaps'
        BY <1>4, AbortLoses DEF Unsent
    <2> QED BY <2>1, <2>2, Abandons, ReturnKeeps
<1>5. ASSUME NEW w \in Workers, ExtractSkips(w)
      PROVE  Keeps
    BY <1>5, ExtractSkipped, StepKeeps DEF ExtractSkips
<1>6. ASSUME NEW w \in Workers, ExtractFails(w)
      PROVE  Keeps
    <2>1. run[w].pc \notin {"idle", "send"} /\ Abandon(w, {})
        BY <1>6 DEF ExtractFails
    <2> QED BY <2>1, Abandons, ReturnKeeps DEF Unsent
<1>7. CASE Restart
    <2>1. "lost" \in mishaps' /\ queue' = {} /\ \A w \in Workers : run'[w].pc = "idle"
        BY <1>7 DEF Restart, Mishap, Idle
    <2>2. Underway' = {}
        BY <2>1 DEF Underway, Batch
    <2> QED BY <2>1, <2>2 DEF Keeps
<1> QED BY <1>1, <1>2, <1>3, <1>4, <1>5, <1>6, <1>7 DEF FaultNext

LEMMA OthersKeep ==
    ASSUME Types, UserNext \/ (\E r \in Runs : TriggerSend(r)) \/ UNCHANGED vars
    PROVE  Keeps
<1>1. CASE UserNext \/ UNCHANGED vars
    <2>1. queue' = queue /\ run' = run
        BY <1>1 DEF UserNext, Push, TriggerSync, Review, Disconnect, vars
    <2> QED BY <2>1 DEF Keeps, Underway, Batch
<1>2. ASSUME NEW r \in Runs, TriggerSend(r)
      PROVE  Keeps
    <2> DEFINE m == [kind |-> "sync", no |-> r, retries |-> 0, batch |-> {}]
    <2>1. m.batch = {} /\ queue' = queue \cup {m} /\ run' = run
        BY <1>2 DEF TriggerSend
    <2> HIDE DEF m
    <2> QED BY <2>1 DEF Keeps, Underway, Batch
<1> QED BY <1>1, <1>2

-----------------------------------------------------------------------------
(* Stored artifacts reach extraction. *)

LEMMA MishapsGrow ==
    ASSUME Types, [Next]_vars
    PROVE  mishaps \subseteq mishaps'
<1>1. ASSUME NEW w \in Workers, NEW events, Abandon(w, events)
      PROVE  mishaps \subseteq mishaps'
    BY <1>1 DEF Abandon, Mishap
<1>2. ASSUME NEW w \in Workers, WorkerNext(w)
      PROVE  mishaps \subseteq mishaps'
    BY <1>1, <1>2 DEF WorkerNext, SyncNext, ExtractNext, SyncTake, SyncLoad, SyncSkip, SyncChanged,
                      SyncInsert, SyncCommit, SyncSend, SyncEnd, SyncConflict, ExtractTake,
                      ExtractGroup, ExtractSave, ExtractDone, ExtractConflict, Ack, Mishap
<1>3. CASE FaultNext
    BY <1>1, <1>3 DEF FaultNext, TriggerDies, Crash, SyncRaises, SyncTimesOut, ExtractSkips,
                      ExtractFails, Restart, Mishap
<1>4. CASE UserNext \/ (\E r \in Runs : TriggerSend(r)) \/ UNCHANGED vars
    BY <1>4 DEF UserNext, Push, TriggerSync, Review, Disconnect, TriggerSend, vars, Mishap
<1> QED BY <1>2, <1>3, <1>4 DEF Next

\* The repository is not connected again.
LEMMA GoneStays ==
    ASSUME Types, GoneIsEmpty, [Next]_vars
    PROVE  (present' => present) /\ GoneIsEmpty'
<1>1. ASSUME NEW w \in Workers, SyncAborts(w)
      PROVE  (present' => present) /\ GoneIsEmpty'
    BY <1>1 DEF SyncAborts, GoneIsEmpty
<1>2. ASSUME NEW w \in Workers, SyncCommit(w)
      PROVE  (present' => present) /\ GoneIsEmpty'
    BY <1>2 DEF SyncCommit, GoneIsEmpty
<1>3. CASE Disconnect
    BY <1>3 DEF Disconnect, GoneIsEmpty
<1>4. CASE UNCHANGED <<present, artifacts, analyzed>>
    BY <1>4 DEF GoneIsEmpty
<1>5. ASSUME NEW w \in Workers, WorkerNext(w), ~SyncCommit(w)
      PROVE  UNCHANGED <<present, artifacts, analyzed>>
    BY <1>5 DEF WorkerNext, SyncNext, ExtractNext, SyncTake, SyncLoad, SyncSkip, SyncChanged,
                SyncInsert, SyncSend, SyncEnd, SyncConflict, ExtractTake,
                ExtractGroup, ExtractSave, ExtractDone, ExtractConflict, Ack
<1>6. CASE FaultNext
    BY <1>1, <1>4, <1>6 DEF FaultNext, TriggerDies, Crash, SyncRaises, SyncTimesOut, ExtractSkips,
                            ExtractFails, Restart
<1>7. CASE UserNext \/ (\E r \in Runs : TriggerSend(r)) \/ UNCHANGED vars
    BY <1>3, <1>4, <1>7 DEF UserNext, Push, TriggerSync, Review, TriggerSend, vars
<1> QED BY <1>2, <1>4, <1>5, <1>6, <1>7 DEF Next

\* One run takes a step and takes nothing out of its list that is not handled.
LEMMA ExtractsStay ==
    ASSUME ExtractsAll, NEW w \in Workers, Moved(w), handled \subseteq handled',
           mishaps \subseteq mishaps', present' => present,
           "lost" \notin mishaps' =>
               /\ run'[w].pc \in ExtractSteps =>
                      run'[w].msg.batch \ run'[w].todo \subseteq handled'
               /\ run'[w].pc = "ack" /\ run'[w].msg.kind = "extract" /\ present' =>
                      run'[w].msg.batch \subseteq handled'
    PROVE  ExtractsAll'
<1>1. \A v \in Workers \ {w} : run'[v] = run[v]
    BY DEF Moved
<1> QED BY <1>1 DEF ExtractsAll

\* A sync's step.
LEMMA ExtractsStayInSync ==
    ASSUME Types, ExtractsAll, NEW w \in Workers, Moved(w), handled' = handled,
           mishaps \subseteq mishaps', present' => present,
           \/ run'[w].pc \in SyncSteps \cup {"idle"}
           \/ run'[w].pc = "ack" /\ run[w].pc \in SyncSteps /\ run'[w].msg = run[w].msg
    PROVE  ExtractsAll'
<1>1. run'[w].pc = "ack" => run'[w].msg.kind = "sync"
    BY RunsAreRecords DEF Shape, SyncSteps
<1>2. run'[w].pc \notin ExtractSteps
    BY DEF SyncSteps, ExtractSteps
<1> QED BY <1>1, <1>2, ExtractsStay

\* All runs rest.
LEMMA ExtractsRest ==
    ASSUME ExtractsAll, run' = run, handled' = handled,
           mishaps \subseteq mishaps', present' => present
    PROVE  ExtractsAll'
BY DEF ExtractsAll

LEMMA NextExtractsAll ==
    ASSUME Types, GoneIsEmpty, ExtractsAll, [Next]_vars
    PROVE  ExtractsAll'
<1>1. mishaps \subseteq mishaps' /\ (present' => present)
    BY MishapsGrow, GoneStays
<1>2. CASE UserNext \/ (\E r \in Runs : TriggerSend(r) \/ TriggerDies(r)) \/ UNCHANGED vars
    <2>1. run' = run /\ handled' = handled
        BY <1>2 DEF UserNext, Push, TriggerSync, Review, Disconnect, TriggerSend, TriggerDies, vars
    <2> QED BY <1>1, <2>1, ExtractsRest
<1>3. CASE Restart
    BY <1>3 DEF Restart, Mishap, ExtractsAll
<1>4. ASSUME NEW w \in Workers, SyncNext(w)
      PROVE  ExtractsAll'
    <2>1. handled' = handled
        BY <1>4 DEF SyncNext, SyncTake, SyncLoad, SyncSkip, SyncChanged, SyncInsert, SyncCommit,
                    SyncSend, SyncEnd, SyncConflict
    <2>2. CASE SyncTake(w)
        BY <1>1, <2>1, <2>2, SyncTakes, ExtractsStayInSync DEF SyncSteps
    <2>3. CASE SyncLoad(w)
        BY <1>1, <2>1, <2>3, SyncLoads, ExtractsStayInSync DEF SyncSteps
    <2>4. CASE SyncSkip(w)
        BY <1>1, <2>1, <2>4, SyncSkips, ExtractsStayInSync DEF SyncSteps
    <2>5. CASE SyncChanged(w)
        BY <1>1, <2>1, <2>5, SyncChanges, ExtractsStayInSync DEF SyncSteps
    <2>6. CASE SyncInsert(w)
        BY <1>1, <2>1, <2>6, SyncInserts, ExtractsStayInSync DEF SyncSteps
    <2>7. CASE SyncCommit(w)
        BY <1>1, <2>1, <2>7, SyncCommits, ExtractsStayInSync DEF SyncSteps
    <2>8. CASE SyncSend(w)
        BY <1>1, <2>1, <2>8, SyncSends, ExtractsStayInSync DEF SyncSteps
    <2>9. CASE SyncEnd(w)
        BY <1>1, <2>1, <2>9, SyncEnds, ExtractsStayInSync DEF SyncSteps
    <2>10. CASE SyncConflict(w)
        <3>1. run[w].pc # "idle" /\ Abandon(w, {})
            BY <2>10 DEF SyncConflict
        <3> QED BY <1>1, <2>1, <3>1, Abandons, ExtractsStayInSync
    <2> QED BY <1>4, <2>2, <2>3, <2>4, <2>5, <2>6, <2>7, <2>8, <2>9, <2>10 DEF SyncNext
<1>5. ASSUME NEW w \in Workers, ExtractNext(w)
      PROVE  ExtractsAll'
    <2>1. CASE ExtractTake(w)
        <3>1. handled' = handled /\ present' = present
            BY <2>1 DEF ExtractTake
        <3>2. PICK m \in queue :
                  /\ Moved(w) /\ run'[w].msg = m
                  /\ \/ present /\ run'[w].pc = "groups" /\ run'[w].todo = m.batch
                     \/ ~present /\ run'[w].pc = "ack"
            BY <2>1, ExtractTakes
        <3> QED BY <1>1, <3>1, <3>2, ExtractsStay DEF ExtractSteps
    <2>2. CASE ExtractGroup(w)
        <3>1. /\ Moved(w) /\ run[w].pc = "groups" /\ run'[w].pc = "save"
              /\ run'[w].msg = run[w].msg /\ run'[w].todo = run[w].todo
            BY <2>2, ExtractGroups
        <3>2. handled' = handled
            BY <2>2 DEF ExtractGroup
        <3>3. "lost" \notin mishaps' => run[w].msg.batch \ run[w].todo \subseteq handled
            BY <1>1, <3>1 DEF ExtractsAll, ExtractSteps
        <3> QED BY <1>1, <3>1, <3>2, <3>3, ExtractsStay
    <2>3. CASE ExtractSave(w)
        <3>1. /\ Moved(w) /\ run[w].pc = "save" /\ run'[w].pc = "groups"
              /\ run'[w].msg = run[w].msg /\ run'[w].todo = run[w].todo \ run[w].group
            BY <2>3, ExtractSaves
        <3>2. handled' = handled \cup run[w].group
            BY <2>3 DEF ExtractSave
        <3>3. "lost" \notin mishaps' => run[w].msg.batch \ run[w].todo \subseteq handled
            BY <1>1, <3>1 DEF ExtractsAll, ExtractSteps
        <3>4. "lost" \notin mishaps' => run'[w].msg.batch \ run'[w].todo \subseteq handled'
            BY <3>1, <3>2, <3>3
        <3> QED BY <1>1, <3>1, <3>2, <3>4, ExtractsStay
    <2>4. CASE ExtractDone(w)
        <3>1. /\ Moved(w) /\ run[w].pc = "groups" /\ run[w].todo = {}
              /\ run'[w].pc = "ack" /\ run'[w].msg = run[w].msg /\ handled' = handled
            BY <2>4, RunsEnd DEF ExtractDone
        <3>2. "lost" \notin mishaps' => run[w].msg.batch \subseteq handled
            BY <1>1, <3>1 DEF ExtractsAll, ExtractSteps
        <3> QED BY <1>1, <3>1, <3>2, ExtractsStay DEF ExtractSteps
    <2>5. CASE ExtractConflict(w)
        <3>1. run[w].pc # "idle" /\ Abandon(w, {}) /\ handled' = handled
            BY <2>5 DEF ExtractConflict
        <3> QED BY <1>1, <3>1, Abandons, ExtractsStayInSync
    <2> QED BY <1>5, <2>1, <2>2, <2>3, <2>4, <2>5 DEF ExtractNext
<1>6. ASSUME NEW w \in Workers,
             Ack(w) \/ Crash(w) \/ SyncRaises(w) \/ SyncTimesOut(w) \/ ExtractFails(w)
      PROVE  ExtractsAll'
    <2>1. handled' = handled
        BY <1>6 DEF Ack, Crash, SyncRaises, SyncTimesOut, SyncAborts, ExtractFails
    <2>2. CASE Ack(w)
        BY <1>1, <2>1, <2>2, RunsStop, ExtractsStayInSync DEF Ack
    <2>3. CASE Crash(w)
        BY <1>1, <2>1, <2>3, Crashes, ExtractsStayInSync
    <2>4. CASE SyncRaises(w)
        <3>1. run[w].pc \in SyncSteps /\ Moved(w) /\ run'[w].pc = "ack" /\ run'[w].msg = run[w].msg
            BY <2>4, RunsEnd DEF SyncRaises, SyncAborts, SyncSteps
        <3> QED BY <1>1, <2>1, <3>1, ExtractsStayInSync
    <2>5. CASE SyncTimesOut(w)
        <3>1. run[w].pc # "idle" /\ Abandon(w, Partial(w))
            BY <2>5 DEF SyncTimesOut, SyncAborts
        <3> QED BY <1>1, <2>1, <3>1, Abandons, ExtractsStayInSync
    <2>6. CASE ExtractFails(w)
        <3>1. run[w].pc # "idle" /\ Abandon(w, {})
            BY <2>6 DEF ExtractFails
        <3> QED BY <1>1, <2>1, <3>1, Abandons, ExtractsStayInSync
    <2> QED BY <1>6, <2>2, <2>3, <2>4, <2>5, <2>6
<1>7. ASSUME NEW w \in Workers, ExtractSkips(w)
      PROVE  ExtractsAll'
    BY <1>7 DEF ExtractSkips, Mishap, ExtractsAll
<1> QED BY <1>2, <1>3, <1>4, <1>5, <1>6, <1>7 DEF Next, WorkerNext, FaultNext

LEMMA NextReaches ==
    ASSUME ReachInv, [Next]_vars
    PROVE  ArtifactsReachExtraction'
<1> USE DEF ReachInv
<1> SUFFICES ASSUME "lost" \notin mishaps'
             PROVE  artifacts' \subseteq handled' \cup Underway'
    BY DEF ArtifactsReachExtraction
<1>1. artifacts \subseteq handled \cup Underway
    BY MishapsGrow DEF ArtifactsReachExtraction
<1>2. CASE artifacts' \subseteq artifacts /\ handled \subseteq handled' /\ Keeps
    BY <1>1, <1>2 DEF Keeps
<1>3. CASE UserNext \/ (\E r \in Runs : TriggerSend(r)) \/ UNCHANGED vars
    <2>1. artifacts' \subseteq artifacts /\ handled' = handled
        BY <1>3 DEF UserNext, Push, TriggerSync, Review, Disconnect, TriggerSend, vars
    <2> QED BY <1>2, <1>3, <2>1, OthersKeep
<1>4. CASE FaultNext
    <2>1. handled' = handled
        BY <1>4 DEF FaultNext, TriggerDies, Crash, SyncRaises, SyncTimesOut, SyncAborts,
                    ExtractSkips, ExtractFails, Restart
    <2>2. artifacts' = artifacts
        BY <1>4, AbortLoses DEF FaultNext, TriggerDies, Crash, ExtractSkips, ExtractFails, Restart
    <2> QED BY <1>2, <1>4, <2>1, <2>2, FaultKeeps
<1>5. ASSUME NEW w \in Workers, SyncCommit(w)
      PROVE  artifacts' \subseteq handled' \cup Underway'
    BY <1>1, <1>5, CommitAdds DEF SyncCommit
<1>6. ASSUME NEW w \in Workers, SyncNext(w), ~SyncCommit(w)
      PROVE  artifacts' \subseteq handled' \cup Underway'
    <2>1. artifacts' = artifacts /\ handled' = handled
        BY <1>6 DEF SyncNext, SyncTake, SyncLoad, SyncSkip, SyncChanged, SyncInsert,
                    SyncSend, SyncEnd, SyncConflict
    <2> QED BY <1>2, <1>6, <2>1, SyncKeeps
<1>7. ASSUME NEW w \in Workers, ExtractNext(w)
      PROVE  artifacts' \subseteq handled' \cup Underway'
    <2>1. artifacts' = artifacts /\ handled \subseteq handled'
        BY <1>7 DEF ExtractNext, ExtractTake, ExtractGroup, ExtractSave, ExtractDone,
                    ExtractConflict
    <2> QED BY <1>2, <1>7, <2>1, ExtractKeeps
<1>8. ASSUME NEW w \in Workers, Ack(w)
      PROVE  artifacts' \subseteq handled' \cup Underway'
    <2>1. artifacts' = artifacts /\ handled' = handled /\ present' = present /\ run[w].pc = "ack"
          /\ mishaps' = mishaps
        BY <1>8 DEF Ack
    <2>2. Underway \subseteq Underway' \cup run[w].msg.batch
        BY <1>8, AckDrops
    <2>3. run[w].msg \in Message /\ Plain(run[w].msg)
        BY <2>1, RunsAreRecords DEF Shape
    <2>4. run[w].msg.batch = {} \/ run[w].msg.kind = "extract"
        BY <2>3 DEF Plain, Message
    <2>5. run[w].msg.batch \subseteq handled \/ artifacts = {}
        BY <2>1, <2>4 DEF ExtractsAll, GoneIsEmpty
    <2> QED BY <1>1, <2>1, <2>2, <2>5
<1> QED BY <1>3, <1>4, <1>5, <1>6, <1>7, <1>8 DEF Next, WorkerNext

\* Whatever fails, is retried or overlaps: an artifact that was stored is through extraction or
\* on its way there, unless something was lost (sync.py, _sync_one_repository).
THEOREM StoredReachExtraction == Spec => []ArtifactsReachExtraction
<1>1. Init => ReachInv
    <2>1. Init => GoneIsEmpty /\ ExtractsAll /\ ArtifactsReachExtraction
        BY DEF Init, GoneIsEmpty, ExtractsAll, ArtifactsReachExtraction, Idle, ExtractSteps
    <2> QED BY <2>1, InitTypes DEF ReachInv
<1>2. ReachInv /\ [Next]_vars => ReachInv'
    BY NextTypes, GoneStays, NextExtractsAll, NextReaches DEF ReachInv
<1>3. ReachInv => ArtifactsReachExtraction
    BY DEF ReachInv
<1> QED BY <1>1, <1>2, <1>3, PTL DEF Spec

-----------------------------------------------------------------------------
(* One live row per claim. *)

\* No step of these makes a run wait for its save.
LEMMA NoneSaves ==
    ASSUME Types, [Next]_vars, \A w \in Workers : ~ExtractGroup(w)
    PROVE  \A v \in Workers : run'[v] = run[v] \/ run'[v].pc # "save"
<1>1. ASSUME NEW w \in Workers, Moved(w), run'[w].pc # "save"
      PROVE  \A v \in Workers : run'[v] = run[v] \/ run'[v].pc # "save"
    BY <1>1 DEF Moved
<1>2. ASSUME NEW w \in Workers, SyncNext(w)
      PROVE  \A v \in Workers : run'[v] = run[v] \/ run'[v].pc # "save"
    <2>1. CASE SyncConflict(w)
        <3>1. run[w].pc # "idle" /\ Abandon(w, {})
            BY <2>1 DEF SyncConflict
        <3> QED BY <1>1, <3>1, Abandons
    <2>2. CASE SyncTake(w)
        BY <1>1, <2>2, SyncTakes
    <2>3. CASE SyncLoad(w) \/ SyncSkip(w) \/ SyncChanged(w)
        BY <1>1, <2>3, SyncLoads, SyncSkips, SyncChanges
    <2>4. CASE SyncInsert(w) \/ SyncCommit(w) \/ SyncSend(w) \/ SyncEnd(w)
        BY <1>1, <2>4, SyncInserts, SyncCommits, SyncSends, SyncEnds
    <2> QED BY <1>2, <2>1, <2>2, <2>3, <2>4 DEF SyncNext
<1>3. ASSUME NEW w \in Workers, ExtractNext(w)
      PROVE  \A v \in Workers : run'[v] = run[v] \/ run'[v].pc # "save"
    <2>1. CASE ExtractConflict(w)
        <3>1. run[w].pc # "idle" /\ Abandon(w, {})
            BY <2>1 DEF ExtractConflict
        <3> QED BY <1>1, <3>1, Abandons
    <2>2. CASE ExtractTake(w) \/ ExtractSave(w)
        BY <1>1, <2>2, ExtractTakes, ExtractSaves
    <2>3. CASE ExtractDone(w)
        BY <1>1, <2>3, RunsEnd DEF ExtractDone
    <2> QED BY <1>3, <2>1, <2>2, <2>3 DEF ExtractNext
<1>4. ASSUME NEW w \in Workers,
             Ack(w) \/ Crash(w) \/ SyncRaises(w) \/ SyncTimesOut(w) \/ ExtractFails(w)
             \/ ExtractSkips(w)
      PROVE  \A v \in Workers : run'[v] = run[v] \/ run'[v].pc # "save"
    <2>1. CASE Ack(w) \/ Crash(w)
        BY <1>1, <2>1, RunsStop, Crashes DEF Ack
    <2>2. CASE SyncRaises(w)
        <3>1. run[w].pc # "idle"
            BY <2>2 DEF SyncRaises, SyncAborts
        <3> QED BY <1>1, <2>2, <3>1, RunsEnd DEF SyncRaises
    <2>3. CASE SyncTimesOut(w)
        <3>1. run[w].pc # "idle" /\ Abandon(w, Partial(w))
            BY <2>3 DEF SyncTimesOut, SyncAborts
        <3> QED BY <1>1, <3>1, Abandons
    <2>4. CASE ExtractFails(w)
        <3>1. run[w].pc # "idle" /\ Abandon(w, {})
            BY <2>4 DEF ExtractFails
        <3> QED BY <1>1, <3>1, Abandons
    <2>5. CASE ExtractSkips(w)
        BY <1>1, <2>5, ExtractSkipped
    <2> QED BY <1>4, <2>1, <2>2, <2>3, <2>4, <2>5
<1>5. CASE Restart
    BY <1>5 DEF Restart, Idle
<1>6. CASE UserNext \/ (\E r \in Runs : TriggerSend(r) \/ TriggerDies(r)) \/ UNCHANGED vars
    <2>1. run' = run
        BY <1>6 DEF UserNext, Push, TriggerSync, Review, Disconnect, TriggerSend, TriggerDies, vars
    <2> QED BY <2>1
<1> QED BY <1>2, <1>3, <1>4, <1>5, <1>6 DEF Next, WorkerNext, FaultNext

\* Rows that are live were live before, with the claim and the citations they have.
NoneRevived ==
    \A i \in DOMAIN evidence' : evidence'[i].status \in Live =>
        /\ i \in DOMAIN evidence /\ evidence[i].status \in Live
        /\ evidence'[i].claim = evidence[i].claim /\ evidence'[i].cites = evidence[i].cites

LEMMA NoRowRevived ==
    ASSUME Types, [Next]_vars, \A w \in Workers : ~ExtractSave(w)
    PROVE  NoneRevived \/ "revived" \in mishaps'
<1>0. Rows
    BY TypesSplit
<1>1. ASSUME NEW i \in DOMAIN evidence, NEW s \in EvidenceStatus, Review(i, s)
      PROVE  NoneRevived \/ "revived" \in mishaps'
    <2>1. SUFFICES ASSUME s \notin Live \/ evidence[i].status \in Live
                   PROVE  NoneRevived
        BY <1>1 DEF Review, Mishap
    <2>2. /\ DOMAIN evidence' = DOMAIN evidence
          /\ \A j \in DOMAIN evidence :
                /\ evidence'[j].claim = evidence[j].claim
                /\ evidence'[j].cites = evidence[j].cites
                /\ j # i => evidence'[j] = evidence[j]
          /\ evidence'[i].status = s
        BY <1>0, <1>1, ReviewIsTyped DEF Review
    <2> QED BY <2>1, <2>2 DEF NoneRevived
<1>2. ASSUME NEW w \in Workers, SyncCommit(w)
      PROVE  NoneRevived
    BY <1>0, <1>2, StaleIsTyped DEF SyncCommit, NoneRevived
<1>3. CASE Disconnect
    BY <1>3 DEF Disconnect, NoneRevived
<1>4. CASE evidence' = evidence
    BY <1>4 DEF NoneRevived
<1>5. ASSUME NEW w \in Workers, WorkerNext(w), ~SyncCommit(w)
      PROVE  evidence' = evidence
    BY <1>5 DEF WorkerNext, SyncNext, ExtractNext, SyncTake, SyncLoad, SyncSkip, SyncChanged,
                SyncInsert, SyncSend, SyncEnd, SyncConflict, ExtractTake,
                ExtractGroup, ExtractDone, ExtractConflict, Ack
<1>6. CASE FaultNext
    BY <1>4, <1>6 DEF FaultNext, TriggerDies, Crash, SyncRaises, SyncTimesOut, SyncAborts,
                      ExtractSkips, ExtractFails, Restart
<1>7. CASE UserNext \/ (\E r \in Runs : TriggerSend(r)) \/ UNCHANGED vars
    BY <1>1, <1>3, <1>4, <1>7 DEF UserNext, Push, TriggerSync, TriggerSend, vars
<1> QED BY <1>2, <1>4, <1>5, <1>6, <1>7 DEF Next

LEMMA NewIsOne ==
    ASSUME Types, NEW w \in Workers, run[w].new # <<>>
    PROVE  /\ run[w].pc = "save"
           /\ \E e \in Evidence : /\ run[w].new = <<e>> /\ run[w].new[1] = e
                                  /\ e.cites \subseteq run[w].msg.batch
BY RunsAreRecords DEF Shape

\* What ExtractSave appends.
LEMMA SaveAppends ==
    ASSUME Types, NEW w \in Workers, ExtractSave(w)
    PROVE  \/ evidence' = evidence
           \/ \E e \in Evidence :
                 /\ run[w].new # <<>> /\ run[w].new[1] = e /\ e.cites \subseteq run[w].msg.batch
                 /\ DOMAIN evidence' = DOMAIN evidence \cup {Len(evidence) + 1}
                 /\ Len(evidence) + 1 \notin DOMAIN evidence
                 /\ evidence'[Len(evidence) + 1] = e
                 /\ \A i \in DOMAIN evidence : evidence'[i] = evidence[i]
<1>1. evidence \in Seq(Evidence) /\ evidence' = evidence \o run[w].new
    BY TypesSplit DEF Rows, ExtractSave
<1>2. CASE run[w].new = <<>>
    BY <1>1, <1>2
<1>3. CASE run[w].new # <<>>
    <2>1. PICK e \in Evidence : /\ run[w].new = <<e>> /\ run[w].new[1] = e
                                /\ e.cites \subseteq run[w].msg.batch
        BY <1>3, NewIsOne
    <2>2. evidence' = Append(evidence, e)
        BY <1>1, <2>1
    <2>3. /\ DOMAIN evidence' = DOMAIN evidence \cup {Len(evidence) + 1}
          /\ Len(evidence) + 1 \notin DOMAIN evidence
          /\ evidence'[Len(evidence) + 1] = e
          /\ \A i \in DOMAIN evidence : evidence'[i] = evidence[i]
        BY <1>1, <2>2
    <2> QED BY <1>3, <2>1, <2>3
<1> QED BY <1>2, <1>3

LEMMA NextClaims ==
    ASSUME ClaimsInv, [Next]_vars
    PROVE  ClaimsInv'
<1> USE DEF ClaimsInv
<1>1. Types' /\ mishaps \subseteq mishaps'
    BY NextTypes, MishapsGrow
<1>2. \A v \in Workers : run[v].pc # "save" => run[v].new = <<>>
    BY NewIsOne
<1>3. \A v \in Workers : run'[v].pc # "save" => run'[v].new = <<>>
    BY <1>1 DEF Types, Shape
<1>4. ASSUME NEW w \in Workers, ExtractGroup(w)
      PROVE  ClaimsInv'
    <2>1. /\ Moved(w) /\ run[w].pc = "groups" /\ run'[w].pc = "save"
          /\ run'[w].new # <<>> =>
                \E e \in Evidence : run'[w].new = <<e>> /\ e.cites \subseteq run[w].msg.batch
                                    /\ ~Known(e.claim)
        BY <1>4, ExtractGroups
    <2>2. evidence' = evidence /\ \A v \in Workers \ {w} : run'[v] = run[v]
        BY <1>4, <2>1 DEF ExtractGroup, Moved
    <2>3. "parallel" \notin mishaps' => \A v \in Workers \ {w} : run[v].pc # "save"
        BY <1>4 DEF ExtractGroup, Mishap
    <2>4. SavesAlone'
        BY <2>2, <2>3 DEF SavesAlone
    <2>5. run'[w].new # <<>> => ~Known(run'[w].new[1].claim)
        BY <2>1
    <2>6. \A c : Known(c)' <=> Known(c)
        BY <2>2 DEF Known
    <2>7. NewIsUnknown'
        BY <1>1, <2>2, <2>5, <2>6 DEF NewIsUnknown
    <2>8. OneLiveRowPerClaim'
        BY <1>1, <2>2 DEF OneLiveRowPerClaim
    <2> QED BY <1>1, <2>4, <2>7, <2>8
<1>5. ASSUME \A w \in Workers : ~ExtractGroup(w)
      PROVE  SavesAlone'
    BY <1>1, <1>5, NoneSaves DEF SavesAlone
<1>6. ASSUME NEW w \in Workers, ExtractSave(w)
      PROVE  ClaimsInv'
    <2>1. /\ run'[w].pc = "groups" /\ run[w].pc = "save"
          /\ \A v \in Workers \ {w} : run'[v] = run[v]
        BY <1>6, ExtractSaves DEF Moved
    <2>2. SavesAlone'
        BY <1>1, <2>1 DEF SavesAlone
    <2>3. NewIsUnknown'
        <3> SUFFICES ASSUME "parallel" \notin mishaps', NEW v \in Workers PROVE run'[v].new = <<>>
            BY DEF NewIsUnknown
        <3> QED BY <1>1, <1>2, <1>3, <2>1 DEF SavesAlone
    <2>4. OneLiveRowPerClaim'
        <3> SUFFICES ASSUME mishaps' \cap {"parallel", "revived"} = {},
                            NEW i \in DOMAIN evidence', NEW j \in DOMAIN evidence',
                            evidence'[i].claim = evidence'[j].claim,
                            evidence'[i].status \in Live, evidence'[j].status \in Live
                     PROVE  i = j
            BY DEF OneLiveRowPerClaim
        <3>1. /\ NewIsUnknown => (run[w].new # <<>> => ~Known(run[w].new[1].claim))
              /\ \A k, l \in DOMAIN evidence :
                    /\ evidence[k].claim = evidence[l].claim
                    /\ evidence[k].status \in Live /\ evidence[l].status \in Live
                    => k = l
            BY <1>1 DEF NewIsUnknown, OneLiveRowPerClaim
        <3> QED BY <1>6, <3>1, SaveAppends DEF Known
    <2> QED BY <1>1, <2>2, <2>3, <2>4
<1>7. ASSUME \A w \in Workers : ~ExtractGroup(w) /\ ~ExtractSave(w)
      PROVE  NewIsUnknown' /\ OneLiveRowPerClaim'
    <2>1. \A v \in Workers : run'[v].new # <<>> => run'[v] = run[v]
        BY <1>3, <1>7, NoneSaves
    <2>2. NoneRevived \/ "revived" \in mishaps'
        BY <1>7, NoRowRevived
    <2>3. NoneRevived => \A c : Known(c)' => Known(c)
        BY DEF NoneRevived, Known
    <2>4. NewIsUnknown'
        BY <1>1, <2>1, <2>2, <2>3 DEF NewIsUnknown
    <2>5. OneLiveRowPerClaim'
        BY <1>1, <2>2 DEF OneLiveRowPerClaim, NoneRevived
    <2> QED BY <2>4, <2>5
<1> QED BY <1>1, <1>4, <1>5, <1>6, <1>7

\* However many extractions are repeated, retried or cut short, a claim has one live row at
\* most, unless two were between look and insertion together, or the user revived a row
\* (save_candidates).
THEOREM LiveRowsAreDistinct == Spec => []OneLiveRowPerClaim
<1>1. Init => ClaimsInv
    <2>1. Init => SavesAlone /\ NewIsUnknown /\ OneLiveRowPerClaim
        BY DEF Init, SavesAlone, NewIsUnknown, OneLiveRowPerClaim, Idle
    <2> QED BY <2>1, InitTypes DEF ClaimsInv
<1>2. ClaimsInv /\ [Next]_vars => ClaimsInv'
    BY NextClaims
<1>3. ClaimsInv => OneLiveRowPerClaim
    BY DEF ClaimsInv
<1> QED BY <1>1, <1>2, <1>3, PTL DEF Spec

-----------------------------------------------------------------------------
(* Live evidence is true to the commit that was analyzed last. *)

\* No tree, commit or row of an artifact is touched, no sync starts to walk, and nothing is sent.
Quiet ==
    /\ UNCHANGED <<tree, analyzed, past, present>>
    /\ artifacts \subseteq artifacts' /\ artifacts' \subseteq artifacts \cup past
    /\ Clean' => artifacts' = artifacts
    /\ Underway' \subseteq Underway
    /\ \A v \in Workers : run'[v] = run[v] \/ run'[v].pc \notin {"files", "insert", "send"}

LEMMA CleanBefore ==
    ASSUME Types, [Next]_vars
    PROVE  Clean' => Clean
BY MishapsGrow DEF Clean

\* What a walk has flushed, or has committed and not yet sent, is of its tree.
LEMMA AddedIsHeld ==
    ASSUME Types, NEW w \in Workers, Walks(w)
    PROVE  run[w].tree \in Tree /\ run[w].added \subseteq Held(run[w].tree)
<1>1. /\ run[w].tree \in Tree /\ run[w].added \subseteq Artifact
      /\ \A a \in run[w].added : a.content = run[w].tree[a.path]
    BY RunsAreRecords DEF Walks, Shape, RunRecord
<1>2. ASSUME NEW a \in run[w].added PROVE a \in Held(run[w].tree)
    BY <1>1, HeldIsArtifacts
<1> QED BY <1>1, <1>2

\* A failing sync commits what it has flushed; the evidence is then no longer promised anything.
LEMMA AbortIsQuiet ==
    ASSUME Types, StoredIsPast, CommittedIsStored, FaultNext,
           NEW w \in Workers, SyncRaises(w) \/ SyncTimesOut(w)
    PROVE  Quiet
<1>1. SyncAborts(w) /\ Partial(w) \subseteq mishaps'
    BY DEF SyncRaises, SyncTimesOut, Abandon, Mishap
<1>2. UNCHANGED <<tree, analyzed, past, present>> /\ run[w].pc # "idle"
    BY <1>1 DEF SyncAborts
<1>3. artifacts' = artifacts \cup (IF present THEN run[w].added ELSE {})
    BY <1>1 DEF SyncAborts
<1>4. run[w].added # {} => Walks(w) \/ run[w].pc = "send"
    BY RunsAreRecords DEF Shape, Walks
<1>5. Walks(w) => run[w].added \subseteq past
    BY AddedIsHeld DEF StoredIsPast
<1>6. run[w].pc = "send" /\ present => run[w].added \subseteq artifacts
    BY DEF CommittedIsStored
<1>7. Clean' => run[w].added = {} \/ run[w].pc = "send"
    BY <1>1 DEF Partial, Unsent, Clean
<1>8. \A v \in Workers : run'[v] = run[v] \/ run'[v].pc \notin {"files", "insert", "send"}
    <2>1. CASE SyncRaises(w)
        BY <1>2, <2>1, RunsEnd DEF SyncRaises, Moved
    <2>2. CASE SyncTimesOut(w)
        BY <1>2, <2>2, Abandons DEF SyncTimesOut, Moved
    <2> QED BY <2>1, <2>2
<1>9. Underway' \subseteq Underway
    BY FaultKeeps DEF Keeps
<1>10. artifacts \subseteq artifacts' /\ artifacts' \subseteq artifacts \cup past
    BY <1>3, <1>4, <1>5, <1>6
<1>11. Clean' => artifacts' = artifacts
    BY <1>3, <1>6, <1>7
<1> QED BY <1>2, <1>8, <1>9, <1>10, <1>11 DEF Quiet

LEMMA FaultIsQuiet ==
    ASSUME Types, StoredIsPast, CommittedIsStored, FaultNext
    PROVE  Quiet
<1>1. Underway' \subseteq Underway
    BY FaultKeeps DEF Keeps
<1>2. ASSUME NEW r \in Runs, TriggerDies(r)
      PROVE  Quiet
    BY <1>1, <1>2 DEF TriggerDies, Quiet
<1>3. ASSUME NEW w \in Workers, Crash(w) \/ ExtractSkips(w) \/ ExtractFails(w)
      PROVE  Quiet
    <2>1. Moved(w) /\ run'[w].pc \notin {"files", "insert", "send"}
        <3>1. CASE Crash(w) \/ ExtractSkips(w)
            BY <3>1, Crashes, ExtractSkipped
        <3>2. CASE ExtractFails(w)
            <4>1. run[w].pc # "idle" /\ Abandon(w, {})
                BY <3>2 DEF ExtractFails
            <4> QED BY <4>1, Abandons
        <3> QED BY <1>3, <3>1, <3>2
    <2>2. UNCHANGED <<artifacts, tree, analyzed, past, present>>
        BY <1>3 DEF Crash, ExtractSkips, ExtractFails
    <2> QED BY <1>1, <2>1, <2>2 DEF Quiet, Moved
<1>4. CASE Restart
    <2>1. UNCHANGED <<artifacts, tree, analyzed, past, present>>
          /\ \A v \in Workers : run'[v].pc = "idle"
        BY <1>4 DEF Restart, Idle
    <2> QED BY <1>1, <2>1 DEF Quiet
<1> QED BY <1>2, <1>3, <1>4, AbortIsQuiet DEF FaultNext

\* The steps that matter to the trees.
Walking(w) == SyncLoad(w) \/ SyncSkip(w) \/ SyncChanged(w) \/ SyncInsert(w) \/ SyncCommit(w)

LEMMA WorkIsQuiet ==
    ASSUME Types, NEW w \in Workers, WorkerNext(w), ~Walking(w)
    PROVE  Quiet
<1>1. UNCHANGED <<artifacts, tree, analyzed, past, present>>
    BY DEF Walking, WorkerNext, SyncNext, ExtractNext, SyncTake, SyncSend, SyncEnd, SyncConflict,
           ExtractTake, ExtractGroup, ExtractSave, ExtractDone, ExtractConflict, Ack
<1>2. Underway' \subseteq Underway
    BY SyncKeeps, ExtractKeeps, AckDrops DEF WorkerNext, Walking, Keeps
<1>3. Moved(w) /\ run'[w].pc \notin {"files", "insert", "send"}
    <2>1. CASE SyncConflict(w) \/ ExtractConflict(w)
        <3>1. run[w].pc # "idle" /\ Abandon(w, {})
            BY <2>1 DEF SyncConflict, ExtractConflict
        <3> QED BY <3>1, Abandons
    <2>2. CASE SyncTake(w) \/ SyncSend(w) \/ SyncEnd(w)
        BY <2>2, SyncTakes, SyncSends, SyncEnds
    <2>3. CASE ExtractTake(w) \/ ExtractGroup(w) \/ ExtractSave(w)
        BY <2>3, ExtractTakes, ExtractGroups, ExtractSaves
    <2>4. CASE ExtractDone(w)
        BY <2>4, RunsEnd DEF ExtractDone
    <2>5. CASE Ack(w)
        BY <2>5, RunsStop DEF Ack
    <2> QED BY <2>1, <2>2, <2>3, <2>4, <2>5 DEF WorkerNext, SyncNext, ExtractNext, Walking
<1> QED BY <1>1, <1>2, <1>3 DEF Quiet, Moved

LEMMA OthersAreQuiet ==
    ASSUME Types, \/ \E r \in Runs : TriggerSync(r) \/ TriggerSend(r)
                  \/ \E i \in DOMAIN evidence, s \in EvidenceStatus : Review(i, s)
                  \/ UNCHANGED vars
    PROVE  Quiet
<1>1. UNCHANGED <<artifacts, tree, analyzed, past, present, run>>
    BY DEF TriggerSync, TriggerSend, Review, vars
<1>2. Underway' \subseteq Underway
    BY OthersKeep DEF Keeps, UserNext
<1> QED BY <1>1, <1>2 DEF Quiet

LEMMA StepsAreQuiet ==
    ASSUME CurrentInv, [Next]_vars
    PROVE  \/ Quiet
           \/ \E p \in Paths, c \in Contents \cup {Absent} : Push(p, c)
           \/ Disconnect
           \/ \E w \in Workers : Walking(w)
BY FaultIsQuiet, WorkIsQuiet, OthersAreQuiet DEF CurrentInv, Next, UserNext

\* The conjuncts that hold whatever has happened, and those about trees and lists.
Trees == StoredIsPast /\ CommittedIsStored /\ WalksAlone
         /\ TreesFollow /\ NothingAnalyzed /\ SupersededIsListed

LEMMA QuietKeepsTrees ==
    ASSUME CurrentInv, [Next]_vars, Quiet
    PROVE  Trees' /\ UnderwayIsCurrent'
<1>1. (Clean' => Clean) /\ mishaps \subseteq mishaps'
    BY CleanBefore, MishapsGrow DEF CurrentInv
<1>2. \A v \in Workers : Walks(v)' => Walks(v) /\ run'[v] = run[v]
    BY DEF Quiet, Walks
<1>3. StoredIsPast' /\ CommittedIsStored'
    BY <1>2 DEF CurrentInv, Quiet, StoredIsPast, CommittedIsStored, Held
<1>4. WalksAlone'
    BY <1>1, <1>2 DEF CurrentInv, WalksAlone
<1>5. TreesFollow'
    BY <1>1, <1>2 DEF CurrentInv, Quiet, TreesFollow, Follows
<1>6. NothingAnalyzed' /\ UnderwayIsCurrent'
    BY <1>1 DEF CurrentInv, Quiet, NothingAnalyzed, UnderwayIsCurrent, Outdated, Held
<1>7. SupersededIsListed'
    BY <1>1, <1>2 DEF CurrentInv, Quiet, SupersededIsListed, ListsChanged
<1> QED BY <1>3, <1>4, <1>5, <1>6, <1>7 DEF Trees

LEMMA PushKeepsTrees ==
    ASSUME CurrentInv, [Next]_vars, NEW p \in Paths, NEW c \in Contents \cup {Absent}, Push(p, c)
    PROVE  Trees' /\ UnderwayIsCurrent'
<1>1. (Clean' => Clean) /\ mishaps \subseteq mishaps'
    BY CleanBefore, MishapsGrow DEF CurrentInv
<1>2. /\ UNCHANGED <<artifacts, analyzed, run, queue, present>>
      /\ past' = past \cup Held(tree') /\ tree' = [tree EXCEPT ![p] = c]
    BY DEF Push
<1>3. StoredIsPast'
    BY <1>2 DEF CurrentInv, StoredIsPast, Walks, Held
<1>4. CommittedIsStored' /\ WalksAlone' /\ NothingAnalyzed' /\ SupersededIsListed'
    <2>1. CommittedIsStored' /\ WalksAlone'
        BY <1>1, <1>2 DEF CurrentInv, CommittedIsStored, WalksAlone, Walks
    <2>2. NothingAnalyzed' /\ SupersededIsListed'
        BY <1>1, <1>2 DEF CurrentInv, NothingAnalyzed, SupersededIsListed, ListsChanged, Walks
    <2> QED BY <2>1, <2>2
<1>5. UnderwayIsCurrent'
    BY <1>1, <1>2 DEF CurrentInv, UnderwayIsCurrent, Outdated, Underway, Batch, Held
<1>6. TreesFollow'
    <2> SUFFICES ASSUME Clean' PROVE TreesFollow'
        BY DEF TreesFollow
    <2>1. c # Absent /\ [path |-> p, content |-> c] \notin past
        BY DEF Push, Mishap, Clean
    <2>2. tree \in Tree /\ \A q \in Paths : tree'[q] = IF q = p THEN c ELSE tree[q]
        BY <1>2 DEF CurrentInv, Types, TypeOK, Tree
    <2>3. [path |-> p, content |-> c] \notin artifacts
        BY <2>1 DEF CurrentInv, StoredIsPast
    <2>4. ASSUME NEW s, Follows(tree, s)
          PROVE  \A q \in Paths : tree'[q] # s[q] =>
                     tree'[q] # Absent /\ [path |-> q, content |-> tree'[q]] \notin artifacts
        <3> TAKE q \in Paths
        <3>1. CASE q = p
            BY <2>1, <2>2, <2>3, <3>1
        <3>2. CASE q # p
            BY <2>2, <2>4, <3>2 DEF Follows
        <3> QED BY <3>1, <3>2
    <2>5. \A v \in Workers : Walks(v)' <=> Walks(v)
        BY <1>2 DEF Walks
    <2>6. /\ analyzed # NoTree => Follows(tree, analyzed)
          /\ \A v \in Workers : Walks(v) =>
                /\ Follows(tree, run[v].tree)
                /\ analyzed # NoTree => Follows(run[v].tree, analyzed)
        BY <1>1 DEF CurrentInv, TreesFollow
    <2>7. analyzed' # NoTree => Follows(tree, analyzed)'
        BY <1>2, <2>4, <2>6 DEF Follows
    <2>8. ASSUME NEW v \in Workers, Walks(v)'
          PROVE  /\ Follows(tree, run[v].tree)'
                 /\ analyzed' # NoTree => Follows(run[v].tree, analyzed)'
        <3>1. Follows(tree, run[v].tree)'
            BY <1>2, <2>4, <2>5, <2>6, <2>8 DEF Follows
        <3>2. analyzed' # NoTree => Follows(run[v].tree, analyzed)'
            BY <1>2, <2>5, <2>6, <2>8 DEF Follows
        <3> QED BY <3>1, <3>2
    <2> QED BY <2>7, <2>8 DEF TreesFollow
<1> QED BY <1>3, <1>4, <1>5, <1>6 DEF Trees

LEMMA DisconnectKeepsTrees ==
    ASSUME CurrentInv, [Next]_vars, Disconnect
    PROVE  Trees' /\ UnderwayIsCurrent'
<1>1. Clean' => Clean
    BY CleanBefore DEF CurrentInv
<1>2. /\ artifacts' = {} /\ analyzed' = NoTree /\ present' = FALSE
      /\ UNCHANGED <<tree, past, run, mishaps>>
    BY DEF Disconnect
<1>3. StoredIsPast' /\ CommittedIsStored'
    BY <1>2 DEF CurrentInv, StoredIsPast, CommittedIsStored, Walks, Held
<1>4. WalksAlone' /\ NothingAnalyzed' /\ UnderwayIsCurrent'
    BY <1>2 DEF CurrentInv, WalksAlone, NothingAnalyzed, UnderwayIsCurrent, Walks
<1>5. SupersededIsListed'
    BY <1>2 DEF SupersededIsListed, ListsChanged
<1>6. TreesFollow'
    BY <1>1, <1>2 DEF CurrentInv, TreesFollow, Follows, Walks
<1> QED BY <1>3, <1>4, <1>5, <1>6 DEF Trees

\* A step of one walk: what it has to say of its own tree and list.
WalksOn(w) ==
    /\ Held(run'[w].tree) \subseteq past
    /\ "overlap" \notin mishaps' => \A v \in Workers \ {w} : ~Walks(v)
    /\ Clean' => /\ Follows(tree, run'[w].tree)
                 /\ analyzed # NoTree => Follows(run'[w].tree, analyzed)
                 /\ ListsChanged(run'[w])

LEMMA WalkKeepsTrees ==
    ASSUME CurrentInv, [Next]_vars, NEW w \in Workers, Moved(w),
           UNCHANGED <<artifacts, analyzed, tree, past, present>>,
           Underway' \subseteq Underway, run'[w].pc # "send", Walks(w)' => WalksOn(w)
    PROVE  Trees' /\ UnderwayIsCurrent'
<1>1. (Clean' => Clean) /\ mishaps \subseteq mishaps'
    BY CleanBefore, MishapsGrow DEF CurrentInv
<1>2. \A v \in Workers \ {w} : run'[v] = run[v] /\ (Walks(v)' <=> Walks(v))
    BY DEF Moved, Walks
<1>3. StoredIsPast'
    <2>1. ASSUME NEW v \in Workers, Walks(v)' PROVE Held(run'[v].tree) \subseteq past
        BY <1>2, <2>1 DEF CurrentInv, StoredIsPast, WalksOn
    <2>2. \A v \in Workers : Walks(v)' => (Held(run[v].tree) \subseteq past)'
        BY <2>1 DEF Held
    <2>3. (artifacts \subseteq past)' /\ (Held(tree) \subseteq past)'
        BY DEF CurrentInv, StoredIsPast, Held
    <2> QED BY <2>2, <2>3 DEF StoredIsPast
<1>4. CommittedIsStored'
    BY <1>2 DEF CurrentInv, CommittedIsStored
<1>5. WalksAlone'
    <2> SUFFICES ASSUME "overlap" \notin mishaps', NEW u \in Workers, NEW v \in Workers,
                        Walks(u)', Walks(v)'
                 PROVE  u = v
        BY DEF WalksAlone
    <2>1. Walks(u) /\ Walks(v) => u = v
        BY <1>1 DEF CurrentInv, WalksAlone
    <2> QED BY <1>2, <2>1 DEF WalksOn
<1>6. TreesFollow'
    <2> SUFFICES ASSUME Clean' PROVE TreesFollow'
        BY DEF TreesFollow
    <2>1. /\ analyzed # NoTree => Follows(tree, analyzed)
          /\ \A v \in Workers : Walks(v)' =>
                /\ Follows(tree, run'[v].tree)
                /\ analyzed # NoTree => Follows(run'[v].tree, analyzed)
        BY <1>1, <1>2 DEF CurrentInv, TreesFollow, WalksOn
    <2> QED BY <2>1 DEF TreesFollow, Follows
<1>7. SupersededIsListed'
    <2> SUFFICES ASSUME Clean', NEW v \in Workers, Walks(v)' PROVE ListsChanged(run[v])'
        BY DEF SupersededIsListed
    <2>1. ListsChanged(run'[v])
        BY <1>1, <1>2 DEF CurrentInv, SupersededIsListed, WalksOn
    <2> QED BY <2>1 DEF ListsChanged
<1>8. NothingAnalyzed' /\ UnderwayIsCurrent'
    BY <1>1 DEF CurrentInv, NothingAnalyzed, UnderwayIsCurrent, Outdated, Held
<1> QED BY <1>3, <1>4, <1>5, <1>6, <1>7, <1>8 DEF Trees

LEMMA LoadKeepsTrees ==
    ASSUME CurrentInv, [Next]_vars, NEW w \in Workers, SyncLoad(w)
    PROVE  Trees' /\ UnderwayIsCurrent'
<1>1. (Clean' => Clean) /\ Types /\ SyncNext(w) /\ ~SyncCommit(w)
    BY CleanBefore DEF CurrentInv, SyncNext, SyncLoad, SyncCommit
<1>2. /\ Moved(w) /\ run'[w].at = 1
      /\ \/ run'[w].pc = "files" /\ run'[w].tree = tree
         \/ run'[w].pc = "end"
    BY <1>1, SyncLoads
<1>3. UNCHANGED <<artifacts, analyzed, tree, past, present>> /\ Underway' \subseteq Underway
    BY <1>1, SyncKeeps DEF SyncLoad, Keeps
<1>4. ASSUME Walks(w)' PROVE WalksOn(w)
    <2>1. run'[w].pc = "files" /\ run'[w].tree = tree /\ run'[w].at = 1
        BY <1>2, <1>4 DEF Walks
    <2>2. Held(run'[w].tree) \subseteq past
        BY <2>1 DEF CurrentInv, StoredIsPast
    <2>3. "overlap" \notin mishaps' => \A v \in Workers \ {w} : ~Walks(v)
        BY DEF SyncLoad, Mishap, Walks
    <2>4. Follows(tree, tree)
        BY DEF Follows
    <2>5. Clean' => (analyzed # NoTree => Follows(tree, analyzed))
        BY <1>1 DEF CurrentInv, TreesFollow
    <2>6. ListsChanged(run'[w])
        <3>1. \A a \in artifacts : ~(a.path < 1)
            BY NumPathsIsNat DEF CurrentInv, Types, TypeOK, Artifact, Paths
        <3> QED BY <2>1, <3>1 DEF ListsChanged
    <2> QED BY <2>1, <2>2, <2>3, <2>4, <2>5, <2>6 DEF WalksOn
<1> QED BY <1>2, <1>3, <1>4, WalkKeepsTrees

\* The next step of a walk that has its tree: only its list is in question.
LEMMA StepKeepsTrees ==
    ASSUME CurrentInv, [Next]_vars, NEW w \in Workers, Moved(w), Walks(w),
           UNCHANGED <<artifacts, analyzed, tree, past, present>>,
           Underway' \subseteq Underway, run'[w].pc # "send", run'[w].tree = run[w].tree,
           Clean /\ ListsChanged(run[w]) => ListsChanged(run'[w])
    PROVE  Trees' /\ UnderwayIsCurrent'
<1>1. (Clean' => Clean) /\ mishaps \subseteq mishaps'
    BY CleanBefore, MishapsGrow DEF CurrentInv
<1>2. WalksOn(w)
    <2>1. Held(run'[w].tree) \subseteq past
        BY DEF CurrentInv, StoredIsPast
    <2>2. "overlap" \notin mishaps' => \A v \in Workers \ {w} : ~Walks(v)
        BY <1>1 DEF CurrentInv, WalksAlone
    <2>3. Clean' => /\ Follows(tree, run'[w].tree)
                    /\ analyzed # NoTree => Follows(run'[w].tree, analyzed)
        BY <1>1 DEF CurrentInv, TreesFollow
    <2>4. Clean' => ListsChanged(run'[w])
        BY <1>1 DEF CurrentInv, SupersededIsListed
    <2> QED BY <2>1, <2>2, <2>3, <2>4 DEF WalksOn
<1> QED BY <1>2, WalkKeepsTrees

LEMMA SkipKeepsTrees ==
    ASSUME CurrentInv, [Next]_vars, NEW w \in Workers, SyncSkip(w)
    PROVE  Trees' /\ UnderwayIsCurrent'
<1>1. Types /\ SyncNext(w) /\ ~SyncCommit(w)
    <2>1. Types /\ SyncNext(w) /\ run[w].at <= NumPaths
        BY DEF CurrentInv, SyncNext, SyncSkip
    <2>2. run[w].at \in Int /\ NumPaths \in Int
        BY <2>1, RunsAreRecords, NumPathsIsNat DEF RunRecord
    <2> QED BY <2>1, <2>2 DEF SyncCommit
<1>2. /\ Moved(w) /\ run[w].pc = "files" /\ run[w].at <= NumPaths
      /\ run'[w].pc = "files" /\ run'[w].at = run[w].at + 1
      /\ run'[w].tree = run[w].tree /\ run'[w].superseded = run[w].superseded
    BY <1>1, SyncSkips
<1>3. UNCHANGED <<artifacts, analyzed, tree, past, present>> /\ Underway' \subseteq Underway
    BY <1>1, SyncKeeps DEF SyncSkip, Keeps
<1>4. ASSUME ListsChanged(run[w]) PROVE ListsChanged(run'[w])
    <2> SUFFICES ASSUME NEW a \in artifacts, a.path < run[w].at + 1,
                        run[w].tree[a.path] # Absent,
                        [path |-> a.path, content |-> run[w].tree[a.path]] \notin artifacts
                 PROVE  a \in run[w].superseded
        BY <1>2 DEF ListsChanged
    <2>1. a.path \in Nat /\ run[w].at \in Nat
        BY <1>1, RunsAreRecords, NumPathsIsNat DEF Types, TypeOK, Artifact, Paths, RunRecord
    <2>2. CASE a.path < run[w].at
        BY <1>4, <2>2 DEF ListsChanged
    <2>3. CASE a.path = run[w].at
        <3>1. Found(w) \in Prior(w) /\ Found(w) \notin artifacts
            BY <2>3 DEF SyncSkip, Found
        <3>2. Found(w) \in run[w].added /\ Found(w).path = run[w].at
            BY <3>1 DEF Prior
        <3>3. run[w].at < run[w].at
            BY <1>1, <1>2, <3>2, RunsAreRecords DEF Shape
        <3> QED BY <2>1, <3>3
    <2> QED BY <2>1, <2>2, <2>3
<1> QED BY <1>2, <1>3, <1>4, StepKeepsTrees DEF Walks

LEMMA ChangedKeepsTrees ==
    ASSUME CurrentInv, [Next]_vars, NEW w \in Workers, SyncChanged(w)
    PROVE  Trees' /\ UnderwayIsCurrent'
<1>1. Types /\ SyncNext(w) /\ ~SyncCommit(w)
    <2>1. Types /\ SyncNext(w) /\ run[w].at <= NumPaths
        BY DEF CurrentInv, SyncNext, SyncChanged
    <2>2. run[w].at \in Int /\ NumPaths \in Int
        BY <2>1, RunsAreRecords, NumPathsIsNat DEF RunRecord
    <2> QED BY <2>1, <2>2 DEF SyncCommit
<1>2. /\ Moved(w) /\ run[w].pc = "files" /\ run'[w].pc = "insert" /\ run'[w].at = run[w].at
      /\ run'[w].tree = run[w].tree
      /\ run'[w].superseded = run[w].superseded \cup Prior(w)
    BY <1>1, SyncChanges
<1>3. UNCHANGED <<artifacts, analyzed, tree, past, present>> /\ Underway' \subseteq Underway
    BY <1>1, SyncKeeps DEF SyncChanged, Keeps
<1>4. ListsChanged(run[w]) => ListsChanged(run'[w])
    BY <1>2 DEF ListsChanged, Prior
<1> QED BY <1>2, <1>3, <1>4, StepKeepsTrees DEF Walks

LEMMA InsertKeepsTrees ==
    ASSUME CurrentInv, [Next]_vars, NEW w \in Workers, SyncInsert(w)
    PROVE  Trees' /\ UnderwayIsCurrent'
<1>1. Types /\ SyncNext(w) /\ ~SyncCommit(w)
    BY DEF CurrentInv, SyncNext, SyncInsert, SyncCommit
<1>2. /\ Moved(w) /\ run[w].pc = "insert" /\ run'[w].pc = "files"
      /\ run'[w].at = run[w].at + 1
      /\ run'[w].tree = run[w].tree /\ run'[w].superseded = run[w].superseded
    BY <1>1, SyncInserts
<1>3. UNCHANGED <<artifacts, analyzed, tree, past, present>> /\ Underway' \subseteq Underway
    BY <1>1, SyncKeeps DEF SyncInsert, Keeps
<1>4. ListsChanged(run[w]) => ListsChanged(run'[w])
    <2>1. \A a \in artifacts : a.path < run[w].at + 1 => a.path < run[w].at \/ a.path = run[w].at
        <3>1. run[w].at \in Nat /\ \A a \in artifacts : a.path \in Nat
            BY <1>1, RunsAreRecords, NumPathsIsNat DEF Types, TypeOK, Artifact, Paths, RunRecord
        <3> QED BY <3>1
    <2> QED BY <1>2, <2>1 DEF ListsChanged
<1> QED BY <1>2, <1>3, <1>4, StepKeepsTrees DEF Walks

\* What a commit outdates is on its list, or was outdated before.
LEMMA CommitOutdates ==
    ASSUME CurrentInv, Clean, NEW w \in Workers, SyncCommit(w),
           NEW a \in artifacts, a \notin Held(run[w].tree)
    PROVE  analyzed # NoTree /\ (a \in run[w].superseded \/ a \in Outdated)
<1>1. Types /\ run[w].pc = "files" /\ run[w].at = NumPaths + 1 /\ Walks(w)
    BY SyncCommits DEF CurrentInv, SyncCommit, Walks
<1>2. analyzed # NoTree
    BY DEF CurrentInv, NothingAnalyzed
<1>3. analyzed \in Tree /\ run[w].tree \in Tree /\ a \in Artifact
    BY <1>1, <1>2, AddedIsHeld DEF Types, TypeOK
<1>4. ASSUME a \in Held(analyzed) PROVE a \in run[w].superseded
    <2>1. analyzed[a.path] = a.content /\ run[w].tree[a.path] # a.content /\ a.path \in Paths
        BY <1>3, <1>4, HeldIsArtifacts DEF Artifact
    <2>2. Follows(run[w].tree, analyzed)
        BY <1>1, <1>2 DEF CurrentInv, TreesFollow
    <2>3. /\ run[w].tree[a.path] # Absent
          /\ [path |-> a.path, content |-> run[w].tree[a.path]] \notin artifacts
        BY <2>1, <2>2 DEF Follows
    <2>4. a.path < run[w].at
        BY <1>1, <2>1, NumPathsIsNat DEF Paths
    <2>5. ListsChanged(run[w])
        BY <1>1 DEF CurrentInv, SupersededIsListed
    <2> QED BY <2>3, <2>4, <2>5 DEF ListsChanged
<1> QED BY <1>2, <1>4 DEF Outdated

LEMMA CommitKeepsTrees ==
    ASSUME CurrentInv, [Next]_vars, NEW w \in Workers, SyncCommit(w)
    PROVE  Trees' /\ UnderwayIsCurrent'
<1>1. (Clean' => Clean) /\ mishaps \subseteq mishaps' /\ Types
    BY CleanBefore, MishapsGrow DEF CurrentInv
<1>2. /\ Moved(w) /\ Walks(w) /\ run'[w].pc = "send" /\ run'[w].added = run[w].added
      /\ \A v \in Workers \ {w} : run'[v] = run[v]
    BY <1>1, SyncCommits DEF Walks, Moved
<1>3. /\ artifacts' = artifacts \cup run[w].added /\ analyzed' = run[w].tree
      /\ UNCHANGED <<tree, past, present>>
    BY DEF SyncCommit
<1>4. run[w].tree \in Tree /\ run[w].added \subseteq Held(run[w].tree)
    BY <1>1, <1>2, AddedIsHeld
<1>5. \A v \in Workers : Walks(v)' => v # w /\ Walks(v)
    BY <1>2 DEF Walks
<1>6. StoredIsPast'
    <2>1. artifacts \cup run[w].added \subseteq past /\ Held(tree) \subseteq past
        BY <1>2, <1>4 DEF CurrentInv, StoredIsPast
    <2>2. \A v \in Workers : Walks(v)' => (Held(run[v].tree) \subseteq past)'
        BY <1>2, <1>3, <1>5 DEF CurrentInv, StoredIsPast, Held
    <2>3. (Held(tree) \subseteq past)'
        BY <1>3, <2>1 DEF Held
    <2> QED BY <1>3, <2>1, <2>2, <2>3 DEF StoredIsPast
<1>7. CommittedIsStored'
    BY <1>2, <1>3 DEF CurrentInv, CommittedIsStored
<1>8. WalksAlone'
    BY <1>1, <1>5 DEF CurrentInv, WalksAlone
<1>9. Clean' => \A v \in Workers : ~Walks(v)'
    BY <1>1, <1>2, <1>5 DEF CurrentInv, WalksAlone, Clean
<1>10. SupersededIsListed'
    BY <1>9 DEF SupersededIsListed
<1>11. TreesFollow'
    <2> SUFFICES ASSUME Clean' PROVE Follows(tree, analyzed)'
        BY <1>9 DEF TreesFollow
    <2>1. Follows(tree, run[w].tree)
        BY <1>1, <1>2 DEF CurrentInv, TreesFollow
    <2>2. ASSUME NEW p \in Paths, tree[p] # run[w].tree[p]
          PROVE  tree[p] # Absent /\ [path |-> p, content |-> tree[p]] \notin artifacts'
        <3> DEFINE a == [path |-> p, content |-> tree[p]]
        <3>1. tree[p] # Absent /\ a \notin artifacts /\ a.path = p /\ a.content = tree[p]
            BY <2>1, <2>2 DEF Follows
        <3> HIDE DEF a
        <3>2. a \notin run[w].added
            <4>1. \A b \in run[w].added : b.content = run[w].tree[b.path]
                BY <1>1, <1>2, RunsAreRecords DEF Shape, Walks
            <4> QED BY <2>2, <3>1, <4>1
        <3> QED BY <1>3, <3>1, <3>2 DEF a
    <2> QED BY <1>3, <2>2 DEF Follows
<1>12. NothingAnalyzed'
    <2>1. run[w].tree = NoTree => Paths = {}
        <3>1. DOMAIN run[w].tree = Paths /\ DOMAIN NoTree = {}
            BY <1>4 DEF Tree, NoTree
        <3> QED BY <3>1
    <2>2. artifacts \cup run[w].added \subseteq Artifact
        BY <1>1, <1>4, HeldIsArtifacts DEF Types, TypeOK
    <2> QED BY <1>3, <2>1, <2>2 DEF NothingAnalyzed, Artifact
<1>13. UnderwayIsCurrent'
    <2> SUFFICES ASSUME Clean', NEW a \in Underway', a \in artifacts', a \notin Held(run[w].tree)
                 PROVE  FALSE
        BY <1>3 DEF UnderwayIsCurrent, Outdated, Held
    <2>1. a \in artifacts /\ a \in Underway
        BY <1>1, <1>3, <1>4, CommitAdds
    <2>2. a \in run[w].superseded \/ (analyzed # NoTree /\ a \in Outdated)
        BY <1>1, <2>1, CommitOutdates
    <2>3. a \notin run[w].superseded
        BY <2>1 DEF SyncCommit, Mishap, Clean
    <2> QED BY <1>1, <2>1, <2>2, <2>3 DEF CurrentInv, UnderwayIsCurrent
<1> QED BY <1>6, <1>7, <1>8, <1>10, <1>11, <1>12, <1>13 DEF Trees

LEMMA NextKeepsTrees ==
    ASSUME CurrentInv, [Next]_vars
    PROVE  Trees' /\ UnderwayIsCurrent'
BY StepsAreQuiet, QuietKeepsTrees, PushKeepsTrees, DisconnectKeepsTrees, LoadKeepsTrees,
   SkipKeepsTrees, ChangedKeepsTrees, InsertKeepsTrees, CommitKeepsTrees DEF Walking

\* Rows that were there stay as true as they were, if no artifact and no commit is new.
LEMMA SameIsCurrent ==
    ASSUME CurrentInv, [Next]_vars, Clean' => artifacts' = artifacts, analyzed' = analyzed,
           \A w \in Workers : ~ExtractSave(w)
    PROVE  LiveEvidenceIsCurrent'
<1>1. Clean' => Clean /\ NoneRevived
    BY CleanBefore, NoRowRevived DEF CurrentInv, Clean
<1> SUFFICES ASSUME Clean', analyzed # NoTree, NEW i \in DOMAIN evidence',
                    evidence'[i].status \in Live, NEW a \in evidence'[i].cites,
                    a \in artifacts, a \notin Held(analyzed)
             PROVE  FALSE
    BY DEF LiveEvidenceIsCurrent, DescribesAnalyzed, Citing, Clean, Held
<1>2. i \in DOMAIN evidence /\ evidence[i].status \in Live /\ evidence[i].cites = evidence'[i].cites
    BY <1>1 DEF NoneRevived
<1> QED BY <1>1, <1>2 DEF CurrentInv, LiveEvidenceIsCurrent, DescribesAnalyzed, Citing, Clean

LEMMA SaveIsCurrent ==
    ASSUME CurrentInv, [Next]_vars, NEW w \in Workers, ExtractSave(w)
    PROVE  LiveEvidenceIsCurrent'
<1>1. (Clean' => Clean) /\ Types
    BY CleanBefore DEF CurrentInv
<1>2. UNCHANGED <<artifacts, analyzed>> /\ run[w].pc = "save"
    BY DEF ExtractSave
<1> SUFFICES ASSUME Clean', analyzed # NoTree, NEW i \in DOMAIN evidence',
                    evidence'[i].status \in Live, NEW a \in evidence'[i].cites, a \in Outdated
             PROVE  FALSE
    BY <1>2 DEF LiveEvidenceIsCurrent, DescribesAnalyzed, Citing, Clean, Held, Outdated
<1>3. CASE i \in DOMAIN evidence /\ evidence'[i] = evidence[i]
    BY <1>1, <1>3 DEF CurrentInv, LiveEvidenceIsCurrent, DescribesAnalyzed, Citing, Clean, Outdated
<1>4. CASE evidence'[i].cites \subseteq run[w].msg.batch
    <2>1. a \in Underway
        BY <1>1, <1>2, <1>4, BatchIs, UnderwayIs
    <2> QED BY <1>1, <2>1 DEF CurrentInv, UnderwayIsCurrent
<1> QED BY <1>1, <1>3, <1>4, SaveAppends

LEMMA CommitIsCurrent ==
    ASSUME CurrentInv, [Next]_vars, NEW w \in Workers, SyncCommit(w)
    PROVE  LiveEvidenceIsCurrent'
<1>1. (Clean' => Clean) /\ Types /\ Rows
    BY CleanBefore, TypesSplit DEF CurrentInv
<1>2. artifacts' = artifacts \cup run[w].added /\ analyzed' = run[w].tree
    BY DEF SyncCommit
<1>3. run[w].added \subseteq Held(run[w].tree)
    BY <1>1, AddedIsHeld, SyncCommits DEF Walks
<1> SUFFICES ASSUME Clean', NEW i \in DOMAIN evidence', evidence'[i].status \in Live,
                    NEW a \in evidence'[i].cites, a \in artifacts', a \notin Held(run[w].tree)
             PROVE  FALSE
    BY <1>2 DEF LiveEvidenceIsCurrent, DescribesAnalyzed, Citing, Clean, Held
<1>4. /\ i \in DOMAIN evidence /\ evidence[i].status \in Live
      /\ evidence[i].cites = evidence'[i].cites /\ evidence[i].cites \cap run[w].superseded = {}
    BY <1>1, StaleIsTyped DEF SyncCommit
<1>5. a \in artifacts /\ analyzed # NoTree /\ a \in Outdated
    BY <1>1, <1>2, <1>3, <1>4, CommitOutdates
<1> QED BY <1>1, <1>4, <1>5
        DEF CurrentInv, LiveEvidenceIsCurrent, DescribesAnalyzed, Citing, Clean, Outdated

LEMMA NextIsCurrent ==
    ASSUME CurrentInv, [Next]_vars
    PROVE  LiveEvidenceIsCurrent'
<1>1. ASSUME NEW w \in Workers, Walking(w), ~SyncCommit(w)
      PROVE  LiveEvidenceIsCurrent'
    <2>1. /\ artifacts' = artifacts /\ analyzed' = analyzed /\ evidence' = evidence
          /\ Clean' => Clean
        BY <1>1, CleanBefore
           DEF CurrentInv, Walking, SyncLoad, SyncSkip, SyncChanged, SyncInsert
    <2> QED BY <2>1 DEF CurrentInv, LiveEvidenceIsCurrent, DescribesAnalyzed, Citing, Clean, Held
<1>2. CASE Disconnect
    BY <1>2 DEF Disconnect, LiveEvidenceIsCurrent, DescribesAnalyzed
<1>3. ASSUME Quiet, \A w \in Workers : ~ExtractSave(w)
      PROVE  LiveEvidenceIsCurrent'
    BY <1>3, SameIsCurrent DEF Quiet
<1>4. ASSUME NEW p \in Paths, NEW c \in Contents \cup {Absent}, Push(p, c)
      PROVE  LiveEvidenceIsCurrent'
    <2>1. /\ artifacts' = artifacts /\ analyzed' = analyzed /\ evidence' = evidence
          /\ Clean' => Clean
        BY <1>4, CleanBefore DEF CurrentInv, Push
    <2> QED BY <2>1 DEF CurrentInv, LiveEvidenceIsCurrent, DescribesAnalyzed, Citing, Clean, Held
<1> QED BY <1>1, <1>2, <1>3, <1>4, StepsAreQuiet, SaveIsCurrent, CommitIsCurrent

\* Redelivered, retried, crashed or failing syncs and extractions keep live evidence true to the
\* commit that was analyzed last, however they interleave, as long as none of the named
\* events has happened (staleness.py, _sync_one_repository).
THEOREM EvidenceIsCurrent == Spec => []LiveEvidenceIsCurrent
<1>1. Init => CurrentInv
    <2>1. Init => /\ GoneIsEmpty /\ StoredIsPast /\ CommittedIsStored /\ WalksAlone /\ TreesFollow
                  /\ NothingAnalyzed /\ SupersededIsListed
        BY DEF Init, GoneIsEmpty, StoredIsPast, CommittedIsStored, WalksAlone, TreesFollow,
               NothingAnalyzed, SupersededIsListed, Walks, Idle
    <2>2. Init => UnderwayIsCurrent /\ LiveEvidenceIsCurrent
        BY DEF Init, UnderwayIsCurrent, LiveEvidenceIsCurrent, DescribesAnalyzed
    <2> QED BY <2>1, <2>2, InitTypes DEF CurrentInv
<1>2. CurrentInv /\ [Next]_vars => CurrentInv'
    <2> SUFFICES ASSUME CurrentInv, [Next]_vars PROVE CurrentInv'
        OBVIOUS
    <2>1. Types' /\ GoneIsEmpty'
        BY NextTypes, GoneStays DEF CurrentInv
    <2>2. Trees' /\ UnderwayIsCurrent' /\ LiveEvidenceIsCurrent'
        BY NextKeepsTrees, NextIsCurrent
    <2> QED BY <2>1, <2>2 DEF CurrentInv, Trees
<1>3. CurrentInv => LiveEvidenceIsCurrent
    BY DEF CurrentInv
<1> QED BY <1>1, <1>2, <1>3, PTL DEF Spec

=============================================================================
