----------------------- MODULE ApplicationsBoard_proofs -----------------------
(***************************************************************************)
(* Proofs about ApplicationsBoard, and with it about JobCapture, for any   *)
(* number of accounts, captures, tabs, requests and stages.  The board's   *)
(* stages have an invariant of their own, BoardInv, which stands on IInv.  *)
(***************************************************************************)
EXTENDS ApplicationsBoard, SequenceTheorems, TLAPS

\* A request that has found or made an application names one that is there.
AppsKnown ==
    \A r \in Requests :
        \/ request[r].op = "patch"
        \/ request[r].op = "track" /\ request[r].at = "refresh"
        \/ request[r].op = "track" /\ request[r].at = "answer" /\ request[r].status = "ok"
        => request[r].app \in DOMAIN apps

\* What a request has seen of the jobs still holds: jobs are only added, and only under
\* an id that has none.
Sees(q) ==
    /\ q.op = "capture" /\ q.at = "reread" => Row(q.job) # {}
    /\ q.op = "capture" /\ q.at = "answer" /\ q.status = "ok" => Owned(q.job, q.user)
    /\ q.op = "capture" /\ q.at = "answer" /\ q.status = "taken" =>
           Row(q.job) # {} /\ ~Owned(q.job, q.user)
    /\ q.op = "track" /\ q.at = "commit" => Owned(q.job, q.user)

SeenHolds == \A r \in Requests : Sees(request[r])

\* A page waits for at most one capture request, made for its capture by its account.
PagesWait ==
    \A r \in Requests :
        /\ request[r].op \in {"track", "patch"} => request[r].from \notin Tabs
        /\ request[r].op = "capture" /\ request[r].from \in Tabs =>
               /\ tab[request[r].from].at = "saving"
               /\ tab[request[r].from].id = request[r].job
               /\ tab[request[r].from].by = request[r].user
               /\ \A s \in Requests :
                     request[s].op = "capture" /\ request[s].from = request[r].from => s = r

\* The extension is told to forget captures that have their job.
FinishStored == \A c \in finishing : Row(c) # {}

Types == TypeOK /\ AppsKnown

\* The inductive invariant.
IInv ==
    /\ Types
    /\ SeenHolds
    /\ PagesWait
    /\ FinishStored
    /\ ForgottenOnlyOnceStored
    /\ PageSaysWhatIsStored
    /\ OneApplicationPerJob

-----------------------------------------------------------------------------
(* Records of the request table. *)

\* A request that is under way is a record with all fields.
LEMMA UnderWay ==
    ASSUME Types, NEW r \in Requests, request[r].op \in {"capture", "track", "patch"}
    PROVE  request[r] \in Request
BY DEF Types, TypeOK, CaptureTypeOK, Free

\* Whom a request works for, and what for.
SameCall(r) ==
    /\ request'[r].op = request[r].op /\ request'[r].from = request[r].from
    /\ request'[r].job = request[r].job /\ request'[r].user = request[r].user

\* Moving on or answering keeps the record a request.
LEMMA GoesKeeps ==
    ASSUME Types, NEW r \in Requests, request[r] \in Request,
           NEW at \in {"get", "commit", "reread", "refresh", "answer"}, Goes(r, at)
    PROVE  /\ request' \in [Requests -> {Free} \cup Request]
           /\ request'[r] = [request[r] EXCEPT !.at = at]
           /\ SameCall(r)
           /\ request'[r].app = request[r].app /\ request'[r].op = request[r].op
           /\ request'[r].at = at
           /\ \A s \in Requests \ {r} : request'[s] = request[s]
BY DEF Types, TypeOK, CaptureTypeOK, Request, Goes, SameCall

LEMMA AnswersKeeps ==
    ASSUME Types, NEW r \in Requests, request[r] \in Request,
           NEW status \in {"none", "ok", "taken", "error"}, Answers(r, status)
    PROVE  /\ request' \in [Requests -> {Free} \cup Request]
           /\ request'[r] = [request[r] EXCEPT !.at = "answer", !.status = status]
           /\ SameCall(r)
           /\ request'[r].app = request[r].app /\ request'[r].op = request[r].op
           /\ request'[r].at = "answer"
           /\ request'[r].status = status
           /\ \A s \in Requests \ {r} : request'[s] = request[s]
BY DEF Types, TypeOK, CaptureTypeOK, Request, Answers, SameCall

LEMMA FreeKeeps ==
    ASSUME Types, NEW r \in Requests, request' = [request EXCEPT ![r] = Free]
    PROVE  /\ request' \in [Requests -> {Free} \cup Request]
           /\ request'[r] = Free
           /\ \A s \in Requests \ {r} : request'[s] = request[s]
BY DEF Types, TypeOK, CaptureTypeOK

LEMMA DesertedKeeps ==
    ASSUME Types, NEW page, request' = Deserted(page)
    PROVE  /\ request' \in [Requests -> {Free} \cup Request]
           /\ \A s \in Requests :
                 \/ request'[s] = request[s] /\ (request[s] = Free \/ request[s].from # page)
                 \/ request[s] \in Request /\ request'[s] = [request[s] EXCEPT !.from = "nobody"]
           /\ \A s \in Requests :
                 /\ request'[s].op = request[s].op
                 /\ request[s].op # "none" =>
                       /\ request'[s].at = request[s].at
                       /\ request'[s].status = request[s].status
                       /\ request'[s].app = request[s].app
                       /\ request'[s].job = request[s].job
                       /\ request'[s].user = request[s].user
<1>1. ASSUME NEW s \in Requests, request[s].op # "none" /\ request[s].from = page
      PROVE  request[s] \in Request /\ [request[s] EXCEPT !.from = "nobody"] \in Request
    BY <1>1 DEF Types, TypeOK, CaptureTypeOK, Request, Free
<1>2. \A s \in Requests :
         \/ request'[s] = request[s] /\ (request[s] = Free \/ request[s].from # page)
         \/ request[s] \in Request /\ request'[s] = [request[s] EXCEPT !.from = "nobody"]
    BY <1>1 DEF Types, TypeOK, CaptureTypeOK, Deserted, Free, Request
<1>3. request' \in [Requests -> {Free} \cup Request]
    BY <1>1 DEF Types, TypeOK, CaptureTypeOK, Deserted, Free, Request
<1>4. ASSUME NEW s \in Requests, request[s] \in Request,
             request'[s] = [request[s] EXCEPT !.from = "nobody"]
      PROVE  /\ request'[s].op = request[s].op
             /\ request'[s].at = request[s].at
             /\ request'[s].status = request[s].status
             /\ request'[s].app = request[s].app
             /\ request'[s].job = request[s].job
             /\ request'[s].user = request[s].user
    BY <1>4 DEF Request
<1> QED BY <1>2, <1>3, <1>4

-----------------------------------------------------------------------------
(* Types. *)

LEMMA InitTypes == Init => Types
<1> SUFFICES ASSUME Init PROVE Types
    OBVIOUS
<1>1. CaptureTypeOK
    BY DEF Init, CaptureInit, CaptureTypeOK, Entry
<1>2. apps \in Seq(Application) /\ DOMAIN apps = {}
    BY DEF Init
<1>3. board.shown \in [{} -> Stages]
    BY DEF Init
<1>4. board \in Board
    BY <1>2, <1>3 DEF Init, Board
<1>5. AppsKnown
    BY DEF Init, CaptureInit, Free, AppsKnown
<1> QED BY <1>1, <1>2, <1>4, <1>5 DEF Types, TypeOK, Init

\* The capture side: the extension, its pages and capture_job leave the board alone, and
\* their requests are not the board's.
LEMMA CaptureTypes ==
    ASSUME Types, PagesWait, CaptureNext, UNCHANGED boardVars
    PROVE  Types'
<1> USE SavedIsAStage DEF Types
<1>1. ASSUME CaptureTypeOK', AppsKnown' PROVE Types'
    BY <1>1 DEF TypeOK, boardVars, Board
<1>2. ASSUME CaptureTypeOK', UNCHANGED request PROVE Types'
    BY <1>1, <1>2 DEF AppsKnown, boardVars
<1>3. ASSUME NEW r \in Requests, request[r].op = "capture" \/ request[r] = Free,
             request'[r].op = "capture" \/ request'[r] = Free,
             \A s \in Requests \ {r} : request'[s] = request[s], CaptureTypeOK'
      PROVE  Types'
    BY <1>1, <1>3 DEF AppsKnown, boardVars, Free
<1>4. ASSUME NEW c \in Captures, Capture(c) \/ Expires(c) \/ Finish(c) PROVE Types'
    <2>1. store' \in [Captures -> Entry] /\ finishing' \subseteq Captures
        BY <1>4 DEF Capture, Expires, Finish, Purged, TypeOK, CaptureTypeOK, Entry
    <2>2. tab' \in [Tabs -> {Closed} \cup Tab]
        BY <1>4 DEF Capture, Expires, Finish, Opened, TypeOK, CaptureTypeOK, Tab
    <2>3. CaptureTypeOK'
        BY <1>4, <2>1, <2>2 DEF Capture, Expires, Finish, TypeOK, CaptureTypeOK
    <2> QED BY <1>2, <1>4, <2>3 DEF Capture, Expires, Finish
<1>5. ASSUME NEW t \in Tabs, Read(t) \/ ReadFails(t) PROVE Types'
    <2>1. CaptureTypeOK'
        BY <1>5 DEF Read, ReadFails, TypeOK, CaptureTypeOK, Entry, Tab, Closed
    <2> QED BY <1>2, <1>5, <2>1 DEF Read, ReadFails
<1>6. ASSUME NEW t \in Tabs, Close(t) PROVE Types'
    <2>1. request' = Deserted(t)
        BY <1>6 DEF Close
    <2>2. tab' \in [Tabs -> {Closed} \cup Tab]
        BY <1>6 DEF Close, TypeOK, CaptureTypeOK
    <2>9. request' \in [Requests -> {Free} \cup Request]
        BY <2>1, DesertedKeeps
    <2>3. CaptureTypeOK'
        BY <1>6, <2>2, <2>9 DEF Close, TypeOK, CaptureTypeOK
    <2>4. AppsKnown'
        BY <2>1, DesertedKeeps DEF AppsKnown, boardVars
    <2> QED BY <1>1, <2>3, <2>4
<1>7. ASSUME NEW t \in Tabs, NEW c \in Captures, Reopen(t, c) PROVE Types'
    <2>1. CaptureTypeOK'
        BY <1>7 DEF Reopen, Opened, TypeOK, CaptureTypeOK, Tab
    <2> QED BY <1>2, <1>7, <2>1 DEF Reopen
<1>8. ASSUME NEW t \in Tabs, NEW r \in Requests, Submit(t, r) PROVE Types'
    <2>1. tab[t] \in Tab /\ account \in Users
        BY <1>8 DEF Submit, TypeOK, CaptureTypeOK, Closed
    <2>2. tab' \in [Tabs -> {Closed} \cup Tab]
        BY <1>8, <2>1 DEF Submit, TypeOK, CaptureTypeOK, Tab
    <2>3. request'[r] \in Request /\ request'[r].op = "capture"
        BY <1>8, <2>1 DEF Submit, TypeOK, CaptureTypeOK, Tab, Request
    <2>4. request' \in [Requests -> {Free} \cup Request]
        BY <1>8, <2>3 DEF Submit, TypeOK, CaptureTypeOK
    <2>5. CaptureTypeOK'
        BY <1>8, <2>2, <2>4 DEF Submit, TypeOK, CaptureTypeOK
    <2>6. \A s \in Requests \ {r} : request'[s] = request[s]
        BY <1>8 DEF Submit, TypeOK, CaptureTypeOK
    <2> QED BY <1>3, <1>8, <2>3, <2>5, <2>6 DEF Submit
<1>9. ASSUME NEW u \in Users, SwitchAccount(u) PROVE Types'
    <2>1. CaptureTypeOK'
        BY <1>9 DEF SwitchAccount, captureVars, TypeOK, CaptureTypeOK
    <2> QED BY <1>2, <1>9, <2>1 DEF SwitchAccount
<1>10. ASSUME NEW r \in Requests, NEW status, request[r].op = "capture",
              request[r].from \in Tabs, Submitted(request[r].from, status)
       PROVE  tab' \in [Tabs -> {Closed} \cup Tab] /\ finishing' \subseteq Captures
    <2>1. tab[request[r].from] \in Tab
        BY <1>10 DEF PagesWait, TypeOK, CaptureTypeOK, Closed
    <2> QED BY <1>10, <2>1 DEF Submitted, After, Tab, TypeOK, CaptureTypeOK
<1>11. ASSUME NEW r \in Requests, CaptureAnswered(r) PROVE Types'
    <2>1. request[r].op = "capture"
        BY <1>11 DEF CaptureAnswered, At
    <2>2. tab' \in [Tabs -> {Closed} \cup Tab] /\ finishing' \subseteq Captures
        BY <1>10, <1>11, <2>1 DEF CaptureAnswered, TypeOK, CaptureTypeOK
    <2>3. CaptureTypeOK'
        BY <1>11, <2>2, FreeKeeps DEF CaptureAnswered, TypeOK, CaptureTypeOK
    <2> QED BY <1>3, <1>11, <2>1, <2>3, FreeKeeps DEF CaptureAnswered
<1>12. ASSUME NEW r \in Requests, CaptureLost(r) PROVE Types'
    <2>1. request[r].op = "capture" /\ request[r] \in Request
        BY <1>12, UnderWay DEF CaptureLost
    <2>2. tab' \in [Tabs -> {Closed} \cup Tab] /\ finishing' \subseteq Captures
        BY <1>10, <1>12 DEF CaptureLost
    <2>3. CASE request' = [request EXCEPT ![r].from = "nobody"]
        <3>1. /\ request'[r] \in Request /\ request'[r].op = "capture"
              /\ request' \in [Requests -> {Free} \cup Request]
              /\ \A s \in Requests \ {r} : request'[s] = request[s]
            BY <2>1, <2>3 DEF TypeOK, CaptureTypeOK, Request
        <3>2. CaptureTypeOK'
            BY <1>12, <2>2, <3>1 DEF CaptureLost, TypeOK, CaptureTypeOK
        <3> QED BY <1>3, <2>1, <3>1, <3>2
    <2>4. CASE request' = [request EXCEPT ![r] = Free]
        <3>1. CaptureTypeOK'
            BY <1>12, <2>2, <2>4, FreeKeeps DEF CaptureLost, TypeOK, CaptureTypeOK
        <3> QED BY <1>3, <2>1, <2>4, <3>1, FreeKeeps
    <2> QED BY <1>12, <2>3, <2>4 DEF CaptureLost
<1>13. ASSUME NEW r \in Requests, CaptureGet(r) \/ CaptureCommit(r) \/ CaptureReread(r)
       PROVE  Types'
    <2>1. request[r].op = "capture" /\ request[r] \in Request
        BY <1>13, UnderWay DEF CaptureGet, CaptureCommit, CaptureReread, At
    <2>2. \/ Goes(r, "commit") \/ Goes(r, "reread")
          \/ \E status \in {"ok", "taken", "error"} : Answers(r, status)
        BY <1>13 DEF CaptureGet, CaptureCommit, CaptureReread
    <2>3. /\ request' \in [Requests -> {Free} \cup Request]
          /\ request'[r].op = "capture"
          /\ \A s \in Requests \ {r} : request'[s] = request[s]
        <3>1. CASE \E at \in {"commit", "reread"} : Goes(r, at)
            BY <2>1, <3>1, GoesKeeps
        <3>2. CASE \E status \in {"ok", "taken", "error"} : Answers(r, status)
            BY <2>1, <3>2, AnswersKeeps
        <3> QED BY <2>2, <3>1, <3>2
    <2>4. jobs' \subseteq Job
        BY <1>13, <2>1 DEF CaptureGet, CaptureCommit, CaptureReread, TypeOK, CaptureTypeOK,
                           Request, Job
    <2>5. CaptureTypeOK'
        BY <1>13, <2>3, <2>4 DEF CaptureGet, CaptureCommit, CaptureReread, captureVars,
                                 TypeOK, CaptureTypeOK
    <2> QED BY <1>3, <2>1, <2>3, <2>5
<1> QED BY <1>4, <1>5, <1>6, <1>7, <1>8, <1>9, <1>11, <1>12, <1>13 DEF CaptureNext

LEMMA AppIs ==
    ASSUME Types, NEW i \in DOMAIN apps
    PROVE  apps[i] \in Application /\ i \in Nat
<1>1. apps \in Seq(Application) /\ DOMAIN apps = 1..Len(apps)
    BY LenProperties DEF Types, TypeOK
<1> QED BY <1>1, LenProperties

\* What the page shows are applications that are there.
LEMMA ShownIs ==
    ASSUME Types
    PROVE  /\ board.shown \in [DOMAIN board.shown -> Stages]
           /\ DOMAIN board.shown \subseteq DOMAIN apps
BY DEF Types, TypeOK, Board

LEMMA ShowsOthers ==
    ASSUME Types, NEW S \in SUBSET (DOMAIN apps), NEW shown \in [S -> Stages]
    PROVE  [board EXCEPT !.shown = shown] \in Board
BY DEF Types, TypeOK, Board

LEMMA ShowsOneMore ==
    ASSUME Types, NEW i \in DOMAIN apps, NEW s \in Stages
    PROVE  [board EXCEPT !.shown = With(i, s)] \in Board
<1>1. DOMAIN board.shown \cup {i} \in SUBSET (DOMAIN apps)
    BY ShownIs
<1>2. With(i, s) \in [DOMAIN board.shown \cup {i} -> Stages]
    BY ShownIs DEF With
<1> QED BY <1>1, <1>2, ShowsOthers

\* Applications are only added.
LEMMA BoardGrows ==
    ASSUME NEW b \in Board, DOMAIN apps \subseteq DOMAIN apps'
    PROVE  b \in Board'
<1>1. PICK S \in SUBSET (DOMAIN apps) : b.shown \in [S -> Stages]
    BY DEF Board
<1>2. b.shown \in UNION {[T -> Stages] : T \in SUBSET (DOMAIN apps')}
    BY <1>1
<1> QED BY <1>2 DEF Board

LEMMA BoardTypes == ASSUME Types, BoardNext PROVE Types'
<1> USE SavedIsAStage DEF Types
<1> DEFINE Still == UNCHANGED <<account, captureVars, jobs>>
           Typed == request' \in [Requests -> {Free} \cup Request]
<1>1. ASSUME Still, Typed, apps' \in Seq(Application), DOMAIN apps \subseteq DOMAIN apps',
             board' \in Board, mixed' \subseteq DOMAIN apps', AppsKnown'
      PROVE  Types'
    <2>1. board' \in Board'
        BY <1>1, BoardGrows
    <2>2. CaptureTypeOK'
        BY <1>1 DEF TypeOK, CaptureTypeOK, captureVars
    <2> QED BY <1>1, <2>1, <2>2 DEF TypeOK
<1>2. ASSUME Still, UNCHANGED <<request, apps, mixed>>, board' \in Board PROVE Types'
    BY <1>1, <1>2 DEF TypeOK, CaptureTypeOK, AppsKnown
<1>3. CASE OpenBoard
    BY <1>2, <1>3 DEF OpenBoard, TypeOK, Board
<1>4. CASE LoadApplications
    <2> DEFINE own == {i \in DOMAIN apps : apps[i].owner = account}
               shown == [i \in own |-> apps[i].stage]
    <2>1. own \in SUBSET (DOMAIN apps) /\ shown \in [own -> Stages]
        BY AppIs DEF Application
    <2>2. [board EXCEPT !.shown = shown] \in Board
        BY <2>1, ShowsOthers
    <2> HIDE DEF shown
    <2>3. board' = [[board EXCEPT !.shown = shown]
                       EXCEPT !.got = @ \cup {"applications"}, !.at = Loaded("applications")]
        BY <1>4 DEF LoadApplications, shown, TypeOK, Board
    <2>4. board' \in Board
        BY <2>2, <2>3 DEF Board, Loaded
    <2> QED BY <1>2, <1>4, <2>4 DEF LoadApplications
<1>5. CASE LoadJobs
    <2>1. {j.id : j \in {k \in jobs : k.owner = account}} \subseteq Captures
        BY DEF TypeOK, CaptureTypeOK, Job
    <2>2. board' \in Board
        BY <1>5, <2>1 DEF LoadJobs, Loaded, TypeOK, Board
    <2> QED BY <1>2, <1>5, <2>2 DEF LoadJobs
<1>6. ASSUME NEW r \in Requests, NEW c \in Captures, TrackJob(r, c) PROVE Types'
    <2>1. request'[r] \in Request /\ request'[r].op = "track" /\ request'[r].at = "get"
        BY <1>6 DEF TrackJob, TypeOK, CaptureTypeOK, Request
    <2>2. Typed /\ \A s \in Requests \ {r} : request'[s] = request[s]
        BY <1>6, <2>1 DEF TrackJob, TypeOK, CaptureTypeOK
    <2>3. AppsKnown'
        BY <1>6, <2>1, <2>2 DEF TrackJob, boardVars, AppsKnown
    <2> QED BY <1>1, <1>6, <2>2, <2>3 DEF TrackJob, boardVars, TypeOK
<1>7. ASSUME NEW r \in Requests, NEW i \in DOMAIN apps, NEW s \in Stages, SetStage(r, i, s)
      PROVE  Types'
    <2>1. board.shown[i] \in Stages /\ apps[i].job \in Captures /\ account \in Users
          /\ i \in Nat
        BY <1>7, ShownIs, AppIs DEF SetStage, TypeOK, CaptureTypeOK, Application
    <2>2. request'[r] \in Request /\ request'[r].op = "patch" /\ request'[r].app = i
        BY <1>7, <2>1 DEF SetStage, TypeOK, CaptureTypeOK, Request
    <2>3. Typed /\ \A q \in Requests \ {r} : request'[q] = request[q]
        BY <1>7, <2>2 DEF SetStage, TypeOK, CaptureTypeOK
    <2>4. AppsKnown'
        BY <1>7, <2>2, <2>3 DEF SetStage, AppsKnown
    <2>5. [board.shown EXCEPT ![i] = s] \in [DOMAIN board.shown -> Stages]
        BY ShownIs
    <2>6. board' \in Board
        BY <1>7, <2>5, ShownIs, ShowsOthers DEF SetStage, TypeOK, Board
    <2> QED BY <1>1, <1>7, <2>3, <2>4, <2>6 DEF SetStage, TypeOK
<1>8. ASSUME NEW r \in Requests, BoardAnswered(r) PROVE Types'
    <2>1. request[r] \in Request
        BY <1>8, UnderWay DEF BoardAnswered
    <2>2. board' \in Board
        <3>1. CASE request[r].from = "board" /\ request[r].op = "track"
            <4>1. request[r].status = "ok" => request[r].app \in DOMAIN apps
                BY <1>8, <3>1 DEF BoardAnswered, AppsKnown
            <4>2. TrackAnswered(request[r])
                BY <1>8, <3>1, PagesAreTold DEF BoardAnswered
            <4> QED BY <2>1, <4>1, <4>2, ShowsOneMore DEF TrackAnswered, TypeOK, Request
        <3>2. CASE request[r].from = "board" /\ request[r].op = "patch"
            <4>1. request[r].app \in DOMAIN apps
                BY <3>2 DEF AppsKnown
            <4>2. StageAnswered(request[r])
                BY <1>8, <3>2 DEF BoardAnswered
            <4> QED BY <2>1, <4>1, <4>2, ShowsOneMore DEF StageAnswered, Request
        <3> QED BY <1>8, <3>1, <3>2 DEF BoardAnswered, TypeOK
    <2>3. AppsKnown'
        BY <1>8, FreeKeeps DEF BoardAnswered, AppsKnown, Free
    <2> QED BY <1>1, <1>8, <2>2, <2>3, FreeKeeps DEF BoardAnswered, TypeOK, captureVars
<1>9. ASSUME NEW r \in Requests, BoardLost(r) PROVE Types'
    <2>1. request[r] \in Request
        BY <1>9, UnderWay DEF BoardLost
    <2>2. /\ Typed
          /\ request'[r].op = request[r].op /\ request'[r].at = request[r].at
          /\ request'[r].status = request[r].status /\ request'[r].app = request[r].app
          /\ \A s \in Requests \ {r} : request'[s] = request[s]
        BY <1>9, <2>1 DEF BoardLost, TypeOK, CaptureTypeOK, Request
    <2>3. AppsKnown'
        BY <1>9, <2>2 DEF BoardLost, AppsKnown
    <2>4. board' \in Board /\ mixed' \subseteq DOMAIN apps
        <3>1. CASE request[r].op = "patch"
            <4>1. request[r].app \in DOMAIN apps
                BY <3>1 DEF AppsKnown
            <4>2. StageAnswered([request[r] EXCEPT !.status = "error"])
                BY <1>9, <3>1 DEF BoardLost
            <4>3. board' = [board EXCEPT !.shown = With(request[r].app, request[r].before)]
                BY <2>1, <4>2 DEF StageAnswered, Request
            <4> QED BY <1>9, <2>1, <3>1, <4>1, <4>3, ShowsOneMore
                    DEF BoardLost, TypeOK, Request
        <3>2. CASE request[r].op # "patch"
            BY <1>9, <3>2 DEF BoardLost, TypeOK
        <3> QED BY <3>1, <3>2
    <2> QED BY <1>1, <1>9, <2>2, <2>3, <2>4 DEF BoardLost, TypeOK
<1>10. ASSUME NEW r \in Requests, request[r].op \in {"track", "patch"}, UNCHANGED boardVars,
              Still, Typed, \A s \in Requests \ {r} : request'[s] = request[s],
              request'[r].op = request[r].op,
              \/ request'[r].op = "track" /\ request'[r].at # "refresh"
                    /\ (request'[r].at # "answer" \/ request'[r].status # "ok")
              \/ request'[r].app \in DOMAIN apps
       PROVE  Types'
    <2>1. AppsKnown'
        BY <1>10 DEF AppsKnown, boardVars
    <2> QED BY <1>1, <1>10, <2>1 DEF boardVars, TypeOK
<1>11. ASSUME NEW r \in Requests, BoardFails(r) PROVE Types'
    <2>1. request[r] \in Request /\ Answers(r, "error")
        BY <1>11, UnderWay DEF BoardFails
    <2>2. request'[r].app = request[r].app
        BY <2>1, AnswersKeeps DEF Request
    <2>3. request[r].op = "patch" => request[r].app \in DOMAIN apps
        BY DEF AppsKnown
    <2> QED BY <1>10, <1>11, <2>1, <2>2, <2>3, AnswersKeeps DEF BoardFails, captureVars
<1>12. ASSUME NEW r \in Requests, TrackGet(r) PROVE Types'
    <2>1. request[r] \in Request /\ request[r].op = "track"
        BY <1>12, UnderWay DEF TrackGet, At
    <2>2. CASE Answers(r, "error")
        BY <1>10, <1>12, <2>1, <2>2, AnswersKeeps DEF TrackGet
    <2>3. CASE Goes(r, "commit")
        BY <1>10, <1>12, <2>1, <2>3, GoesKeeps DEF TrackGet
    <2>4. ASSUME NEW i \in AppOf(request[r].job),
                 request' = [request EXCEPT ![r].at = "answer", ![r].status = "ok",
                                            ![r].app = i, ![r].stage = apps[i].stage]
          PROVE  Types'
        <3>1. i \in DOMAIN apps /\ i \in Nat /\ apps[i].stage \in Stages
            BY AppIs DEF AppOf, Application
        <3>2. request'[r] \in Request /\ request'[r].op = "track" /\ request'[r].app = i
            BY <2>1, <2>4, <3>1 DEF Request, TypeOK, CaptureTypeOK
        <3>3. Typed /\ \A s \in Requests \ {r} : request'[s] = request[s]
            BY <2>4, <3>2 DEF TypeOK, CaptureTypeOK
        <3> QED BY <1>10, <1>12, <2>1, <3>1, <3>2, <3>3 DEF TrackGet
    <2> QED BY <1>12, <2>2, <2>3, <2>4 DEF TrackGet
<1>13. ASSUME NEW r \in Requests, TrackCommit(r) PROVE Types'
    <2>1. request[r] \in Request /\ request[r].op = "track"
        BY <1>13, UnderWay DEF TrackCommit, At
    <2>2. CASE AppOf(request[r].job) = {}
        <3> DEFINE new == [job |-> request[r].job, owner |-> request[r].user, stage |-> Saved]
        <3>1. new \in Application
            BY <2>1 DEF Request, Application
        <3> HIDE DEF new
        <3>2. apps' = Append(apps, new) /\ apps \in Seq(Application)
            BY <1>13, <2>2 DEF TrackCommit, Insert, TypeOK, new
        <3>3. /\ apps' \in Seq(Application) /\ Len(apps') \in Nat
              /\ DOMAIN apps \subseteq DOMAIN apps' /\ Len(apps') \in DOMAIN apps'
            BY <3>1, <3>2, AppendProperties, LenProperties
        <3>4. request' = [request EXCEPT ![r].at = "refresh", ![r].app = Len(apps')]
            BY <1>13, <2>2 DEF TrackCommit, Insert
        <3>5. /\ request'[r] \in Request /\ request'[r].op = "track"
              /\ request'[r].app = Len(apps')
            BY <2>1, <3>3, <3>4 DEF Request, TypeOK, CaptureTypeOK
        <3>6. Typed /\ \A s \in Requests \ {r} : request'[s] = request[s]
            BY <3>4, <3>5 DEF TypeOK, CaptureTypeOK
        <3>7. AppsKnown'
            BY <3>3, <3>5, <3>6 DEF AppsKnown
        <3> QED BY <1>1, <1>13, <3>3, <3>6, <3>7 DEF TrackCommit, TypeOK
    <2>3. CASE AppOf(request[r].job) # {}
        <3>1. Answers(r, "error") /\ UNCHANGED <<apps, board, mixed>> /\ Still
            BY <1>13, <2>3 DEF TrackCommit
        <3> QED BY <1>10, <2>1, <3>1, AnswersKeeps DEF boardVars
    <2> QED BY <2>2, <2>3
<1>14. ASSUME NEW r \in Requests, PatchGet(r) PROVE Types'
    <2>1. request[r] \in Request /\ request[r].op = "patch" /\ request[r].app \in DOMAIN apps
        BY <1>14, UnderWay DEF PatchGet, At, AppsKnown
    <2>2. CASE Answers(r, "error")
        <3>1. request'[r].app = request[r].app
            BY <2>1, <2>2, AnswersKeeps DEF Request
        <3> QED BY <1>10, <1>14, <2>1, <2>2, <3>1, AnswersKeeps DEF PatchGet
    <2>3. CASE request' = [request EXCEPT ![r].at = "commit",
                                          ![r].loaded = apps[request[r].app].stage]
        <3>1. apps[request[r].app].stage \in Stages
            BY <2>1, AppIs DEF Application
        <3>2. /\ request'[r] \in Request /\ request'[r].op = "patch"
              /\ request'[r].app = request[r].app
            BY <2>1, <2>3, <3>1 DEF Request, TypeOK, CaptureTypeOK
        <3>3. Typed /\ \A s \in Requests \ {r} : request'[s] = request[s]
            BY <2>3, <3>2 DEF TypeOK, CaptureTypeOK
        <3> QED BY <1>10, <1>14, <2>1, <3>2, <3>3 DEF PatchGet
    <2> QED BY <1>14, <2>2, <2>3 DEF PatchGet
<1>15. ASSUME NEW r \in Requests, PatchCommit(r) PROVE Types'
    <2>1. request[r] \in Request /\ request[r].op = "patch" /\ request[r].app \in DOMAIN apps
        BY <1>15, UnderWay DEF PatchCommit, At, AppsKnown
    <2>2. apps' \in Seq(Application) /\ DOMAIN apps' = DOMAIN apps
        <3> DEFINE i == request[r].app
                   s == request[r].stage
        <3>1. [apps[i] EXCEPT !.stage = s] \in Application
            BY <2>1, AppIs DEF Application, Request
        <3>2. apps' = apps \/ apps' = [apps EXCEPT ![i] = [apps[i] EXCEPT !.stage = s]]
            BY <1>15 DEF PatchCommit
        <3> HIDE DEF i, s
        <3>3. apps \in Seq(Application)
            BY DEF TypeOK
        <3> QED BY <3>1, <3>2, <3>3, ExceptSeq
    <2>3. Goes(r, "refresh")
        BY <1>15 DEF PatchCommit
    <2>4. request'[r].app = request[r].app
        BY <2>1, <2>3, GoesKeeps DEF Request
    <2>5. AppsKnown'
        <3>1. request'[r].op = "patch" /\ \A s \in Requests \ {r} : request'[s] = request[s]
            BY <2>1, <2>3, GoesKeeps
        <3> QED BY <2>1, <2>2, <2>4, <3>1 DEF AppsKnown
    <2> QED BY <1>1, <1>15, <2>1, <2>2, <2>3, <2>5, GoesKeeps DEF PatchCommit, TypeOK
<1>16. ASSUME NEW r \in Requests, Refresh(r) PROVE Types'
    <2>1. request[r] \in Request /\ request[r].app \in DOMAIN apps
        BY <1>16, UnderWay DEF Refresh, AppsKnown
    <2>2. apps[request[r].app].stage \in Stages
        BY <2>1, AppIs DEF Application
    <2>3. /\ request'[r] \in Request /\ request'[r].op = request[r].op
          /\ request'[r].app = request[r].app
        BY <1>16, <2>1, <2>2, SavedIsAStage DEF Refresh, Request, TypeOK, CaptureTypeOK
    <2>4. Typed /\ \A s \in Requests \ {r} : request'[s] = request[s]
        BY <1>16, <2>3 DEF Refresh, TypeOK, CaptureTypeOK
    <2> QED BY <1>10, <1>16, <2>1, <2>3, <2>4 DEF Refresh
<1> QED BY <1>3, <1>4, <1>5, <1>6, <1>7, <1>8, <1>9, <1>11, <1>12, <1>13, <1>14, <1>15, <1>16
        DEF BoardNext

-----------------------------------------------------------------------------
(* What keeps the rest of the invariant when most of the state stays. *)

\* A row is added under an id that had none.
Grow ==
    \/ jobs' = jobs
    \/ \E c, u : Row(c) = {} /\ jobs' = jobs \cup {[id |-> c, owner |-> u]}

LEMMA SeenStays ==
    ASSUME Grow, NEW c, NEW u
    PROVE  /\ Row(c) # {} => Row(c)' # {}
           /\ Owned(c, u) => Owned(c, u)'
           /\ Row(c) # {} /\ ~Owned(c, u) => ~Owned(c, u)'
BY DEF Grow, Row, Owned

LEMMA SeesStays ==
    ASSUME Grow, NEW r \in Requests, Sees(request[r]),
           \/ request'[r] = request[r]
           \/ /\ request'[r].op = request[r].op /\ request'[r].at = request[r].at
              /\ request'[r].status = request[r].status
              /\ request'[r].job = request[r].job /\ request'[r].user = request[r].user
    PROVE  Sees(request[r])'
BY SeenStays DEF Sees

LEMMA SeenKept ==
    ASSUME SeenHolds, Grow, NEW r \in Requests, Sees(request[r])',
           \A s \in Requests \ {r} : request'[s] = request[s]
    PROVE  SeenHolds'
BY SeesStays DEF SeenHolds

LEMMA WaitKept ==
    ASSUME PagesWait, NEW r \in Requests, SameCall(r), UNCHANGED tab,
           \A s \in Requests \ {r} : request'[s] = request[s]
    PROVE  PagesWait'
BY DEF PagesWait, SameCall

LEMMA StoredKept ==
    ASSUME IInv, Grow, UNCHANGED captureVars
    PROVE  FinishStored' /\ ForgottenOnlyOnceStored' /\ PageSaysWhatIsStored'
BY SeenStays DEF IInv, captureVars, FinishStored, ForgottenOnlyOnceStored, PageSaysWhatIsStored

LEMMA AppsKept ==
    ASSUME IInv, Grow, UNCHANGED apps
    PROVE  OneApplicationPerJob'
BY SeenStays DEF IInv, OneApplicationPerJob

-----------------------------------------------------------------------------
(* Each step keeps the rest of the invariant. *)

Rest ==
    /\ SeenHolds
    /\ PagesWait
    /\ FinishStored
    /\ ForgottenOnlyOnceStored
    /\ PageSaysWhatIsStored
    /\ OneApplicationPerJob

\* The extension, and pages that come and go.
LEMMA PagesKeep ==
    ASSUME IInv, UNCHANGED <<jobs, apps>>,
           \/ \E c \in Captures : Capture(c) \/ Expires(c) \/ Finish(c)
           \/ \E t \in Tabs : Read(t) \/ ReadFails(t) \/ Close(t)
           \/ \E t \in Tabs, c \in Captures : Reopen(t, c)
           \/ \E u \in Users : SwitchAccount(u)
    PROVE  Rest'
<1> USE DEF IInv
<1>1. OneApplicationPerJob' /\ Grow
    BY AppsKept DEF Grow
<1>2. ASSUME UNCHANGED request PROVE SeenHolds'
    BY <1>1, <1>2, SeesStays DEF SeenHolds
<1>3. ASSUME NEW c \in Captures, Capture(c) \/ Expires(c) \/ Finish(c) PROVE Rest'
    <2>1. PagesWait'
        BY <1>3 DEF Capture, Expires, Finish, Opened, PagesWait, Types, TypeOK, CaptureTypeOK
    <2>2. FinishStored'
        BY <1>3 DEF Capture, Expires, Finish, FinishStored, Row
    <2>3. ForgottenOnlyOnceStored'
        BY <1>3 DEF Capture, Expires, Finish, Purged, ForgottenOnlyOnceStored, FinishStored,
                    Row, Types, TypeOK, CaptureTypeOK
    <2>4. PageSaysWhatIsStored'
        BY <1>3 DEF Capture, Expires, Finish, Opened, PageSaysWhatIsStored, Row, Owned,
                    Types, TypeOK, CaptureTypeOK
    <2>5. UNCHANGED request
        BY <1>3 DEF Capture, Expires, Finish
    <2> QED BY <1>1, <1>2, <2>1, <2>2, <2>3, <2>4, <2>5 DEF Rest
<1>4. ASSUME NEW t \in Tabs, Read(t) \/ ReadFails(t) PROVE Rest'
    <2>1. PagesWait'
        BY <1>4 DEF Read, ReadFails, PagesWait, Types, TypeOK, CaptureTypeOK
    <2>2. FinishStored'
        BY <1>4 DEF Read, ReadFails, FinishStored, Row
    <2>3. ForgottenOnlyOnceStored'
        BY <1>4 DEF Read, ReadFails, ForgottenOnlyOnceStored, Row, Types, TypeOK, CaptureTypeOK
    <2>4. PageSaysWhatIsStored'
        BY <1>4 DEF Read, ReadFails, PageSaysWhatIsStored, Row, Owned, Types, TypeOK,
                    CaptureTypeOK, Tab, Closed
    <2>5. UNCHANGED request
        BY <1>4 DEF Read, ReadFails
    <2> QED BY <1>1, <1>2, <2>1, <2>2, <2>3, <2>4, <2>5 DEF Rest
<1>5. ASSUME NEW t \in Tabs, Close(t) PROVE Rest'
    <2>1. request' = Deserted(t) /\ tab' = [tab EXCEPT ![t] = Closed]
        BY <1>5 DEF Close
    <2>2. SeenHolds'
        <3>1. ASSUME NEW s \in Requests PROVE Sees(request[s])'
            <4>1. CASE request[s].op = "none"
                BY <2>1, <4>1, DesertedKeeps DEF Sees
            <4>2. CASE request[s].op # "none" /\ request'[s] = request[s]
                BY <1>1, <4>2, SeesStays DEF SeenHolds
            <4>3. CASE request[s].op # "none" /\ request'[s] # request[s]
                <5>1. /\ request'[s].op = request[s].op /\ request'[s].at = request[s].at
                      /\ request'[s].status = request[s].status
                      /\ request'[s].job = request[s].job /\ request'[s].user = request[s].user
                    BY <2>1, <4>3, DesertedKeeps
                <5> QED BY <1>1, <5>1, SeesStays DEF SeenHolds
            <4> QED BY <4>1, <4>2, <4>3
        <3> QED BY <3>1 DEF SeenHolds
    <2>3. ASSUME NEW s \in Requests, request'[s].op # "none", request'[s].from \in Tabs
          PROVE  request'[s] = request[s] /\ request[s].from # t
        <3>1. CASE request[s] \in Request /\ request'[s] = [request[s] EXCEPT !.from = "nobody"]
            <4>1. request'[s].from = "nobody"
                BY <3>1 DEF Request
            <4> QED BY <2>3, <4>1, PagesAreTold
        <3>2. CASE request'[s] = request[s] /\ (request[s] = Free \/ request[s].from # t)
            BY <2>3, <3>2 DEF Free
        <3> QED BY <2>1, <3>1, <3>2, DesertedKeeps
    <2>4. PagesWait'
        <3>1. \A u \in Tabs : u # t => tab'[u] = tab[u]
            BY <2>1 DEF Types, TypeOK, CaptureTypeOK
        <3>2. ASSUME NEW s \in Requests, request'[s].op \in {"track", "patch"}
              PROVE  request'[s].from \notin Tabs
            BY <2>3, <3>2 DEF PagesWait
        <3>3. ASSUME NEW s \in Requests, request'[s].op = "capture", request'[s].from \in Tabs
              PROVE  /\ tab'[request'[s].from].at = "saving"
                     /\ tab'[request'[s].from].id = request'[s].job
                     /\ tab'[request'[s].from].by = request'[s].user
                     /\ \A q \in Requests :
                           request'[q].op = "capture" /\ request'[q].from = request'[s].from
                           => q = s
            BY <2>3, <3>1, <3>3 DEF PagesWait
        <3> QED BY <3>2, <3>3 DEF PagesWait
    <2>5. FinishStored' /\ ForgottenOnlyOnceStored'
        BY <1>5 DEF Close, FinishStored, ForgottenOnlyOnceStored, Row
    <2>6. PageSaysWhatIsStored'
        BY <2>1 DEF PageSaysWhatIsStored, Row, Owned, Types, TypeOK, CaptureTypeOK, Closed
    <2> QED BY <1>1, <2>2, <2>4, <2>5, <2>6 DEF Rest
<1>6. ASSUME NEW t \in Tabs, NEW c \in Captures, Reopen(t, c) PROVE Rest'
    <2>1. PagesWait'
        BY <1>6 DEF Reopen, Opened, PagesWait, Types, TypeOK, CaptureTypeOK
    <2>2. FinishStored' /\ ForgottenOnlyOnceStored'
        BY <1>6 DEF Reopen, FinishStored, ForgottenOnlyOnceStored, Row
    <2>3. PageSaysWhatIsStored'
        BY <1>6 DEF Reopen, Opened, PageSaysWhatIsStored, Row, Owned, Types, TypeOK, CaptureTypeOK
    <2>4. UNCHANGED request
        BY <1>6 DEF Reopen
    <2> QED BY <1>1, <1>2, <2>1, <2>2, <2>3, <2>4 DEF Rest
<1>7. ASSUME NEW u \in Users, SwitchAccount(u) PROVE Rest'
    <2>1. UNCHANGED captureVars /\ UNCHANGED request
        BY <1>7 DEF SwitchAccount
    <2>2. PagesWait'
        BY <2>1 DEF PagesWait, captureVars
    <2> QED BY <1>1, <1>2, <2>1, <2>2, StoredKept DEF Rest
<1> QED BY <1>3, <1>4, <1>5, <1>6, <1>7

\* Submissions and their answers.
LEMMA SubmitKeeps ==
    ASSUME IInv, UNCHANGED <<jobs, apps>>, NEW t \in Tabs, NEW r \in Requests, Submit(t, r)
    PROVE  Rest'
<1> USE DEF IInv
<1>1. OneApplicationPerJob' /\ Grow
    BY AppsKept DEF Grow
<1>2. tab[t] \in Tab /\ tab[t].at \in {"shown", "refused"}
    BY DEF Submit, Types, TypeOK, CaptureTypeOK, Closed
<1>3. /\ tab'[t].at = "saving" /\ tab'[t].id = tab[t].id /\ tab'[t].by = account
      /\ \A u \in Tabs \ {t} : tab'[u] = tab[u]
    BY <1>2 DEF Submit, Types, TypeOK, CaptureTypeOK, Tab
<1>4. /\ request'[r].op = "capture" /\ request'[r].at = "get" /\ request'[r].from = t
      /\ request'[r].job = tab[t].id /\ request'[r].user = account
      /\ \A s \in Requests \ {r} : request'[s] = request[s]
    BY DEF Submit, Types, TypeOK, CaptureTypeOK
<1>5. SeenHolds'
    BY <1>1, <1>4, SeenKept DEF Sees
<1>6. \A s \in Requests : request[s].op = "capture" => request[s].from # t
    BY <1>2 DEF PagesWait
<1>7. PagesWait'
    <2>1. ASSUME NEW s \in Requests, request'[s].op \in {"track", "patch"}
          PROVE  request'[s].from \notin Tabs
        BY <1>4, <2>1 DEF PagesWait
    <2>2. ASSUME NEW s \in Requests, request'[s].op = "capture", request'[s].from \in Tabs
          PROVE  /\ tab'[request'[s].from].at = "saving"
                 /\ tab'[request'[s].from].id = request'[s].job
                 /\ tab'[request'[s].from].by = request'[s].user
                 /\ \A q \in Requests :
                       request'[q].op = "capture" /\ request'[q].from = request'[s].from
                       => q = s
        <3>1. CASE s = r
            BY <1>3, <1>4, <1>6, <3>1
        <3>2. CASE s # r
            BY <1>3, <1>4, <1>6, <2>2, <3>2 DEF PagesWait
        <3> QED BY <3>1, <3>2
    <2> QED BY <2>1, <2>2 DEF PagesWait
<1>8. FinishStored' /\ ForgottenOnlyOnceStored'
    BY DEF Submit, FinishStored, ForgottenOnlyOnceStored, Row
<1>9. PageSaysWhatIsStored'
    BY <1>3 DEF PageSaysWhatIsStored, Row, Owned
<1> QED BY <1>1, <1>5, <1>7, <1>8, <1>9 DEF Rest

\* The page of request r is told, and waits for it no longer.
LEMMA ToldKeeps ==
    ASSUME IInv, UNCHANGED <<store, jobs, apps>>, NEW r \in Requests, NEW status,
           request[r].op = "capture", request[r].from \in Tabs,
           Submitted(request[r].from, status),
           status \in {"ok", "taken"} => request[r].at = "answer" /\ request[r].status = status,
           \/ request'[r] = Free
           \/ /\ request'[r].op = "capture" /\ request'[r].from = "nobody"
              /\ Sees(request[r])',
           \A s \in Requests \ {r} : request'[s] = request[s]
    PROVE  Rest'
<1> USE DEF IInv
<1> DEFINE t == request[r].from
           c == request[r].job
           u == request[r].user
<1>1. OneApplicationPerJob' /\ Grow
    BY AppsKept DEF Grow
<1>2. /\ tab[t].at = "saving" /\ tab[t].id = c /\ tab[t].by = u
      /\ \A s \in Requests \ {r} : request[s].op = "capture" => request[s].from # t
    BY DEF PagesWait
<1>3. tab[t] \in Tab
    BY <1>2 DEF Types, TypeOK, CaptureTypeOK, Closed
<1>4. status = "ok" => Owned(c, u) /\ Row(c) # {}
    BY DEF SeenHolds, Sees, Owned
<1>5. status = "taken" => Row(c) # {} /\ ~Owned(c, u)
    BY DEF SeenHolds, Sees
<1>6. \A s \in Tabs \ {t} : tab'[s] = tab[s]
    BY DEF Submitted, Types, TypeOK, CaptureTypeOK
<1>7. /\ status = "ok" => tab'[t].at = "saved" /\ tab'[t].id = c /\ tab'[t].by = u
      /\ status = "taken" => tab'[t].at = "refused" /\ tab'[t].id = c /\ tab'[t].by = u
      /\ status \notin {"ok", "taken"} => tab'[t].at = "shown"
    BY <1>2, <1>3 DEF Submitted, After, Types, TypeOK, CaptureTypeOK, Tab
<1>8. SeenHolds'
    BY <1>1, SeenKept DEF Sees, Free
<1>9. PagesWait'
    <2>1. \/ request'[r].op = "none"
          \/ request'[r].op = "capture" /\ request'[r].from \notin Tabs
        <3>1. CASE request'[r] = Free
            BY <3>1 DEF Free
        <3>2. CASE request'[r].op = "capture" /\ request'[r].from = "nobody"
            BY <3>2, PagesAreTold
        <3> QED BY <3>1, <3>2
    <2>2. ASSUME NEW s \in Requests, request'[s].op \in {"track", "patch"}
          PROVE  request'[s].from \notin Tabs
        BY <2>1, <2>2 DEF PagesWait
    <2>3. ASSUME NEW s \in Requests, request'[s].op = "capture", request'[s].from \in Tabs
          PROVE  /\ tab'[request'[s].from].at = "saving"
                 /\ tab'[request'[s].from].id = request'[s].job
                 /\ tab'[request'[s].from].by = request'[s].user
                 /\ \A q \in Requests :
                       request'[q].op = "capture" /\ request'[q].from = request'[s].from
                       => q = s
        <3>1. s # r /\ request'[s] = request[s] /\ request[s].from # t
            BY <1>2, <2>1, <2>3
        <3>2. \A q \in Requests :
                 request'[q].op = "capture" /\ request'[q].from = request[s].from
                 => q # r /\ request'[q] = request[q]
            BY <2>1, <2>3, <3>1
        <3>3. tab'[request[s].from] = tab[request[s].from]
            BY <1>6, <2>3, <3>1
        <3> QED BY <2>3, <3>1, <3>2, <3>3 DEF PagesWait
    <2> QED BY <2>2, <2>3 DEF PagesWait
<1>10. FinishStored' /\ ForgottenOnlyOnceStored'
    BY <1>2, <1>4 DEF Submitted, FinishStored, ForgottenOnlyOnceStored, Row
<1>11. PageSaysWhatIsStored'
    BY <1>4, <1>5, <1>6, <1>7 DEF PageSaysWhatIsStored, Row, Owned
<1> QED BY <1>1, <1>8, <1>9, <1>10, <1>11 DEF Rest

\* The rest of the capture side: capture_job and its answers.
LEMMA CaptureKeeps == ASSUME IInv, CaptureNext, UNCHANGED boardVars PROVE Rest'
<1> USE DEF IInv
<1>1. UNCHANGED apps
    BY DEF boardVars
<1>2. ASSUME NEW r \in Requests, CaptureAnswered(r) PROVE Rest'
    <2>1. /\ request[r].op = "capture" /\ request[r].at = "answer"
          /\ UNCHANGED <<store, jobs, apps>> /\ request' = [request EXCEPT ![r] = Free]
        BY <1>1, <1>2 DEF CaptureAnswered, At
    <2>2. CASE request[r].from \in Tabs /\ Submitted(request[r].from, request[r].status)
        BY <2>1, <2>2, FreeKeeps, ToldKeeps
    <2>3. CASE UNCHANGED <<tab, finishing>>
        <3>1. Grow /\ UNCHANGED captureVars
            BY <2>1, <2>3 DEF Grow, captureVars
        <3>2. SeenHolds' /\ PagesWait'
            BY <2>1, <2>3, <3>1, FreeKeeps, SeenKept DEF Sees, Free, PagesWait
        <3> QED BY <2>1, <3>1, <3>2, StoredKept, AppsKept DEF Rest
    <2> QED BY <1>2, <2>2, <2>3 DEF CaptureAnswered
<1>3. ASSUME NEW r \in Requests, CaptureLost(r) PROVE Rest'
    <2>1. /\ request[r].op = "capture" /\ request[r] \in Request /\ request[r].from \in Tabs
          /\ UNCHANGED <<store, jobs, apps>> /\ Submitted(request[r].from, "error")
        BY <1>1, <1>3, UnderWay DEF CaptureLost
    <2>2. CASE request' = [request EXCEPT ![r].from = "nobody"]
        <3>1. /\ request'[r].op = "capture" /\ request'[r].from = "nobody"
              /\ request'[r].at = request[r].at /\ request'[r].status = request[r].status
              /\ request'[r].job = request[r].job /\ request'[r].user = request[r].user
              /\ \A s \in Requests \ {r} : request'[s] = request[s]
            BY <2>1, <2>2 DEF Types, TypeOK, CaptureTypeOK, Request
        <3>2. Sees(request[r])'
            BY <2>1, <3>1, SeesStays DEF SeenHolds, Grow
        <3> QED BY <2>1, <3>1, <3>2, ToldKeeps
    <2>3. CASE request' = [request EXCEPT ![r] = Free]
        BY <2>1, <2>3, FreeKeeps, ToldKeeps
    <2> QED BY <1>3, <2>2, <2>3 DEF CaptureLost
<1>4. ASSUME NEW r \in Requests, CaptureGet(r) \/ CaptureCommit(r) \/ CaptureReread(r)
      PROVE  Rest'
    <2>1. /\ request[r].op = "capture" /\ request[r] \in Request
          /\ UNCHANGED captureVars /\ UNCHANGED tab
        BY <1>4, UnderWay DEF CaptureGet, CaptureCommit, CaptureReread, At, captureVars
    <2>2. Grow
        BY <1>4 DEF CaptureGet, CaptureCommit, CaptureReread, Grow
    <2>3. /\ SameCall(r) /\ request'[r].op = "capture"
          /\ \A s \in Requests \ {r} : request'[s] = request[s]
        <3>1. CASE \E at \in {"commit", "reread"} : Goes(r, at)
            BY <2>1, <3>1, GoesKeeps DEF SameCall, Request
        <3>2. CASE \E status \in {"ok", "taken", "error"} : Answers(r, status)
            BY <2>1, <3>2, AnswersKeeps DEF SameCall, Request
        <3> QED BY <1>4, <3>1, <3>2 DEF CaptureGet, CaptureCommit, CaptureReread
    <2> DEFINE c == request[r].job
               u == request[r].user
    <2>4. Sees(request[r])'
        <3>0. request'[r].op = "capture" /\ request'[r].job = c /\ request'[r].user = u
            BY <2>1, <2>3 DEF SameCall
        <3>1. CASE CaptureGet(r)
            <4>0. /\ Owned(c, u) => Owned(request[r].job, request[r].user)'
                  /\ Row(c) # {} => Row(request[r].job)' # {}
                  /\ ~Owned(c, u) => ~Owned(request[r].job, request[r].user)'
                BY <3>0, <3>1 DEF CaptureGet, Row, Owned
            <4>1. CASE Goes(r, "commit")
                BY <2>1, <3>0, <4>1, GoesKeeps DEF Sees
            <4>2. CASE Answers(r, "error")
                BY <2>1, <3>0, <4>2, AnswersKeeps DEF Sees
            <4>3. CASE Answers(r, "ok") /\ Owned(c, u)
                BY <2>1, <3>0, <4>0, <4>3, AnswersKeeps DEF Sees
            <4>4. CASE Answers(r, "taken") /\ Row(c) # {} /\ ~Owned(c, u)
                BY <2>1, <3>0, <4>0, <4>4, AnswersKeeps DEF Sees
            <4> QED BY <3>1, <4>1, <4>2, <4>3, <4>4 DEF CaptureGet
        <3>2. CASE CaptureCommit(r)
            <4>1. CASE Row(c) = {}
                <5>1. Answers(r, "ok") /\ jobs' = jobs \cup {[id |-> c, owner |-> u]}
                    BY <3>2, <4>1 DEF CaptureCommit
                <5>2. [id |-> c, owner |-> u] \in jobs'
                    BY <5>1
                <5>3. request'[r].job = c /\ request'[r].user = u
                    BY <2>3 DEF SameCall
                <5>4. Owned(request[r].job, request[r].user)'
                    BY <5>2, <5>3 DEF Owned, Row
                <5> QED BY <2>1, <3>0, <5>1, <5>4, AnswersKeeps DEF Sees
            <4>2. CASE Row(c) # {}
                <5>1. Goes(r, "reread") /\ UNCHANGED jobs
                    BY <3>2, <4>2 DEF CaptureCommit
                <5>2. Row(request[r].job)' # {}
                    BY <3>0, <4>2, <5>1 DEF Row
                <5> QED BY <2>1, <3>0, <5>1, <5>2, GoesKeeps DEF Sees
            <4> QED BY <4>1, <4>2
        <3>3. CASE CaptureReread(r)
            <4>1. Row(c) # {} /\ UNCHANGED jobs
                BY <2>1, <3>3 DEF CaptureReread, At, SeenHolds, Sees
            <4>2. CASE Owned(c, u)
                <5>1. Answers(r, "ok")
                    BY <3>3, <4>2 DEF CaptureReread
                <5>2. Owned(request[r].job, request[r].user)'
                    BY <3>0, <4>1, <4>2 DEF Owned, Row
                <5> QED BY <2>1, <3>0, <5>1, <5>2, AnswersKeeps DEF Sees
            <4>3. CASE ~Owned(c, u)
                <5>1. Answers(r, "taken")
                    BY <3>3, <4>3 DEF CaptureReread
                <5>2. Row(request[r].job)' # {} /\ ~Owned(request[r].job, request[r].user)'
                    BY <3>0, <4>1, <4>3 DEF Owned, Row
                <5> QED BY <2>1, <3>0, <5>1, <5>2, AnswersKeeps DEF Sees
            <4> QED BY <4>2, <4>3
        <3> QED BY <1>4, <3>1, <3>2, <3>3
    <2>5. SeenHolds' /\ PagesWait'
        BY <2>1, <2>2, <2>3, <2>4, SeenKept, WaitKept
    <2> QED BY <1>1, <2>1, <2>2, <2>5, StoredKept, AppsKept DEF Rest
<1>5. ASSUME NEW t \in Tabs, NEW r \in Requests, Submit(t, r) PROVE Rest'
    BY <1>1, <1>5, SubmitKeeps DEF Submit
<1>6. CASE \/ \E c \in Captures : Capture(c) \/ Expires(c) \/ Finish(c)
           \/ \E t \in Tabs : Read(t) \/ ReadFails(t) \/ Close(t)
           \/ \E t \in Tabs, c \in Captures : Reopen(t, c)
           \/ \E u \in Users : SwitchAccount(u)
    <2>1. UNCHANGED <<jobs, apps>>
        BY <1>1, <1>6 DEF Capture, Expires, Finish, Read, ReadFails, Close, Reopen, SwitchAccount
    <2> QED BY <1>6, <2>1, PagesKeep
<1> QED BY <1>2, <1>3, <1>4, <1>5, <1>6 DEF CaptureNext

\* The board and the requests of its API.
LEMMA BoardKeeps == ASSUME IInv, BoardNext PROVE Rest'
<1> USE DEF IInv
<1>1. UNCHANGED captureVars /\ UNCHANGED jobs
    BY DEF BoardNext, OpenBoard, LoadApplications, LoadJobs, TrackJob, SetStage, BoardAnswered,
           BoardLost, TrackGet, TrackCommit, PatchGet, PatchCommit, Refresh, BoardFails
<1>2. Grow /\ UNCHANGED tab /\ FinishStored' /\ ForgottenOnlyOnceStored' /\ PageSaysWhatIsStored'
    BY <1>1, StoredKept DEF Grow, captureVars
<1>3. ASSUME OneApplicationPerJob', SeenHolds', PagesWait' PROVE Rest'
    BY <1>2, <1>3 DEF Rest
<1>4. ASSUME UNCHANGED <<request, apps>> PROVE Rest'
    <2>1. SeenHolds' /\ PagesWait'
        BY <1>2, <1>4, SeesStays DEF SeenHolds, PagesWait
    <2> QED BY <1>2, <1>3, <1>4, <2>1, AppsKept
<1>5. ASSUME NEW r \in Requests, OneApplicationPerJob',
             request[r] = Free \/ request[r].op \in {"track", "patch"},
             \/ request'[r] = Free
             \/ /\ request'[r].op \in {"track", "patch"} /\ request'[r].from \notin Tabs
                /\ Sees(request[r])',
             \A s \in Requests \ {r} : request'[s] = request[s]
      PROVE  Rest'
    <2>1. SeenHolds'
        BY <1>2, <1>5, SeenKept DEF Sees, Free
    <2>2. request[r].op # "capture" /\ request'[r].op # "capture"
        BY <1>5 DEF Free
    <2>3. request'[r].op \in {"track", "patch"} => request'[r].from \notin Tabs
        BY <1>5 DEF Free
    <2>4. PagesWait'
        BY <1>2, <1>5, <2>2, <2>3 DEF PagesWait
    <2> QED BY <1>3, <1>5, <2>1, <2>4
\* A request moves on: it is still of the board, and a track that is to insert has seen the job.
<1>6. ASSUME NEW r \in Requests, OneApplicationPerJob', request[r].op \in {"track", "patch"},
             SameCall(r),
             /\ request'[r].op = "track" /\ request'[r].at = "commit"
             => Owned(request[r].job, request[r].user),
             \A s \in Requests \ {r} : request'[s] = request[s]
      PROVE  Rest'
    <2>1. request'[r].from \notin Tabs /\ request'[r].op \in {"track", "patch"}
        BY <1>6 DEF PagesWait, SameCall
    <2>2. Owned(request[r].job, request[r].user) => Owned(request[r].job, request[r].user)'
        BY <1>1, <1>6 DEF SameCall, Owned, Row
    <2>3. Sees(request[r])'
        BY <1>6, <2>1, <2>2 DEF Sees
    <2> QED BY <1>5, <1>6, <2>1, <2>3
<1>7. CASE OpenBoard \/ LoadApplications \/ LoadJobs
    BY <1>4, <1>7 DEF OpenBoard, LoadApplications, LoadJobs
<1>8. ASSUME NEW r \in Requests,
             \/ \E c \in Captures : TrackJob(r, c)
             \/ \E i \in DOMAIN apps, s \in Stages : SetStage(r, i, s)
      PROVE  Rest'
    <2>1. /\ request[r] = Free /\ UNCHANGED apps
          /\ request'[r].op \in {"track", "patch"} /\ request'[r].from = "board"
          /\ request'[r].at = "get"
          /\ \A s \in Requests \ {r} : request'[s] = request[s]
        BY <1>8 DEF TrackJob, SetStage, boardVars, Types, TypeOK, CaptureTypeOK
    <2>2. request'[r].from \notin Tabs
        BY <2>1, PagesAreTold
    <2>3. Sees(request[r])'
        BY <2>1 DEF Sees
    <2> QED BY <1>2, <1>5, <2>1, <2>2, <2>3, AppsKept
<1>9. ASSUME NEW r \in Requests, BoardAnswered(r) PROVE Rest'
    <2>1. /\ request[r].op \in {"track", "patch"} /\ UNCHANGED apps
          /\ request' = [request EXCEPT ![r] = Free]
        BY <1>9 DEF BoardAnswered
    <2> QED BY <1>2, <1>5, <2>1, FreeKeeps, AppsKept
<1>10. ASSUME NEW r \in Requests, BoardLost(r) PROVE Rest'
    <2>1. request[r].op \in {"track", "patch"} /\ request[r] \in Request /\ UNCHANGED apps
        BY <1>10, UnderWay DEF BoardLost
    <2>2. /\ request'[r].op = request[r].op /\ request'[r].at = request[r].at
          /\ request'[r].status = request[r].status /\ request'[r].job = request[r].job
          /\ request'[r].user = request[r].user /\ request'[r].from = "nobody"
          /\ \A s \in Requests \ {r} : request'[s] = request[s]
        BY <1>10, <2>1 DEF BoardLost, Types, TypeOK, CaptureTypeOK, Request
    <2>3. Sees(request[r])'
        BY <1>2, <2>2, SeesStays DEF SeenHolds
    <2>4. request'[r].from \notin Tabs
        BY <2>2, PagesAreTold
    <2> QED BY <1>2, <1>5, <2>1, <2>2, <2>3, <2>4, AppsKept
<1>11. ASSUME NEW r \in Requests, TrackGet(r) PROVE Rest'
    <2>1. request[r].op = "track" /\ request[r] \in Request /\ UNCHANGED apps
        BY <1>11, UnderWay DEF TrackGet, At, boardVars
    <2>2. CASE Answers(r, "error")
        BY <1>2, <1>6, <2>1, <2>2, AnswersKeeps, AppsKept
    <2>3. CASE Goes(r, "commit") /\ Owned(request[r].job, request[r].user)
        BY <1>2, <1>6, <2>1, <2>3, GoesKeeps, AppsKept
    <2>4. ASSUME NEW i \in AppOf(request[r].job),
                 request' = [request EXCEPT ![r].at = "answer", ![r].status = "ok",
                                            ![r].app = i, ![r].stage = apps[i].stage]
          PROVE  Rest'
        <3>1. SameCall(r) /\ request'[r].at = "answer"
              /\ \A s \in Requests \ {r} : request'[s] = request[s]
            BY <2>1, <2>4 DEF SameCall, Request, Types, TypeOK, CaptureTypeOK
        <3> QED BY <1>2, <1>6, <2>1, <3>1, AppsKept
    <2> QED BY <1>11, <2>2, <2>3, <2>4 DEF TrackGet
<1>12. ASSUME NEW r \in Requests, TrackCommit(r) PROVE Rest'
    <2>1. /\ request[r].op = "track" /\ request[r].at = "commit" /\ request[r] \in Request
          /\ Owned(request[r].job, request[r].user)
        BY <1>12, UnderWay DEF TrackCommit, At, SeenHolds, Sees
    <2>2. CASE AppOf(request[r].job) = {}
        <3> DEFINE new == [job |-> request[r].job, owner |-> request[r].user, stage |-> Saved]
        <3>1. apps' = Append(apps, new) /\ apps \in Seq(Application)
            BY <1>12, <2>2 DEF TrackCommit, Insert, Types, TypeOK
        <3>2. new \in Application /\ new.job = request[r].job /\ new.owner = request[r].user
            BY <2>1, SavedIsAStage DEF Request, Application
        <3> HIDE DEF new
        <3>3. /\ \A i \in DOMAIN apps' : i \in DOMAIN apps \/ i = Len(apps) + 1
              /\ \A i \in DOMAIN apps : apps'[i] = apps[i]
              /\ apps'[Len(apps) + 1] = new
            BY <3>1, <3>2, AppendProperties, LenProperties
        <3>4. \A i \in DOMAIN apps : apps[i].job # request[r].job
            BY <2>2 DEF AppOf
        <3>5. \A c, u : Owned(c, u) => \E j \in jobs' : j.id = c /\ j.owner = u
            BY <1>1 DEF Owned, Row
        <3>6. OneApplicationPerJob'
            <4>1. ASSUME NEW i \in DOMAIN apps'
                  PROVE  \E j \in jobs' : j.id = apps'[i].job /\ j.owner = apps'[i].owner
                <5>1. CASE i \in DOMAIN apps
                    BY <3>3, <3>5, <5>1 DEF OneApplicationPerJob
                <5>2. CASE i = Len(apps) + 1
                    BY <2>1, <3>2, <3>3, <3>5, <5>2
                <5> QED BY <3>3, <5>1, <5>2
            <4>2. \A i \in DOMAIN apps' : apps'[i].job = request[r].job <=> i = Len(apps) + 1
                <5>1. ~(Len(apps) + 1 \in DOMAIN apps)
                    BY <3>1, LenProperties
                <5> QED BY <3>2, <3>3, <3>4, <5>1
            <4>3. ASSUME NEW i \in DOMAIN apps', NEW k \in DOMAIN apps',
                         apps'[i].job = apps'[k].job
                  PROVE  i = k
                <5>1. CASE apps'[i].job = request[r].job
                    BY <4>2, <4>3, <5>1
                <5>2. CASE apps'[i].job # request[r].job
                    <6>1. i \in DOMAIN apps /\ k \in DOMAIN apps
                        BY <3>3, <4>2, <4>3, <5>2
                    <6> QED BY <3>3, <4>3, <6>1 DEF OneApplicationPerJob
                <5> QED BY <5>1, <5>2
            <4> QED BY <4>1, <4>3 DEF OneApplicationPerJob, Owned, Row
        <3>7. /\ SameCall(r) /\ request'[r].at = "refresh"
              /\ \A s \in Requests \ {r} : request'[s] = request[s]
            BY <1>12, <2>1, <2>2 DEF TrackCommit, Insert, SameCall, Request, Types, TypeOK,
                                     CaptureTypeOK
        <3> QED BY <1>6, <2>1, <3>6, <3>7
    <2>3. CASE AppOf(request[r].job) # {}
        <3>1. Answers(r, "error") /\ UNCHANGED apps
            BY <1>12, <2>3 DEF TrackCommit
        <3> QED BY <1>2, <1>6, <2>1, <3>1, AnswersKeeps, AppsKept
    <2> QED BY <2>2, <2>3
<1>13. ASSUME NEW r \in Requests, PatchGet(r) PROVE Rest'
    <2>1. request[r].op = "patch" /\ request[r] \in Request /\ UNCHANGED apps
        BY <1>13, UnderWay DEF PatchGet, At, boardVars
    <2>2. SameCall(r) /\ \A s \in Requests \ {r} : request'[s] = request[s]
        BY <1>13, <2>1 DEF PatchGet, Answers, SameCall, Request, Types, TypeOK, CaptureTypeOK
    <2> QED BY <1>2, <1>6, <2>1, <2>2, AppsKept DEF SameCall
<1>14. ASSUME NEW r \in Requests, PatchCommit(r) PROVE Rest'
    <2>1. /\ request[r].op = "patch" /\ request[r] \in Request /\ Goes(r, "refresh")
          /\ request[r].app \in DOMAIN apps
        BY <1>14, UnderWay DEF PatchCommit, At, Types, AppsKnown
    <2>2. /\ DOMAIN apps' = DOMAIN apps
          /\ \A i \in DOMAIN apps : apps'[i].job = apps[i].job /\ apps'[i].owner = apps[i].owner
        <3> DEFINE k == request[r].app
                   s == request[r].stage
        <3>1. CASE apps' = apps
            BY <3>1
        <3>2. CASE apps' = [apps EXCEPT ![k] = [apps[k] EXCEPT !.stage = s]]
            <4>1. \A i \in DOMAIN apps : apps[i] \in Application
                BY AppIs
            <4>2. /\ DOMAIN apps' = DOMAIN apps
                  /\ apps'[k] = [apps[k] EXCEPT !.stage = s]
                  /\ \A i \in DOMAIN apps \ {k} : apps'[i] = apps[i]
                BY <2>1, <3>2
            <4>3. apps'[k].job = apps[k].job /\ apps'[k].owner = apps[k].owner
                BY <2>1, <4>1, <4>2 DEF Application
            <4> QED BY <4>2, <4>3
        <3> QED BY <1>14, <3>1, <3>2 DEF PatchCommit
    <2>3. \A c, u : Owned(c, u) => Owned(c, u)'
        BY <1>1 DEF Owned, Row
    <2>4. OneApplicationPerJob'
        BY <2>2, <2>3 DEF OneApplicationPerJob
    <2> QED BY <1>6, <2>1, <2>4, GoesKeeps
<1>15. ASSUME NEW r \in Requests, Refresh(r) PROVE Rest'
    <2>1. request[r].op \in {"track", "patch"} /\ request[r] \in Request /\ UNCHANGED apps
        BY <1>15, UnderWay DEF Refresh, boardVars
    <2>2. /\ SameCall(r) /\ request'[r].at = "answer"
          /\ \A s \in Requests \ {r} : request'[s] = request[s]
        BY <1>15, <2>1 DEF Refresh, SameCall, Request, Types, TypeOK, CaptureTypeOK
    <2> QED BY <1>2, <1>6, <2>1, <2>2, AppsKept
<1>16. ASSUME NEW r \in Requests, BoardFails(r) PROVE Rest'
    <2>1. /\ request[r].op \in {"track", "patch"} /\ request[r] \in Request
          /\ UNCHANGED apps /\ Answers(r, "error")
        BY <1>16, UnderWay DEF BoardFails, boardVars
    <2> QED BY <1>2, <1>6, <2>1, AnswersKeeps, AppsKept
<1> QED BY <1>7, <1>8, <1>9, <1>10, <1>11, <1>12, <1>13, <1>14, <1>15, <1>16 DEF BoardNext

-----------------------------------------------------------------------------
(* The theorems. *)

LEMMA InitIInv == Init => IInv
<1> SUFFICES ASSUME Init PROVE IInv
    OBVIOUS
<1>1. SeenHolds /\ PagesWait /\ FinishStored
    BY DEF Init, CaptureInit, Free, SeenHolds, Sees, PagesWait, FinishStored
<1>2. ForgottenOnlyOnceStored /\ PageSaysWhatIsStored /\ OneApplicationPerJob
    BY DEF Init, CaptureInit, Closed, ForgottenOnlyOnceStored, PageSaysWhatIsStored,
           OneApplicationPerJob
<1> QED BY <1>1, <1>2, InitTypes DEF IInv

LEMMA NextIInv == IInv /\ [Next]_vars => IInv'
<1> SUFFICES ASSUME IInv, [Next]_vars PROVE IInv'
    OBVIOUS
<1>1. CASE BoardNext
    BY <1>1, BoardTypes, BoardKeeps DEF IInv, Rest
<1>2. CASE CaptureNext /\ UNCHANGED boardVars
    BY <1>2, CaptureTypes, CaptureKeeps DEF IInv, Rest
<1>3. CASE UNCHANGED vars
    <2>1. Types'
        BY <1>3 DEF IInv, Types, TypeOK, CaptureTypeOK, Board, AppsKnown, vars,
                    captureVars, boardVars
    <2>2. SeenHolds' /\ PagesWait' /\ FinishStored'
        BY <1>3 DEF IInv, SeenHolds, Sees, PagesWait, FinishStored, Owned, Row, vars, captureVars
    <2>3. ForgottenOnlyOnceStored' /\ PageSaysWhatIsStored' /\ OneApplicationPerJob'
        BY <1>3 DEF IInv, ForgottenOnlyOnceStored, PageSaysWhatIsStored, OneApplicationPerJob,
                    Owned, Row, vars, captureVars, boardVars
    <2> QED BY <2>1, <2>2, <2>3 DEF IInv
<1> QED BY <1>1, <1>2, <1>3 DEF Next

\* The inductive invariant holds in every behaviour.
THEOREM Inductive == Spec => []IInv
<1> QED BY InitIInv, NextIInv, PTL DEF Spec

\* The variables of the capture, the board and the API have their types.
THEOREM BoardTypeCorrect == Spec => []TypeOK
<1>1. IInv => TypeOK
    BY DEF IInv, Types
<1> QED BY <1>1, Inductive, PTL

\* The extension forgets a capture on the page's word only once the job is stored.
THEOREM NothingForgottenEarly == Spec => []ForgottenOnlyOnceStored
<1>1. IInv => ForgottenOnlyOnceStored
    BY DEF IInv
<1> QED BY <1>1, Inductive, PTL

\* "Job saved" and "Capture ID unavailable" are told exactly to accounts they are true of.
THEOREM PagesAreRight == Spec => []PageSaysWhatIsStored
<1>1. IInv => PageSaysWhatIsStored
    BY DEF IInv
<1> QED BY <1>1, Inductive, PTL

\* A job has one application, of its owner.
THEOREM OneApplication == Spec => []OneApplicationPerJob
<1>1. IInv => OneApplicationPerJob
    BY DEF IInv
<1> QED BY <1>1, Inductive, PTL

-----------------------------------------------------------------------------
(* The board shows what the database holds. *)

\* Until the board is shown there is nothing to show and nobody changes anything.
NothingBefore ==
    board.at # "shown" =>
        /\ DOMAIN apps = {}
        /\ \A r \in Requests : request[r].op \notin {"track", "patch"}

\* An application that has not been shown has not been moved.
UnshownIsNew == \A i \in DOMAIN apps \ DOMAIN board.shown : apps[i].stage = Saved

\* What a change of stage brings back to the board, and what it falls back on.
Undoes(q) ==
    /\ q.at \in {"get", "commit"} => q.before = apps[q.app].stage
    /\ q.at = "commit" => q.loaded = apps[q.app].stage
    /\ q.at = "refresh" => q.stage = apps[q.app].stage
    /\ q.at = "answer" => apps[q.app].stage = IF q.status = "ok" THEN q.stage ELSE q.before

Brings(q) ==
    /\ q.op = "track" /\ q.at = "answer" /\ q.status = "ok" /\ q.app \notin DOMAIN board.shown =>
           q.stage = Saved
    /\ q.op = "patch" =>
           /\ q.app \in DOMAIN board.shown
           /\ q.app \notin mixed => q.from = "board" /\ Undoes(q)

RequestsBring == \A r \in Requests : Brings(request[r])

Patches(r, i) == request[r].op = "patch" /\ request[r].app = i

\* Two changes of one application are noticed.
PatchesAlone ==
    \A q, r \in Requests, i \in DOMAIN apps \ mixed : Patches(q, i) /\ Patches(r, i) => q = r

\* BoardShowsServer, also while the board loads.
ShownIsTrue ==
    \A i \in DOMAIN board.shown \ mixed :
        (\A r \in Requests : ~Patches(r, i)) => board.shown[i] = apps[i].stage

BoardInv == NothingBefore /\ UnshownIsNew /\ RequestsBring /\ PatchesAlone /\ ShownIsTrue

LEMMA ShownAreApps ==
    ASSUME Types
    PROVE  /\ DOMAIN board.shown \subseteq DOMAIN apps
           /\ \A r \in Requests : request[r].op = "patch" => request[r].app \in DOMAIN apps
BY ShownIs DEF Types, AppsKnown

\* A request of the board goes on while tables and board rest.
LEMMA RequestGoesOn ==
    ASSUME Types, BoardInv, UNCHANGED <<apps, board, mixed>>, board.at = "shown",
           NEW r \in Requests, \A s \in Requests \ {r} : request'[s] = request[s],
           request'[r].op = "patch" <=> request[r].op = "patch",
           request'[r].op = "patch" => request'[r].app = request[r].app,
           Brings(request'[r])
    PROVE  BoardInv'
<1>1. \A i : \A s \in Requests : Patches(s, i)' <=> Patches(s, i)
    BY DEF Patches
<1>2. NothingBefore' /\ UnshownIsNew'
    BY DEF BoardInv, NothingBefore, UnshownIsNew
<1>3. RequestsBring'
    BY DEF BoardInv, RequestsBring, Brings, Undoes
<1>4. PatchesAlone' /\ ShownIsTrue'
    BY <1>1 DEF BoardInv, PatchesAlone, ShownIsTrue
<1> QED BY <1>2, <1>3, <1>4 DEF BoardInv

\* A request that the board has not made, or no longer waits for, ends.
LEMMA RequestEnds ==
    ASSUME Types, BoardInv, UNCHANGED <<apps, board, mixed>>,
           NEW r \in Requests, \A s \in Requests \ {r} : request'[s] = request[s],
           request'[r] = Free, request[r].op = "patch" => request[r].app \in mixed
    PROVE  BoardInv'
<1>1. \A i : \A s \in Requests : Patches(s, i)' => Patches(s, i)
    BY DEF Patches, Free
<1>2. \A s \in Requests, i \in DOMAIN apps \ mixed : Patches(s, i) => Patches(s, i)'
    BY DEF Patches
<1>3. NothingBefore' /\ UnshownIsNew'
    BY DEF BoardInv, NothingBefore, UnshownIsNew, Free
<1>4. RequestsBring'
    BY DEF BoardInv, RequestsBring, Brings, Undoes, Free
<1>5. PatchesAlone'
    BY <1>1 DEF BoardInv, PatchesAlone
<1>6. ShownIsTrue'
    BY <1>2, ShownAreApps DEF BoardInv, ShownIsTrue
<1> QED BY <1>3, <1>4, <1>5, <1>6 DEF BoardInv

LEMMA CaptureKeepsBoard ==
    ASSUME Types, PagesWait, BoardInv, CaptureNext, UNCHANGED boardVars
    PROVE  BoardInv'
<1>1. ASSUME \A r \in Requests : \/ request'[r] = request[r]
                                 \/ /\ request[r].op \notin {"track", "patch"}
                                    /\ request'[r].op \notin {"track", "patch"}
      PROVE  BoardInv'
    <2>1. \A i : \A s \in Requests : Patches(s, i)' <=> Patches(s, i)
        BY <1>1 DEF Patches
    <2>2. NothingBefore' /\ UnshownIsNew'
        BY <1>1 DEF BoardInv, NothingBefore, UnshownIsNew, boardVars
    <2>3. RequestsBring'
        BY <1>1 DEF BoardInv, RequestsBring, Brings, Undoes, boardVars
    <2>4. PatchesAlone' /\ ShownIsTrue'
        BY <2>1 DEF BoardInv, PatchesAlone, ShownIsTrue, boardVars
    <2> QED BY <2>2, <2>3, <2>4 DEF BoardInv
<1>2. CASE request' = request
    BY <1>1, <1>2
<1>3. ASSUME NEW t \in Tabs, Close(t)
      PROVE  BoardInv'
    <2>1. request' = Deserted(t)
        BY <1>3 DEF Close
    <2>2. ASSUME NEW r \in Requests, request[r].op \in {"track", "patch"}
          PROVE  request'[r] = request[r]
        BY <2>1, <2>2 DEF Deserted, PagesWait
    <2>3. \A r \in Requests : request'[r].op = request[r].op
        BY <2>1, DesertedKeeps
    <2> QED BY <1>1, <2>2, <2>3
<1>4. ASSUME NEW r \in Requests, \A s \in Requests \ {r} : request'[s] = request[s],
             request[r].op \in {"none", "capture"}, request'[r].op \in {"none", "capture"}
      PROVE  BoardInv'
    BY <1>1, <1>4
<1>5. ASSUME NEW t \in Tabs, NEW r \in Requests, Submit(t, r)
      PROVE  BoardInv'
    BY <1>4, <1>5 DEF Submit, Free, Types, TypeOK, CaptureTypeOK
<1>6. ASSUME NEW r \in Requests, CaptureAnswered(r)
      PROVE  BoardInv'
    BY <1>4, <1>6, FreeKeeps DEF CaptureAnswered, At, Free
<1>7. ASSUME NEW r \in Requests, CaptureLost(r)
      PROVE  BoardInv'
    <2>1. request[r] \in Request /\ request[r].op = "capture"
        BY <1>7, UnderWay DEF CaptureLost
    <2>2. /\ request'[r].op \in {"none", "capture"}
          /\ \A s \in Requests \ {r} : request'[s] = request[s]
        BY <1>7, <2>1 DEF CaptureLost, Free, Types, TypeOK, CaptureTypeOK, Request
    <2> QED BY <1>4, <2>1, <2>2
<1>8. ASSUME NEW r \in Requests, CaptureGet(r) \/ CaptureCommit(r) \/ CaptureReread(r)
      PROVE  BoardInv'
    <2>1. request[r] \in Request /\ request[r].op = "capture"
        BY <1>8, UnderWay DEF CaptureGet, CaptureCommit, CaptureReread, At
    <2>2. \/ \E at \in {"commit", "reread"} : Goes(r, at)
          \/ \E status \in {"ok", "taken", "error"} : Answers(r, status)
        BY <1>8 DEF CaptureGet, CaptureCommit, CaptureReread
    <2>3. request'[r].op = "capture" /\ \A s \in Requests \ {r} : request'[s] = request[s]
        <3>1. CASE \E at \in {"commit", "reread"} : Goes(r, at)
            BY <2>1, <3>1, GoesKeeps
        <3>2. CASE \E status \in {"ok", "taken", "error"} : Answers(r, status)
            BY <2>1, <3>2, AnswersKeeps
        <3> QED BY <2>2, <3>1, <3>2
    <2> QED BY <1>4, <2>1, <2>3
<1>9. ASSUME ~(request' = request)
      PROVE  \/ \E t \in Tabs : Close(t) \/ \E r \in Requests : Submit(t, r)
             \/ \E r \in Requests : CaptureAnswered(r) \/ CaptureLost(r)
             \/ \E r \in Requests : CaptureGet(r) \/ CaptureCommit(r) \/ CaptureReread(r)
    BY <1>9 DEF CaptureNext, Capture, Expires, Finish, Read, ReadFails, Reopen, SwitchAccount
<1> QED BY <1>2, <1>3, <1>5, <1>6, <1>7, <1>8, <1>9

LEMMA LoadKeepsBoard ==
    ASSUME Types, BoardInv, OpenBoard \/ LoadApplications \/ LoadJobs
    PROVE  BoardInv'
<1>1. DOMAIN apps = {} /\ \A r \in Requests : request[r].op \notin {"track", "patch"}
    BY DEF BoardInv, NothingBefore, OpenBoard, LoadApplications, LoadJobs
<1>2. UNCHANGED <<apps, request>>
    BY DEF OpenBoard, LoadApplications, LoadJobs
<1>3. DOMAIN board'.shown = {}
    <2>1. DOMAIN board.shown = {}
        BY <1>1, ShownAreApps
    <2>2. CASE OpenBoard \/ LoadJobs
        BY <2>1, <2>2 DEF OpenBoard, LoadJobs, Types, TypeOK, Board
    <2>3. CASE LoadApplications
        <3> DEFINE shown == [i \in {j \in DOMAIN apps : apps[j].owner = account} |-> apps[i].stage]
        <3>1. DOMAIN shown = {}
            BY <1>1
        <3>2. board'.shown = shown
            BY <2>3 DEF LoadApplications, Types, TypeOK, Board
        <3> QED BY <3>1, <3>2
    <2> QED BY <2>2, <2>3
<1>4. NothingBefore' /\ UnshownIsNew' /\ PatchesAlone'
    BY <1>1, <1>2 DEF NothingBefore, UnshownIsNew, PatchesAlone
<1>5. RequestsBring'
    BY <1>1, <1>2 DEF RequestsBring, Brings
<1>6. ShownIsTrue'
    BY <1>3 DEF ShownIsTrue
<1> QED BY <1>4, <1>5, <1>6 DEF BoardInv

LEMMA TrackKeepsBoard ==
    ASSUME Types, BoardInv, NEW r \in Requests, NEW c \in Captures, TrackJob(r, c)
    PROVE  BoardInv'
<1>1. /\ \A s \in Requests \ {r} : request'[s] = request[s]
      /\ request'[r].op = "track" /\ request'[r].at = "get"
    BY DEF TrackJob, Types, TypeOK, CaptureTypeOK
<1>2. request[r].op = "none" /\ board.at = "shown" /\ UNCHANGED <<apps, board, mixed>>
    BY DEF TrackJob, Free, boardVars
<1>3. Brings(request'[r])
    BY <1>1 DEF Brings
<1> QED BY <1>1, <1>2, <1>3, RequestGoesOn

LEMMA StageKeepsBoard ==
    ASSUME Types, BoardInv, NEW r \in Requests, NEW i \in DOMAIN apps, NEW s \in Stages,
           SetStage(r, i, s)
    PROVE  BoardInv'
<1>1. /\ \A q \in Requests \ {r} : request'[q] = request[q]
      /\ request'[r].op = "patch" /\ request'[r].at = "get" /\ request'[r].app = i
      /\ request'[r].from = "board" /\ request'[r].before = board.shown[i]
    BY DEF SetStage, Types, TypeOK, CaptureTypeOK
<1>2. request[r].op = "none" /\ board.at = "shown" /\ apps' = apps /\ i \in DOMAIN board.shown
    BY DEF SetStage, Free
<1>3. /\ board'.at = "shown" /\ DOMAIN board'.shown = DOMAIN board.shown
      /\ \A k \in DOMAIN board.shown \ {i} : board'.shown[k] = board.shown[k]
    BY <1>2 DEF SetStage, Types, TypeOK, Board
<1>4. /\ mixed \subseteq mixed' /\ mixed' \subseteq mixed \cup {i}
      /\ i \notin mixed' => \A q \in Requests : ~Patches(q, i)
    BY DEF SetStage, Patches
<1>5. \A k : \A q \in Requests : k # i => (Patches(q, k)' <=> Patches(q, k))
    BY <1>1, <1>2 DEF Patches
<1>6. \A q \in Requests : q # r => (Patches(q, i)' <=> Patches(q, i))
    BY <1>1 DEF Patches
<1>7. NothingBefore' /\ UnshownIsNew'
    BY <1>2, <1>3 DEF BoardInv, NothingBefore, UnshownIsNew
<1>8. RequestsBring'
    <2> SUFFICES ASSUME NEW q \in Requests PROVE Brings(request[q])'
        BY DEF RequestsBring
    <2>1. CASE q # r
        BY <1>1, <1>2, <1>3, <1>4, <2>1 DEF BoardInv, RequestsBring, Brings, Undoes
    <2>2. CASE q = r
        <3>1. i \notin mixed' => board.shown[i] = apps[i].stage
            BY <1>2, <1>4 DEF BoardInv, ShownIsTrue
        <3> QED BY <1>1, <1>2, <1>3, <2>2, <3>1 DEF Brings, Undoes
    <2> QED BY <2>1, <2>2
<1>9. PatchesAlone'
    <2> SUFFICES ASSUME NEW p \in Requests, NEW q \in Requests, NEW k \in DOMAIN apps \ mixed',
                        Patches(p, k)', Patches(q, k)'
                 PROVE  p = q
        BY <1>2 DEF PatchesAlone
    <2>1. CASE k = i
        BY <1>4, <1>6, <2>1
    <2>2. CASE k # i
        BY <1>4, <1>5, <2>2 DEF BoardInv, PatchesAlone
    <2> QED BY <2>1, <2>2
<1>10. ShownIsTrue'
    <2> SUFFICES ASSUME NEW k \in DOMAIN board.shown \ mixed', \A q \in Requests : ~Patches(q, k)'
                 PROVE  board'.shown[k] = apps[k].stage
        BY <1>2, <1>3 DEF ShownIsTrue
    <2>1. k # i
        BY <1>1 DEF Patches
    <2> QED BY <1>3, <1>4, <1>5, <2>1 DEF BoardInv, ShownIsTrue
<1> QED BY <1>7, <1>8, <1>9, <1>10 DEF BoardInv

\* What With shows.
LEMMA WithShows ==
    ASSUME Types, NEW i, NEW s, board' = [board EXCEPT !.shown = With(i, s)]
    PROVE  /\ board'.at = board.at /\ DOMAIN board'.shown = DOMAIN board.shown \cup {i}
           /\ board'.shown[i] = s
           /\ \A k \in DOMAIN board.shown \ {i} : board'.shown[k] = board.shown[k]
<1>1. board'.at = board.at /\ board'.shown = With(i, s)
    BY DEF Types, TypeOK, Board
<1> QED BY <1>1 DEF With

\* A stage that is in the database comes on the board with the end of its request.
LEMMA AnswerKeepsBoard ==
    ASSUME Types, BoardInv, UNCHANGED <<apps, mixed>>, board.at = "shown",
           NEW r \in Requests, \A s \in Requests \ {r} : request'[s] = request[s],
           request'[r] = Free, NEW i \in DOMAIN apps, NEW s,
           board' = [board EXCEPT !.shown = With(i, s)],
           i \notin mixed => s = apps[i].stage,
           request[r].op = "patch" => request[r].app = i
    PROVE  BoardInv'
<1>1. /\ board'.at = board.at /\ DOMAIN board'.shown = DOMAIN board.shown \cup {i}
      /\ board'.shown[i] = s
      /\ \A k \in DOMAIN board.shown \ {i} : board'.shown[k] = board.shown[k]
    BY WithShows
<1>2. \A k : \A q \in Requests : Patches(q, k)' => Patches(q, k)
    BY DEF Patches, Free
<1>3. \A k : \A q \in Requests : Patches(q, k) /\ k # i => Patches(q, k)'
    BY DEF Patches
<1>4. NothingBefore' /\ UnshownIsNew'
    BY <1>1 DEF BoardInv, NothingBefore, UnshownIsNew
<1>5. RequestsBring'
    <2> SUFFICES ASSUME NEW q \in Requests PROVE Brings(request[q])'
        BY DEF RequestsBring
    <2>1. CASE q = r
        BY <2>1 DEF Brings, Free
    <2>2. CASE q # r
        BY <1>1, <2>2 DEF BoardInv, RequestsBring, Brings, Undoes
    <2> QED BY <2>1, <2>2
<1>6. PatchesAlone'
    BY <1>2 DEF BoardInv, PatchesAlone
<1>7. ShownIsTrue'
    <2> SUFFICES ASSUME NEW k \in DOMAIN board'.shown, k \notin mixed,
                        \A q \in Requests : ~Patches(q, k)'
                 PROVE  board'.shown[k] = apps[k].stage
        BY DEF ShownIsTrue
    <2>1. CASE k = i
        BY <1>1, <2>1
    <2>2. CASE k # i
        BY <1>1, <1>3, <2>2 DEF BoardInv, ShownIsTrue
    <2> QED BY <2>1, <2>2
<1> QED BY <1>4, <1>5, <1>6, <1>7 DEF BoardInv

LEMMA AnsweredKeepsBoard ==
    ASSUME Types, BoardInv, NEW r \in Requests, BoardAnswered(r)
    PROVE  BoardInv'
<1> DEFINE q == request[r]
<1>1. /\ request'[r] = Free /\ \A s \in Requests \ {r} : request'[s] = request[s]
      /\ UNCHANGED <<apps, mixed>> /\ q.op \in {"track", "patch"} /\ q.at = "answer"
    BY FreeKeeps DEF BoardAnswered
<1>2. board.at = "shown" /\ Brings(q)
    BY <1>1 DEF BoardInv, NothingBefore, RequestsBring
<1>3. CASE q.from = "nobody" /\ UNCHANGED board
    <2>1. q.op = "patch" => q.app \in mixed
        BY <1>2, <1>3 DEF Brings
    <2> HIDE DEF q
    <2> QED BY <1>1, <1>3, <2>1, RequestEnds DEF q
<1>4. CASE q.op = "track" /\ TrackAnswered(q)
    <2>1. CASE board' = board
        <3>1. q.op # "patch"
            BY <1>4
        <3> QED BY <1>1, <2>1, <3>1, RequestEnds
    <2>2. CASE board' # board
        <3>1. /\ q.status = "ok" /\ q.app \notin DOMAIN board.shown
              /\ board' = [board EXCEPT !.shown = With(q.app, q.stage)]
            BY <1>4, <2>2 DEF TrackAnswered
        <3>2. q.app \in DOMAIN apps /\ q.stage = Saved
            BY <1>1, <1>2, <1>4, <3>1 DEF Types, AppsKnown, Brings
        <3>3. apps[q.app].stage = Saved
            BY <3>1, <3>2 DEF BoardInv, UnshownIsNew
        <3>4. q.op # "patch"
            BY <1>4
        <3> QED BY <1>1, <1>2, <3>1, <3>2, <3>3, <3>4, AnswerKeepsBoard
    <2> QED BY <2>1, <2>2
<1>5. CASE q.op = "patch" /\ StageAnswered(q)
    <2> DEFINE s == IF q.status = "ok" THEN q.stage ELSE q.before
    <2>1. board' = [board EXCEPT !.shown = With(q.app, s)]
        BY <1>5 DEF StageAnswered
    <2>2. q.app \in DOMAIN apps
        BY <1>5, ShownAreApps
    <2>3. q.app \notin mixed => s = apps[q.app].stage
        BY <1>1, <1>2, <1>5 DEF Brings, Undoes
    <2> HIDE DEF s
    <2> QED BY <1>1, <1>2, <2>1, <2>2, <2>3, AnswerKeepsBoard
<1> QED BY <1>3, <1>4, <1>5 DEF BoardAnswered

LEMMA LostKeepsBoard ==
    ASSUME Types, BoardInv, NEW r \in Requests, BoardLost(r)
    PROVE  BoardInv'
<1> DEFINE q == request[r]
<1>1. q \in Request /\ board.at = "shown" /\ Brings(q) /\ q.op \in {"track", "patch"}
    BY UnderWay DEF BoardLost, BoardInv, NothingBefore, RequestsBring
<1>2. /\ \A s \in Requests \ {r} : request'[s] = request[s]
      /\ request'[r].op = q.op /\ request'[r].app = q.app /\ request'[r].at = q.at
      /\ request'[r].status = q.status /\ request'[r].stage = q.stage
    BY <1>1 DEF BoardLost, Types, TypeOK, CaptureTypeOK, Request
<1>3. apps' = apps
    BY DEF BoardLost
<1>4. CASE q.op = "track"
    <2>1. UNCHANGED <<board, mixed>>
        BY <1>4 DEF BoardLost
    <2>2. Brings(request'[r])
        BY <1>1, <1>2, <1>4 DEF Brings
    <2> QED BY <1>1, <1>2, <1>3, <1>4, <2>1, <2>2, RequestGoesOn
<1>5. CASE q.op = "patch"
    <2> DEFINE i == q.app
    <2>1. board' = [board EXCEPT !.shown = With(i, q.before)] /\ mixed' = mixed \cup {i}
        BY <1>1, <1>5 DEF BoardLost, StageAnswered, Request
    <2>2. /\ board'.at = board.at /\ DOMAIN board'.shown = DOMAIN board.shown \cup {i}
          /\ \A k \in DOMAIN board.shown \ {i} : board'.shown[k] = board.shown[k]
        BY <2>1, WithShows
    <2>3. i \in DOMAIN board.shown
        BY <1>1, <1>5 DEF Brings
    <2>4. \A k : \A p \in Requests : Patches(p, k)' <=> Patches(p, k)
        BY <1>2 DEF Patches
    <2> HIDE DEF i
    <2>5. NothingBefore' /\ UnshownIsNew'
        BY <1>1, <1>3, <2>2 DEF BoardInv, NothingBefore, UnshownIsNew
    <2>6. RequestsBring'
        <3> SUFFICES ASSUME NEW p \in Requests PROVE Brings(request[p])'
            BY DEF RequestsBring
        <3>1. CASE p = r
            BY <1>2, <1>5, <2>1, <2>2, <3>1 DEF Brings, i
        <3>2. CASE p # r
            BY <1>2, <1>3, <2>1, <2>2, <3>2 DEF BoardInv, RequestsBring, Brings, Undoes
        <3> QED BY <3>1, <3>2
    <2>7. PatchesAlone'
        BY <1>3, <2>1, <2>4 DEF BoardInv, PatchesAlone
    <2>8. ShownIsTrue'
        <3> SUFFICES ASSUME NEW k \in DOMAIN board'.shown, k \notin mixed', k # i,
                            \A p \in Requests : ~Patches(p, k)
                     PROVE  board'.shown[k] = apps[k].stage
            BY <1>3, <2>1, <2>4 DEF ShownIsTrue
        <3> QED BY <2>1, <2>2 DEF BoardInv, ShownIsTrue
    <2> QED BY <2>5, <2>6, <2>7, <2>8 DEF BoardInv
<1> QED BY <1>1, <1>4, <1>5

\* The API works on a request of the board.
LEMMA BoardWorks ==
    ASSUME Types, BoardInv, NEW r \in Requests, request[r].op \in {"track", "patch"}
    PROVE  request[r] \in Request /\ board.at = "shown" /\ Brings(request[r])
BY UnderWay DEF BoardInv, NothingBefore, RequestsBring

LEMMA ErrorKeepsBoard ==
    ASSUME Types, BoardInv, NEW r \in Requests, request[r].op \in {"track", "patch"},
           request[r].at \in {"get", "commit"}, Answers(r, "error"),
           UNCHANGED <<apps, board, mixed>>
    PROVE  BoardInv'
<1>1. request[r] \in Request /\ board.at = "shown" /\ Brings(request[r])
    BY BoardWorks
<1>2. /\ \A s \in Requests \ {r} : request'[s] = request[s]
      /\ request'[r] = [request[r] EXCEPT !.at = "answer", !.status = "error"]
    BY <1>1, AnswersKeeps
<1>3. /\ request'[r].op = request[r].op /\ request'[r].app = request[r].app
      /\ request'[r].from = request[r].from /\ request'[r].before = request[r].before
      /\ request'[r].at = "answer" /\ request'[r].status = "error"
    BY <1>1, <1>2 DEF Request
<1>4. Brings(request'[r])
    BY <1>1, <1>3 DEF Brings, Undoes
<1> QED BY <1>1, <1>2, <1>3, <1>4, RequestGoesOn

LEMMA TrackGetKeepsBoard ==
    ASSUME Types, BoardInv, NEW r \in Requests, TrackGet(r)
    PROVE  BoardInv'
<1>1. /\ request[r] \in Request /\ board.at = "shown" /\ request[r].op = "track"
      /\ request[r].at = "get" /\ UNCHANGED <<apps, board, mixed>>
    BY BoardWorks DEF TrackGet, At, boardVars
<1>2. CASE Answers(r, "error")
    BY <1>1, <1>2, ErrorKeepsBoard
<1>3. CASE Goes(r, "commit")
    <2>1. /\ \A s \in Requests \ {r} : request'[s] = request[s]
          /\ request'[r].op = "track" /\ request'[r].at = "commit"
        BY <1>1, <1>3, GoesKeeps
    <2>2. Brings(request'[r])
        BY <2>1 DEF Brings
    <2> QED BY <1>1, <2>1, <2>2, RequestGoesOn
<1>4. ASSUME NEW i \in AppOf(request[r].job),
             request' = [request EXCEPT ![r].at = "answer", ![r].status = "ok",
                                        ![r].app = i, ![r].stage = apps[i].stage]
      PROVE  BoardInv'
    <2>1. /\ \A s \in Requests \ {r} : request'[s] = request[s]
          /\ request'[r].op = "track" /\ request'[r].app = i /\ request'[r].stage = apps[i].stage
        BY <1>1, <1>4 DEF Types, TypeOK, CaptureTypeOK, Request
    <2>2. Brings(request'[r])
        BY <2>1 DEF BoardInv, UnshownIsNew, Brings, AppOf
    <2> QED BY <1>1, <2>1, <2>2, RequestGoesOn
<1> QED BY <1>2, <1>3, <1>4 DEF TrackGet

LEMMA TrackCommitKeepsBoard ==
    ASSUME Types, BoardInv, NEW r \in Requests, TrackCommit(r)
    PROVE  BoardInv'
<1>1. /\ request[r] \in Request /\ board.at = "shown" /\ request[r].op = "track"
      /\ request[r].at = "commit" /\ UNCHANGED <<board, mixed>>
    BY BoardWorks DEF TrackCommit, At
<1>2. CASE Answers(r, "error") /\ UNCHANGED apps
    BY <1>1, <1>2, ErrorKeepsBoard
<1>3. CASE Insert(r)
    <2> DEFINE n == Len(apps) + 1
               row == [job |-> request[r].job, owner |-> request[r].user, stage |-> Saved]
    <2>1. apps \in Seq(Application) /\ row \in Application /\ row.stage = Saved
        BY <1>1, SavedIsAStage DEF Types, TypeOK, Request, Application
    <2>2. apps' = Append(apps, row)
        BY <1>3 DEF Insert
    <2> HIDE DEF row
    <2>3. /\ DOMAIN apps' = DOMAIN apps \cup {n} /\ n \notin DOMAIN apps
          /\ apps'[n] = row /\ \A i \in DOMAIN apps : apps'[i] = apps[i]
        BY <2>1, <2>2
    <2> HIDE DEF n
    <2>4. /\ \A s \in Requests \ {r} : request'[s] = request[s]
          /\ request'[r].op = "track" /\ request'[r].at = "refresh"
        BY <1>1, <1>3 DEF Insert, Types, TypeOK, CaptureTypeOK, Request
    <2>5. \A i : \A s \in Requests : Patches(s, i)' <=> Patches(s, i)
        BY <1>1, <2>4 DEF Patches
    <2>6. \A i : \A s \in Requests : Patches(s, i) => i \in DOMAIN apps
        BY ShownAreApps DEF Patches
    <2>7. NothingBefore' /\ UnshownIsNew'
        BY <1>1, <2>1, <2>3 DEF BoardInv, NothingBefore, UnshownIsNew
    <2>8. RequestsBring'
        <3> SUFFICES ASSUME NEW q \in Requests PROVE Brings(request[q])'
            BY DEF RequestsBring
        <3>1. CASE q = r
            BY <2>4, <3>1 DEF Brings
        <3>2. CASE q # r
            <4>1. request[q].op = "patch" => apps'[request[q].app] = apps[request[q].app]
                BY <2>3, ShownAreApps
            <4> QED BY <1>1, <2>4, <3>2, <4>1 DEF BoardInv, RequestsBring, Brings, Undoes
        <3> QED BY <3>1, <3>2
    <2>9. PatchesAlone'
        BY <1>1, <2>5, <2>6 DEF BoardInv, PatchesAlone
    <2>10. ShownIsTrue'
        BY <1>1, <2>3, <2>5, ShownAreApps DEF BoardInv, ShownIsTrue
    <2> QED BY <2>7, <2>8, <2>9, <2>10 DEF BoardInv
<1> QED BY <1>2, <1>3 DEF TrackCommit

LEMMA PatchGetKeepsBoard ==
    ASSUME Types, BoardInv, NEW r \in Requests, PatchGet(r)
    PROVE  BoardInv'
<1>1. /\ request[r] \in Request /\ board.at = "shown" /\ request[r].op = "patch"
      /\ request[r].at = "get" /\ UNCHANGED <<apps, board, mixed>> /\ Brings(request[r])
    BY BoardWorks DEF PatchGet, At, boardVars
<1>2. CASE Answers(r, "error")
    BY <1>1, <1>2, ErrorKeepsBoard
<1>3. CASE request' = [request EXCEPT ![r].at = "commit",
                                      ![r].loaded = apps[request[r].app].stage]
    <2>1. /\ \A s \in Requests \ {r} : request'[s] = request[s]
          /\ request'[r].op = "patch" /\ request'[r].at = "commit"
          /\ request'[r].app = request[r].app /\ request'[r].from = request[r].from
          /\ request'[r].before = request[r].before
          /\ request'[r].loaded = apps[request[r].app].stage
        BY <1>1, <1>3 DEF Types, TypeOK, CaptureTypeOK, Request
    <2>2. Brings(request'[r])
        BY <1>1, <2>1 DEF Brings, Undoes
    <2> QED BY <1>1, <2>1, <2>2, RequestGoesOn
<1> QED BY <1>2, <1>3 DEF PatchGet

LEMMA PatchCommitKeepsBoard ==
    ASSUME Types, BoardInv, NEW r \in Requests, PatchCommit(r)
    PROVE  BoardInv'
<1> DEFINE i == request[r].app
<1>1. /\ request[r] \in Request /\ board.at = "shown" /\ request[r].op = "patch"
      /\ request[r].at = "commit" /\ UNCHANGED <<board, mixed>> /\ Brings(request[r])
    BY BoardWorks DEF PatchCommit, At
<1>2. i \in DOMAIN apps /\ i \in DOMAIN board.shown
    BY <1>1, ShownAreApps DEF Brings
<1>3. /\ \A s \in Requests \ {r} : request'[s] = request[s]
      /\ request'[r].op = "patch" /\ request'[r].at = "refresh" /\ request'[r].app = i
      /\ request'[r].from = request[r].from /\ request'[r].stage = request[r].stage
    BY <1>1, GoesKeeps DEF PatchCommit, Request
<1>4. /\ DOMAIN apps' = DOMAIN apps
      /\ \A k \in DOMAIN apps \ {i} : apps'[k] = apps[k]
      /\ i \notin mixed => apps'[i].stage = request[r].stage
    <2>1. CASE request[r].stage = request[r].loaded
        BY <1>1, <2>1 DEF PatchCommit, Brings, Undoes
    <2>2. CASE request[r].stage # request[r].loaded
        <3>1. apps' = [apps EXCEPT ![i].stage = request[r].stage]
            BY <2>2 DEF PatchCommit
        <3>2. apps[i] \in Application
            BY <1>2, AppIs
        <3>3. apps'[i] = [apps[i] EXCEPT !.stage = request[r].stage]
            BY <1>2, <3>1
        <3>4. apps'[i].stage = request[r].stage
            BY <3>2, <3>3 DEF Application
        <3>5. DOMAIN apps' = DOMAIN apps /\ \A k \in DOMAIN apps \ {i} : apps'[k] = apps[k]
            BY <3>1
        <3> QED BY <3>4, <3>5
    <2> QED BY <2>1, <2>2
<1>5. \A k : \A q \in Requests : Patches(q, k)' <=> Patches(q, k)
    BY <1>1, <1>3 DEF Patches
<1>6. Patches(r, i)
    BY <1>1 DEF Patches
<1> HIDE DEF i
<1>7. NothingBefore' /\ UnshownIsNew'
    BY <1>1, <1>2, <1>4 DEF BoardInv, NothingBefore, UnshownIsNew
<1>8. RequestsBring'
    <2> SUFFICES ASSUME NEW q \in Requests PROVE Brings(request[q])'
        BY DEF RequestsBring
    <2>1. CASE q = r
        BY <1>1, <1>2, <1>3, <1>4, <2>1 DEF Brings, Undoes, i
    <2>2. CASE q # r
        <3>1. request'[q] = request[q] /\ Brings(request[q])
            BY <1>3, <2>2 DEF BoardInv, RequestsBring
        <3>2. request[q].op = "patch" /\ request[q].app \notin mixed =>
                  apps'[request[q].app] = apps[request[q].app]
            <4> SUFFICES ASSUME request[q].op = "patch", request[q].app \notin mixed
                         PROVE  apps'[request[q].app] = apps[request[q].app]
                OBVIOUS
            <4>1. request[q].app # i
                BY <1>2, <1>6, <2>2 DEF BoardInv, PatchesAlone, Patches
            <4> QED BY <1>4, <4>1, ShownAreApps
        <3> QED BY <1>1, <3>1, <3>2 DEF Brings, Undoes
    <2> QED BY <2>1, <2>2
<1>9. PatchesAlone'
    BY <1>1, <1>4, <1>5 DEF BoardInv, PatchesAlone
<1>10. ShownIsTrue'
    <2> SUFFICES ASSUME NEW k \in DOMAIN board.shown, k \notin mixed,
                        \A q \in Requests : ~Patches(q, k)
                 PROVE  board.shown[k] = apps'[k].stage
        BY <1>1, <1>5 DEF ShownIsTrue
    <2>1. k # i /\ k \in DOMAIN apps
        BY <1>6, ShownAreApps
    <2> QED BY <1>4, <2>1 DEF BoardInv, ShownIsTrue
<1> QED BY <1>7, <1>8, <1>9, <1>10 DEF BoardInv

LEMMA RefreshKeepsBoard ==
    ASSUME Types, BoardInv, NEW r \in Requests, Refresh(r)
    PROVE  BoardInv'
<1>1. /\ request[r] \in Request /\ board.at = "shown" /\ request[r].op \in {"track", "patch"}
      /\ request[r].at = "refresh" /\ UNCHANGED <<apps, board, mixed>> /\ Brings(request[r])
    BY BoardWorks DEF Refresh, boardVars
<1>2. /\ \A s \in Requests \ {r} : request'[s] = request[s]
      /\ request'[r].op = request[r].op /\ request'[r].at = "answer"
      /\ request'[r].app = request[r].app /\ request'[r].from = request[r].from
      /\ request'[r].status = "ok"
      /\ request'[r].stage = apps[request[r].app].stage
    BY <1>1 DEF Refresh, Types, TypeOK, CaptureTypeOK, Request
<1>3. request[r].app \in DOMAIN apps
    BY <1>1 DEF Types, AppsKnown
<1>4. Brings(request'[r])
    BY <1>1, <1>2, <1>3 DEF BoardInv, UnshownIsNew, Brings, Undoes
<1> QED BY <1>1, <1>2, <1>4, RequestGoesOn

LEMMA NextKeepsBoard ==
    ASSUME IInv, BoardInv, [Next]_vars
    PROVE  BoardInv'
<1>1. Types /\ PagesWait
    BY DEF IInv
<1>2. ASSUME NEW r \in Requests, BoardFails(r)
      PROVE  BoardInv'
    BY <1>1, <1>2, ErrorKeepsBoard DEF BoardFails, boardVars
<1>3. CASE UNCHANGED vars
    BY <1>3 DEF vars, boardVars, BoardInv, NothingBefore, UnshownIsNew, RequestsBring, Brings,
                Undoes, PatchesAlone, ShownIsTrue, Patches
<1>4. CASE CaptureNext /\ UNCHANGED boardVars
    BY <1>1, <1>4, CaptureKeepsBoard
<1>5. CASE BoardNext
    <2>1. CASE \E r \in Requests : TrackGet(r) \/ TrackCommit(r) \/ PatchGet(r) \/ PatchCommit(r)
        BY <1>1, <2>1, TrackGetKeepsBoard, TrackCommitKeepsBoard, PatchGetKeepsBoard,
           PatchCommitKeepsBoard
    <2>2. CASE \E r \in Requests : Refresh(r) \/ BoardFails(r)
        BY <1>1, <1>2, <2>2, RefreshKeepsBoard
    <2>3. CASE \E r \in Requests : BoardAnswered(r) \/ BoardLost(r)
        BY <1>1, <2>3, AnsweredKeepsBoard, LostKeepsBoard
    <2>4. CASE \E r \in Requests, c \in Captures : TrackJob(r, c)
        BY <1>1, <2>4, TrackKeepsBoard
    <2>5. CASE \E r \in Requests, i \in DOMAIN apps, s \in Stages : SetStage(r, i, s)
        BY <1>1, <2>5, StageKeepsBoard
    <2>6. CASE OpenBoard \/ LoadApplications \/ LoadJobs
        BY <1>1, <2>6, LoadKeepsBoard
    <2> QED BY <1>5, <2>1, <2>2, <2>3, <2>4, <2>5, <2>6 DEF BoardNext
<1> QED BY <1>3, <1>4, <1>5 DEF Next

\* What the board shows of an application that nothing is under way for is the stage in the
\* database, whatever was shown early, taken back or answered late, unless two changes of it
\* overlapped or an answer was lost (setStage and trackJob of applications-board.tsx).
THEOREM BoardIsTrue == Spec => []BoardShowsServer
<1>1. Init => IInv /\ BoardInv
    <2> SUFFICES ASSUME Init PROVE BoardInv
        BY InitIInv
    <2>1. DOMAIN apps = {} /\ DOMAIN board.shown = {} /\ \A r \in Requests : request[r].op = "none"
        BY DEF Init, CaptureInit, Free
    <2> QED BY <2>1 DEF BoardInv, NothingBefore, UnshownIsNew, RequestsBring, Brings,
                        PatchesAlone, ShownIsTrue
<1>2. IInv /\ BoardInv /\ [Next]_vars => (IInv /\ BoardInv)'
    BY NextIInv, NextKeepsBoard
<1>3. BoardInv => BoardShowsServer
    BY DEF BoardInv, ShownIsTrue, BoardShowsServer, Patches
<1> QED BY <1>1, <1>2, <1>3, PTL DEF Spec

=============================================================================
