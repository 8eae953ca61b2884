--------------------------- MODULE ApplicationsBoard ---------------------------
(***************************************************************************)
(* From a captured job to an application that moves through its stages:    *)
(* the board of the web interface (applications-board.tsx), which shows a  *)
(* new stage before the API has taken it, and the API's check-then-insert  *)
(* and update (routers/applications.py), together with JobCapture, which   *)
(* provides the jobs.                                                      *)
(***************************************************************************)
EXTENDS JobCapture

VARIABLES
    apps,    \* rows of the table applications, in order of insertion: the ids are 1, 2...
    board,   \* the page
    mixed    \* history: applications whose changes overlapped or lost an answer

boardVars == <<apps, board, mixed>>
vars == <<account, captureVars, jobs, request, boardVars>>

Application == [job: Captures, owner: Users, stage: Stages]

\* got: the lists that have been read; shown: the stage shown for each application;
\* known: the jobs of the list.
Board == [at: {"off", "loading", "shown"}, got: SUBSET {"applications", "jobs"},
          shown: UNION {[S -> Stages] : S \in SUBSET (DOMAIN apps)}, known: SUBSET Captures]

Init ==
    /\ CaptureInit
    /\ apps = <<>>
    /\ board = [at |-> "off", got |-> {}, shown |-> <<>>, known |-> {}]
    /\ mixed = {}

AppOf(c) == {i \in DOMAIN apps : apps[i].job = c}

-----------------------------------------------------------------------------
(* The page. *)

\* The page is opened: load reads two lists.
OpenBoard ==
    /\ board.at = "off"
    /\ board' = [board EXCEPT !.at = "loading"]
    /\ UNCHANGED <<account, captureVars, jobs, request, apps, mixed>>

Loaded(list) == IF board.got \cup {list} = {"applications", "jobs"} THEN "shown" ELSE "loading"

LoadApplications ==
    /\ board.at = "loading" /\ "applications" \notin board.got
    /\ LET own == {i \in DOMAIN apps : apps[i].owner = account} IN
       board' = [board EXCEPT !.got = @ \cup {"applications"}, !.at = Loaded("applications"),
                              !.shown = [i \in own |-> apps[i].stage]]
    /\ UNCHANGED <<account, captureVars, jobs, request, apps, mixed>>

LoadJobs ==
    /\ board.at = "loading" /\ "jobs" \notin board.got
    /\ board' = [board EXCEPT !.got = @ \cup {"jobs"}, !.at = Loaded("jobs"),
                              !.known = {j.id : j \in {k \in jobs : k.owner = account}}]
    /\ UNCHANGED <<account, captureVars, jobs, request, apps, mixed>>

Untracked == {c \in board.known : AppOf(c) \cap DOMAIN board.shown = {}}

\* trackJob; the button stays enabled while its request is under way.
TrackJob(r, c) ==
    /\ board.at = "shown"
    /\ request[r] = Free
    /\ c \in Untracked
    /\ request' = [request EXCEPT ![r] =
           [op |-> "track", from |-> "board", job |-> c, app |-> 0, user |-> account,
            at |-> "get", stage |-> Saved, before |-> Saved, loaded |-> Saved,
            status |-> "none"]]
    /\ UNCHANGED <<account, captureVars, jobs, boardVars>>

\* setStage, up to the request: the choice is shown at once, and what was shown before
\* is remembered.
SetStage(r, i, s) ==
    /\ board.at = "shown"
    /\ request[r] = Free
    /\ i \in DOMAIN board.shown /\ board.shown[i] # s
    /\ request' = [request EXCEPT ![r] =
           [op |-> "patch", from |-> "board", job |-> apps[i].job, app |-> i,
            user |-> account, at |-> "get", stage |-> s, before |-> board.shown[i],
            loaded |-> s, status |-> "none"]]
    /\ board' = [board EXCEPT !.shown[i] = s]
    /\ mixed' = IF \E q \in Requests : request[q].op = "patch" /\ request[q].app = i
                THEN mixed \cup {i} ELSE mixed
    /\ UNCHANGED <<account, captureVars, jobs, apps>>

With(i, s) == [k \in DOMAIN board.shown \cup {i} |-> IF k = i THEN s ELSE board.shown[k]]

\* Variant: the row of the answer is shown whether or not there was one.
TrackAnsweredBlindly(q) == board' = [board EXCEPT !.shown = With(q.app, q.stage)]

\* Variant: the answer replaces a row that is already there.
TrackAnsweredAgain(q) ==
    board' = IF q.status = "ok" THEN [board EXCEPT !.shown = With(q.app, q.stage)] ELSE board

\* trackJob, from the answer on: a row that is already shown stays as it is; an error is
\* not shown.
TrackAnswered(q) ==
    board' = IF q.status = "ok" /\ q.app \notin DOMAIN board.shown
             THEN [board EXCEPT !.shown = With(q.app, q.stage)] ELSE board

\* setStage, from the answer on: the row of the answer, or the one seen before the choice.
StageAnswered(q) ==
    board' = [board EXCEPT !.shown = With(q.app, IF q.status = "ok" THEN q.stage ELSE q.before)]

BoardAnswered(r) ==
    /\ request[r].op \in {"track", "patch"} /\ request[r].at = "answer"
    /\ \/ request[r].from = "board" /\ request[r].op = "track" /\ TrackAnswered(request[r])
       \/ request[r].from = "board" /\ request[r].op = "patch" /\ StageAnswered(request[r])
       \/ request[r].from = "nobody" /\ UNCHANGED board
    /\ request' = [request EXCEPT ![r] = Free]
    /\ UNCHANGED <<account, captureVars, jobs, apps, mixed>>

\* The connection is lost: the page sees an error, the API goes on.
BoardLost(r) ==
    /\ request[r].op \in {"track", "patch"}
    /\ request[r].from = "board"
    /\ request' = [request EXCEPT ![r].from = "nobody", ![r].before = Saved]
    /\ IF request[r].op = "patch"
       THEN /\ StageAnswered([request[r] EXCEPT !.status = "error"])
            /\ mixed' = mixed \cup {request[r].app}
       ELSE UNCHANGED <<board, mixed>>
    /\ UNCHANGED <<account, captureVars, jobs, apps>>

-----------------------------------------------------------------------------
(* The API. *)

\* create_application: the job must be the user's own; an application of it is returned.
TrackGet(r) ==
    /\ At(r, "track", "get")
    /\ LET c == request[r].job IN
       \/ ~Owned(c, request[r].user) /\ Answers(r, "error")
       \/ Owned(c, request[r].user) /\ AppOf(c) = {} /\ Goes(r, "commit")
       \/ /\ Owned(c, request[r].user)
          /\ \E i \in AppOf(c) :
                request' = [request EXCEPT ![r].at = "answer", ![r].status = "ok",
                                           ![r].app = i, ![r].stage = apps[i].stage]
    /\ UNCHANGED <<account, captureVars, jobs, boardVars>>

Insert(r) ==
    /\ apps' = Append(apps, [job |-> request[r].job, owner |-> request[r].user,
                             stage |-> Saved])
    /\ request' = [request EXCEPT ![r].at = "refresh", ![r].app = Len(apps')]

\* Variant: job_id is not unique.
TrackCommitTwice(r) ==
    /\ At(r, "track", "commit")
    /\ Insert(r)
    /\ UNCHANGED <<account, captureVars, jobs, board, mixed>>

\* The insertion fails on the unique job_id if another one was first (500).
TrackCommit(r) ==
    /\ At(r, "track", "commit")
    /\ IF AppOf(request[r].job) = {} THEN Insert(r)
       ELSE Answers(r, "error") /\ UNCHANGED apps
    /\ UNCHANGED <<account, captureVars, jobs, board, mixed>>

\* patch_application loads the row, which must be the user's own.
PatchGet(r) ==
    /\ At(r, "patch", "get")
    /\ LET row == apps[request[r].app] IN
       IF row.owner # request[r].user THEN Answers(r, "error")
       ELSE request' = [request EXCEPT ![r].at = "commit", ![r].loaded = row.stage]
    /\ UNCHANGED <<account, captureVars, jobs, boardVars>>

\* The stage is written unless it equals the one loaded.
PatchCommit(r) ==
    /\ At(r, "patch", "commit")
    /\ LET q == request[r] IN
       apps' = IF q.stage = q.loaded THEN apps ELSE [apps EXCEPT ![q.app].stage = q.stage]
    /\ Goes(r, "refresh")
    /\ UNCHANGED <<account, captureVars, jobs, board, mixed>>

\* Both answer with the row as it is after the commit.
Refresh(r) ==
    /\ request[r].op \in {"track", "patch"} /\ request[r].at = "refresh"
    /\ request' = [request EXCEPT ![r].at = "answer", ![r].status = "ok",
                                  ![r].stage = apps[request[r].app].stage, ![r].loaded = Saved]
    /\ UNCHANGED <<account, captureVars, jobs, boardVars>>

\* An error before anything is committed.
BoardFails(r) ==
    /\ request[r].op \in {"track", "patch"} /\ request[r].at \in {"get", "commit"}
    /\ Answers(r, "error")
    /\ UNCHANGED <<account, captureVars, jobs, boardVars>>

BoardNext ==
    \/ OpenBoard \/ LoadApplications \/ LoadJobs
    \/ \E r \in Requests, c \in Captures : TrackJob(r, c)
    \/ \E r \in Requests, i \in DOMAIN apps, s \in Stages : SetStage(r, i, s)
    \/ \E r \in Requests : BoardAnswered(r) \/ BoardLost(r)
    \/ \E r \in Requests : TrackGet(r) \/ TrackCommit(r) \/ PatchGet(r) \/ PatchCommit(r)
    \/ \E r \in Requests : Refresh(r) \/ BoardFails(r)

Next == BoardNext \/ (CaptureNext /\ UNCHANGED boardVars)

Spec == Init /\ [][Next]_vars

-----------------------------------------------------------------------------
(* Properties. *)

\* The variables have the types the code gives them.
TypeOK ==
    /\ CaptureTypeOK
    /\ apps \in Seq(Application)
    /\ board \in Board
    /\ mixed \subseteq DOMAIN apps

\* A job has one application, of the job's owner, although create_application looks
\* before it inserts and the button may be pressed twice.
OneApplicationPerJob ==
    \A i, k \in DOMAIN apps :
        /\ Owned(apps[i].job, apps[i].owner)
        /\ apps[i].job = apps[k].job => i = k

\* When nothing is under way for an application, the board shows the stage the database
\* holds, unless two changes of it overlapped or the answer to one was lost: optimistic
\* display, rollback and late answers of trackJob leave nothing wrong on the screen.
BoardShowsServer ==
    board.at = "shown" =>
        \A i \in DOMAIN board.shown \ mixed :
            (\A r \in Requests : request[r].op = "patch" => request[r].app # i)
                => board.shown[i] = apps[i].stage

=============================================================================
