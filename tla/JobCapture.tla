------------------------------ MODULE JobCapture ------------------------------
(***************************************************************************)
(* How a job comes into being: the browser extension stores a captured     *)
(* page under a fresh id and opens a tab of the web interface with it      *)
(* (extension/background.js); the tab reads the capture back, shows it,    *)
(* posts it, and tells the extension to forget it (capture-handoff.tsx);   *)
(* the API makes the id the key of the job (capture_job of                 *)
(* routers/jobs.py).                                                       *)
(*                                                                         *)
(* The requests the API is working on are shared with ApplicationsBoard,   *)
(* which extends this module.                                              *)
(***************************************************************************)
EXTENDS Naturals, Sequences, FiniteSets

CONSTANTS
    Users,      \* accounts
    Captures,   \* ids that crypto.randomUUID() returns
    Tabs,       \* tabs of /capture
    Requests,   \* requests the API works on at the same time
    Stages,     \* stages of an application
    Saved       \* the stage an application begins with

ASSUME SavedIsAStage == Saved \in Stages

\* Tabs and accounts are not confused with the other parties.
ASSUME PagesAreTold == Tabs \cap {"board", "nobody"} = {} /\ "nobody" \notin Users

VARIABLES
    account,    \* whose token the browser holds
    store,      \* what became of each id in chrome.storage.session
    tab,        \* the capture pages
    finishing,  \* ids for which a finish-capture is on its way to the extension
    jobs,       \* rows of the table jobs
    request     \* the requests under way

-----------------------------------------------------------------------------
(* State. *)

\* An id is not drawn yet, stored, stored beyond its ten minutes, removed for that
\* reason, or removed because the page acknowledged it.
Entry == {"unused", "fresh", "expired", "purged", "finished"}

\* "refused" is a page that shows the capture and the answer 409; by is the account that
\* submitted a page that is saving, saved or refused.
Tab == [at: {"asking", "shown", "failed", "saving", "saved", "refused"},
        id: Captures, by: Users \cup {"nobody"}]

Closed == [at |-> "closed"]

Job == [id: Captures, owner: Users]

\* from is the page that waits for the answer; at is the next step of the API, or
\* "answer" with the outcome in status.  app, stage and before belong to the board.
Request == [op: {"capture", "track", "patch"}, from: Tabs \cup {"board", "nobody"},
            job: Captures, app: Nat, user: Users,
            at: {"get", "commit", "reread", "refresh", "answer"},
            stage: Stages, before: Stages, loaded: Stages,
            status: {"none", "ok", "taken", "error"}]

Free == [op |-> "none"]

CaptureInit ==
    /\ account \in Users
    /\ store = [c \in Captures |-> "unused"]
    /\ tab = [t \in Tabs |-> Closed]
    /\ finishing = {}
    /\ jobs = {}
    /\ request = [r \in Requests |-> Free]

captureVars == <<store, tab, finishing>>

Row(c) == {j \in jobs : j.id = c}
Owned(c, u) == \E j \in Row(c) : j.owner = u

At(r, op, at) == request[r].op = op /\ request[r].at = at
Goes(r, at) == request' = [request EXCEPT ![r].at = at]
Answers(r, status) == request' = [request EXCEPT ![r].at = "answer", ![r].status = status]
\* The page that waits for request r goes away or has given up.
Deserted(page) ==
    [r \in Requests |-> IF request[r].op # "none" /\ request[r].from = page
                        THEN [request[r] EXCEPT !.from = "nobody"]
                        ELSE request[r]]

-----------------------------------------------------------------------------
(* The extension. *)

\* Entries past their time go at the next capture.
Purged(s) == [c \in Captures |-> IF s[c] = "expired" THEN "purged" ELSE s[c]]

Opened(t, c) == tab' = [tab EXCEPT ![t] = [at |-> "asking", id |-> c, by |-> "nobody"]]

\* capture: the entry is stored under a new id, then the tab is opened, which may fail.
Capture(c) ==
    /\ store[c] = "unused"
    /\ store' = [Purged(store) EXCEPT ![c] = "fresh"]
    /\ \/ \E t \in Tabs : tab[t].at = "closed" /\ Opened(t, c)
       \/ UNCHANGED tab
    /\ UNCHANGED <<account, finishing, jobs, request>>

Expires(c) ==
    /\ store[c] = "fresh"
    /\ store' = [store EXCEPT ![c] = "expired"]
    /\ UNCHANGED <<account, tab, finishing, jobs, request>>

\* read-capture and its callback: the payload, or an error and the entry is removed.
Read(t) ==
    /\ tab[t].at = "asking"
    /\ LET c == tab[t].id IN
       IF store[c] = "fresh"
       THEN /\ tab' = [tab EXCEPT ![t].at = "shown"]
            /\ UNCHANGED store
       ELSE /\ tab' = [tab EXCEPT ![t].at = "failed"]
            /\ store' = [store EXCEPT ![c] = IF @ = "expired" THEN "purged" ELSE @]
    /\ UNCHANGED <<account, finishing, jobs, request>>

\* The extension does not answer (it was disabled, or its storage failed).
ReadFails(t) ==
    /\ tab[t].at = "asking"
    /\ tab' = [tab EXCEPT ![t].at = "failed"]
    /\ UNCHANGED <<account, store, finishing, jobs, request>>

\* finish-capture arrives.
Finish(c) ==
    /\ c \in finishing
    /\ finishing' = finishing \ {c}
    /\ store' = [store EXCEPT ![c] = IF @ \in {"fresh", "expired"} THEN "finished" ELSE @]
    /\ UNCHANGED <<account, tab, jobs, request>>

-----------------------------------------------------------------------------
(* The capture page. *)

\* The link is opened again: a reload, a second tab, the history of the browser.
Reopen(t, c) ==
    /\ tab[t].at = "closed"
    /\ store[c] # "unused"
    /\ Opened(t, c)
    /\ UNCHANGED <<account, store, finishing, jobs, request>>

Close(t) ==
    /\ tab[t].at # "closed"
    /\ tab' = [tab EXCEPT ![t] = Closed]
    /\ request' = Deserted(t)
    /\ UNCHANGED <<account, store, finishing, jobs>>

\* The user signs in to another account, in another tab of the same browser.
SwitchAccount(u) ==
    /\ account # u
    /\ account' = u
    /\ UNCHANGED <<captureVars, jobs, request>>

\* submit, up to the request.
Submit(t, r) ==
    /\ tab[t].at \in {"shown", "refused"}
    /\ request[r] = Free
    /\ tab' = [tab EXCEPT ![t].at = "saving", ![t].by = account]
    /\ request' = [request EXCEPT ![r] =
           [op |-> "capture", from |-> t, job |-> tab[t].id, app |-> 0, user |-> account,
            at |-> "get", stage |-> Saved, before |-> Saved, loaded |-> Saved,
            status |-> "none"]]
    /\ UNCHANGED <<account, store, finishing, jobs>>

\* What the page shows after the answer.
After(page, status) ==
    IF status = "ok" THEN [page EXCEPT !.at = "saved"]
    ELSE IF status = "taken" THEN [page EXCEPT !.at = "refused"]
    ELSE [page EXCEPT !.at = "shown", !.by = "nobody"]

\* Variant: the extension is told to forget the capture whatever the answer was.
SubmitAlwaysFinishes(t, status) ==
    /\ tab' = [tab EXCEPT ![t] = After(@, status)]
    /\ finishing' = finishing \cup {tab[t].id}

\* submit, from the answer on: only a saved capture is acknowledged; after an error the
\* page can be submitted again.
Submitted(t, status) ==
    /\ tab' = [tab EXCEPT ![t] = After(@, status)]
    /\ finishing' = IF status = "ok" THEN finishing \cup {tab[t].id} ELSE finishing

CaptureAnswered(r) ==
    /\ At(r, "capture", "answer")
    /\ \/ request[r].from \in Tabs /\ Submitted(request[r].from, request[r].status)
       \/ request[r].from = "nobody" /\ UNCHANGED <<tab, finishing>>
    /\ request' = [request EXCEPT ![r] = Free]
    /\ UNCHANGED <<account, store, jobs>>

\* The connection is lost: the page sees an error while the API goes on, or the process
\* dies with the request.
CaptureLost(r) ==
    /\ request[r].op = "capture"
    /\ request[r].from \in Tabs
    /\ Submitted(request[r].from, "error")
    /\ \/ request' = [request EXCEPT ![r].from = "nobody"]
       \/ request' = [request EXCEPT ![r] = Free]
    /\ UNCHANGED <<account, store, jobs>>

-----------------------------------------------------------------------------
(* capture_job. *)

\* The row of this id is returned if it is the user's own.  If there is none, the text
\* may be refused (422: a secret, fewer than 40 characters).
CaptureGet(r) ==
    /\ At(r, "capture", "get")
    /\ LET c == request[r].job IN
       \/ Owned(c, request[r].user) /\ Answers(r, "ok")
       \/ Row(c) # {} /\ ~Owned(c, request[r].user) /\ Answers(r, "taken")
       \/ Row(c) = {} /\ (Goes(r, "commit") \/ Answers(r, "error"))
    /\ UNCHANGED <<account, captureVars, jobs>>

\* The insertion; a row that appeared meanwhile fails it on the primary key.
CaptureCommit(r) ==
    /\ At(r, "capture", "commit")
    /\ IF Row(request[r].job) = {}
       THEN /\ jobs' = jobs \cup {[id |-> request[r].job, owner |-> request[r].user]}
            /\ Answers(r, "ok")
       ELSE /\ Goes(r, "reread")
            /\ UNCHANGED jobs
    /\ UNCHANGED <<account, captureVars>>

\* Variant: a conflict is refused without another look.
CaptureGivesUp(r) ==
    /\ At(r, "capture", "reread")
    /\ Answers(r, "taken")
    /\ UNCHANGED <<account, captureVars, jobs>>

\* After the rollback the row is looked up again.
CaptureReread(r) ==
    /\ At(r, "capture", "reread")
    /\ Answers(r, IF Owned(request[r].job, request[r].user) THEN "ok" ELSE "taken")
    /\ UNCHANGED <<account, captureVars, jobs>>

CaptureNext ==
    \/ \E c \in Captures : Capture(c) \/ Expires(c) \/ Finish(c)
    \/ \E t \in Tabs : Read(t) \/ ReadFails(t) \/ Close(t)
    \/ \E t \in Tabs, c \in Captures : Reopen(t, c)
    \/ \E t \in Tabs, r \in Requests : Submit(t, r)
    \/ \E u \in Users : SwitchAccount(u)
    \/ \E r \in Requests : CaptureAnswered(r) \/ CaptureLost(r)
    \/ \E r \in Requests : CaptureGet(r) \/ CaptureCommit(r) \/ CaptureReread(r)

-----------------------------------------------------------------------------
(* Properties. *)

\* The variables have the types the code gives them.
CaptureTypeOK ==
    /\ account \in Users
    /\ store \in [Captures -> Entry]
    /\ tab \in [Tabs -> {Closed} \cup Tab]
    /\ finishing \subseteq Captures
    /\ jobs \subseteq Job
    /\ request \in [Requests -> {Free} \cup Request]

\* The extension forgets a capture on the page's word only once the job is stored:
\* answers that are lost or errors never cost the user the captured text.
ForgottenOnlyOnceStored == \A c \in Captures : store[c] = "finished" => Row(c) # {}

\* A page that says "Job saved" has saved a job of the account that submitted it, also
\* when the capture was submitted before from another tab or another account; "Capture ID
\* unavailable" is told only to an account whose capture another one holds: a retry of
\* one's own capture, however it races the first attempt, is never refused.
PageSaysWhatIsStored ==
    \A t \in Tabs :
        /\ tab[t].at = "saved" => Owned(tab[t].id, tab[t].by)
        /\ tab[t].at = "refused" => Row(tab[t].id) # {} /\ ~Owned(tab[t].id, tab[t].by)

=============================================================================
