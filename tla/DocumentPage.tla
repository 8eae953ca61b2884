----------------------------- MODULE DocumentPage -----------------------------
(***************************************************************************)
(* The page that generates and shows documents (resume-workspace.tsx) and  *)
(* what it learns of a generation: the worker publishes the end of a run   *)
(* on the channel of the job (worker events.py), the API forwards to those *)
(* who are subscribed at that moment (routers/events.py), and the page     *)
(* reads the stream (lib/events.ts) until an end, an error or its timer.   *)
(*                                                                         *)
(* One job and one page.  A request is the number of a press of the button *)
(* Generate, a run the number of its row, and a document that of its run.  *)
(***************************************************************************)
EXTENDS GenerationLife, FiniteSets

CONSTANTS
    MaxRuns,      \* bound: runs
    MaxReloads    \* bound: reloads of the page

ASSUME RequestsAreCounted == IsFiniteSet(Requests) /\ Requests = 1..Cardinality(Requests)
ASSUME BoundsAreNat == MaxRuns \in Nat /\ MaxReloads \in Nat

VARIABLES
    announced,   \* the ends of runs that the worker has published, or failed to
    post,        \* POST /jobs/{id}/generate of each press
    wait,        \* the wait for a completion
    loads,       \* loadDocument calls under way
    page,        \* what the page shows
    reloads,     \* counter for the bound
    crossed,     \* history: runs of two requests may have reached one wait
    switched     \* history: the document shown was replaced during an export

pageVars == <<post, wait, loads, page, reloads, crossed, switched>>
vars == <<lifeVars, announced, pageVars>>

Runs == 1..MaxRuns

\* The end of a run as it is published: generation.completed or generation.failed.
Event == [run: Runs, name: {"completed", "failed"}]

\* for is the press that waits (0: no wait).  The timer of a wait runs as long as the wait.
Wait == [for: {0} \cup Requests, stream: {"opening", "open", "ended", "cut"},
         inbox: UNION {[1..n -> Event] : n \in 0..2 * MaxRuns}]

NoWait == [for |-> 0, stream |-> "ended", inbox |-> <<>>]

\* for is the wait whose event began the load (0: the user picked a saved document).
Load == [document: Runs, for: {0} \cup Requests]

\* document, and the one the claims beside it belong to; for: the wait that brought the
\* document (0: none); list: the saved documents on offer; export: the document being
\* exported.
Page == [status: {"idle", "generating", "done"}, document: {0} \cup Runs,
         claims: {0} \cup Runs, for: {0} \cup Requests, list: SUBSET Runs,
         export: {0} \cup Runs]

\* A press not made, under way, answered but not yet here, given up by the page while the
\* API has it, or over.
PostState == {"none", "sent", "asked", "left", "done"}

Fresh == [status |-> "idle", document |-> 0, claims |-> 0, for |-> 0, list |-> docs,
          export |-> 0]

Init ==
    /\ LifeInit
    /\ announced = {}
    /\ post = [r \in Requests |-> "none"]
    /\ wait = NoWait
    /\ loads = {}
    /\ page = Fresh
    /\ reloads = 0
    /\ crossed = FALSE
    /\ switched = FALSE

-----------------------------------------------------------------------------
(* The worker and the API, as far as the page can tell. *)

EndOf(k) == IF runs[k].status = "succeeded" THEN "completed" ELSE "failed"

\* Nothing more comes of press r, unless a worker that died is replaced: the API will not
\* hear of it, or has, and each of its runs has been announced.
Settled(r) ==
    /\ r \in requested \/ post[r] = "done"
    /\ r \in requested => \E k \in DOMAIN runs : runs[k].request = r
    /\ \A k \in DOMAIN runs : runs[k].request = r => \E e \in announced : e.run = k

\* A run begins, anew for a request whose worker died.
RunBegins(r) ==
    /\ Len(runs) < MaxRuns
    /\ Begin(r)
    /\ crossed' = (crossed \/ \E q \in Requests : q > r /\ post[q] # "none")
    /\ UNCHANGED <<announced, post, wait, loads, page, reloads, switched>>

RunMoves(k) ==
    /\ Succeed(k) \/ Stop(k) \/ Overwrite(k)
    /\ UNCHANGED <<announced, pageVars>>

Hears(e) == wait' = [wait EXCEPT !.inbox = Append(@, e)]

\* Variant: the event is published ahead of the commit.
PublishEarly(k) ==
    LET e == [run |-> k, name |-> IF runs[k].status \in {"running", "succeeded"}
                                  THEN "completed" ELSE "failed"] IN
    /\ e \notin announced
    /\ announced' = announced \cup {e}
    /\ IF wait.stream = "open" THEN Hears(e) ELSE UNCHANGED wait
    /\ UNCHANGED <<lifeVars, post, loads, page, reloads, crossed, switched>>

\* Variant: an end is published again and again.
PublishAgain(k) ==
    /\ runs[k].status # "running"
    /\ wait.stream = "open"
    /\ Hears([run |-> k, name |-> EndOf(k)])
    /\ UNCHANGED <<lifeVars, announced, post, loads, page, reloads, crossed, switched>>

\* publish_event, after the commit: only who is subscribed hears of it.  The process may
\* die before, or Redis be away.
Publish(k) ==
    LET e == [run |-> k, name |-> EndOf(k)] IN
    /\ runs[k].status # "running"
    /\ e \notin announced
    /\ announced' = announced \cup {e}
    /\ \/ wait.stream = "open" /\ Hears(e)
       \/ UNCHANGED wait
    /\ UNCHANGED <<lifeVars, post, loads, page, reloads, crossed, switched>>

\* trigger_generate sends the message, then answers.
PostHandled(r) ==
    /\ post[r] \in {"sent", "left"}
    /\ Ask(r)
    /\ post' = [post EXCEPT ![r] = IF @ = "sent" THEN "asked" ELSE "done"]
    /\ UNCHANGED <<announced, wait, loads, page, reloads, crossed, switched>>

\* stream_run_events: subscribed from here on.
Subscribe ==
    /\ wait.stream = "opening"
    /\ wait' = [wait EXCEPT !.stream = "open"]
    /\ UNCHANGED <<lifeVars, announced, post, loads, page, reloads, crossed, switched>>

-----------------------------------------------------------------------------
(* The page. *)

\* The page is not done with a press: the answer is out, or the wait is on.
Busy == wait.for # 0 \/ \E r \in Requests : post[r] \in {"sent", "asked"}

\* generate: what was shown is cleared.  Nothing but the status keeps the button from
\* being pressed again, and a saved document that is loaded sets that to done: the wait
\* for the press before stays until the answer to this one is here.
Generate(r) ==
    /\ page.status # "generating"
    /\ post[r] = "none"
    /\ \A q \in Requests : q < r => post[q] # "none"
    /\ page' = [page EXCEPT !.status = "generating", !.document = 0, !.claims = 0, !.for = 0]
    /\ post' = [post EXCEPT ![r] = "sent"]
    /\ crossed' = (crossed \/ Busy \/ \E q \in 1..(r - 1) : ~Settled(q))
    /\ switched' = (switched \/ page.export # 0)
    /\ UNCHANGED <<lifeVars, announced, wait, loads, reloads>>

\* The answer: waitForCompletion closes the wait before, and subscribes.
PostAnswered(r) ==
    /\ post[r] = "asked"
    /\ post' = [post EXCEPT ![r] = "done"]
    /\ wait' = [NoWait EXCEPT !.for = r, !.stream = "opening"]
    /\ UNCHANGED <<lifeVars, announced, loads, page, reloads, crossed, switched>>

\* What becomes of a request the page no longer waits for.
Left(state) == CASE state = "none" -> {"none"} [] state = "sent" -> {"left", "done"}
                 [] state = "left" -> {"left"} [] OTHER -> {"done"}

\* No answer, or an error; the API may have sent the message, or send it yet.
PostFails(r) ==
    /\ post[r] \in {"sent", "asked"}
    /\ \E state \in Left(post[r]) : post' = [post EXCEPT ![r] = state]
    /\ page' = [page EXCEPT !.status = "idle"]
    /\ UNCHANGED <<lifeVars, announced, wait, loads, reloads, crossed, switched>>

\* finish of wait r, which may be over.
Finished(r) == IF wait.for = r THEN NoWait ELSE wait

\* The next event reaches the page, and the stream ends.  A completion begins a load; a
\* failure ends the wait.
Forward ==
    /\ wait.for # 0 /\ wait.stream = "open" /\ wait.inbox # <<>>
    /\ IF Head(wait.inbox).name = "completed"
       THEN /\ loads' = loads \cup {[document |-> Head(wait.inbox).run, for |-> wait.for]}
            /\ wait' = [wait EXCEPT !.stream = "ended", !.inbox = <<>>]
            /\ UNCHANGED page
       ELSE /\ wait' = NoWait
            /\ page' = [page EXCEPT !.status = "idle"]
            /\ UNCHANGED loads
    /\ UNCHANGED <<lifeVars, announced, post, reloads, crossed, switched>>

\* The stream cannot be opened, or breaks: the page is told.
StreamFails ==
    /\ wait.stream \in {"opening", "open"}
    /\ wait' = NoWait
    /\ page' = [page EXCEPT !.status = "idle"]
    /\ UNCHANGED <<lifeVars, announced, post, loads, reloads, crossed, switched>>

\* The stream ends in good order, without an end of the run: nobody is told.
StreamEndsQuietly ==
    /\ wait.stream = "open"
    /\ wait' = [wait EXCEPT !.stream = "cut", !.inbox = <<>>]
    /\ UNCHANGED <<lifeVars, announced, post, loads, page, reloads, crossed, switched>>

\* Variant: the wait is over, but the page is not told.
TimeOutSilently ==
    /\ wait.for # 0
    /\ wait' = NoWait
    /\ UNCHANGED <<lifeVars, announced, post, loads, page, reloads, crossed, switched>>

\* The 120 seconds of the wait are over.
TimeOut ==
    /\ wait.for # 0
    /\ wait' = NoWait
    /\ page' = [page EXCEPT !.status = "idle"]
    /\ UNCHANGED <<lifeVars, announced, post, loads, reloads, crossed, switched>>

\* A saved document is picked from the list.
Pick(k) ==
    /\ k \in page.list
    /\ loads' = loads \cup {[document |-> k, for |-> 0]}
    /\ UNCHANGED <<lifeVars, announced, post, wait, page, reloads, crossed, switched>>

\* loadDocument has document and claims, and shows both, whatever the page does by now.
LoadEnds(l) ==
    /\ loads' = loads \ {l}
    /\ page' = [page EXCEPT !.status = "done", !.document = l.document, !.claims = l.document,
                            !.for = l.for, !.list = @ \cup {l.document}]
    /\ wait' = IF l.for # 0 THEN Finished(l.for) ELSE wait
    /\ switched' = (switched \/ page.export # 0)
    /\ UNCHANGED <<lifeVars, announced, post, reloads, crossed>>

\* One of its two requests fails: what a wait had begun ends the wait.
LoadFails(l) ==
    /\ loads' = loads \ {l}
    /\ page' = [page EXCEPT !.status = IF l.for # 0 THEN "idle" ELSE @]
    /\ wait' = IF l.for # 0 THEN Finished(l.for) ELSE wait
    /\ UNCHANGED <<lifeVars, announced, post, reloads, crossed, switched>>

\* exportPdf: the document is exported, then read again and shown.
Export ==
    /\ page.document # 0 /\ page.export = 0
    /\ page' = [page EXCEPT !.export = page.document]
    /\ UNCHANGED <<lifeVars, announced, post, wait, loads, reloads, crossed, switched>>

ExportEnds ==
    /\ page.export # 0
    /\ \/ page' = [page EXCEPT !.export = 0, !.document = page.export, !.for = 0]
       \/ page' = [page EXCEPT !.export = 0]
    /\ UNCHANGED <<lifeVars, announced, post, wait, loads, reloads, crossed, switched>>

\* The page is loaded again; what the API was asked for goes on.
Reload ==
    /\ reloads < MaxReloads
    /\ reloads' = reloads + 1
    /\ page' = Fresh
    /\ wait' = NoWait
    /\ loads' = {}
    /\ post' \in {p \in [Requests -> PostState] : \A r \in Requests : p[r] \in Left(post[r])}
    /\ UNCHANGED <<lifeVars, announced, crossed, switched>>

Next ==
    \/ \E r \in Requests : RunBegins(r) \/ PostHandled(r) \/ PostAnswered(r) \/ PostFails(r)
    \/ \E k \in DOMAIN runs : RunMoves(k) \/ Publish(k)
    \/ \E r \in Requests : Generate(r)
    \/ Subscribe \/ Forward \/ StreamFails \/ StreamEndsQuietly \/ TimeOut
    \/ \E k \in Runs : Pick(k)
    \/ \E l \in loads : LoadEnds(l) \/ LoadFails(l)
    \/ Export \/ ExportEnds \/ Reload

\* Requests are answered or fail, and the timer rings.  Nothing is assumed of the worker,
\* the stream or the loads.
Fairness ==
    /\ \A r \in Requests : WF_vars(PostAnswered(r) \/ PostFails(r))
    /\ WF_vars(TimeOut)

Spec == Init /\ [][Next]_vars /\ Fairness

-----------------------------------------------------------------------------
(* Properties. *)

\* The variables have the types the code gives them.
TypeOK ==
    /\ requested \subseteq Requests
    /\ runs \in Seq([request: Requests,
                     status: {"running", "succeeded", "failed", "cancelled"}])
    /\ docs \subseteq Runs
    /\ announced \subseteq Event
    /\ post \in [Requests -> PostState]
    /\ wait \in Wait
    /\ loads \subseteq Load
    /\ page \in Page
    /\ reloads \in 0..MaxReloads
    /\ {crossed, switched} \subseteq BOOLEAN

\* The document a wait brings to the page is stored and is of the press that waited,
\* although events are of the job and carry no request, unless an earlier press was not
\* settled or still waited for when the button was pressed again, or a worker that died
\* was replaced later.
WaitBringsItsDocument ==
    page.for # 0 /\ ~crossed =>
        page.document \in docs /\ runs[page.document].request = page.for

\* The claims beside a document are its own, unless another document came to the page
\* while one was being exported (exportPdf shows again the document it began with).
ClaimsAreOfDocument == page.document # 0 /\ ~switched => page.claims = page.document

\* Both: the page shows what the user asked it for.
PageShowsItsOwn == WaitBringsItsDocument /\ ClaimsAreOfDocument

\* A page that says it is generating stops saying so, whatever becomes of the message, the
\* worker, the publication and the stream.
GeneratingEnds == page.status = "generating" ~> page.status # "generating"

=============================================================================
