------------------------------ MODULE Generation ------------------------------
(***************************************************************************)
(* Document generation for one job: the actor generate_document            *)
(* (intelligence/generation.py) with its verify, repair and removal loop,  *)
(* the claim finalizer and the fact guard, the cancel flag it shares with  *)
(* coverage, and the export gate (render/export.py).                       *)
(*                                                                         *)
(* A unit of text (summary, bullet or paragraph) is named by the place it  *)
(* was written at, so that the model sees which unit a removal takes.      *)
(***************************************************************************)
EXTENDS Naturals, Sequences, FiniteSets, Functions

CONSTANTS
    Workers,      \* worker threads
    Requests,     \* calls of POST /jobs/{id}/generate
    Types,        \* document types that are asked for
    Shapes,       \* resumes the LLM may write: bullets per experience entry
    Lengths,      \* cover letters it may write: number of paragraphs
    MaxClaims,    \* bound: claims in an answer of the verifier
    MaxRepairs,   \* MAX_REPAIR_ATTEMPTS (2 in the code)
    MaxFaults,    \* bound: exceptions, time limits and crashes in a behaviour
    MaxCancels    \* bound: calls of POST /jobs/{id}/cancel in a behaviour

ASSUME TypesAreDocumentTypes == Types \subseteq {"resume", "cover_letter"}

ASSUME DraftsAreFinite == Shapes \subseteq Seq(Nat) /\ Lengths \subseteq Nat

ASSUME LimitsAreNat ==
    /\ MaxClaims \in Nat
    /\ MaxRepairs \in Nat
    /\ MaxFaults \in Nat
    /\ MaxCancels \in Nat

VARIABLES
    flag,        \* Redis key cancel:job:{id} exists
    queue,       \* messages waiting
    run,         \* what each worker thread is executing
    rows,        \* GenerationRun rows, oldest first
    documents,   \* GeneratedDocument rows with their GeneratedClaim rows
    asked,       \* requests that were made
    cancels, faults   \* counters for the bounds

vars == <<flag, queue, run, rows, documents, asked, cancels, faults>>

-----------------------------------------------------------------------------
(* Documents. *)

\* A unit of text: the draft, entry and position it was written at.
Text == Nat \X Nat \X Nat
Blank == <<>>        \* the empty string

\* The skills line and the head of an entry (employer, title, dates) are one text each.
Resume == [type: {"resume"}, summary: Text \cup {Blank}, skills: Text,
           heads: Seq(Text), experience: Seq(Seq(Text \cup {Blank}))]
Letter == [type: {"cover_letter"}, paragraphs: Seq(Text \cup {Blank})]
Content == Resume \cup Letter
NoContent == [type |-> "none"]

\* What the writer may answer: each draft is new text.
Written(type, draft) ==
    IF type = "resume"
    THEN {[type |-> "resume", summary |-> <<draft, 0, 0>>, skills |-> <<draft, 0, 1>>,
           heads |-> [e \in DOMAIN s |-> <<draft, e, 0>>],
           experience |-> [e \in DOMAIN s |-> [b \in 1..s[e] |-> <<draft, e, b>>]]] : s \in Shapes}
    ELSE {[type |-> "cover_letter", paragraphs |-> [p \in 1..n |-> <<draft, 1, p>>]] : n \in Lengths}

\* Where the units of a document are, the summary at <<0, 0>>.
Bullets(c, entries) == UNION {{e} \X DOMAIN c.experience[e] : e \in entries}
Places(c) == IF c.type = "resume" THEN {<<0, 0>>} \cup Bullets(c, DOMAIN c.experience)
                                  ELSE {1} \X DOMAIN c.paragraphs

Unit(c, p) == IF c.type = "cover_letter" THEN c.paragraphs[p[2]]
              ELSE IF p[1] = 0 THEN c.summary ELSE c.experience[p[1]][p[2]]

Before(p, q) == p[1] < q[1] \/ (p[1] = q[1] /\ p[2] < q[2])

\* How many units come earlier in the document.
Number(c, p) == Cardinality({q \in Places(c) : Before(q, p)})

\* _flatten_bullets, _flatten_paragraphs: the numbered units offered to the verifier.
Units(c) == {<<Number(c, p), Unit(c, p)>> : p \in Places(c)}

\* What the templates print.
Rendered(c) ==
    ({u[2] : u \in Units(c)} \ {Blank})
        \cup (IF c.type = "resume" THEN {c.skills} \cup Range(c.heads) ELSE {})

\* Bullets in the first n entries.
BulletsUpTo(c, n) == Cardinality(Bullets(c, 1..n))

\* The entry and bullet reached by counting to i over the entries.
Counted(c, i) ==
    {<<e, i - BulletsUpTo(c, e - 1)>> :
        e \in {d \in DOMAIN c.experience :
                  BulletsUpTo(c, d - 1) < i /\ i <= BulletsUpTo(c, d)}}

\* Variant: bullets are numbered from 0, like paragraphs.
LocationFromZero(c, i) == IF i = 0 THEN {<<0, 0>>} ELSE Counted(c, i + 1)

\* _location_for_index; no location for a number the verifier made up.
LocationForIndex(c, i) == IF i = 0 THEN {<<0, 0>>} ELSE Counted(c, i)

\* _apply_removals, _apply_paragraph_removals: what is left out is blank here, since
\* nobody counts the units again.
Removed(c, indices) ==
    IF c.type = "resume"
    THEN LET failed == UNION {LocationForIndex(c, i) : i \in indices}
         IN  [c EXCEPT !.summary = IF <<0, 0>> \in failed THEN Blank ELSE @,
                       !.experience = [e \in DOMAIN @ |->
                           [b \in DOMAIN @[e] |-> IF <<e, b>> \in failed THEN Blank ELSE @[e][b]]]]
    ELSE [c EXCEPT !.paragraphs = [p \in DOMAIN @ |-> IF p - 1 \in indices THEN Blank ELSE @[p]]]

-----------------------------------------------------------------------------
(* Claims. *)

Verdict == {"supported", "partially_supported", "unsupported", "contradictory"}

\* What the verifier says of a claim: its type, the cited sources in which the
\* asserted value appears verbatim, and its own opinion.
Judgement == [type: {"immutable", "metric", "other"},
              verbatim: SUBSET {"profile_fact", "evidence"},
              said: Verdict \cup {"unparseable"}]

\* check_fact: no reference, or one without the value, fails.
PassesGuard(j) ==
    \/ j.type = "immutable" /\ "profile_fact" \in j.verbatim
    \/ j.type = "metric" /\ "evidence" \in j.verbatim

\* finalize_claim_status: the guard decides for guarded types, the LLM for others.
FinalStatus(j) ==
    IF j.type \in {"immutable", "metric"}
    THEN IF PassesGuard(j) THEN "supported" ELSE "unsupported"
    ELSE IF j.said = "unparseable" THEN "unsupported" ELSE j.said

\* Any wording of a claim but that of a whole unit: a paraphrase, a part of a unit, words
\* that stand in several places.
OwnWords == <<"own words">>

\* A finalized claim.  The number is not stored; invented is a history field: a
\* hard fact that no cited source holds.
Claim == [index: Nat, text: Text \cup {OwnWords}, status: Verdict, invented: BOOLEAN]

\* How the verifier may word a claim: claim_text is a string of its own.
Wordings(c) == {u[2] : u \in Units(c)} \cup {OwnWords}

\* The claims a verifier may return for a document: any number with any wording.
Claims(c) ==
    {[index |-> i, text |-> words, status |-> FinalStatus(j),
      invented |-> j.type # "other" /\ ~PassesGuard(j)] :
        i \in 0..Cardinality(Units(c)), words \in Wordings(c), j \in Judgement}

\* Bound: at most MaxClaims claims, which may be on the same unit or not.
Answers(c) == {{}} \cup {Range(f) : f \in [1..MaxClaims -> Claims(c)]}

Refused(claims) == {c \in claims : c.status \in {"unsupported", "contradictory"}}

-----------------------------------------------------------------------------
(* State. *)

Message == [request: Requests, type: Types]

RowStatus == {"running", "succeeded", "failed", "cancelled"}

\* A row of generation_runs.  History: the request it serves, and what went wrong
\* with the run: it was cut short, crashed, or failed after its document was stored.
Row == [request: Requests, status: RowStatus, mishap: {"none", "cut", "crashed", "unannounced"}]

Pc == {"idle", "enter", "position", "write", "verify", "judge", "persist", "announce",
       "cancelled", "clear"}

Idle == [pc |-> "idle", message |-> {}, row |-> 0, draft |-> 0,
         content |-> NoContent, verified |-> NoContent, claims |-> {}]

Init ==
    /\ flag = FALSE
    /\ queue = {}
    /\ run = [w \in Workers |-> Idle]
    /\ rows = <<>>
    /\ documents = {}
    /\ asked = {}
    /\ cancels = 0
    /\ faults = 0

-----------------------------------------------------------------------------
(* The user and the clock. *)

\* POST /jobs/{id}/generate: send the message; nothing is stored.
Generate(r, t) ==
    /\ r \notin asked
    /\ asked' = asked \cup {r}
    /\ queue' = queue \cup {[request |-> r, type |-> t]}
    /\ UNCHANGED <<flag, run, rows, documents, cancels, faults>>

\* POST /jobs/{id}/cancel.
Cancel ==
    /\ cancels < MaxCancels
    /\ cancels' = cancels + 1
    /\ flag' = TRUE
    /\ UNCHANGED <<queue, run, rows, documents, asked, faults>>

\* The flag's hour passes, or a coverage run of the job consumes it.
FlagVanishes ==
    /\ flag
    /\ flag' = FALSE
    /\ UNCHANGED <<queue, run, rows, documents, asked, cancels, faults>>

\* What the text of a PDF may hold of the claims: what was printed, and by chance words
\* that are nobody's unit.
MayBeFound(c) == Rendered(c) \cup {OwnWords}

\* Variant: the claims are looked up in the draft they were verified in.
ExportableAsVerified(d) ==
    \A c \in d.claims : c.status = "supported" => c.text \in MayBeFound(d.verified)

\* export_document: refused unless every supported claim is found in the PDF's text.
Exportable(d) ==
    \A c \in d.claims : c.status = "supported" => c.text \in MayBeFound(d.content)

\* POST /documents/{id}/export.  That such a document is refused all the same, because
\* the PDF breaks a text or does not hold the verifier's words, changes nothing.
Export(d) ==
    /\ Exportable(d)
    /\ documents' = (documents \ {d}) \cup {[d EXCEPT !.exported = TRUE]}
    /\ UNCHANGED <<flag, queue, run, rows, asked, cancels, faults>>

-----------------------------------------------------------------------------
(* generate_document in worker w. *)

\* What the steps below leave alone.
outside == <<asked, cancels>>

At(w, pc) == run[w].pc = pc

\* The run's row is committed as running.
GenTake(w, m) ==
    /\ At(w, "idle")
    /\ queue' = queue \ {m}
    /\ rows' = Append(rows, [request |-> m.request, status |-> "running", mishap |-> "none"])
    /\ run' = [run EXCEPT ![w] = [Idle EXCEPT !.pc = "enter", !.message = {m}, !.row = Len(rows')]]
    /\ UNCHANGED <<flag, documents, faults, outside>>

\* Announce the start, then look at the flag.
GenEnter(w) ==
    /\ At(w, "enter")
    /\ run' = [run EXCEPT ![w].pc = IF flag THEN "cancelled" ELSE "position"]
    /\ UNCHANGED <<flag, queue, rows, documents, faults, outside>>

\* Positioning, facts and evidence, then the flag again.
GenPosition(w) ==
    /\ At(w, "position")
    /\ run' = [run EXCEPT ![w].pc = IF flag THEN "cancelled" ELSE "write"]
    /\ UNCHANGED <<flag, queue, rows, documents, faults, outside>>

GenWrite(w) ==
    /\ At(w, "write")
    /\ \E m \in run[w].message : \E c \in Written(m.type, 0) :
           run' = [run EXCEPT ![w].pc = "verify", ![w].content = c]
    /\ UNCHANGED <<flag, queue, rows, documents, faults, outside>>

GenVerify(w) ==
    /\ At(w, "verify")
    /\ \E answer \in Answers(run[w].content) :
           run' = [run EXCEPT ![w].pc = "judge", ![w].claims = answer]
    /\ UNCHANGED <<flag, queue, rows, documents, faults, outside>>

\* Variant: one attempt too many.
GenRepairOnceMore(w) ==
    /\ At(w, "judge")
    /\ Refused(run[w].claims) # {}
    /\ run[w].draft <= MaxRepairs
    /\ \E m \in run[w].message : \E c \in Written(m.type, run[w].draft + 1) :
           run' = [run EXCEPT ![w].pc = "verify", ![w].content = c, ![w].draft = @ + 1,
                              ![w].claims = {}]
    /\ UNCHANGED <<flag, queue, rows, documents, faults, outside>>

\* A claim was refused and attempts are left: another draft.
GenRepair(w) ==
    /\ At(w, "judge")
    /\ Refused(run[w].claims) # {}
    /\ run[w].draft < MaxRepairs
    /\ \E m \in run[w].message : \E c \in Written(m.type, run[w].draft + 1) :
           run' = [run EXCEPT ![w].pc = "verify", ![w].content = c, ![w].draft = @ + 1,
                              ![w].claims = {}]
    /\ UNCHANGED <<flag, queue, rows, documents, faults, outside>>

\* Nothing was refused, or attempts are used up: take the refused units out.
GenRemove(w) ==
    /\ At(w, "judge")
    /\ Refused(run[w].claims) = {} \/ run[w].draft = MaxRepairs
    /\ run' = [run EXCEPT ![w].pc = "persist", ![w].verified = run[w].content,
                          ![w].content = Removed(@, {c.index : c \in Refused(run[w].claims)})]
    /\ UNCHANGED <<flag, queue, rows, documents, faults, outside>>

\* Variant: the document in a commit of its own, the status later.
GenPersistDocument(w) ==
    /\ At(w, "persist")
    /\ documents' = documents \cup {[row |-> run[w].row, content |-> run[w].content,
                                     verified |-> run[w].verified, claims |-> run[w].claims,
                                     exported |-> FALSE]}
    /\ run' = [run EXCEPT ![w] = [Idle EXCEPT !.pc = "announce", !.message = run[w].message,
                                              !.row = run[w].row]]
    /\ UNCHANGED <<flag, queue, rows, faults, outside>>

\* Document, claims and the row's status, in one commit.
GenPersist(w) ==
    /\ At(w, "persist")
    /\ documents' = documents \cup {[row |-> run[w].row, content |-> run[w].content,
                                     verified |-> run[w].verified, claims |-> run[w].claims,
                                     exported |-> FALSE]}
    /\ rows' = [rows EXCEPT ![run[w].row].status = "succeeded"]
    /\ run' = [run EXCEPT ![w] = [Idle EXCEPT !.pc = "announce", !.message = run[w].message,
                                              !.row = run[w].row]]
    /\ UNCHANGED <<flag, queue, faults, outside>>

\* Publish the completion; the message is acknowledged.
GenAnnounce(w) ==
    /\ At(w, "announce")
    /\ run' = [run EXCEPT ![w] = Idle]
    /\ UNCHANGED <<flag, queue, rows, documents, faults, outside>>

\* Variant: the handler forgets the row.
GenCancelledSilently(w) ==
    /\ At(w, "cancelled")
    /\ run' = [run EXCEPT ![w].pc = "clear"]
    /\ UNCHANGED <<flag, queue, rows, documents, faults, outside>>

\* except JobCancelled: the row, then the flag.
GenCancelled(w) ==
    /\ At(w, "cancelled")
    /\ rows' = [rows EXCEPT ![run[w].row].status = "cancelled"]
    /\ run' = [run EXCEPT ![w].pc = "clear"]
    /\ UNCHANGED <<flag, queue, documents, faults, outside>>

GenClear(w) ==
    /\ At(w, "clear")
    /\ flag' = FALSE
    /\ run' = [run EXCEPT ![w] = Idle]
    /\ UNCHANGED <<queue, rows, documents, faults, outside>>

-----------------------------------------------------------------------------
(* Faults. *)

Fault == faults < MaxFaults /\ faults' = faults + 1

\* except Exception: the row is failed, whether or not its document is stored.
GenRaises(w) ==
    /\ Fault
    /\ run[w].pc \in {"enter", "position", "write", "verify", "judge", "announce"}
    /\ rows' = [rows EXCEPT ![run[w].row].status = "failed",
                            ![run[w].row].mishap = IF At(w, "announce") THEN "unannounced" ELSE @]
    /\ run' = [run EXCEPT ![w] = Idle]
    /\ UNCHANGED <<flag, queue, documents, outside>>

\* It may happen before the run has a row.
GenNeverStarts(m) ==
    /\ Fault
    /\ queue' = queue \ {m}
    /\ UNCHANGED <<flag, run, rows, documents, outside>>

\* Variant: the message is retried.
GenCutRetried(w) ==
    /\ Fault
    /\ ~At(w, "idle")
    /\ rows' = [rows EXCEPT ![run[w].row].mishap = "cut"]
    /\ queue' = queue \cup run[w].message
    /\ run' = [run EXCEPT ![w] = Idle]
    /\ UNCHANGED <<flag, documents, outside>>

\* Nothing handles the exception: a time limit, a step outside the try, a session
\* that cannot commit in the handler.  max_retries is 0: the message is dropped.
GenCut(w) ==
    /\ Fault
    /\ ~At(w, "idle")
    /\ rows' = [rows EXCEPT ![run[w].row].mishap = "cut"]
    /\ run' = [run EXCEPT ![w] = Idle]
    /\ UNCHANGED <<flag, queue, documents, outside>>

\* The process dies: its unacknowledged message is delivered again.
GenCrash(w) ==
    /\ Fault
    /\ ~At(w, "idle")
    /\ rows' = [rows EXCEPT ![run[w].row].mishap = "crashed"]
    /\ queue' = queue \cup run[w].message
    /\ run' = [run EXCEPT ![w] = Idle]
    /\ UNCHANGED <<flag, documents, outside>>

\* The container restarts: Redis forgets messages and flag.
Restart ==
    /\ Fault
    /\ rows' = [k \in DOMAIN rows |->
                   IF \E w \in Workers : ~At(w, "idle") /\ run[w].row = k
                   THEN [rows[k] EXCEPT !.mishap = "cut"] ELSE rows[k]]
    /\ queue' = {}
    /\ flag' = FALSE
    /\ run' = [w \in Workers |-> Idle]
    /\ UNCHANGED <<documents, outside>>

-----------------------------------------------------------------------------
GenStep(w) ==
    \/ GenEnter(w)
    \/ GenPosition(w)
    \/ GenWrite(w)
    \/ GenVerify(w)
    \/ GenRepair(w)
    \/ GenRemove(w)
    \/ GenPersist(w)
    \/ GenAnnounce(w)
    \/ GenCancelled(w)
    \/ GenClear(w)

UserNext ==
    \/ \E r \in Requests, t \in Types : Generate(r, t)
    \/ Cancel
    \/ \E d \in documents : Export(d)

Next ==
    \/ UserNext
    \/ FlagVanishes
    \/ \E w \in Workers : GenStep(w) \/ GenRaises(w) \/ GenCut(w) \/ GenCrash(w)
    \/ \E w \in Workers, m \in queue : GenTake(w, m)
    \/ \E m \in queue : GenNeverStarts(m)
    \/ Restart

\* A thread that has a message goes on with it, and an idle thread takes one.
Fairness ==
    /\ \A w \in Workers : WF_vars(GenStep(w))
    /\ WF_vars(\E w \in Workers, m \in queue : GenTake(w, m))

Spec == Init /\ [][Next]_vars /\ Fairness

-----------------------------------------------------------------------------
(* Properties. *)

\* The variables have the types the code gives them.
TypeOK ==
    /\ flag \in BOOLEAN
    /\ queue \subseteq Message
    /\ \A w \in Workers :
           /\ run[w].pc \in Pc
           /\ run[w].message \subseteq Message
           /\ run[w].row \in {0} \cup DOMAIN rows
           /\ run[w].draft \in 0..MaxRepairs
           /\ run[w].claims \subseteq Claim
           /\ {run[w].content, run[w].verified} \subseteq Content \cup {NoContent}
    /\ rows \in Seq(Row)
    /\ \A d \in documents :
           /\ d.row \in DOMAIN rows
           /\ {d.content, d.verified} \subseteq Content
           /\ d.claims \subseteq Claim
           /\ d.exported \in BOOLEAN
    /\ asked \subseteq Requests
    /\ cancels \in 0..MaxCancels
    /\ faults \in 0..MaxFaults

\* The unit of d's verified draft that carries the number of claim c.
NumberedUnit(d, c) == {u[2] : u \in {v \in Units(d.verified) : v[1] = c.index}}

\* The unit for which the verifier refused a claim, or a claim of which asserts a hard fact
\* its source does not hold, is not in the stored document, however the claim is worded and
\* whichever pass of the repair loop refused it (_location_for_index, _apply_removals,
\* finalize_claim_status).
UnbackedUnitsAreGone ==
    \A d \in documents : \A c \in d.claims :
        c \in Refused(d.claims) \/ c.invented
        => NumberedUnit(d, c) \cap Rendered(d.content) = {}

\* A removal takes a whole unit, with the supported claims that quote it; such a document is
\* never exported, whatever claims and drafts there were and whatever the PDF's text holds
\* by chance (_apply_removals in generation.py against the gate in export.py).
ExportedIsUnhurt ==
    \A d \in documents : \A lost \in d.claims, refused \in Refused(d.claims) :
        d.exported /\ lost.status = "supported" => lost.text \notin NumberedUnit(d, refused)

\* One request makes two documents only if a process died on it: nothing that is
\* raised leads to a second generation (max_retries=0 of generate_document).
SecondDocumentNeedsCrash ==
    \A d1, d2 \in documents :
        d1.row < d2.row /\ rows[d1.row].request = rows[d2.row].request
        => rows[d1.row].mishap = "crashed"

Underway(k) == k \in DOMAIN rows /\ rows[k].status = "running" /\ rows[k].mishap = "none"

\* Every run gets out of the status running, unless it is cut short or killed
\* (the handlers of _generate cover every stage that can raise or notice the flag).
RunEnds ==
    \A k \in 1..(Cardinality(Requests) + MaxFaults) : Underway(k) ~> ~Underway(k)

-----------------------------------------------------------------------------
(* What the watchers of a generation rely on. *)

Life == INSTANCE GenerationLife
    WITH requested <- asked,
         runs <- [k \in DOMAIN rows |-> [request |-> rows[k].request, status |-> rows[k].status]],
         docs <- {d.row : d \in documents}

\* Whatever is raised, cancelled, killed, delivered again or lost, the rows and documents
\* of the actor go through the steps of GenerationLife only: a run belongs to a request
\* that was accepted, ends once, and has its document from the very step it succeeds in.
ImplementsLife == Life!LifeSpec

=============================================================================
