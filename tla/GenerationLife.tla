---------------------------- MODULE GenerationLife ----------------------------
(***************************************************************************)
(* What document generation promises to those who watch it from outside:   *)
(* the API that asks, and the page that waits.  A run answers a request    *)
(* and ends at most once; its document is stored in the same step in which *)
(* it succeeds.  A request may be given to more than one run (a worker     *)
(* died) or to none (the message was lost), and a run may stay running for *)
(* good: nothing here is fair.                                             *)
(*                                                                         *)
(* Generation implements this specification (ImplementsLife there), and    *)
(* DocumentPage builds on it.                                              *)
(***************************************************************************)
EXTENDS Naturals, Sequences

CONSTANT Requests   \* calls of POST /jobs/{id}/generate

VARIABLES
    requested,   \* requests the API has accepted
    runs,        \* rows of generation_runs, in order of insertion
    docs         \* the runs that have a document

lifeVars == <<requested, runs, docs>>

LifeInit == requested = {} /\ runs = <<>> /\ docs = {}

Ask(r) ==
    /\ r \notin requested
    /\ requested' = requested \cup {r}
    /\ UNCHANGED <<runs, docs>>

Begin(r) ==
    /\ r \in requested
    /\ runs' = Append(runs, [request |-> r, status |-> "running"])
    /\ UNCHANGED <<requested, docs>>

Ends(k, from, status) ==
    /\ runs[k].status = from
    /\ runs' = [runs EXCEPT ![k].status = status]
    /\ UNCHANGED requested

Succeed(k) == Ends(k, "running", "succeeded") /\ docs' = docs \cup {k}

Stop(k) == (Ends(k, "running", "failed") \/ Ends(k, "running", "cancelled")) /\ UNCHANGED docs

\* The success could not be announced: the handler overwrites the status, the document
\* stays.
Overwrite(k) == Ends(k, "succeeded", "failed") /\ UNCHANGED docs

LifeNext ==
    \/ \E r \in Requests : Ask(r) \/ Begin(r)
    \/ \E k \in DOMAIN runs : Succeed(k) \/ Stop(k) \/ Overwrite(k)

LifeSpec == LifeInit /\ [][LifeNext]_lifeVars
=============================================================================
