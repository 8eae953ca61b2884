-------------------------- MODULE EvidenceMatching --------------------------
(***************************************************************************)
(* One requirement of a job and the evidence of its user: the hybrid search *)
(* (repositories/evidence.py), the rerank that picks one hit, the match it  *)
(* leaves (intelligence/coverage.py), and the readers of that match: the    *)
(* coverage matrix (routers/jobs.py), the evidence graph                    *)
(* (services/evidence_graph.py) and the generation of documents.  Meanwhile *)
(* evidence is extracted, reviewed, goes stale or disappears.               *)
(*                                                                         *)
(* Runs of compute_coverage that overlap are JobPipeline's; here there is   *)
(* one at a time, so at most one match.  Rows are numbered as created.      *)
(***************************************************************************)
EXTENDS Integers, FiniteSetsExt, Functions, Sequences

CONSTANTS
    Evidence,      \* 1..n
    Repos, RepoOf, \* the repository each row comes from
    Keywords,      \* normalized keywords of the requirement, when it has some
    KeywordCount,  \* how many the LLM wrote, repetitions included
    Signals,       \* what a row may have to do with the requirement
    Candidates,    \* max(CANDIDATES_PER_SIGNAL, limit)
    Limit,         \* CANDIDATES_PER_REQUIREMENT
    MaxRetries,    \* max_retries of compute_coverage
    MaxReviews, MaxRuns   \* bounds on a behaviour

ASSUME EvidenceIsNumbered == IsFiniteSet(Evidence) /\ Evidence = 1..Cardinality(Evidence)
ASSUME LimitsAreSane ==
    /\ {Candidates, Limit, KeywordCount, MaxRetries, MaxReviews, MaxRuns} \subseteq Nat
    /\ IsFiniteSet(Keywords)
    /\ Candidates >= Limit
    /\ KeywordCount >= Cardinality(Keywords)
    /\ RepoOf \in [Evidence -> Repos]

VARIABLES
    signal,    \* each row's relation to the requirement
    keywords,  \* the keywords asked for: Keywords, or none
    status,    \* Evidence.status; "absent" before extraction, "gone" after deletion
    job,       \* Job.status
    match,     \* committed EvidenceMatch rows of the requirement
    run,       \* the coverage run
    verdict,   \* history: what the last committed run made of the requirement
    late,      \* history: rows rejected after a search had found them
    erased,    \* history: a match went with its evidence
    reviews, runs   \* counters for the bounds

vars == <<signal, keywords, status, job, match, run, verdict, late, erased,
          reviews, runs>>

NoVector == -3   \* less than any cosine

\* rank: ts_rank_cd in halves, 0 when the text does not match; cosine: similarity
\* of the embeddings in halves, when the row has one; skills: of the keywords.
Signal == [rank: 0..4, cosine: (-2..2) \cup {NoVector}, skills: SUBSET Keywords]

ASSUME SignalsAreTyped == Signals \subseteq Signal

Live == {"candidate", "confirmed"}
EvidenceStatus == Live \cup {"rejected", "private", "stale"}
Labels == {"strong", "partial", "gap", "unknown"}

Idle == [pc |-> "idle", tries |-> 0, embedded |-> FALSE, hits |-> <<>>]

TypeOK ==
    /\ signal \in [Evidence -> Signal]
    /\ keywords \in {{}, Keywords}
    /\ status \in [Evidence -> EvidenceStatus \cup {"absent", "gone"}]
    /\ job \in {"captured", "matching", "ready", "coverage_failed", "cancelled"}
    /\ match \subseteq [evidence: Evidence, label: Labels]
    /\ Cardinality(match) <= 1
    /\ run \in [pc: {"idle", "search", "judge"}, tries: 0..MaxRetries, embedded: BOOLEAN,
                hits: Seq(Evidence)]
    /\ Len(run.hits) <= Limit
    /\ verdict \in {"open", "gap", "match"}
    /\ late \subseteq Evidence
    /\ erased \in BOOLEAN
    /\ reviews \in 0..MaxReviews /\ runs \in 0..MaxRuns

Init ==
    /\ signal \in [Evidence -> Signals]
    /\ keywords \in {{}, Keywords}
    /\ status = [e \in Evidence |-> "absent"]
    /\ job = "captured"
    /\ match = {}
    /\ run = Idle
    /\ verdict = "open"
    /\ late = {}
    /\ erased = FALSE
    /\ reviews = 0 /\ runs = 0

-----------------------------------------------------------------------------
(* hybrid_search, with or without an embedding of the requirement. *)

\* Variant: nothing the user decided is looked at.
AllRows == {e \in Evidence : status[e] \in EvidenceStatus}

\* base_where; coverage asks for no type and no repository in particular.
Searchable == {e \in Evidence : status[e] \in EvidenceStatus \ {"rejected"}}

\* ORDER BY rank DESC LIMIT n, ties in any order.
TopSets(S, rank, n) ==
    {T \in kSubset(Min({n, Cardinality(S)}), S) :
        \A a \in T, b \in S \ T : rank[a] >= rank[b]}

LexicalBranch(S) ==
    TopSets({e \in S : signal[e].rank > 0}, [e \in S |-> signal[e].rank], Candidates)

\* The IVFFlat index is approximate and filters after its scan: it may return fewer
\* rows, and others than the nearest.
VectorBranch(S) ==
    {T \in SUBSET {e \in S : signal[e].cosine # NoVector} : Cardinality(T) <= Candidates}

\* LIMIT without ORDER BY.
SkillBranch(S) ==
    LET tagged == {e \in S : signal[e].skills \cap keywords # {}}
    IN  kSubset(Min({Candidates, Cardinality(tagged)}), tagged)

\* Variant: the text is searched only when there is no embedding.
OneBranchOnly(S, embedded) ==
    IF embedded THEN VectorBranch(S) ELSE LexicalBranch(S)

\* The UNION of the branches.
CandidateSets(S, embedded) ==
    {L \cup V \cup K : L \in LexicalBranch(S),
                       V \in IF embedded THEN VectorBranch(S) ELSE {{}},
                       K \in IF keywords # {} THEN SkillBranch(S) ELSE {{}}}

LexicalScore(e) == Min({2, signal[e].rank})
VectorScore(e, embedded) ==
    IF embedded /\ signal[e].cosine # NoVector THEN Max({0, signal[e].cosine}) ELSE 0
Overlap(e) == Cardinality(signal[e].skills \cap keywords)

\* The weighted sum, times 200 * KeywordCount.
Score(e, embedded) ==
    KeywordCount * (35 * LexicalScore(e) + 45 * VectorScore(e, embedded))
        + 20 * 2 * Overlap(e)

\* ORDER BY score DESC LIMIT, and no row whose score is 0: the last ones, if any.
Ranked(C, embedded) ==
    LET P == {e \in C : Score(e, embedded) > 0}
        n == Min({Limit, Cardinality(P)})
    IN  {q \in Injection(1..n, P) :
            /\ \A i \in 1..n - 1 : Score(q[i], embedded) >= Score(q[i + 1], embedded)
            /\ \A e \in P \ Range(q) : \A i \in 1..n : Score(q[i], embedded) >= Score(e, embedded)}

Hits(embedded) == UNION {Ranked(C, embedded) : C \in CandidateSets(Searchable, embedded)}

-----------------------------------------------------------------------------
(* compute_coverage *)

\* POST /jobs/{id}/analyze and the analysis: the job is at "matching".
Begin ==
    /\ runs < MaxRuns
    /\ run.pc = "idle" /\ job # "matching"
    /\ runs' = runs + 1
    /\ job' = "matching"
    /\ run' = [Idle EXCEPT !.pc = "search"]
    /\ UNCHANGED <<signal, keywords, status, match, verdict, late, erased, reviews>>

\* The end of the run: the old match was deleted in the same transaction.
Commit(s, matches, v) ==
    /\ job' = s
    /\ match' = matches
    /\ verdict' = v
    /\ erased' = FALSE
    /\ late' = late \cap {m.evidence : m \in matches}
    /\ run' = Idle
    /\ UNCHANGED <<signal, keywords, status, reviews, runs>>

Cancelled ==
    /\ run.pc = "search"
    /\ Commit("cancelled", {}, "open")

\* Embedding the requirement may fail: it is searched without.
Search ==
    /\ run.pc = "search"
    /\ \E embedded \in BOOLEAN : \E hits \in Hits(embedded) :
          run' = [run EXCEPT !.pc = "judge", !.embedded = embedded, !.hits = hits]
    /\ UNCHANGED <<signal, keywords, status, job, match, verdict, late, erased,
                   reviews, runs>>

NoHits ==
    /\ run.pc = "judge" /\ run.hits = <<>>
    /\ Commit("ready", {}, "gap")

RerankFails ==
    /\ run.pc = "judge" /\ run.hits # <<>>
    /\ Commit("coverage_failed", {}, "open")

\* Variant: whatever the LLM wrote.
LabelAsWritten(raw) == raw

\* resolve_match_label
Resolved(raw) == IF raw \in Labels THEN raw ELSE "unknown"

\* best_evidence_index counts from 0; null, here -1, and numbers outside are a gap.
Picks(i) == i \in 0..Len(run.hits) - 1

RerankNone(i) ==
    /\ run.pc = "judge" /\ run.hits # <<>>
    /\ ~Picks(i)
    /\ Commit("ready", {}, "gap")

RerankPicks(i, raw) ==
    /\ run.pc = "judge" /\ run.hits # <<>>
    /\ Picks(i)
    /\ LET best == run.hits[i + 1]
       IN  /\ status[best] # "gone"
           /\ Commit(IF Resolved(raw) = "unknown" THEN "coverage_failed" ELSE "ready",
                     {[evidence |-> best, label |-> Resolved(raw)]}, "match")

\* The best hit was deleted meanwhile: the commit raises, the message is retried
\* and then given up.
RerankConflict(i) ==
    /\ run.pc = "judge" /\ run.hits # <<>>
    /\ Picks(i) /\ status[run.hits[i + 1]] = "gone"
    /\ run' = IF run.tries < MaxRetries
              THEN [Idle EXCEPT !.pc = "search", !.tries = run.tries + 1] ELSE Idle
    /\ UNCHANGED <<signal, keywords, status, job, match, verdict, late, erased,
                   reviews, runs>>

-----------------------------------------------------------------------------
(* What happens to evidence meanwhile. *)

Matched == {m.evidence : m \in match}

Extract(e) ==
    /\ status[e] = "absent"
    /\ \A f \in Evidence : f < e => status[f] # "absent"
    /\ status' = [status EXCEPT ![e] = "candidate"]
    /\ UNCHANGED <<signal, keywords, job, match, run, verdict, late, erased,
                   reviews, runs>>

\* PATCH /evidence/{id}
Review(e, s) ==
    /\ reviews < MaxReviews
    /\ status[e] \in EvidenceStatus
    /\ reviews' = reviews + 1
    /\ status' = [status EXCEPT ![e] = s]
    /\ late' = IF s = "rejected" THEN late \cup ({e} \cap (Range(run.hits) \cup Matched))
                                 ELSE late \ {e}
    /\ UNCHANGED <<signal, keywords, job, match, run, verdict, erased, runs>>

GoStale(e) ==
    /\ status[e] \in Live
    /\ status' = [status EXCEPT ![e] = "stale"]
    /\ UNCHANGED <<signal, keywords, job, match, run, verdict, late, erased,
                   reviews, runs>>

\* DELETE /github/connection: all repositories of the user go, and evidence and matches
\* with them, once no open coverage run has deleted the match.  What was not extracted yet
\* may come with a later connection.
Disconnect ==
    /\ \E e \in Evidence : status[e] \in EvidenceStatus
    /\ run.pc = "idle" \/ match = {}
    /\ status' = [e \in Evidence |-> IF status[e] = "absent" THEN "absent" ELSE "gone"]
    /\ match' = {}
    /\ erased' = (erased \/ match # {})
    /\ late' = {}
    /\ UNCHANGED <<signal, keywords, job, run, verdict, reviews, runs>>

Next ==
    \/ Begin \/ Cancelled \/ Search \/ NoHits \/ RerankFails
    \/ \E i \in -1..Limit :
          \/ RerankNone(i)
          \/ RerankConflict(i)
          \/ \E raw \in Labels \cup {"excellent"} : RerankPicks(i, raw)
    \/ \E e \in Evidence :
          Extract(e) \/ GoStale(e) \/ \E s \in EvidenceStatus : Review(e, s)
    \/ Disconnect

Spec == Init /\ [][Next]_vars

-----------------------------------------------------------------------------
(* The readers. *)

\* get_coverage and the coverage summary of compute_positioning.
MatrixLabel == IF match = {} THEN "gap" ELSE (CHOOSE m \in match : TRUE).label

\* What a generation hands to the writer and the verifier as evidence.
Facts == {m.evidence : m \in {x \in match : x.label \in {"strong", "partial"}}}

\* The rows project_graph shows: the newest live ones, of one repository or of all.
\* Each has a source in its own repository (save_candidates).
Visible(repos, limit) ==
    LET live == {e \in Evidence : status[e] \in Live /\ RepoOf[e] \in repos}
    IN  {e \in live : Cardinality({f \in live : f > e}) < limit}

Related(V) ==
    IF job = "matching" THEN {}
    ELSE {m \in match : m.evidence \in V /\ status[m.evidence] = "confirmed"}

\* Variant: no match among those shown is a gap.
GraphLabelOfShown(V) ==
    IF Related(V) # {} THEN (CHOOSE m \in Related(V) : TRUE).label
    ELSE IF job = "ready" THEN "gap" ELSE "unknown"

GraphLabel(V) ==
    IF Related(V) # {} THEN (CHOOSE m \in Related(V) : TRUE).label
    ELSE IF job = "ready" /\ match = {} THEN "gap" ELSE "unknown"

Requirement == <<"requirement">>
Nodes(V) ==
    {Requirement} \cup {<<"evidence", e>> : e \in V}
        \cup {<<"project", RepoOf[e]>> : e \in V}
        \cup {<<"skill", k>> : k \in UNION {signal[e].skills : e \in V}}

Edge(a, b) == [from |-> a, to |-> b]
ProjectEdges(V) == {Edge(<<"project", RepoOf[e]>>, <<"evidence", e>>) : e \in V}
SkillEdges(V) ==
    UNION {{Edge(<<"evidence", e>>, <<"skill", k>>) : k \in signal[e].skills} : e \in V}
MatchEdges(V) == {Edge(<<"evidence", m.evidence>>, Requirement) : m \in Related(V)}
Edges(V) == ProjectEdges(V) \cup SkillEdges(V) \cup MatchEdges(V)

\* Every choice of the filter and the limit.
Views == {Visible(repos, limit) : repos \in {Repos} \cup {{r} : r \in Repos},
                                  limit \in 1..Cardinality(Evidence)}

-----------------------------------------------------------------------------
(* What searching and showing promise. *)

\* A search leaves such a row out only if a branch was full.
LeavesOutWhenCrowded ==
    (run.pc = "search" /\ run'.pc = "judge") =>
        LET hits == run'.hits
            S(e) == Score(e, run'.embedded)
            out == {e \in Searchable \ Range(hits) :
                       /\ S(e) > 0
                       /\ Len(hits) < Limit \/ \E h \in Range(hits) : S(h) < S(e)}
        IN  \A e \in out :
               /\ signal[e].rank > 0 =>
                     Cardinality({f \in Searchable \ {e} : signal[f].rank >= signal[e].rank})
                         >= Candidates
               /\ signal[e].skills \cap keywords # {} =>
                     Cardinality({f \in Searchable \ {e} : signal[f].skills \cap keywords # {}})
                         >= Candidates

\* A row that matches the text or shares a keyword is left out of the hits for a row
\* that scores less, or for an empty place, only if the branch that should have found
\* it was full of rows at least as good there.  What only the vector could find may
\* be missed.
LeftOutOnlyWhenCrowded == [][LeavesOutWhenCrowded]_vars

\* Whatever the user filters by and wherever the list is cut, the graph shows the
\* label of the coverage matrix, or that it does not know.
GraphAgreesWithMatrix ==
    \A V \in Views : GraphLabel(V) \in {MatrixLabel, "unknown"}

\* "Absence is not proof of a gap": the graph shows one only when the last run of
\* coverage found none, or its match went with the repository.
GapsWereFound ==
    \A V \in Views : GraphLabel(V) = "gap" =>
        \/ verdict = "gap" \/ erased
        \/ \E m \in match : m.label = "gap"

\* The graph has both ends of every edge, and the requirement is joined to confirmed
\* evidence only.
GraphIsClosed ==
    \A V \in Views : \A x \in Edges(V) :
        /\ {x.from, x.to} \subseteq Nodes(V)
        /\ x.to = Requirement => status[x.from[2]] = "confirmed"

\* The three together, for every filter and limit of the page.
GraphIsHonest == GraphAgreesWithMatrix /\ GapsWereFound /\ GraphIsClosed

\* What a generation is given as evidence exists, and was not rejected, unless the
\* user rejected it after the search that found it.
RejectedOnlyLate ==
    \A e \in Facts : status[e] \in EvidenceStatus /\ (status[e] = "rejected" => e \in late)

=============================================================================
