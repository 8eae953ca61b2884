----------------------- MODULE EvidenceMatching_proofs -----------------------
(***************************************************************************)
(* Proofs about EvidenceMatching, for any evidence, keywords, signals and  *)
(* limits and any number of runs: the types, what a search may leave out,  *)
(* that rejected evidence reaches a generation only by a late rejection,   *)
(* and that the evidence graph says no more than is known.                 *)
(***************************************************************************)
EXTENDS EvidenceMatching, FiniteSetTheorems, TLAPS

\* TypeOK, with what it says of the number of matches in other words.
OneMatch == match = {} \/ \E m \in [evidence: Evidence, label: Labels] : match = {m}

Run == [pc: {"idle", "search", "judge"}, tries: 0..MaxRetries, embedded: BOOLEAN,
        hits: Seq(Evidence)]

Types ==
    /\ signal \in [Evidence -> Signal]
    /\ keywords \in {{}, Keywords}
    /\ status \in [Evidence -> EvidenceStatus \cup {"absent", "gone"}]
    /\ job \in {"captured", "matching", "ready", "coverage_failed", "cancelled"}
    /\ OneMatch
    /\ run \in Run /\ Len(run.hits) <= Limit
    /\ verdict \in {"open", "gap", "match"}
    /\ late \subseteq Evidence
    /\ erased \in BOOLEAN
    /\ reviews \in 0..MaxReviews /\ runs \in 0..MaxRuns

\* What was found, and what is matched, still exists or was deleted since, and was not
\* rejected before.
NotRejected ==
    /\ \A e \in Range(run.hits) :
          status[e] \in EvidenceStatus \cup {"gone"} /\ (status[e] = "rejected" => e \in late)
    /\ \A e \in Matched :
          status[e] \in EvidenceStatus /\ (status[e] = "rejected" => e \in late)

\* A job that is ready without a match was found to have a gap, or has lost its match.
GapsHaveReason == job = "ready" /\ match = {} => verdict = "gap" \/ erased

\* The inductive invariant.
IInv == Types /\ NotRejected /\ GapsHaveReason

-----------------------------------------------------------------------------
(* The search. *)

LEMMA MinIs ==
    ASSUME NEW a \in Int, NEW b \in Int
    PROVE  Min({a, b}) = IF a <= b THEN a ELSE b
<1> DEFINE m == IF a <= b THEN a ELSE b
<1>1. m \in {a, b} /\ \A y \in {a, b} : m =< y
    OBVIOUS
<1>2. ASSUME NEW x \in {a, b}, \A y \in {a, b} : x =< y PROVE x = m
    BY <1>2
<1> QED BY <1>1, <1>2 DEF Min

LEMMA MaxIs ==
    ASSUME NEW a \in Int, NEW b \in Int
    PROVE  Max({a, b}) = IF a >= b THEN a ELSE b
<1> DEFINE m == IF a >= b THEN a ELSE b
<1>1. m \in {a, b} /\ \A y \in {a, b} : m >= y
    OBVIOUS
<1>2. ASSUME NEW x \in {a, b}, \A y \in {a, b} : x >= y PROVE x = m
    BY <1>2
<1> QED BY <1>1, <1>2 DEF Max

LEMMA ScoreIsInt ==
    ASSUME Types, NEW e \in Evidence, NEW embedded \in BOOLEAN
    PROVE  Score(e, embedded) \in Int
<1>1. /\ signal[e].rank \in 0..4 /\ signal[e].cosine \in (-2..2) \cup {NoVector}
      /\ signal[e].skills \subseteq Keywords
    BY DEF Types, Signal
<1>2. LexicalScore(e) \in Int
    BY <1>1, MinIs DEF LexicalScore
<1>3. VectorScore(e, embedded) \in Int
    BY <1>1, MaxIs DEF VectorScore
<1>4. Overlap(e) \in Int
    <2>1. IsFiniteSet(signal[e].skills \cap keywords)
        <3>1. signal[e].skills \cap keywords \in SUBSET Keywords
            BY <1>1
        <3> QED BY <3>1, LimitsAreSane, FS_Subset
    <2> QED BY <2>1, FS_CardinalityType DEF Overlap
<1>5. KeywordCount \in Int
    BY LimitsAreSane
<1> HIDE DEF LexicalScore, VectorScore, Overlap
<1> QED BY <1>2, <1>3, <1>4, <1>5 DEF Score

LEMMA EvidenceIsFinite ==
    ASSUME NEW S \in SUBSET Evidence
    PROVE  IsFiniteSet(S) /\ Cardinality(S) \in Nat
BY EvidenceIsNumbered, FS_Subset, FS_CardinalityType

LEMMA Interval ==
    ASSUME NEW k \in Nat PROVE IsFiniteSet(1..k) /\ Cardinality(1..k) = k
<1>1. IsFiniteSet(1..k) /\ Cardinality(1..k) = IF 1 > k THEN 0 ELSE k - 1 + 1
    BY FS_Interval
<1> QED BY <1>1

\* The rows a branch or the fusion may take: no more than the limit, and no place empty
\* while there is one left.
LEMMA RankedFacts ==
    ASSUME Types, NEW C \in SUBSET Evidence, NEW embedded \in BOOLEAN,
           NEW q \in Ranked(C, embedded)
    PROVE  /\ q \in Seq(Evidence) /\ Len(q) <= Limit /\ Range(q) \subseteq C
           /\ \A e \in C \ Range(q) : Score(e, embedded) > 0 =>
                 /\ Len(q) = Limit
                 /\ \A h \in Range(q) : Score(h, embedded) >= Score(e, embedded)
<1> DEFINE P == {e \in C : Score(e, embedded) > 0}
           n == Min({Limit, Cardinality(P)})
<1>1. IsFiniteSet(P) /\ Cardinality(P) \in Nat
    BY EvidenceIsFinite
<1>2. Limit \in Nat
    BY LimitsAreSane
<1>3. n \in Nat /\ n <= Limit /\ (n = Limit \/ n = Cardinality(P))
    BY <1>1, <1>2, MinIs
<1>4. /\ q \in Injection(1..n, P)
      /\ \A e \in P \ Range(q) : \A i \in 1..n : Score(q[i], embedded) >= Score(e, embedded)
    BY DEF Ranked
<1> HIDE DEF n
<1>5. q \in [1..n -> P]
    BY <1>4 DEF Injection
<1>6. q \in Seq(Evidence) /\ Len(q) = n /\ Range(q) \subseteq C
    <2>1. q \in Seq(P) /\ Len(q) = n
        BY <1>3, <1>5
    <2>2. \A i \in 1..n : q[i] \in P
        BY <1>5
    <2> HIDE DEF P
    <2>3. P \subseteq Evidence /\ P \subseteq C
        BY DEF P
    <2> QED BY <1>3, <1>5, <2>1, <2>2, <2>3 DEF Range
<1>7. ASSUME NEW e \in C \ Range(q), Score(e, embedded) > 0
      PROVE  Len(q) = Limit /\ \A h \in Range(q) : Score(h, embedded) >= Score(e, embedded)
    <2>1. e \in P \ Range(q)
        BY <1>7
    <2>2. \A h \in Range(q) : \E i \in 1..n : h = q[i]
        BY <1>5 DEF Range
    <2>3. n # Cardinality(P)
        <3> SUFFICES ASSUME n = Cardinality(P) PROVE FALSE
            OBVIOUS
        <3>1. IsFiniteSet(1..n) /\ Cardinality(1..n) = n
            BY <1>3, Interval
        <3>2. q \in Surjection(1..n, P)
            BY <1>1, <1>4, <3>1, FS_Injection
        <3> QED BY <2>1, <3>2 DEF Surjection, Range
    <2> QED BY <1>3, <1>4, <1>6, <2>1, <2>2, <2>3
<1>8. \A e \in C \ Range(q) : Score(e, embedded) > 0 =>
          Len(q) = Limit /\ \A h \in Range(q) : Score(h, embedded) >= Score(e, embedded)
    BY <1>7
<1> HIDE DEF P
<1> QED BY <1>3, <1>6, <1>8

LEMMA BranchFacts ==
    ASSUME Types, NEW embedded \in BOOLEAN, NEW C \in CandidateSets(Searchable, embedded)
    PROVE  /\ C \subseteq Searchable
           /\ \A e \in Searchable \ C :
                 /\ signal[e].rank > 0 =>
                       \E L \in SUBSET (Searchable \ {e}) :
                          Cardinality(L) = Candidates /\ \A f \in L : signal[f].rank >= signal[e].rank
                 /\ signal[e].skills \cap keywords # {} =>
                       \E K \in SUBSET (Searchable \ {e}) :
                          Cardinality(K) = Candidates /\ \A f \in K : signal[f].skills \cap keywords # {}
<1> DEFINE S == Searchable
           ranked == {e \in S : signal[e].rank > 0}
           rank == [e \in S |-> signal[e].rank]
           tagged == {e \in S : signal[e].skills \cap keywords # {}}
<1>1. S \subseteq Evidence
    BY DEF Searchable
<1>2. /\ Candidates \in Nat
      /\ IsFiniteSet(ranked) /\ Cardinality(ranked) \in Nat
      /\ IsFiniteSet(tagged) /\ Cardinality(tagged) \in Nat
    BY <1>1, EvidenceIsFinite, LimitsAreSane
<1> DEFINE Vs == IF embedded THEN VectorBranch(S) ELSE {{}}
           Ks == IF keywords # {} THEN SkillBranch(S) ELSE {{}}
<1>3. PICK L \in LexicalBranch(S), V \in Vs, K \in Ks : C = L \cup V \cup K
    <2>1. CandidateSets(S, embedded) =
              {L \cup V \cup K : L \in LexicalBranch(S), V \in Vs, K \in Ks}
        BY DEF CandidateSets
    <2>2. C \in CandidateSets(S, embedded)
        OBVIOUS
    <2> HIDE DEF S, Vs, Ks
    <2> QED BY <2>1, <2>2
<1>4. /\ L \in SUBSET ranked /\ Cardinality(L) = Min({Candidates, Cardinality(ranked)})
      /\ \A a \in L, b \in ranked \ L : rank[a] >= rank[b]
    BY <1>3 DEF LexicalBranch, TopSets, kSubset
<1>5. V \subseteq S
    BY <1>3 DEF VectorBranch
<1>6. /\ K \in SUBSET tagged
      /\ keywords # {} => Cardinality(K) = Min({Candidates, Cardinality(tagged)})
    BY <1>3 DEF SkillBranch, kSubset
<1> HIDE DEF S
<1>7. C \subseteq S
    BY <1>3, <1>4, <1>5, <1>6
<1>8. ASSUME NEW e \in S \ C, signal[e].rank > 0
      PROVE  \E M \in SUBSET (S \ {e}) :
                Cardinality(M) = Candidates /\ \A f \in M : signal[f].rank >= signal[e].rank
    <2>1. e \in ranked \ L
        BY <1>3, <1>8
    <2>2. Cardinality(L) # Cardinality(ranked)
        BY <1>2, <1>4, <2>1, FS_Subset
    <2>3. Cardinality(L) = Candidates
        BY <1>2, <1>4, <2>2, MinIs
    <2>4. \A f \in L : signal[f].rank >= signal[e].rank
        BY <1>4, <2>1
    <2> QED BY <1>4, <2>1, <2>3, <2>4
<1>9. ASSUME NEW e \in S \ C, signal[e].skills \cap keywords # {}
      PROVE  \E M \in SUBSET (S \ {e}) :
                Cardinality(M) = Candidates /\ \A f \in M : signal[f].skills \cap keywords # {}
    <2>1. e \in tagged \ K
        BY <1>3, <1>9
    <2>2. Cardinality(K) # Cardinality(tagged)
        BY <1>2, <1>6, <2>1, FS_Subset
    <2>3. Cardinality(K) = Candidates
        BY <1>2, <1>6, <1>9, <2>2, MinIs
    <2> QED BY <1>6, <2>1, <2>3
<1> QED BY <1>7, <1>8, <1>9 DEF S

LEMMA SearchFacts ==
    ASSUME Types, Search
    PROVE  \E embedded \in BOOLEAN : \E C \in CandidateSets(Searchable, embedded) :
               \E hits \in Ranked(C, embedded) :
                  run' = [run EXCEPT !.pc = "judge", !.embedded = embedded, !.hits = hits]
<1>1. PICK embedded \in BOOLEAN : \E hits \in Hits(embedded) :
          run' = [run EXCEPT !.pc = "judge", !.embedded = embedded, !.hits = hits]
    BY DEF Search
<1>2. PICK hits \in Hits(embedded) :
          run' = [run EXCEPT !.pc = "judge", !.embedded = embedded, !.hits = hits]
    BY <1>1
<1>3. PICK C \in CandidateSets(Searchable, embedded) : hits \in Ranked(C, embedded)
    BY DEF Hits
<1> QED BY <1>2, <1>3

LEMMA SearchLeavesOut ==
    ASSUME Types, Search PROVE LeavesOutWhenCrowded
<1>1. PICK embedded \in BOOLEAN : \E C \in CandidateSets(Searchable, embedded) :
               \E hits \in Ranked(C, embedded) :
                  run' = [run EXCEPT !.pc = "judge", !.embedded = embedded, !.hits = hits]
    BY SearchFacts
<1>2. PICK C \in CandidateSets(Searchable, embedded) : \E hits \in Ranked(C, embedded) :
          run' = [run EXCEPT !.pc = "judge", !.embedded = embedded, !.hits = hits]
    BY <1>1
<1>3. PICK hits \in Ranked(C, embedded) :
          run' = [run EXCEPT !.pc = "judge", !.embedded = embedded, !.hits = hits]
    BY <1>2
<1>4. run'.hits = hits /\ run'.embedded = embedded
    BY <1>3 DEF Types, Run
<1>5. Searchable \subseteq Evidence /\ C \subseteq Searchable
    BY BranchFacts DEF Searchable
<1>6. ASSUME NEW e \in Searchable \ Range(hits), Score(e, embedded) > 0,
             Len(hits) < Limit \/ \E h \in Range(hits) : Score(h, embedded) < Score(e, embedded)
      PROVE  e \notin C
    <2> SUFFICES ASSUME e \in C PROVE FALSE
        OBVIOUS
    <2>1. /\ Len(hits) = Limit /\ Range(hits) \subseteq Evidence
          /\ \A h \in Range(hits) : Score(h, embedded) >= Score(e, embedded)
        BY <1>5, <1>6, RankedFacts
    <2>2. Limit \in Nat
        BY LimitsAreSane
    <2>3. PICK h \in Range(hits) : Score(h, embedded) < Score(e, embedded)
        BY <1>6, <2>1, <2>2
    <2>4. Score(h, embedded) \in Int /\ Score(e, embedded) \in Int
        BY <1>5, <2>1, ScoreIsInt
    <2> QED BY <2>1, <2>3, <2>4
<1>7. ASSUME NEW e \in Searchable, NEW M \in SUBSET Searchable, NEW L \in SUBSET M,
             Cardinality(L) = Candidates
      PROVE  Cardinality(M) >= Candidates
    <2>1. IsFiniteSet(M) /\ Cardinality(M) \in Nat /\ Cardinality(L) <= Cardinality(M)
        BY <1>5, EvidenceIsFinite, FS_Subset
    <2> QED BY <1>7, <2>1, LimitsAreSane
<1>8. ASSUME NEW e \in Searchable \ Range(hits), e \notin C, signal[e].rank > 0
      PROVE  Cardinality({f \in Searchable \ {e} : signal[f].rank >= signal[e].rank}) >= Candidates
    <2>1. PICK L \in SUBSET (Searchable \ {e}) :
              Cardinality(L) = Candidates /\ \A f \in L : signal[f].rank >= signal[e].rank
        BY <1>8, BranchFacts
    <2> QED BY <1>7, <2>1
<1>9. ASSUME NEW e \in Searchable \ Range(hits), e \notin C, signal[e].skills \cap keywords # {}
      PROVE  Cardinality({f \in Searchable \ {e} : signal[f].skills \cap keywords # {}}) >= Candidates
    <2>1. PICK L \in SUBSET (Searchable \ {e}) :
              Cardinality(L) = Candidates /\ \A f \in L : signal[f].skills \cap keywords # {}
        BY <1>9, BranchFacts
    <2> QED BY <1>7, <2>1
<1> QED BY <1>4, <1>6, <1>8, <1>9 DEF LeavesOutWhenCrowded

-----------------------------------------------------------------------------
(* Each action preserves the inductive invariant. *)

LEMMA IdleIs == Idle \in Run /\ Len(Idle.hits) <= Limit /\ Range(Idle.hits) = {}
<1>1. <<>> \in Seq(Evidence) /\ Len(<<>>) = 0 /\ DOMAIN <<>> = {}
    OBVIOUS
<1>2. 0 \in 0..MaxRetries /\ 0 <= Limit
    BY LimitsAreSane
<1>3. Idle \in Run /\ Idle.hits = <<>>
    BY <1>1, <1>2 DEF Idle, Run
<1> QED BY <1>1, <1>2, <1>3 DEF Range

\* What is common to the ends of a run.
LEMMA CommitKeeps ==
    ASSUME IInv, NEW s \in {"ready", "coverage_failed", "cancelled"},
           NEW v \in {"open", "gap", "match"}, NEW matches, Commit(s, matches, v),
           \/ matches = {} /\ (s = "ready" => v = "gap")
           \/ \E m \in [evidence: Evidence, label: Labels] :
                 /\ matches = {m} /\ m.evidence \in Range(run.hits)
                 /\ status[m.evidence] # "gone"
    PROVE  IInv'
<1> USE DEF IInv
<1>1. /\ job' = s /\ match' = matches /\ verdict' = v /\ erased' = FALSE /\ run' = Idle
      /\ late' = late \cap {m.evidence : m \in matches}
      /\ UNCHANGED <<signal, keywords, status, reviews, runs>>
    BY DEF Commit
<1>2. OneMatch'
    BY <1>1 DEF OneMatch
<1>3. late' \subseteq Evidence /\ erased' \in BOOLEAN
    BY <1>1 DEF Types
<1>4. Types'
    BY <1>1, <1>2, <1>3, IdleIs DEF Types, Run
<1>5. NotRejected'
    <2>1. Range(run'.hits) = {}
        BY <1>1, IdleIs
    <2>2. Matched' = {m.evidence : m \in matches}
        BY <1>1 DEF Matched
    <2>3. ASSUME NEW e \in {m.evidence : m \in matches}
          PROVE  status[e] \in EvidenceStatus /\ (status[e] = "rejected" => e \in late)
        BY <2>3 DEF NotRejected, EvidenceStatus, Live
    <2> QED BY <1>1, <2>1, <2>2, <2>3 DEF NotRejected
<1>6. GapsHaveReason'
    BY <1>1 DEF GapsHaveReason
<1> QED BY <1>4, <1>5, <1>6

LEMMA EndsKeep ==
    ASSUME IInv,
           \/ Cancelled \/ NoHits \/ RerankFails
           \/ \E i \in -1..Limit : RerankNone(i)
    PROVE  IInv'
<1>1. \E s \in {"ready", "coverage_failed", "cancelled"}, v \in {"open", "gap", "match"} :
          Commit(s, {}, v) /\ (s = "ready" => v = "gap")
    BY DEF Cancelled, NoHits, RerankFails, RerankNone
<1> QED BY <1>1, CommitKeeps

LEMMA PicksKeep ==
    ASSUME IInv, NEW i \in -1..Limit, NEW raw, RerankPicks(i, raw)
    PROVE  IInv'
<1> DEFINE best == run.hits[i + 1]
           s == IF Resolved(raw) = "unknown" THEN "coverage_failed" ELSE "ready"
           m == [evidence |-> best, label |-> Resolved(raw)]
<1>1. status[best] # "gone" /\ Commit(s, {m}, "match") /\ i \in 0..Len(run.hits) - 1
    BY DEF RerankPicks, Picks
<1>2. run.hits \in Seq(Evidence)
    BY DEF IInv, Types, Run
<1>3. best \in Evidence /\ best \in Range(run.hits)
    <2> DEFINE hits == run.hits
    <2>1. hits \in Seq(Evidence) /\ i + 1 \in 1..Len(hits)
        BY <1>1, <1>2
    <2> HIDE DEF hits
    <2>2. hits[i + 1] \in Evidence /\ i + 1 \in DOMAIN hits
        BY <2>1
    <2> QED BY <2>2 DEF hits, Range
<1>4. Resolved(raw) \in Labels
    BY DEF Resolved, Labels
<1>5. m \in [evidence: Evidence, label: Labels] /\ m.evidence = best
    BY <1>3, <1>4
<1>6. s \in {"ready", "coverage_failed", "cancelled"}
    OBVIOUS
<1> HIDE DEF best, s, m
<1> QED BY <1>1, <1>3, <1>5, <1>6, CommitKeeps

LEMMA BeginKeeps == ASSUME IInv, Begin PROVE IInv'
<1> USE DEF IInv
<1> DEFINE x == [Idle EXCEPT !.pc = "search"]
<1>1. /\ job' = "matching" /\ runs' = runs + 1 /\ runs < MaxRuns /\ run' = x
      /\ UNCHANGED <<signal, keywords, status, match, verdict, late, erased, reviews>>
    BY DEF Begin
<1>2. x \in Run /\ x.hits = Idle.hits
    BY IdleIs DEF Run
<1> HIDE DEF x
<1>3. Types'
    <2>1. runs' \in 0..MaxRuns
        BY <1>1, LimitsAreSane DEF Types
    <2>2. OneMatch'
        BY <1>1 DEF Types, OneMatch
    <2> QED BY <1>1, <1>2, <2>1, <2>2, IdleIs DEF Types, Run
<1>4. NotRejected'
    BY <1>1, <1>2, IdleIs DEF NotRejected, Matched
<1>5. GapsHaveReason'
    BY <1>1 DEF GapsHaveReason
<1> QED BY <1>3, <1>4, <1>5

LEMMA SearchKeeps == ASSUME IInv, Search PROVE IInv'
<1> USE DEF IInv
<1>1. PICK embedded \in BOOLEAN : \E C \in CandidateSets(Searchable, embedded) :
               \E hits \in Ranked(C, embedded) :
                  run' = [run EXCEPT !.pc = "judge", !.embedded = embedded, !.hits = hits]
    BY SearchFacts
<1>2. PICK C \in CandidateSets(Searchable, embedded) : \E hits \in Ranked(C, embedded) :
          run' = [run EXCEPT !.pc = "judge", !.embedded = embedded, !.hits = hits]
    BY <1>1
<1>3. PICK hits \in Ranked(C, embedded) :
          run' = [run EXCEPT !.pc = "judge", !.embedded = embedded, !.hits = hits]
    BY <1>2
<1>4. UNCHANGED <<signal, keywords, status, job, match, verdict, late, erased, reviews, runs>>
    BY DEF Search
<1>5. C \subseteq Searchable /\ C \subseteq Evidence
    BY BranchFacts DEF Searchable
<1>6. hits \in Seq(Evidence) /\ Len(hits) <= Limit /\ Range(hits) \subseteq Searchable
    BY <1>5, RankedFacts
<1>7. run' \in Run /\ run'.hits = hits
    <2>1. run \in Run
        BY DEF Types
    <2> QED BY <1>3, <1>6, <2>1 DEF Run
<1>8. Types'
    BY <1>4, <1>6, <1>7 DEF Types, OneMatch, Run
<1>9. NotRejected'
    <2>1. ASSUME NEW e \in Searchable
          PROVE  status[e] \in EvidenceStatus /\ status[e] # "rejected"
        BY DEF Searchable
    <2> QED BY <1>4, <1>6, <1>7, <2>1 DEF NotRejected, Matched
<1>10. GapsHaveReason'
    BY <1>4 DEF GapsHaveReason
<1> QED BY <1>8, <1>9, <1>10

LEMMA ConflictKeeps ==
    ASSUME IInv, NEW i \in -1..Limit, RerankConflict(i) PROVE IInv'
<1> USE DEF IInv
<1>1. UNCHANGED <<signal, keywords, status, job, match, verdict, late, erased, reviews, runs>>
    BY DEF RerankConflict
<1>2. run' \in Run /\ run'.hits = Idle.hits
    <2>1. CASE run.tries < MaxRetries
        <3>1. run' = [Idle EXCEPT !.pc = "search", !.tries = run.tries + 1]
            BY <2>1 DEF RerankConflict
        <3>2. run.tries + 1 \in 0..MaxRetries
            BY <2>1, LimitsAreSane DEF Types, Run
        <3> QED BY <3>1, <3>2, IdleIs DEF Run
    <2>2. CASE ~(run.tries < MaxRetries)
        <3>1. run' = Idle
            BY <2>2 DEF RerankConflict
        <3> QED BY <3>1, IdleIs
    <2> QED BY <2>1, <2>2
<1>3. Types'
    BY <1>1, <1>2, IdleIs DEF Types, OneMatch, Run
<1>4. NotRejected'
    BY <1>1, <1>2, IdleIs DEF NotRejected, Matched
<1>5. GapsHaveReason'
    BY <1>1 DEF GapsHaveReason
<1> QED BY <1>3, <1>4, <1>5

\* Rows that are searched or matched are there; the others' statuses do not matter.
LEMMA FoundIsEvidence ==
    ASSUME Types PROVE Range(run.hits) \subseteq Evidence /\ Matched \subseteq Evidence
<1>1. Range(run.hits) \subseteq Evidence
    <2> DEFINE hits == run.hits
    <2>1. hits \in Seq(Evidence)
        BY DEF Types, Run
    <2> HIDE DEF hits
    <2>2. \A i \in DOMAIN hits : hits[i] \in Evidence
        BY <2>1
    <2>3. Range(hits) \subseteq Evidence
        BY <2>2 DEF Range
    <2> QED BY <2>3 DEF hits
<1>2. Matched \subseteq Evidence
    BY DEF Types, OneMatch, Matched
<1> QED BY <1>1, <1>2

LEMMA StatusKeeps ==
    ASSUME IInv, NEW e \in Evidence,
           \/ Extract(e) \/ GoStale(e) \/ \E s \in EvidenceStatus : Review(e, s)
    PROVE  IInv'
<1> USE DEF IInv
<1>1. PICK s \in EvidenceStatus : status' = [status EXCEPT ![e] = s]
    BY DEF Extract, GoStale, Review, EvidenceStatus, Live
<1>2. /\ status' \in [Evidence -> EvidenceStatus \cup {"absent", "gone"}]
      /\ status'[e] = s /\ \A f \in Evidence \ {e} : status'[f] = status[f]
    BY <1>1 DEF Types
<1>3. UNCHANGED <<signal, keywords, job, match, run, verdict, erased, runs>>
    BY DEF Extract, GoStale, Review
<1>4. /\ late' \subseteq Evidence
      /\ \A f \in late : f # e => f \in late'
      /\ s = "rejected" /\ e \in Range(run.hits) \cup Matched => e \in late'
    <2>1. CASE Extract(e) \/ GoStale(e)
        <3>1. UNCHANGED late /\ s # "rejected"
            BY <1>2, <2>1 DEF Extract, GoStale, Types
        <3> QED BY <3>1 DEF Types
    <2>2. CASE \E t \in EvidenceStatus : Review(e, t)
        <3>1. PICK t \in EvidenceStatus : Review(e, t)
            BY <2>2
        <3>2. t = s
            BY <1>2, <3>1 DEF Review, Types
        <3>3. late' = IF s = "rejected" THEN late \cup ({e} \cap (Range(run.hits) \cup Matched))
                                        ELSE late \ {e}
            BY <3>1, <3>2 DEF Review
        <3> QED BY <3>3 DEF Types
    <2> QED BY <2>1, <2>2
<1>5. reviews' \in 0..MaxReviews
    BY LimitsAreSane DEF Types, Extract, GoStale, Review
<1>6. Types'
    BY <1>2, <1>3, <1>4, <1>5 DEF Types, OneMatch, Run
<1>7. NotRejected'
    <2>1. Range(run.hits) \subseteq Evidence /\ Matched \subseteq Evidence
        BY FoundIsEvidence
    <2>2. ASSUME NEW f \in Range(run.hits) \cup Matched
          PROVE  (status'[f] = "rejected" => f \in late')
        BY <1>2, <1>4, <2>1, <2>2 DEF NotRejected
    <2>3. ASSUME NEW f \in Range(run.hits) PROVE status'[f] \in EvidenceStatus \cup {"gone"}
        BY <1>2, <2>1 DEF NotRejected
    <2>4. ASSUME NEW f \in Matched PROVE status'[f] \in EvidenceStatus
        BY <1>2, <2>1 DEF NotRejected
    <2>5. run' = run /\ Matched' = Matched
        BY <1>3 DEF Matched
    <2> QED BY <2>2, <2>3, <2>4, <2>5 DEF NotRejected
<1>8. GapsHaveReason'
    BY <1>3 DEF GapsHaveReason
<1> QED BY <1>6, <1>7, <1>8

LEMMA DisconnectKeeps == ASSUME IInv, Disconnect PROVE IInv'
<1> USE DEF IInv
<1>1. /\ status' = [e \in Evidence |-> IF status[e] = "absent" THEN "absent" ELSE "gone"]
      /\ match' = {} /\ late' = {} /\ erased' = (erased \/ match # {})
      /\ UNCHANGED <<signal, keywords, job, run, verdict, reviews, runs>>
    BY DEF Disconnect
<1>2. Types'
    <2>1. status' \in [Evidence -> EvidenceStatus \cup {"absent", "gone"}]
        BY <1>1
    <2>2. erased' \in BOOLEAN
        BY <1>1
    <2> QED BY <1>1, <2>1, <2>2 DEF Types, OneMatch, Run
<1>3. NotRejected'
    <2>1. Range(run.hits) \subseteq Evidence
        BY FoundIsEvidence
    <2>2. ASSUME NEW e \in Range(run.hits) PROVE status'[e] = "gone"
        <3>1. status[e] # "absent"
            BY DEF NotRejected, EvidenceStatus, Live
        <3> QED BY <1>1, <2>1, <3>1
    <2> QED BY <1>1, <2>2 DEF NotRejected, Matched
<1>4. GapsHaveReason'
    BY <1>1 DEF GapsHaveReason
<1> QED BY <1>2, <1>3, <1>4

LEMMA InitGives == Init => IInv
<1> SUFFICES ASSUME Init PROVE IInv
    OBVIOUS
<1>1. Types
    <2>1. signal \in [Evidence -> Signal]
        BY SignalsAreTyped DEF Init
    <2>2. status \in [Evidence -> EvidenceStatus \cup {"absent", "gone"}]
        BY DEF Init
    <2>3. erased \in BOOLEAN
        BY DEF Init
    <2> QED BY <2>1, <2>2, <2>3, IdleIs, LimitsAreSane DEF Init, Types, OneMatch
<1>2. NotRejected
    BY IdleIs DEF Init, NotRejected, Matched
<1>3. GapsHaveReason
    BY DEF Init, GapsHaveReason
<1> QED BY <1>1, <1>2, <1>3 DEF IInv

LEMMA StepKeeps == IInv /\ [Next]_vars => IInv'
<1> SUFFICES ASSUME IInv, [Next]_vars PROVE IInv'
    OBVIOUS
<1>1. CASE UNCHANGED vars
    BY <1>1 DEF vars, IInv, Types, Run, OneMatch, NotRejected, Matched, GapsHaveReason
<1>2. CASE Next
    BY <1>2, BeginKeeps, SearchKeeps, EndsKeep, PicksKeep, ConflictKeeps, StatusKeeps,
       DisconnectKeeps DEF Next
<1> QED BY <1>1, <1>2

THEOREM MatchingInductive == Spec => []IInv
BY InitGives, StepKeeps, PTL DEF Spec

-----------------------------------------------------------------------------
(* What follows. *)

\* The variables have their types; above all, a search never returns more hits than the
\* limit, and only rows there are (hybrid_search).
THEOREM TypesHold == Spec => []TypeOK
<1>1. Types => TypeOK
    <2>1. OneMatch => Cardinality(match) <= 1 /\ match \subseteq [evidence: Evidence, label: Labels]
        BY FS_EmptySet, FS_Singleton DEF OneMatch
    <2> QED BY <2>1 DEF Types, TypeOK, Run
<1> QED BY <1>1, MatchingInductive, PTL DEF IInv

\* Whatever the signals of the rows and whatever the limits, a search leaves out a row
\* with text or keywords of the requirement, for one that scores less or for an empty
\* place, only when the branch that should have found it was full (hybrid_search).
THEOREM SearchIsComplete == Spec => LeftOutOnlyWhenCrowded
<1>1. Types /\ [Next]_vars => [LeavesOutWhenCrowded]_vars
    <2> SUFFICES ASSUME Types, Next PROVE LeavesOutWhenCrowded
        OBVIOUS
    <2>1. ASSUME ~Search PROVE ~(run.pc = "search" /\ run'.pc = "judge")
        <3>1. Idle.pc = "idle" /\ [Idle EXCEPT !.pc = "search"].pc = "search"
              /\ \A k : [Idle EXCEPT !.pc = "search", !.tries = k].pc = "search"
            BY DEF Idle
        <3> QED BY <2>1, <3>1 DEF Next, Begin, Cancelled, NoHits, RerankFails, RerankNone,
                  RerankConflict, RerankPicks, Commit, Extract, GoStale, Review, Disconnect
    <2>2. CASE Search
        BY <2>2, SearchLeavesOut
    <2> QED BY <2>1, <2>2 DEF LeavesOutWhenCrowded
<1>2. Spec => []Types
    BY MatchingInductive, PTL DEF IInv
<1>3. Spec => [][LeavesOutWhenCrowded]_vars
    BY <1>1, <1>2, PTL DEF Spec
<1> QED BY <1>3 DEF LeftOutOnlyWhenCrowded

\* A generation is given evidence that exists, and rejected evidence only if the user
\* rejected it after the search (base_where, replace_matches).
THEOREM RejectionIsLate == Spec => []RejectedOnlyLate
<1>1. IInv => RejectedOnlyLate
    BY DEF IInv, NotRejected, RejectedOnlyLate, Facts, Matched
<1> QED BY <1>1, MatchingInductive, PTL

\* Whatever the user filters by and wherever the list of evidence is cut, the graph shows
\* the label of the matrix or that it does not know, a gap only if one was found, and
\* both ends of every edge (project_graph).
THEOREM GraphSaysWhatIsKnown == Spec => []GraphIsHonest
<1>1. ASSUME IInv PROVE GraphIsHonest
    <2>1. ASSUME NEW V, Related(V) # {}
          PROVE  \E m \in [evidence: Evidence, label: Labels] :
                    /\ match = {m} /\ Related(V) = {m}
                    /\ m.evidence \in V /\ status[m.evidence] = "confirmed"
        BY <1>1, <2>1 DEF Related, IInv, Types, OneMatch
    <2>2. ASSUME NEW V
          PROVE  /\ GraphLabel(V) \in {MatrixLabel, "unknown"}
                 /\ GraphLabel(V) = "gap" =>
                        \/ verdict = "gap" \/ erased
                        \/ \E m \in match : m.label = "gap"
        <3>1. CASE Related(V) # {}
            <4>1. PICK m : match = {m} /\ Related(V) = {m}
                BY <2>1, <3>1
            <4>2. (CHOOSE x \in {m} : TRUE) = m
                OBVIOUS
            <4> QED BY <3>1, <4>1, <4>2 DEF GraphLabel, MatrixLabel
        <3>2. CASE Related(V) = {}
            BY <1>1, <3>2 DEF GraphLabel, MatrixLabel, IInv, GapsHaveReason
        <3> QED BY <3>1, <3>2
    <2>3. ASSUME NEW V, NEW x \in Edges(V)
          PROVE  /\ {x.from, x.to} \subseteq Nodes(V)
                 /\ x.to = Requirement => status[x.from[2]] = "confirmed"
        <3>1. CASE x \in ProjectEdges(V)
            <4>1. PICK e \in V : x = Edge(<<"project", RepoOf[e]>>, <<"evidence", e>>)
                BY <3>1 DEF ProjectEdges
            <4>2. x.from = <<"project", RepoOf[e]>> /\ x.to = <<"evidence", e>>
                BY <4>1 DEF Edge
            <4>3. x.to # Requirement
                BY <4>2 DEF Requirement
            <4> QED BY <4>2, <4>3 DEF Nodes
        <3>2. CASE x \in SkillEdges(V)
            <4>1. PICK e \in V : x \in {Edge(<<"evidence", e>>, <<"skill", k>>) : k \in signal[e].skills}
                BY <3>2 DEF SkillEdges
            <4>2. PICK k \in signal[e].skills : x = Edge(<<"evidence", e>>, <<"skill", k>>)
                BY <4>1
            <4>3. x.from = <<"evidence", e>> /\ x.to = <<"skill", k>>
                BY <4>2 DEF Edge
            <4>4. x.to # Requirement
                BY <4>3 DEF Requirement
            <4>5. k \in UNION {signal[f].skills : f \in V}
                BY <4>2
            <4> QED BY <4>3, <4>4, <4>5 DEF Nodes
        <3>3. CASE x \in MatchEdges(V)
            <4>1. PICK m \in Related(V) : x = Edge(<<"evidence", m.evidence>>, Requirement)
                BY <3>3 DEF MatchEdges
            <4>2. x.from = <<"evidence", m.evidence>> /\ x.to = Requirement
                BY <4>1 DEF Edge
            <4>3. m.evidence \in V /\ status[m.evidence] = "confirmed"
                BY <4>1, <2>1
            <4>4. x.from[2] = m.evidence
                BY <4>2
            <4> QED BY <4>2, <4>3, <4>4 DEF Nodes
        <3> QED BY <3>1, <3>2, <3>3 DEF Edges
    <2>4. GraphAgreesWithMatrix
        BY <2>2 DEF GraphAgreesWithMatrix
    <2>5. GapsWereFound
        BY <2>2 DEF GapsWereFound
    <2>6. GraphIsClosed
        BY <2>3 DEF GraphIsClosed
    <2> QED BY <2>4, <2>5, <2>6 DEF GraphIsHonest
<1> QED BY <1>1, MatchingInductive, PTL
=============================================================================
