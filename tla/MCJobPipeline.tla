--------------------------- MODULE MCJobPipeline ---------------------------
(* Instances of JobPipeline for TLC. *)
EXTENDS JobPipeline, TLC

\* Threads, requests, texts and evidence items are interchangeable.
Symmetry ==
    Permutations(Workers) \cup Permutations(Requests)
        \cup Permutations(Texts) \cup Permutations(Evidence)

\* overlap only grows, and once it holds "coverage" the properties guarded by it
\* hold for good: their runs need not look further.  Analyses that overlapped are
\* followed as long as they found one text between them.
NoCoverageOverlap ==
    /\ "coverage" \notin overlap
    /\ "analyze" \in overlap =>
          \A x, y \in {r.text : r \in rows} \cup UNION {run[w].new : w \in Workers} : x = y
=============================================================================
