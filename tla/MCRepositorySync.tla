-------------------------- MODULE MCRepositorySync --------------------------
(* Instances of RepositorySync for TLC. *)
EXTENDS RepositorySync, TLC

\* Threads, contents and claims are interchangeable, and so are sync runs.
Symmetry ==
    Permutations(Workers) \cup Permutations(Runs)
        \cup Permutations(Contents) \cup Permutations(Claims)
=============================================================================
