------------------------- MODULE MCGitHubConnection -------------------------
(* An instance of GitHubConnection for TLC. *)
EXTENDS GitHubConnection, TLC

CONSTANTS first, second

\* Each repository has one owner.
OwnRepos == (first :> {"p"}) @@ (second :> {"q"})

\* Once a refresh has overlapped a disconnection, most of what the run checks is excused.
NoRace == ~raced

Symmetry == Permutations(Requests)
=============================================================================
