------------------------------ MODULE MCSessions ------------------------------
(* Instances of Sessions for TLC. *)
EXTENDS Sessions, TLC

\* Once Redis has forgotten, what the runs check of tokens is excused for good.
NotForgotten == ~forgotten

Symmetry == Permutations(Clients)
=============================================================================
