-------------------------- MODULE MCApplicationsBoard --------------------------
(* Instances of ApplicationsBoard for TLC. *)
EXTENDS ApplicationsBoard, TLC

\* With one application, nothing is claimed of the board once it is mixed, and the other
\* properties do not depend on the board's stages.
NotMixed == mixed = {}

\* The board is explored with one capture and one page, the extension with two.
BoardOrCaptures ==
    board.at # "off" =>
        /\ Cardinality({c \in Captures : store[c] # "unused"}) <= 1
        /\ Cardinality({t \in Tabs : tab[t].at # "closed"}) <= 1

Bounds == NotMixed /\ BoardOrCaptures

Symmetry == Permutations(Users) \cup Permutations(Captures) \cup Permutations(Tabs)
            \cup Permutations(Requests)
=============================================================================
