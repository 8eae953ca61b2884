------------------------- MODULE MCEvidenceMatching -------------------------
(* An instance of EvidenceMatching for TLC. *)
EXTENDS EvidenceMatching

\* The first two rows come from one repository, the last from the other.
TwoAndOne == <<"r1", "r1", "r2">>

\* Rows strong on the text alone (above the cap of its rank), moderate on everything,
\* near in meaning alone, and unlike the requirement (a negative cosine).
TypicalSignals ==
    {[rank |-> 3, cosine |-> NoVector, skills |-> {}],
     [rank |-> 1, cosine |-> 1, skills |-> {"k1", "k2"}],
     [rank |-> 0, cosine |-> 2, skills |-> {}],
     [rank |-> 0, cosine |-> -1, skills |-> {}]}
=============================================================================
