---------------------------- MODULE MCGeneration ----------------------------
(* Instances of Generation for TLC. *)
EXTENDS Generation

\* No experience entry, one of one bullet, an empty one before one of two, two and one.
FewShapes == {<<>>, <<1>>, <<0, 2>>, <<2, 1>>}
Both == {"resume", "cover_letter"}
Letters == {"cover_letter"}
=============================================================================
