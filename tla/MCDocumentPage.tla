---------------------------- MODULE MCDocumentPage ----------------------------
(* Instances of DocumentPage for TLC. *)
EXTENDS DocumentPage

TwoPresses == 1..2
=============================================================================
