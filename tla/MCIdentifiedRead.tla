--------------------------- MODULE MCIdentifiedRead ---------------------------
(* The identified read for TLC. *)
EXTENDS IdentifiedRead
=============================================================================
