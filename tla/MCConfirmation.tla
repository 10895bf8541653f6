--------------------------- MODULE MCConfirmation ---------------------------
(* Confirmation for TLC; the values are in the .cfg files. *)
EXTENDS Confirmation
=============================================================================
