------------------------------- MODULE Errors -------------------------------
(***************************************************************************)
(* The error count of errors.c, which the parser and the semantic checker  *)
(* share and main looks at.                                                *)
(***************************************************************************)

VARIABLE errors     \* error_count()
=============================================================================
