------------------------------- MODULE MCList -------------------------------
(***************************************************************************)
(* Model-checking instance of List: two lists that share four elements.   *)
(***************************************************************************)
EXTENDS List
=============================================================================
