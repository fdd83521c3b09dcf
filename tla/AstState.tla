------------------------------ MODULE AstState ------------------------------
(***************************************************************************)
(* The tree at hand, which the semantic checker and the code generator     *)
(* walk one after the other.                                               *)
(***************************************************************************)
EXTENDS Ast

VARIABLES
    prog,       \* the AST
    symbolOf    \* the `symbol' pointer of every VAR_REF, FUNC_CALL and DECL_STAT

Type(n)   == prog[n].type
Kids(n)   == prog[n].kids
Kid(n, i) == prog[n].kids[i]
=============================================================================
