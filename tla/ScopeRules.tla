----------------------------- MODULE ScopeRules -----------------------------
(***************************************************************************)
(* The scoping rules of paola's input language, stated on the tree alone:  *)
(* what the semantic checker ought to decide, without a symbol table and   *)
(* without a traversal.  It is the reference the traversal in SemCheck is  *)
(* compared with, so it models no code.                                    *)
(***************************************************************************)
EXTENDS Ast, FiniteSetsExt

\* d declares a name in the function (or the program) it stands in.
ScopeOf(p, d) ==
    LET last == LastOf(p)
    IN  Max({1} \cup {f \in DOMAIN p : /\ p[f].type = "DECL_STAT" /\ p[f].is_func
                                       /\ f < d /\ d <= last[f]})

\* A declaration reaches from its end to the end of the scope it stands in:
\* a variable is not visible in its initialiser, a function not in its body.
VisibleAt(p, d, u) ==
    /\ p[d].type = "DECL_STAT"
    /\ LastOf(p)[d] < u /\ u <= LastOf(p)[ScopeOf(p, d)]

Declarations(p, name, u) ==
    {d \in DOMAIN p : p[d].type = "DECL_STAT" /\ p[d].name = name /\ VisibleAt(p, d, u)}

\* No redeclaration of a visible name, every name that is used is visible,
\* only variables are assigned to, and the body of a function is a block.
WellScoped(p) ==
    \A n \in DOMAIN p :
        /\ p[n].type = "DECL_STAT" => Declarations(p, p[n].name, n) = {}
        /\ p[n].type \in {"VAR_REF", "FUNC_CALL"} => Declarations(p, p[n].name, n) # {}
        /\ (p[n].type = "BIN_OP" /\ p[n].op = "ASSIGN") =>
              p[p[n].kids[1]].type = "VAR_REF"
        /\ (p[n].type = "DECL_STAT" /\ p[n].is_func /\ p[n].kids # <<>>) =>
              p[p[n].kids[1]].type = "BLOCK_STAT"
=============================================================================
