----------------------------- MODULE MCSymTable -----------------------------
(* Model-checking instance of SymTableLoop. *)
EXTENDS SymTableLoop, TLC

Symmetry == Permutations(Addr)

MCPrograms == {}    \* no AST is involved
=============================================================================
