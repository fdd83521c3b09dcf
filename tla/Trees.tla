------------------------------- MODULE Trees -------------------------------
(***************************************************************************)
(* Syntax trees written as nested terms, and their node tables.  Used by   *)
(* the model-checking modules only, to write programs down.                *)
(***************************************************************************)
EXTENDS Integers, Sequences, SequencesExt

CONSTANT NULL

Tree(type, op, name, ival, is_func, kids) ==
    [type |-> type, op |-> op, name |-> name, ival |-> ival,
     is_func |-> is_func, kids |-> kids]

Lit(i)           == Tree("INT_LIT", NULL, NULL, i, FALSE, <<>>)
Ref(x)           == Tree("VAR_REF", NULL, x, 0, FALSE, <<>>)
Call(f)          == Tree("FUNC_CALL", NULL, f, 0, FALSE, <<>>)
Op(op, l, r)     == Tree("BIN_OP", op, NULL, 0, FALSE, <<l, r>>)
Assign(x, e)     == Op("ASSIGN", Ref(x), e)
Return(e)        == Tree("RETURN_STAT", NULL, NULL, 0, FALSE, <<e>>)
If(c, t)         == Tree("IF_STAT", NULL, NULL, 0, FALSE, <<c, t>>)
IfElse(c, t, f)  == Tree("IF_STAT", NULL, NULL, 0, FALSE, <<c, t, f>>)
While(c, b)      == Tree("WHILE_STAT", NULL, NULL, 0, FALSE, <<c, b>>)
For(i, c, s, b)  == Tree("FOR_STAT", NULL, NULL, 0, FALSE, <<i, c, s, b>>)
Block(stats)     == Tree("BLOCK_STAT", NULL, NULL, 0, FALSE, stats)
Var(x)           == Tree("DECL_STAT", NULL, x, 0, FALSE, <<>>)
VarInit(x, e)    == Tree("DECL_STAT", NULL, x, 0, FALSE, <<e>>)
Func(f, stats)   == Tree("DECL_STAT", NULL, f, 0, TRUE, <<Block(stats)>>)
Proto(f)         == Tree("DECL_STAT", NULL, f, 0, TRUE, <<>>)
Expr(e)          == Tree("EXPR_STAT", NULL, NULL, 0, FALSE, <<e>>)
Set(x, e)        == Expr(Assign(x, e))
Skip             == Tree("SKIP_STAT", NULL, NULL, 0, FALSE, <<>>)

\* The node table of tree t whose root gets the number `first'.
RECURSIVE TableFrom(_, _), TablesFrom(_, _)

TablesFrom(trees, first) ==     \* <<tables, roots>> of a list of trees
    IF trees = <<>> THEN <<<<>>, <<>>>>
    ELSE LET head == TableFrom(Head(trees), first)
             rest == TablesFrom(Tail(trees), first + Len(head))
         IN  <<head \o rest[1], <<first>> \o rest[2]>>

TableFrom(t, first) ==
    LET below == TablesFrom(t.kids, first + 1)
    IN  <<[t EXCEPT !.kids = below[2]]>> \o below[1]

Table(t)       == TableFrom(t, 1)
Program(stats) == Table(Block(stats))

\* All sequences over S of a length between 0 and n.
UpTo(S, n) == UNION {[1 .. k -> S] : k \in 0 .. n}
=============================================================================
