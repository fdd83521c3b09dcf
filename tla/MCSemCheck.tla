----------------------------- MODULE MCSemCheck -----------------------------
(***************************************************************************)
(* Model-checking instances of SemCheck: every program over two names made *)
(* of a few statements, and every expression in every place for one.       *)
(***************************************************************************)
EXTENDS SemCheck

T == INSTANCE Trees

\* Statements without a body of their own.
Simple ==
    {T!Var(n) : n \in {"x", "y"}} \cup {T!VarInit(n, T!Ref(m)) : n, m \in {"x", "y"}}
    \cup {T!Set(n, T!Lit(0)) : n \in {"x", "y"}} \cup {T!Expr(T!Call("x"))}

Functions == {T!Func(f, body) : f \in {"x", "y"}, body \in T!UpTo(Simple, 2)}

\* Every program with at most one function, one statement before or after it
\* and at most two in it.
OneFunction ==
    {T!Program(s) : s \in T!UpTo(Simple \cup Functions, 1)}
    \cup {T!Program(<<s, f>>) : s \in Simple, f \in Functions}
    \cup {T!Program(<<f, s>>) : s \in Simple, f \in Functions}

ShortFunctions ==
    {T!Func(f, body) : f \in {"x", "y"}, body \in T!UpTo(Simple, 1)}

\* Two functions side by side, where the second may get the memory of the
\* first one's symbols, and one function inside another.
TwoFunctions ==
    {T!Program(<<f, g, s>>) : f, g \in ShortFunctions,
                              s \in {T!Var("x"), T!Expr(T!Call("y"))}}
    \cup {T!Program(<<T!Func(f, <<g, s>>), s>>) : f \in {"x", "y"},
                                                  g \in ShortFunctions, s \in Simple}

ScopePrograms == OneFunction \cup TwoFunctions

\* Expressions in which x is a variable, f a function and y is not declared.
Leaves == {T!Lit(1), T!Ref("x"), T!Ref("y"), T!Call("f")}

Exprs == Leaves \cup {T!Op(op, l, r) : op \in {"ADD", "LTE", "ASSIGN"}, l, r \in Leaves}

\* A function whose body is a statement other than a block.
Blockless == [T!Func("f", <<>>) EXCEPT !.kids = <<T!Skip>>]

\* Each of them in each place a statement has for an expression.
SyntaxPrograms ==
    {T!Program(<<T!Var("x"), T!Func("f", <<T!Var("y")>>), s>>) :
        s \in UNION {{T!Return(e), T!Expr(e), T!VarInit("y", e),
                      T!If(e, T!Skip), T!IfElse(T!Lit(1), T!Var("y"), T!Expr(e)),
                      T!While(e, T!Block(<<T!Skip>>)),
                      T!For(e, T!Ref("x"), T!Lit(0), T!Skip),
                      T!For(T!Lit(0), e, T!Lit(1), T!Var("y")),
                      T!For(T!Lit(0), T!Ref("x"), e, T!Skip)} : e \in Exprs}}
    \cup {T!Program(<<T!Proto("f"), T!Proto("x")>>),
          T!Program(<<T!Var("f"), T!Proto("f")>>),
          T!Program(<<Blockless>>), T!Program(<<Blockless, Blockless>>)}

CheckedPrograms == ScopePrograms \cup SyntaxPrograms

Prototype == {T!Program(<<T!Proto("f"), T!Func("x", <<T!Return(T!Call("f"))>>)>>)}
=============================================================================
