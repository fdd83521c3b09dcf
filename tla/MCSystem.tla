------------------------------ MODULE MCSystem ------------------------------
(***************************************************************************)
(* Model-checking instances of System: programs whose meaning the compiler *)
(* keeps, and one small program for each way in which it loses it.         *)
(***************************************************************************)
EXTENDS System, TLC

T == INSTANCE Trees

Symmetry == Permutations(Addr)

\* The symbols are linked by the semantic checker alone.
NoMaps(p) == {}

ThreeRegisters == <<"rbx", "rcx", "r8">>

x == T!Ref("x")

Main(stats) == T!Func("main", stats)
Ops(ops, L, R) == {T!Op(op, l, r) : op \in ops, l \in L, r \in R}

-----------------------------------------------------------------------------
(* Expressions over two variables, two literals and a call. *)

\* The value of y is negative, so it is not divided: see NegativeDividend.
Atoms == {T!Lit(3), T!Ref("x"), T!Ref("y")}
Inner == Ops({"ADD", "SUBS", "MUL", "LT"}, {T!Ref("x"), T!Ref("y")}, {T!Lit(3)})
         \cup Ops({"DIV", "EQ"}, {T!Ref("x")}, {T!Lit(3), T!Ref("y")})
Outer == Ops({"SUBS", "MUL", "GT"}, Inner, {T!Ref("y")})
         \cup Ops({"SUBS", "GTE", "LTE"}, {T!Ref("x")}, Inner)
         \cup Ops({"ADD", "SUBS", "LT"}, Atoms, {T!Call("f")})
         \cup Ops({"SUBS"}, {T!Call("f")}, {T!Call("f")})

ExpressionPrograms ==
    {T!Program(<<T!Func("f", <<T!Var("x"), T!Set("x", T!Lit(5)),
                              T!Return(T!Op("ADD", T!Ref("x"), T!Lit(1)))>>),
                 Main(<<T!Var("x"), T!Set("x", T!Lit(4)), T!Var("y"),
                        T!Set("y", T!Op("SUBS", T!Ref("x"), T!Lit(6))), T!Return(e)>>)>>) :
        e \in Outer}

-----------------------------------------------------------------------------
(* Functions after each other, the second of which may get the memory of    *)
(* the first one's symbols, and functions inside each other.                *)

Simple == {T!Var("x"), T!Var("y"), T!Set("x", T!Ref("y")), T!Return(T!Ref("x")),
           T!VarInit("y", T!Ref("x")), T!Expr(T!Call("f"))}

Body  == T!UpTo(Simple, 2)
First == {<<>>} \cup {<<T!Var("x")>>, <<T!Var("y"), T!Set("y", T!Lit(1))>>}

TwoFunctions ==
    {T!Program(first \o <<T!Func("f", body), T!Func("g", <<T!Var("x")>> \o rest)>>) :
        first \in First, body \in Body, rest \in T!UpTo(Simple, 1)}
    \cup {T!Program(<<T!Func("f", first \o <<T!Func("g", body)>> \o rest)>>) :
        first \in First, body \in Body, rest \in T!UpTo(Simple, 1)}

\* A function inside another one, behind its return, and a main that calls the outer one.
InsideEachOther ==
    {T!Program(<<T!Func("f", <<T!Var("x"), T!Set("x", T!Lit(5)), T!Return(T!Op("ADD", x, e)),
                              T!Func("g", body)>>),
                 Main(<<T!Var("y"), T!Set("y", T!Lit(4)),
                        T!Return(T!Op("SUBS", T!Ref("y"), T!Call("f")))>>)>>) :
        e \in {x, T!Lit(1)},
        body \in {<<>>, <<T!Var("y")>>, <<T!Var("y"), T!Set("y", x), T!Return(T!Ref("y"))>>}}

\* Operands that take one register more at each level, and a prototype.
Limits ==
    {T!Program(<<T!Var("x"), T!Return(T!Op("LT", e, T!Op("ADD", e, T!Op("ADD", e, e))))>>) :
        e \in {T!Ref("x"), T!Op("MUL", T!Ref("x"), T!Lit(2)), T!Ref("y")}}
    \cup {T!Program(<<T!Proto("f")>>)}

\* Programs that never get to return a value: rejected, without a main, dividing by
\* zero, and aborting the compiler.
Failures ==
    {T!Program(<<Main(<<T!Return(x)>>)>>), T!Program(<<>>),
     T!Program(<<Main(<<T!Return(T!Op("DIV", T!Lit(1), T!Lit(0)))>>)>>),
     T!Program(<<Main(<<T!Return(T!Op("MUL", T!Lit(1), T!Op("MUL", T!Lit(1),
                  T!Op("MUL", T!Lit(1), T!Lit(1)))))>>)>>)}

CompilerPrograms ==
    ExpressionPrograms \cup TwoFunctions \cup InsideEachOther \cup Limits \cup Failures

-----------------------------------------------------------------------------
(* Programs that mean something else when they are compiled. *)

OneVariable(stats) == {T!Program(<<Main(<<T!Var("x")>> \o stats)>>)}

\* if (1) x = 1; else x = 2;
BothBranches ==
    OneVariable(<<T!IfElse(T!Lit(1), T!Set("x", T!Lit(1)), T!Set("x", T!Lit(2))), T!Return(x)>>)

\* x = 5; return f() + x;
VariableAcrossCall ==
    {T!Program(<<T!Func("f", <<T!Return(T!Lit(1))>>),
                 Main(<<T!Var("x"), T!Set("x", T!Lit(5)),
                        T!Return(T!Op("ADD", T!Call("f"), x))>>)>>)}

\* int x = 5; return x;
InitialValue == {T!Program(<<Main(<<T!VarInit("x", T!Lit(5)), T!Return(x)>>)>>)}

\* x = 2 - 8; return x / 2;
NegativeDividend ==
    OneVariable(<<T!Set("x", T!Op("SUBS", T!Lit(2), T!Lit(8))),
                  T!Return(T!Op("DIV", x, T!Lit(2)))>>)

\* return (x = 5);
AssignedValue == OneVariable(<<T!Return(T!Assign("x", T!Lit(5)))>>)

\* A variable outside functions, set in one function and read in another.
GlobalVariable ==
    {T!Program(<<T!Var("x"),
                 T!Func("f", <<T!Set("x", T!Lit(5)), T!Return(T!Lit(1))>>),
                 Main(<<T!Var("y"), T!Set("y", T!Call("f")), T!Return(x)>>)>>)}

\* int main() { int x; x = 1; int g() { return 2; } return x; }
NestedFunction ==
    OneVariable(<<T!Set("x", T!Lit(1)), T!Func("f", <<T!Return(T!Lit(2))>>), T!Return(x)>>)

\* int main() { int x; x = 1; }
NoReturn == OneVariable(<<T!Set("x", T!Lit(1))>>)
=============================================================================
