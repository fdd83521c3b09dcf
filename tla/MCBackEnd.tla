------------------------------ MODULE MCBackEnd ------------------------------
(***************************************************************************)
(* Model-checking instance of the back end: every kind of statement around *)
(* every expression of a small depth, and loops and conditions that are    *)
(* compiled and run.                                                       *)
(***************************************************************************)
EXTENDS System, TLC

T == INSTANCE Trees

ThreeRegisters == <<"rbx", "rcx", "r8">>

\* Variables at addresses of their own, and one of the symbols missing.
AddressOf == CHOOSE g \in [Names -> Addr] :
                \A v, w \in {"x", "y", "main"} : g[v] = g[w] => v = w

SomeSymbols(p) ==
    LET here(missing) == [n \in DOMAIN p |-> IF n \in missing \/ p[n].name = NULL THEN NULL
                                             ELSE AddressOf[p[n].name]]
    IN  {here({})} \cup {here({n}) : n \in {n \in DOMAIN p : p[n].name # NULL /\ n % 5 = 0}}

-----------------------------------------------------------------------------
(* Statements. *)

Leaves == {T!Lit(1), T!Ref("x"), T!Call("f")}

Deeper(S) == {T!Op(op, l, r) : op \in {"SUBS", "DIV", "LT"}, l, r \in S}
Right(e)  == T!Op("ADD", T!Lit(1), e)

\* Expressions of depth 1 and 2, and some that take a third or a fourth register.
Flat  == Leaves \cup Deeper(Leaves)
Exprs == Flat \cup {Right(e) : e \in Flat} \cup {Right(Right(e)) : e \in Flat}
              \cup {T!Op("GTE", e, T!Ref("x")) : e \in Flat}
              \cup {T!Assign("x", e) : e \in Flat}

Statements ==
    UNION {{T!Return(e), T!Expr(e), T!If(e, T!Expr(e)), T!IfElse(e, T!Skip, T!Expr(e)),
            T!While(e, T!If(e, T!Skip)), T!For(e, e, e, T!While(e, T!Skip))} : e \in Exprs}

\* The initial value takes more registers than there are, and uses a name that has
\* no symbol, but there is no code for it.
Initialised ==
    T!Program(<<T!Skip, T!VarInit("x", T!Op("ADD", T!Ref("f"), Right(Right(Right(T!Lit(1)))))),
                T!Return(T!Ref("x"))>>)

GenPrograms ==
    {T!Program(<<T!Var("x"), s, T!Func("f", <<s>>)>>) : s \in Statements} \cup {Initialised}

-----------------------------------------------------------------------------
(* Loops and conditions, with a variable that counts. *)

x == T!Ref("x")
AddTo(v, e) == T!Set(v, T!Op("ADD", T!Ref(v), e))
Down(v)     == T!Assign(v, T!Op("SUBS", T!Ref(v), T!Lit(1)))

Bodies ==
    {AddTo("y", x), T!Skip, T!If(T!Op("GT", x, T!Lit(1)), AddTo("y", T!Lit(7))),
     T!Block(<<AddTo("y", T!Lit(2)), T!If(T!Op("EQ", x, T!Lit(2)), T!Return(x))>>),
     T!IfElse(T!Op("LTE", x, T!Lit(1)), T!Return(T!Lit(9)), AddTo("y", T!Lit(4)))}

Loops ==
    {T!For(T!Assign("x", T!Lit(3)), x, Down("x"), b) : b \in Bodies}
    \cup {T!While(T!Op("GTE", x, T!Lit(1)), T!Block(<<b, T!Expr(Down("x"))>>)) : b \in Bodies}
    \cup {T!For(T!Assign("x", T!Lit(2)), x, Down("x"),
                T!While(T!Op("LT", T!Ref("y"), T!Op("MUL", x, x)), AddTo("y", T!Lit(3))))}

ControlPrograms ==
    {T!Program(<<T!Func("main",
        <<T!Var("x"), T!Var("y"), T!Set("x", T!Lit(2)), T!Set("y", T!Lit(0)), loop,
          T!Return(T!Op("ADD", T!Ref("y"), x))>>)>>) : loop \in Loops}

BackEndPrograms == GenPrograms \cup ControlPrograms
=============================================================================
