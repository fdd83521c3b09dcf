-------------------------------- MODULE CSem --------------------------------
(***************************************************************************)
(* What a program of paola's language means in C: the value main returns.  *)
(* It is the reference the compiled code is compared with and models no    *)
(* code.  A run that C does not define (a variable read before it is set,  *)
(* a division by zero, an overflow), or that is longer than Fuel, has no   *)
(* meaning here.                                                           *)
(***************************************************************************)
EXTENDS ScopeRules, TLC

CONSTANTS
    Fuel,           \* bound on the calls and loop iterations of a run
    Limit           \* integers lie strictly between -Limit and Limit

\* A run: the variables set so far (by declaration), whether it goes on, and
\* the value of the last expression.
Run(env, how, val, fuel) == [env |-> env, how |-> how, val |-> val, fuel |-> fuel]

Stuck(s) == [s EXCEPT !.how = "stuck"]

Give(s, v) == IF -Limit < v /\ v < Limit THEN [s EXCEPT !.val = v] ELSE Stuck(s)

Burn(s) == IF s.fuel = 0 THEN Stuck(s) ELSE [s EXCEPT !.fuel = @ - 1]

IsFunc(p, d) == p[d].is_func
DeclOf(p, n) == CHOOSE d \in Declarations(p, p[n].name, n) : TRUE
Globals(p)   == {d \in DOMAIN p : /\ p[d].type = "DECL_STAT" /\ ~IsFunc(p, d)
                                  /\ ScopeOf(p, d) = 1}

Keep(env, D)   == [d \in DOMAIN env \cap D |-> env[d]]
Forget(env, D) == [d \in DOMAIN env \ D |-> env[d]]

Truth(b) == IF b THEN 1 ELSE 0

Divided(a, b) ==
    LET abs(v) == IF v < 0 THEN -v ELSE v
    IN  IF (a < 0) = (b < 0) THEN abs(a) \div abs(b) ELSE -(abs(a) \div abs(b))

Operate(s, op, l, r) ==
    CASE op = "ADD"  -> Give(s, l + r)
      [] op = "SUBS" -> Give(s, l - r)
      [] op = "MUL"  -> Give(s, l * r)
      [] op = "DIV"  -> IF r = 0 THEN Stuck(s) ELSE Give(s, Divided(l, r))
      [] op = "EQ"   -> Give(s, Truth(l = r))
      [] op = "GT"   -> Give(s, Truth(l > r))
      [] op = "GTE"  -> Give(s, Truth(l >= r))
      [] op = "LT"   -> Give(s, Truth(l < r))
      [] op = "LTE"  -> Give(s, Truth(l <= r))

RECURSIVE Eval(_, _, _), Exec(_, _, _), ExecAll(_, _, _), Loop(_, _, _, _, _), Apply(_, _, _)

Eval(p, e, s) ==
    LET kid(i) == p[e].kids[i]
        left   == Eval(p, kid(1), s)
        right(t) == Eval(p, kid(2), t)
    IN  CASE s.how # "go"              -> s
          [] p[e].type = "INT_LIT"     -> Give(s, p[e].ival)
          [] p[e].type = "VAR_REF"     ->
                IF DeclOf(p, e) \in DOMAIN s.env THEN Give(s, s.env[DeclOf(p, e)])
                                                 ELSE Stuck(s)
          [] p[e].type = "FUNC_CALL"   -> Apply(p, DeclOf(p, e), s)
          [] p[e].op = "ASSIGN"        ->
                LET r == right(s)
                IN  IF r.how # "go" THEN r
                    ELSE [r EXCEPT !.env = (DeclOf(p, kid(1)) :> r.val) @@ @]
          [] OTHER                     ->
                IF left.how # "go" \/ right(left).how # "go" THEN Stuck(s)
                ELSE Operate(right(left), p[e].op, left.val, right(left).val)

\* while (cond) { body; iter }, where iter may be missing (0).
Loop(p, cond, body, iter, s) ==
    LET c == Eval(p, cond, s)
        b == Exec(p, body, Burn(c))
        i == IF iter = 0 THEN b ELSE Eval(p, iter, b)
    IN  CASE c.how # "go" \/ c.val = 0 -> c
          [] b.how # "go"              -> b
          [] OTHER                     -> Loop(p, cond, body, iter, i)

ExecAll(p, stats, s) ==
    IF stats = <<>> \/ s.how # "go" THEN s
    ELSE ExecAll(p, Tail(stats), Exec(p, Head(stats), s))

Exec(p, n, s) ==
    LET type == p[n].type
        kids == p[n].kids
        cond == Eval(p, kids[1], s)
    IN  CASE s.how # "go"         -> s
          [] type = "RETURN_STAT" -> IF cond.how = "go" THEN [cond EXCEPT !.how = "returned"]
                                                        ELSE cond
          [] type = "EXPR_STAT"   -> cond
          [] type = "SKIP_STAT"   -> s
          [] type = "BLOCK_STAT"  -> ExecAll(p, kids, s)
          [] type = "IF_STAT"     ->
                CASE cond.how # "go"  -> cond
                  [] cond.val # 0     -> Exec(p, kids[2], cond)
                  [] OTHER            -> ExecAll(p, SubSeq(kids, 3, Len(kids)), cond)
          [] type = "WHILE_STAT"  -> Loop(p, kids[1], kids[2], 0, s)
          [] type = "FOR_STAT"    -> Loop(p, kids[2], kids[4], kids[3], cond)
          [] type = "DECL_STAT"   ->
                CASE IsFunc(p, n)     -> s
                  [] kids = <<>>      -> [s EXCEPT !.env = Forget(@, {n})]
                  [] cond.how # "go"  -> cond
                  [] OTHER            -> [cond EXCEPT !.env = (n :> cond.val) @@ @]

\* A call starts with the globals alone and gives them back.  Only main may end
\* without a return: it returns 0 then.
Apply(p, f, s) ==
    LET start == Run(Keep(s.env, Globals(p)), "go", 0, s.fuel)
        end   == Exec(p, p[f].kids[1], Burn(start))
        back  == [s EXCEPT !.env = Keep(end.env, Globals(p)) @@ Forget(@, Globals(p)),
                           !.fuel = end.fuel]
    IN  CASE ~IsFunc(p, f)                               -> Stuck(s)
          [] end.how = "returned"                        -> Give(back, end.val)
          [] end.how = "go" /\ p[f].name = "main"        -> Give(back, 0)
          [] OTHER                                       -> Stuck(s)

\* Variables outside functions start as 0, or as their constant.
Start(p) ==
    Run([d \in Globals(p) |-> IF p[d].kids = <<>> THEN 0 ELSE p[p[d].kids[1]].ival],
        "go", 0, Fuel)

Mains(p) ==
    {d \in DOMAIN p : p[d].type = "DECL_STAT" /\ IsFunc(p, d) /\ p[d].name = "main"
                      /\ ScopeOf(p, d) = 1}

\* The value main returns, for a program that has a meaning.
Outcome(p) == Apply(p, CHOOSE d \in Mains(p) : TRUE, Start(p))

Defined(p) == Mains(p) # {} /\ Outcome(p).how = "go"

Meaning(p) == Outcome(p).val
=============================================================================
