--------------------------- MODULE GrammarProofs ---------------------------
(***************************************************************************)
(* The parser accepts the language of the grammar, for every list of       *)
(* tokens: as long as nothing has gone wrong, the trees of the list are    *)
(* the trees that the tasks left, done one after the other, make of the    *)
(* tokens left and the trees on the stack; once something has gone wrong   *)
(* the list has no tree.                                                   *)
(*                                                                         *)
(* What a task makes is said by the grammar.  The first half shows that    *)
(* what replaces a task makes the same: the tasks of a list of statements, *)
(* of an operator and its operands, of a call.  The second half goes       *)
(* through the steps of the parser.                                        *)
(***************************************************************************)
EXTENDS FrontProofs

-----------------------------------------------------------------------------
(* What the tasks of the parser do with a part of the list, when all goes    *)
(* well.                                                                     *)

Stacks == Seq(Tables)

\* What a list stands for, tree by tree.
LEMMA InDerived ==
    ASSUME NEW list, Len(list) \in Nat, NEW kind \in Parts,
           NEW i \in Positions(list), NEW j \in Positions(list), NEW t
    PROVE  t \in Derived(list)[<<kind, i, j>>] <=> IsOf(list, Derived(list), kind, i, j, t)
<1>1. i \in Int /\ j \in Int
  BY DEF Positions
<1>2. Derived(list)[<<kind, i, j>>] = Rule(list, Derived(list), kind, i, j)
  BY DerivedRule
<1> QED BY <1>1, <1>2, InRule

\* The trees of that kind between two places.
From(list, kind, i, j) == Derived(list)[<<kind, i, j>>]

\* A name before j is not the name of a function that is called.
NoCall(list, j) == ~(Is(list, j - 1, "IDENT_TOK") /\ Is(list, j, "LPAREN_TOK"))

Ahead(list, j, opOf) == list[j].type \in DOMAIN opOf

MakesFactor(list, i, j, t) == t \in From(list, "factor", i, j) /\ NoCall(list, j)

MakesTerm(list, i, j, t) ==
    t \in From(list, "product", i, j) /\ NoCall(list, j) /\ ~Ahead(list, j, FactorOpOf)

MakesSum(list, i, j, t) ==
    /\ t \in From(list, "sum", i, j) /\ NoCall(list, j)
    /\ ~Ahead(list, j, FactorOpOf) /\ ~Ahead(list, j, TermOpOf)

MakesExpr(list, i, j, t) ==
    /\ NoCall(list, j) /\ ~Ahead(list, j, FactorOpOf) /\ ~Ahead(list, j, TermOpOf)
    /\ \/ t \in From(list, "sum", i, j) /\ ~Ahead(list, j, ExprOpOf)
       \/ IsBinary(list, Derived(list), ExprOpOf, "sum", "sum", i, j, t)

\* An else belongs to the nearest if.
MakesStat(list, i, j, t) ==
    t \in From(list, IF list[j].type = "ELSE_TOK" THEN "closed" ELSE "stat", i, j)

\* The tree that the task makes of what stands between i and j.
Makes(list, task, i, j, t) ==
    \/ task.do = "factor" /\ MakesFactor(list, i, j, t)
    \/ task.do = "term" /\ MakesTerm(list, i, j, t)
    \/ task.do = "subexpr" /\ MakesSum(list, i, j, t)
    \/ task.do = "expr" /\ MakesExpr(list, i, j, t)
    \/ task.do = "stat" /\ MakesStat(list, i, j, t)
    \/ task.do = "declarator" /\ IsDeclarator(list, Derived(list), task.name, i, j, t)
    \/ task.do = "body" /\ IsBody(list, Derived(list), task.name, i, j, t)

Makers == {"factor", "term", "subexpr", "expr", "stat", "declarator", "body"}

\* The stack after a node was created, and after a statement has joined its block.
MadeOf(s, node, arity) ==
    Append(SubSeq(s, 1, Len(s) - arity),
           Over(node, SubSeq(s, Len(s) - arity + 1, Len(s))))

Joined(s) == Append(SubSeq(s, 1, Len(s) - 2), Hang(s[Len(s) - 1], s[Len(s)]))

\* The tree t is the tree top with more children.
GrownTree(top, trees, t) ==
    \E f \in [0 .. Len(trees) -> Tables] :
       /\ f[0] = top /\ f[Len(trees)] = t
       /\ \A n \in 1 .. Len(trees) : f[n] = Hang(f[n - 1], trees[n])

\* One more term of a sum.
NextTerm(list, k, l, j, t) ==
    \E r \in Tables : /\ MakesTerm(list, k + 1, j, r) /\ Ahead(list, k, TermOpOf)
                      /\ t = Over(BinOp(TermOpOf[list[k].type]), <<l, r>>)

\* The terms that follow make t of l.
Reaches(list, k, l, j, t) ==
    \A R \in SUBSET (Positions(list) \X Tables) :
       /\ <<k, l>> \in R
       /\ \A a, b \in Positions(list) : \A x, y \in Tables :
             <<a, x>> \in R /\ NextTerm(list, a, x, b, y) => <<b, y>> \in R
       => <<j, t>> \in R

\* Operators that follow the top of the stack.
Operates(list, opOf, makes(_, _, _, _), i, s, j, u) ==
    IF Ahead(list, i, opOf)
    THEN \E r \in Tables : /\ makes(list, i + 1, j, r)
                           /\ u = MadeOf(Append(s, r), BinOp(opOf[list[i].type]), 2)
    ELSE j = i /\ u = s

\* The statements up to such a token are the last children of the top of the stack.
Fills(list, token, i, s, j, u) ==
    /\ list[j].type = token
    /\ \E r \in Stacks : \E top \in Tables : \E trees \in From(list, "stats", i, j) : \E t \in Tables :
          s = Append(r, top) /\ u = Append(r, t) /\ GrownTree(top, trees, t)

\* From the token i, with the stack s, the task gets to the token j with the stack u.
Does(list, task, i, s, j, u) ==
    \/ task.do = "match" /\ list[i].type = task.token /\ j = i + 1 /\ u = s
    \/ task.do = "make" /\ j = i /\ u = MadeOf(s, task.node, task.arity)
    \/ task.do = "append" /\ j = i /\ u = Joined(s)
    \/ task.do \in Makers /\ \E t \in Tables : Makes(list, task, i, j, t) /\ u = Append(s, t)
    \/ /\ task.do = "else"
       /\ IF list[i].type = "ELSE_TOK"
          THEN \E f \in Tables : /\ MakesStat(list, i + 1, j, f)
                                 /\ u = MadeOf(Append(s, f), Plain("IF_STAT"), 3)
          ELSE j = i /\ u = MadeOf(s, Plain("IF_STAT"), 2)
    \/ task.do = "comparison" /\ Operates(list, ExprOpOf, MakesSum, i, s, j, u)
    \/ task.do = "factors" /\ Operates(list, FactorOpOf, MakesTerm, i, s, j, u)
    \/ /\ task.do = "terms" /\ ~Ahead(list, j, TermOpOf)
       /\ \E r \in Stacks : \E l, t \in Tables :
             s = Append(r, l) /\ u = Append(r, t) /\ Reaches(list, i, l, j, t)
    \/ task.do = "stats" /\ Fills(list, "RBRACE_TOK", i, s, j, u)
    \/ task.do = "program" /\ Fills(list, "PROGRAM_END_TOK", i, s, j, u)

-----------------------------------------------------------------------------
(* The tasks from the n-th on, one after the other.                          *)

\* They make the tree T of what follows the token i, and nothing else is left.
Meets(list, tasks, n, i, s, T) ==
    \E pos \in [n .. Len(tasks) + 1 -> Positions(list)], st \in [n .. Len(tasks) + 1 -> Stacks] :
       /\ pos[n] = i /\ st[n] = s /\ st[Len(tasks) + 1] = <<T>>
       /\ \A m \in n .. Len(tasks) : Does(list, tasks[m], pos[m], st[m], pos[m + 1], st[m + 1])

\* Behind the last task the tree must be all that is on the stack.
LEMMA MeetsEnd ==
    ASSUME NEW list, NEW tasks, Len(tasks) \in Nat, NEW i \in Positions(list), NEW s \in Stacks, NEW T
    PROVE  Meets(list, tasks, Len(tasks) + 1, i, s, T) <=> s = <<T>>
<1>1. PICK n \in Nat : n = Len(tasks)
  OBVIOUS
<1>2. n + 1 .. n + 1 = {n + 1} /\ n + 1 .. n = {}
  BY <1>1
<1>3. ASSUME s = <<T>>
      PROVE  Meets(list, tasks, n + 1, i, s, T)
  <2>1. PICK pos : pos = [m \in {n + 1} |-> i]
    OBVIOUS
  <2>2. PICK st : st = [m \in {n + 1} |-> s]
    OBVIOUS
  <2>3. pos \in [{n + 1} -> Positions(list)] /\ st \in [{n + 1} -> Stacks] /\ pos[n + 1] = i /\ st[n + 1] = s
    BY <2>1, <2>2
  <2> QED BY <1>1, <1>2, <1>3, <2>3 DEF Meets
<1>4. ASSUME Meets(list, tasks, n + 1, i, s, T)
      PROVE  s = <<T>>
  BY <1>1, <1>4 DEF Meets
<1> QED BY <1>1, <1>3, <1>4

\* A task takes its part of the list, and the tasks behind it go on from there.
LEMMA MeetsStep ==
    ASSUME NEW list, NEW tasks, Len(tasks) \in Nat, NEW n \in 1 .. Len(tasks),
           NEW i \in Positions(list), NEW s \in Stacks, NEW T
    PROVE  Meets(list, tasks, n, i, s, T) <=>
              \E j \in Positions(list) : \E u \in Stacks :
                 Does(list, tasks[n], i, s, j, u) /\ Meets(list, tasks, n + 1, j, u, T)
<1>0. PICK N \in Nat : N = Len(tasks)
  OBVIOUS
<1>1. /\ n \in n .. N + 1 /\ n + 1 \in n .. N + 1 /\ n \in n .. N /\ N + 1 \in n + 1 .. N + 1
      /\ N + 1 \in n .. N + 1
      /\ \A m \in n + 1 .. N + 1 : m \in n .. N + 1 /\ m # n
      /\ \A m \in n + 1 .. N : m \in n .. N /\ m + 1 \in n + 1 .. N + 1 /\ m \in n + 1 .. N + 1
      /\ \A m \in n .. N : m = n \/ m \in n + 1 .. N
      /\ \A m \in n .. N + 1 : m = n \/ m \in n + 1 .. N + 1
  BY <1>0
<1>2. ASSUME Meets(list, tasks, n, i, s, T)
      PROVE  \E j \in Positions(list) : \E u \in Stacks :
                Does(list, tasks[n], i, s, j, u) /\ Meets(list, tasks, n + 1, j, u, T)
  <2>1. PICK pos \in [n .. N + 1 -> Positions(list)], st \in [n .. N + 1 -> Stacks] :
           /\ pos[n] = i /\ st[n] = s /\ st[N + 1] = <<T>>
           /\ \A m \in n .. N : Does(list, tasks[m], pos[m], st[m], pos[m + 1], st[m + 1])
    BY <1>0, <1>2, Zenon DEF Meets
  <2>2. PICK pos2 : pos2 = [m \in n + 1 .. N + 1 |-> pos[m]]
    OBVIOUS
  <2>3. PICK st2 : st2 = [m \in n + 1 .. N + 1 |-> st[m]]
    OBVIOUS
  <2>4. pos2 \in [n + 1 .. N + 1 -> Positions(list)] /\ st2 \in [n + 1 .. N + 1 -> Stacks]
        /\ \A m \in n + 1 .. N + 1 : pos2[m] = pos[m] /\ st2[m] = st[m]
    BY <1>1, <2>1, <2>2, <2>3
  <2>5. \A m \in n + 1 .. N : Does(list, tasks[m], pos2[m], st2[m], pos2[m + 1], st2[m + 1])
    BY <1>1, <2>1, <2>4
  <2>6. n + 1 \in n + 1 .. N + 1
    BY <1>0
  <2>7. pos2[n + 1] = pos[n + 1] /\ st2[n + 1] = st[n + 1] /\ st2[N + 1] = <<T>>
    BY <1>1, <2>1, <2>4, <2>6
  <2>8. Meets(list, tasks, n + 1, pos[n + 1], st[n + 1], T)
    BY <1>0, <2>4, <2>5, <2>7, Zenon DEF Meets
  <2>9. Does(list, tasks[n], i, s, pos[n + 1], st[n + 1])
    BY <1>1, <2>1
  <2>10. pos[n + 1] \in Positions(list) /\ st[n + 1] \in Stacks
    BY <1>1, <2>1
  <2> QED BY <2>8, <2>9, <2>10
<1>3. ASSUME NEW j \in Positions(list), NEW u \in Stacks,
             Does(list, tasks[n], i, s, j, u), Meets(list, tasks, n + 1, j, u, T)
      PROVE  Meets(list, tasks, n, i, s, T)
  <2>1. PICK pos \in [n + 1 .. N + 1 -> Positions(list)], st \in [n + 1 .. N + 1 -> Stacks] :
           /\ pos[n + 1] = j /\ st[n + 1] = u /\ st[N + 1] = <<T>>
           /\ \A m \in n + 1 .. N : Does(list, tasks[m], pos[m], st[m], pos[m + 1], st[m + 1])
    BY <1>0, <1>3, Zenon DEF Meets
  <2>2. PICK pos2 : pos2 = [m \in n .. N + 1 |-> IF m = n THEN i ELSE pos[m]]
    OBVIOUS
  <2>3. PICK st2 : st2 = [m \in n .. N + 1 |-> IF m = n THEN s ELSE st[m]]
    OBVIOUS
  <2>4. /\ pos2 \in [n .. N + 1 -> Positions(list)] /\ st2 \in [n .. N + 1 -> Stacks]
        /\ pos2[n] = i /\ st2[n] = s
        /\ \A m \in n + 1 .. N + 1 : pos2[m] = pos[m] /\ st2[m] = st[m]
    BY <1>1, <2>1, <2>2, <2>3
  <2>5. \A m \in n .. N : Does(list, tasks[m], pos2[m], st2[m], pos2[m + 1], st2[m + 1])
    <3> TAKE m \in n .. N
    <3>1. CASE m = n
      <4>1. pos2[n + 1] = j /\ st2[n + 1] = u
        <5>1. n + 1 \in n + 1 .. N + 1
          BY <1>0
        <5> QED BY <2>1, <2>4, <5>1
      <4> QED BY <1>3, <2>4, <3>1, <4>1
    <3>2. CASE m \in n + 1 .. N
      BY <1>1, <2>1, <2>4, <3>2
    <3> QED BY <1>1, <3>1, <3>2
  <2>6. st2[N + 1] = <<T>>
    BY <1>1, <2>1, <2>4
  <2> QED BY <1>0, <2>4, <2>5, <2>6, Zenon DEF Meets
<1> QED BY <1>2, <1>3

\* Behind the tasks that took the place of the first one, nothing has changed.
LEMMA MeetsShift ==
    ASSUME NEW list, NEW new, NEW old, NEW news, Len(old) \in Nat, HeadReplaced(new, old, news),
           NEW i, NEW s, NEW T
    PROVE  Meets(list, new, Len(news) + 1, i, s, T) <=> Meets(list, old, 2, i, s, T)
<1>a. Len(news) \in Nat /\ Len(new) = Len(news) + Len(old) - 1 /\ DOMAIN old = 1 .. Len(old) /\ 1 \in DOMAIN old
  BY DEF HeadReplaced
<1>b. PICK N \in Nat : N = Len(old)
  OBVIOUS
<1>c. PICK d \in Nat : d = Len(news)
  BY <1>a
<1>d. PICK M : M = Len(new)
  OBVIOUS
<1>0. M = d + N - 1 /\ N >= 1 /\ M \in Nat
  <2>1. N \in Nat \ {0}
    BY <1>a, <1>b
  <2> QED BY <1>a, <1>b, <1>c, <1>d, <2>1
<1>1. \A m \in 2 .. N : new[m - 1 + d] = old[m]
  BY <1>b, <1>c, <1>0 DEF HeadReplaced
<1>2. /\ \A m \in 2 .. N + 1 : m - 1 + d \in d + 1 .. M + 1 /\ m - 1 + d + 1 - d = m
      /\ \A m \in d + 1 .. M + 1 : m + 1 - d \in 2 .. N + 1 /\ (m + 1 - d) - 1 + d = m
      /\ \A m \in 2 .. N : m \in 2 .. N + 1 /\ m + 1 \in 2 .. N + 1 /\ m - 1 + d \in d + 1 .. M
                           /\ m + 1 - 1 + d = m - 1 + d + 1
      /\ \A m \in d + 1 .. M : m \in d + 1 .. M + 1 /\ m + 1 \in d + 1 .. M + 1 /\ m + 1 - d \in 2 .. N
                               /\ m + 1 + 1 - d = m + 1 - d + 1
      /\ 2 \in 2 .. N + 1 /\ N + 1 \in 2 .. N + 1 /\ d + 1 \in d + 1 .. M + 1 /\ M + 1 \in d + 1 .. M + 1
      /\ 2 - 1 + d = d + 1 /\ N + 1 - 1 + d = M + 1 /\ d + 1 + 1 - d = 2 /\ M + 1 + 1 - d = N + 1
  BY <1>0
<1>3. ASSUME Meets(list, new, d + 1, i, s, T)
      PROVE  Meets(list, old, 2, i, s, T)
  <2>1. PICK pos \in [d + 1 .. M + 1 -> Positions(list)], st \in [d + 1 .. M + 1 -> Stacks] :
           /\ pos[d + 1] = i /\ st[d + 1] = s /\ st[M + 1] = <<T>>
           /\ \A m \in d + 1 .. M : Does(list, new[m], pos[m], st[m], pos[m + 1], st[m + 1])
    BY <1>d, <1>3, Zenon DEF Meets
  <2>2. PICK pos2 : pos2 = [m \in 2 .. N + 1 |-> pos[m - 1 + d]]
    OBVIOUS
  <2>3. PICK st2 : st2 = [m \in 2 .. N + 1 |-> st[m - 1 + d]]
    OBVIOUS
  <2>4. pos2 \in [2 .. N + 1 -> Positions(list)] /\ st2 \in [2 .. N + 1 -> Stacks]
        /\ \A m \in 2 .. N + 1 : pos2[m] = pos[m - 1 + d] /\ st2[m] = st[m - 1 + d]
    BY <1>2, <2>1, <2>2, <2>3
  <2>5. \A m \in 2 .. N : Does(list, old[m], pos2[m], st2[m], pos2[m + 1], st2[m + 1])
    <3> TAKE m \in 2 .. N
    <3>1. PICK k \in d + 1 .. M : k = m - 1 + d
      BY <1>2
    <3>2. Does(list, new[k], pos[k], st[k], pos[k + 1], st[k + 1])
      BY <2>1
    <3>3. pos2[m] = pos[k] /\ st2[m] = st[k] /\ pos2[m + 1] = pos[k + 1] /\ st2[m + 1] = st[k + 1]
      BY <1>2, <2>4, <3>1
    <3> QED BY <1>1, <3>1, <3>2, <3>3
  <2>6. pos2[2] = i /\ st2[2] = s /\ st2[N + 1] = <<T>>
    BY <1>2, <2>1, <2>4
  <2> QED BY <1>b, <2>4, <2>5, <2>6, Zenon DEF Meets
<1>4. ASSUME Meets(list, old, 2, i, s, T)
      PROVE  Meets(list, new, d + 1, i, s, T)
  <2>1. PICK pos \in [2 .. N + 1 -> Positions(list)], st \in [2 .. N + 1 -> Stacks] :
           /\ pos[2] = i /\ st[2] = s /\ st[N + 1] = <<T>>
           /\ \A m \in 2 .. N : Does(list, old[m], pos[m], st[m], pos[m + 1], st[m + 1])
    BY <1>b, <1>4, Zenon DEF Meets
  <2>2. PICK pos2 : pos2 = [m \in d + 1 .. M + 1 |-> pos[m + 1 - d]]
    OBVIOUS
  <2>3. PICK st2 : st2 = [m \in d + 1 .. M + 1 |-> st[m + 1 - d]]
    OBVIOUS
  <2>4. pos2 \in [d + 1 .. M + 1 -> Positions(list)] /\ st2 \in [d + 1 .. M + 1 -> Stacks]
        /\ \A m \in d + 1 .. M + 1 : pos2[m] = pos[m + 1 - d] /\ st2[m] = st[m + 1 - d]
    BY <1>2, <2>1, <2>2, <2>3
  <2>5. \A m \in d + 1 .. M : Does(list, new[m], pos2[m], st2[m], pos2[m + 1], st2[m + 1])
    <3> TAKE m \in d + 1 .. M
    <3>1. PICK k \in 2 .. N : k = m + 1 - d
      BY <1>2
    <3>2. Does(list, old[k], pos[k], st[k], pos[k + 1], st[k + 1])
      BY <2>1
    <3>3. pos2[m] = pos[k] /\ st2[m] = st[k] /\ pos2[m + 1] = pos[k + 1] /\ st2[m + 1] = st[k + 1]
      BY <1>2, <2>4, <3>1
    <3>4. new[m] = old[k]
      <4>1. k - 1 + d = m
        BY <1>2, <3>1
      <4> QED BY <1>1, <4>1
    <3> QED BY <3>2, <3>3, <3>4
  <2>6. pos2[d + 1] = i /\ st2[d + 1] = s /\ st2[M + 1] = <<T>>
    BY <1>2, <2>1, <2>4
  <2> QED BY <1>d, <2>4, <2>5, <2>6, Zenon DEF Meets
<1> QED BY <1>c, <1>3, <1>4

-----------------------------------------------------------------------------
(* One task after the other. *)

\* The trees on top of the stack become children.
LEMMA OverMade ==
    ASSUME NEW r \in Stacks, NEW w \in Stacks, NEW node
    PROVE  MadeOf(r \o w, node, Len(w)) = Append(r, Over(node, w))
<1>1. PICK n \in Nat : n = Len(r)
  BY LenProperties DEF Stacks
<1>2. PICK d \in Nat : d = Len(w)
  BY LenProperties DEF Stacks
<1>3. PICK s \in Stacks : s = r \o w
  BY ConcatProperties DEF Stacks
<1>4. /\ Len(s) = n + d
      /\ \A i \in 1 .. n + d : s[i] \in Tables /\ s[i] = IF i <= n THEN r[i] ELSE w[i - n]
  BY <1>1, <1>2, <1>3, ConcatProperties, ElementOfSeq DEF Stacks
<1>5. SubSeq(s, 1, n) = r
  <2>1. \A i \in 1 .. n : i \in 1 .. n + d
    BY <1>1, <1>2
  <2>2. /\ SubSeq(s, 1, n) \in Seq(Tables) /\ Len(SubSeq(s, 1, n)) = n
        /\ \A i \in 1 .. n : SubSeq(s, 1, n)[i] = s[i]
    <3>1. \A i \in 1 .. n : s[i] \in Tables
      BY <1>4, <2>1
    <3>2. /\ SubSeq(s, 1, n) \in Seq(Tables) /\ Len(SubSeq(s, 1, n)) = IF 1 <= n THEN n - 1 + 1 ELSE 0
          /\ \A i \in 1 .. n - 1 + 1 : SubSeq(s, 1, n)[i] = s[1 + i - 1]
      BY <1>1, <3>1, SubSeqProperties
    <3> QED BY <1>1, <3>2
  <2>3. \A i \in 1 .. n : SubSeq(s, 1, n)[i] = r[i]
    BY <1>1, <1>4, <2>1, <2>2
  <2> QED BY <1>1, <2>2, <2>3, SeqEqual DEF Stacks
<1>6. SubSeq(s, n + 1, n + d) = w
  <2>1. \A i \in n + 1 .. n + d : s[i] \in Tables
    BY <1>1, <1>2, <1>4
  <2>2. /\ SubSeq(s, n + 1, n + d) \in Seq(Tables)
        /\ Len(SubSeq(s, n + 1, n + d)) = IF n + 1 <= n + d THEN n + d - (n + 1) + 1 ELSE 0
        /\ \A i \in 1 .. n + d - (n + 1) + 1 : SubSeq(s, n + 1, n + d)[i] = s[n + 1 + i - 1]
    BY <1>1, <1>2, <2>1, SubSeqProperties
  <2>3. \A i \in 1 .. d : SubSeq(s, n + 1, n + d)[i] = w[i]
    <3> TAKE i \in 1 .. d
    <3>1. /\ i \in 1 .. n + d - (n + 1) + 1 /\ n + 1 + i - 1 = n + i /\ n + i \in 1 .. n + d
          /\ ~(n + i <= n) /\ n + i - n = i
      BY <1>1, <1>2
    <3> QED BY <1>4, <2>2, <3>1
  <2>4. Len(SubSeq(s, n + 1, n + d)) = d
    BY <1>1, <1>2, <2>2
  <2> QED BY <1>2, <2>2, <2>3, <2>4, SeqEqual DEF Stacks
<1>7. Len(s) - d = n /\ Len(s) - d + 1 = n + 1 /\ Len(s) = n + d
  BY <1>1, <1>2, <1>4
<1> QED BY <1>2, <1>3, <1>5, <1>6, <1>7 DEF MadeOf

\* The same, of no tree.
LEMMA MadeOver0 ==
    ASSUME NEW r \in Stacks, NEW node
    PROVE  MadeOf(r, node, 0) = Append(r, Over(node, <<>>))
<1>1. <<>> \in Stacks /\ Len(<<>>) = 0 /\ r = r \o <<>>
  BY ConcatEmptySeq DEF Stacks
<1> QED BY <1>1, OverMade

\* The same, of one tree.
LEMMA MadeOver1 ==
    ASSUME NEW r \in Stacks, NEW node, NEW a \in Tables
    PROVE  MadeOf(Append(r, a), node, 1) = Append(r, Over(node, <<a>>))
<1>1. <<a>> \in Stacks /\ Len(<<a>>) = 1 /\ Append(r, a) = r \o <<a>>
  BY AppendIsConcat DEF Stacks
<1> QED BY <1>1, OverMade

\* The same, of two trees.
LEMMA MadeOver2 ==
    ASSUME NEW r \in Stacks, NEW node, NEW a \in Tables, NEW b \in Tables
    PROVE  MadeOf(Append(Append(r, a), b), node, 2) = Append(r, Over(node, <<a, b>>))
<1>1. <<a, b>> \in Stacks /\ Len(<<a, b>>) = 2 /\ Append(Append(r, a), b) = r \o <<a, b>>
  <2>1. PICK c \in Tables, d \in Tables : c = a /\ d = a
    OBVIOUS
  <2> QED BY <2>1, AppendMany DEF Stacks
<1> QED BY <1>1, OverMade

\* The same, of three trees.
LEMMA MadeOver3 ==
    ASSUME NEW r \in Stacks, NEW node, NEW a \in Tables, NEW b \in Tables, NEW c \in Tables
    PROVE  MadeOf(Append(Append(Append(r, a), b), c), node, 3) = Append(r, Over(node, <<a, b, c>>))
<1>1. <<a, b, c>> \in Stacks /\ Len(<<a, b, c>>) = 3 /\ Append(Append(Append(r, a), b), c) = r \o <<a, b, c>>
  BY AppendMany DEF Stacks
<1> QED BY <1>1, OverMade

\* The same, of four trees.
LEMMA MadeOver4 ==
    ASSUME NEW r \in Stacks, NEW node, NEW a \in Tables, NEW b \in Tables, NEW c \in Tables, NEW d \in Tables
    PROVE  MadeOf(Append(Append(Append(Append(r, a), b), c), d), node, 4) = Append(r, Over(node, <<a, b, c, d>>))
<1>1. <<a, b, c, d>> \in Stacks /\ Len(<<a, b, c, d>>) = 4 /\ Append(Append(Append(Append(r, a), b), c), d) = r \o <<a, b, c, d>>
  BY AppendMany DEF Stacks
<1> QED BY <1>1, OverMade

\* A node over no trees is the node alone.
LEMMA OverNone ==
    ASSUME NEW node \in Leaves
    PROVE  Over(node, <<>>) = <<node>> /\ <<node>> \in Tables
<1>0. <<>> \in Seq(Nat \ {0}) /\ <<>> \in Seq(Tables) /\ Len(<<>>) = 0
  OBVIOUS
<1>1. node \in Nodes
  BY <1>0 DEF Nodes, Leaves
<1>2. PICK f \in [0 .. Len(<<>>) -> Tables] : OverUpTo(node, <<>>, f)
  BY <1>0, <1>1, OverDef
<1>3. Over(node, <<>>) = <<node>>
  BY <1>0, <1>2 DEF OverUpTo
<1> QED BY <1>3, LoneTable

\* The next place is one of the list.
LEMMA PlaceBehind ==
    ASSUME NEW list, IsTokenList(list), NEW i \in Positions(list), list[i].type # "PROGRAM_END_TOK"
    PROVE  i + 1 \in Positions(list) /\ i \in DOMAIN list /\ Len(list) \in Nat
<1>1. list \in Seq(Token) /\ Len(list) \in Nat /\ DOMAIN list = 1 .. Len(list)
  BY DEF IsTokenList
<1>2. i \in DOMAIN list /\ i # Len(list)
  BY <1>1 DEF IsTokenList, Positions
<1> QED BY <1>1, <1>2 DEF Positions

\* A token that is expected must be there, and is passed.
LEMMA MeetsMatch ==
    ASSUME NEW list, IsTokenList(list), NEW tasks, Len(tasks) \in Nat, NEW n \in 1 .. Len(tasks),
           NEW tok \in TokenTypes \ {"PROGRAM_END_TOK"}, tasks[n] = Match(tok),
           NEW i \in Positions(list), NEW s \in Stacks, NEW T
    PROVE  Meets(list, tasks, n, i, s, T) <=>
              list[i].type = tok /\ i + 1 \in Positions(list) /\ Meets(list, tasks, n + 1, i + 1, s, T)
<1>1. tasks[n].do = "match" /\ tasks[n].token = tok
  BY MatchTask
<1>2. \A j, u : Does(list, tasks[n], i, s, j, u) <=> list[i].type = tok /\ j = i + 1 /\ u = s
  BY <1>1 DEF Does, Makers
<1>3. Meets(list, tasks, n, i, s, T) <=>
         \E j \in Positions(list) : \E u \in Stacks :
            (list[i].type = tok /\ j = i + 1 /\ u = s) /\ Meets(list, tasks, n + 1, j, u, T)
  BY <1>2, MeetsStep
<1>4. list[i].type = tok => i + 1 \in Positions(list)
  BY PlaceBehind
<1> QED BY <1>3, <1>4

\* What parses something.
LEMMA MeetsMaker ==
    ASSUME NEW list, NEW tasks, Len(tasks) \in Nat, NEW n \in 1 .. Len(tasks), tasks[n].do \in Makers,
           NEW i \in Positions(list), NEW s \in Stacks, NEW T
    PROVE  Meets(list, tasks, n, i, s, T) <=>
              \E j \in Positions(list) : \E t \in Tables :
                 Makes(list, tasks[n], i, j, t) /\ Meets(list, tasks, n + 1, j, Append(s, t), T)
<1>2. \A j, u : Does(list, tasks[n], i, s, j, u) <=>
                   \E t \in Tables : Makes(list, tasks[n], i, j, t) /\ u = Append(s, t)
  <2> DEFINE X(j, u) == \E t \in Tables : Makes(list, tasks[n], i, j, t) /\ u = Append(s, t)
  <2>1. \A j, u : Does(list, tasks[n], i, s, j, u) <=> tasks[n].do \in Makers /\ X(j, u)
    <3>1. tasks[n].do \notin {"match", "make", "append", "else", "comparison", "factors", "terms", "stats",
                              "program"}
      BY DEF Makers
    <3> HIDE DEF X
    <3>2. \A j, u : X(j, u) <=> \E t \in Tables : Makes(list, tasks[n], i, j, t) /\ u = Append(s, t)
      BY DEF X
    <3> QED BY <3>1, <3>2 DEF Does
  <2> QED BY <2>1
<1>3. \A t \in Tables : Append(s, t) \in Stacks
  BY AppendProperties DEF Stacks
<1>4. Meets(list, tasks, n, i, s, T) <=>
         \E j \in Positions(list) : \E u \in Stacks :
            Does(list, tasks[n], i, s, j, u) /\ Meets(list, tasks, n + 1, j, u, T)
  BY MeetsStep
<1>5. Meets(list, tasks, n, i, s, T) <=>
         \E j \in Positions(list) : \E u \in Stacks :
            /\ \E t \in Tables : Makes(list, tasks[n], i, j, t) /\ u = Append(s, t)
            /\ Meets(list, tasks, n + 1, j, u, T)
  BY <1>2, <1>4, Zenon
<1> QED BY <1>3, <1>5, Zenon

\* A node is made of the trees on top of the stack, and no token is passed.
LEMMA MeetsMake ==
    ASSUME NEW list, NEW tasks, Len(tasks) \in Nat, NEW n \in 1 .. Len(tasks),
           NEW node \in Leaves, NEW arity \in 0 .. 4, tasks[n] = Make(node, arity),
           NEW i \in Positions(list), NEW s \in Stacks, NEW T,
           NEW u \in Stacks, u = MadeOf(s, node, arity)
    PROVE  Meets(list, tasks, n, i, s, T) <=> Meets(list, tasks, n + 1, i, u, T)
<1>1. tasks[n].do = "make" /\ tasks[n].node = node /\ tasks[n].arity = arity
  BY MakeTask
<1>2. \A j, v : Does(list, tasks[n], i, s, j, v) <=> j = i /\ v = u
  BY <1>1 DEF Does, Makers
<1> QED BY <1>2, MeetsStep

-----------------------------------------------------------------------------
(* What the grammar says of the parts that the parser comes to.              *)

\* The tokens that each level of the operators goes on with.
LEMMA AheadTypes ==
    ASSUME NEW list, NEW j
    PROVE  /\ Ahead(list, j, FactorOpOf) <=> list[j].type \in {"STAR_TOK", "FSLASH_TOK"}
           /\ Ahead(list, j, TermOpOf) <=> list[j].type \in {"PLUS_TOK", "MINUS_TOK"}
           /\ Ahead(list, j, ExprOpOf) <=>
                 list[j].type \in {"ASSIGN_TOK", "EQ_TOK", "GT_TOK", "GTE_TOK", "LT_TOK", "LTE_TOK"}
BY DEF Ahead, FactorOpOf, TermOpOf, ExprOpOf

\* Between two places.
LEMMA ListPlaces ==
    ASSUME NEW list, IsTokenList(list)
    PROVE  /\ Len(list) \in Nat /\ DOMAIN list = Positions(list) /\ Len(list) \in Positions(list)
           /\ Positions(list) \subseteq Int
           /\ \A a, b \in Positions(list) : \A k \in Int : a <= k /\ k <= b => k \in Positions(list)
           /\ \A k \in Positions(list) : list[k].type = "PROGRAM_END_TOK" <=> k = Len(list)
<1>1. list \in Seq(Token) /\ list # <<>> /\ Len(list) \in Nat /\ DOMAIN list = 1 .. Len(list) /\ Len(list) # 0
  BY EmptySeq DEF IsTokenList
<1>2. PICK n \in Nat : n = Len(list) /\ n # 0
  BY <1>1
<1>3. /\ n \in 1 .. n /\ 1 .. n \subseteq Int
      /\ \A a, b \in 1 .. n : \A k \in Int : a <= k /\ k <= b => k \in 1 .. n
  BY <1>2
<1>4. Positions(list) = 1 .. n
  BY <1>2 DEF Positions
<1>5. \A k \in Positions(list) : list[k].type = "PROGRAM_END_TOK" <=> k = Len(list)
  BY <1>1, <1>2, <1>4 DEF IsTokenList
<1> QED BY <1>1, <1>2, <1>3, <1>4, <1>5

\* The parts of the list have trees.
LEMMA FromTables ==
    ASSUME NEW list, IsTokenList(list), NEW kind \in Parts \ {"stats"},
           NEW i \in Positions(list), NEW j \in Positions(list), NEW t \in From(list, kind, i, j)
    PROVE  t \in Tables
BY DerivedTyped DEF From, TypeOf

\* The statements of the list have sequences of trees.
LEMMA StatsTables ==
    ASSUME NEW list, IsTokenList(list),
           NEW i \in Positions(list), NEW j \in Positions(list), NEW t \in From(list, "stats", i, j)
    PROVE  t \in Seq(Tables)
<1>1. "stats" \in Parts
  BY DEF Parts
<1> QED BY <1>1, DerivedTyped DEF From, TypeOf

\* What the grammar says of a statement.
LEMMA StatIs ==
    ASSUME NEW list, IsTokenList(list), NEW kind \in {"stat", "closed"},
           NEW i \in Positions(list), NEW j \in Positions(list), NEW t
    PROVE  t \in From(list, kind, i, j) <=> i < j /\ IsStatement(list, Derived(list), kind, i, j, t)
<1>1. kind \in Parts /\ kind \notin {"stats", "factor", "product", "sum", "expr"}
  BY DEF Parts
<1> QED BY <1>1, ListPlaces, InDerived DEF From, IsOf

\* What the grammar says of a list of statements.
LEMMA StatsIs ==
    ASSUME NEW list, IsTokenList(list),
           NEW i \in Positions(list), NEW j \in Positions(list), NEW t
    PROVE  t \in From(list, "stats", i, j) <=>
              (i = j /\ t = <<>>) \/ (i < j /\ IsStats(Derived(list), i, j, t))
<1>1. "stats" \in Parts
  BY DEF Parts
<1> QED BY <1>1, ListPlaces, InDerived DEF From, IsOf

\* What the grammar says of an expression and of its operands.
LEMMA ExprIs ==
    ASSUME NEW list, IsTokenList(list),
           NEW i \in Positions(list), NEW j \in Positions(list), NEW t
    PROVE  /\ t \in From(list, "expr", i, j) <=>
                 /\ i < j
                 /\ \/ t \in From(list, "sum", i, j)
                    \/ IsBinary(list, Derived(list), ExprOpOf, "sum", "sum", i, j, t)
           /\ t \in From(list, "sum", i, j) <=>
                 /\ i < j
                 /\ \/ t \in From(list, "product", i, j)
                    \/ IsBinary(list, Derived(list), TermOpOf, "sum", "product", i, j, t)
           /\ t \in From(list, "product", i, j) <=>
                 /\ i < j
                 /\ \/ t \in From(list, "factor", i, j)
                    \/ IsBinary(list, Derived(list), FactorOpOf, "factor", "product", i, j, t)
           /\ t \in From(list, "factor", i, j) <=> i < j /\ IsFactor(list, Derived(list), i, j, t)
<1>1. {"expr", "sum", "product", "factor"} \subseteq Parts
  BY DEF Parts
<1>2. Len(list) \in Nat
  BY ListPlaces
<1>3. t \in From(list, "expr", i, j) <=> IsOf(list, Derived(list), "expr", i, j, t)
  BY <1>1, <1>2, InDerived DEF From
<1>4. t \in From(list, "sum", i, j) <=> IsOf(list, Derived(list), "sum", i, j, t)
  BY <1>1, <1>2, InDerived DEF From
<1>5. t \in From(list, "product", i, j) <=> IsOf(list, Derived(list), "product", i, j, t)
  BY <1>1, <1>2, InDerived DEF From
<1>6. t \in From(list, "factor", i, j) <=> IsOf(list, Derived(list), "factor", i, j, t)
  BY <1>1, <1>2, InDerived DEF From
<1> QED BY <1>3, <1>4, <1>5, <1>6 DEF IsOf, From

\* The operator stands at k.
Splits(list, opOf, left, right, i, j, t, k, l, r) ==
    /\ i < k /\ k + 1 < j /\ Ahead(list, k, opOf)
    /\ l \in From(list, left, i, k) /\ r \in From(list, right, k + 1, j)
    /\ t = Over(BinOp(opOf[list[k].type]), <<l, r>>)

\* An operator between two operands, with its place and the trees of the operands.
LEMMA BinaryIs ==
    ASSUME NEW list, IsTokenList(list), NEW opOf,
           NEW left, NEW right, left \in Parts \ {"stats"}, right \in Parts \ {"stats"},
           NEW i \in Positions(list), NEW j \in Positions(list), NEW t
    PROVE  IsBinary(list, Derived(list), opOf, left, right, i, j, t) <=>
              \E k \in Positions(list) : \E l \in Tables : \E r \in Tables :
                 Splits(list, opOf, left, right, i, j, t, k, l, r)
<1>0. i \in Int /\ j \in Int /\ Positions(list) \subseteq Int
  BY ListPlaces
<1>1. \A k : k \in Places(list, i + 1, j - 2, DOMAIN opOf) <=>
                k \in Positions(list) /\ i < k /\ k + 1 < j /\ Ahead(list, k, opOf)
  <2> TAKE k
  <2>1. k \in i + 1 .. j - 2 <=> k \in Positions(list) /\ i < k /\ k + 1 < j
    <3>1. ASSUME k \in i + 1 .. j - 2
          PROVE  k \in Positions(list)
      <4>1. k \in Int /\ i <= k /\ k <= j
        BY <1>0, <3>1
      <4> QED BY <4>1, ListPlaces
    <3>2. k \in i + 1 .. j - 2 <=> k \in Int /\ i < k /\ k + 1 < j
      BY <1>0
    <3> QED BY <1>0, <3>1, <3>2
  <2> QED BY <2>1 DEF Places, Ahead
<1>2. \A k \in Positions(list) : i < k /\ k + 1 < j =>
         /\ k + 1 \in Positions(list)
         /\ \A l \in From(list, left, i, k) : l \in Tables
         /\ \A r \in From(list, right, k + 1, j) : r \in Tables
  <2> SUFFICES ASSUME NEW k \in Positions(list), i < k /\ k + 1 < j
               PROVE  /\ k + 1 \in Positions(list)
                      /\ \A l \in From(list, left, i, k) : l \in Tables
                      /\ \A r \in From(list, right, k + 1, j) : r \in Tables
    OBVIOUS
  <2>1. k + 1 \in Int /\ i <= k + 1 /\ k + 1 <= j
    BY <1>0
  <2>2. k + 1 \in Positions(list)
    BY <2>1, ListPlaces
  <2> QED BY <2>2, FromTables
<1>3. IsBinary(list, Derived(list), opOf, left, right, i, j, t) <=>
         \E k \in Places(list, i + 1, j - 2, DOMAIN opOf) :
            \E l \in From(list, left, i, k) : \E r \in From(list, right, k + 1, j) :
               t = Over(BinOp(opOf[list[k].type]), <<l, r>>)
  BY Zenon DEF IsBinary, From
<1>4. ASSUME IsBinary(list, Derived(list), opOf, left, right, i, j, t)
      PROVE  \E k \in Positions(list) : \E l \in Tables : \E r \in Tables :
                Splits(list, opOf, left, right, i, j, t, k, l, r)
  <2>1. PICK k \in Places(list, i + 1, j - 2, DOMAIN opOf) :
           \E l \in From(list, left, i, k) : \E r \in From(list, right, k + 1, j) :
              t = Over(BinOp(opOf[list[k].type]), <<l, r>>)
    BY <1>3, <1>4
  <2>2. PICK l \in From(list, left, i, k) : \E r \in From(list, right, k + 1, j) :
              t = Over(BinOp(opOf[list[k].type]), <<l, r>>)
    BY <2>1
  <2>3. PICK r \in From(list, right, k + 1, j) : t = Over(BinOp(opOf[list[k].type]), <<l, r>>)
    BY <2>2
  <2>4. k \in Positions(list) /\ i < k /\ k + 1 < j /\ Ahead(list, k, opOf)
    BY <1>1, <2>1
  <2>5. l \in Tables /\ r \in Tables
    BY <1>2, <2>4, <2>2, <2>3
  <2>6. Splits(list, opOf, left, right, i, j, t, k, l, r)
    BY <2>2, <2>3, <2>4 DEF Splits
  <2> QED BY <2>4, <2>5, <2>6
<1>5. ASSUME NEW k \in Positions(list), NEW l, NEW r,
             Splits(list, opOf, left, right, i, j, t, k, l, r)
      PROVE  IsBinary(list, Derived(list), opOf, left, right, i, j, t)
  <2>1. k \in Places(list, i + 1, j - 2, DOMAIN opOf)
    BY <1>1, <1>5 DEF Splits
  <2>2. /\ l \in From(list, left, i, k) /\ r \in From(list, right, k + 1, j)
        /\ t = Over(BinOp(opOf[list[k].type]), <<l, r>>)
    BY <1>5 DEF Splits
  <2>3. \E r0 \in From(list, right, k + 1, j) : t = Over(BinOp(opOf[list[k].type]), <<l, r0>>)
    BY <2>2
  <2> QED BY <1>3, <2>1, <2>2, <2>3, Zenon
<1> QED BY <1>4, <1>5

\* A statement starts with a token that one can start with.
LEMMA FirstToken ==
    ASSUME NEW list, IsTokenList(list), NEW kind \in {"stat", "closed"},
           NEW i \in Positions(list), NEW j \in Positions(list), NEW t \in From(list, kind, i, j)
    PROVE  i < j /\ list[i].type \in StatStarts
<1>1. i < j /\ IsStatement(list, Derived(list), kind, i, j, t)
  BY StatIs
<1>2. CASE IsSimple(list, Derived(list), i, j, t)
  BY <1>1, <1>2 DEF IsSimple, Is, StatStarts
<1>3. CASE IsBlocks(list, Derived(list), i, j, t)
  BY <1>1, <1>3 DEF IsBlocks, Is, StatStarts
<1>4. CASE IsDeclaration(list, Derived(list), i, j, t)
  BY <1>1, <1>4 DEF IsDeclaration, IsInt, IsTypeIdent, StatStarts
<1>5. CASE IsConditional(list, Derived(list), kind, i, j, t)
  BY <1>1, <1>5 DEF IsConditional, Is, StatStarts
<1> QED BY <1>1, <1>2, <1>3, <1>4, <1>5 DEF IsStatement

\* A statement begins with a token that a statement can begin with.
LEMMA StatStart ==
    ASSUME NEW list, IsTokenList(list),
           NEW i \in Positions(list), NEW j \in Positions(list), NEW t, MakesStat(list, i, j, t)
    PROVE  i < j /\ list[i].type \in StatStarts
BY FirstToken DEF MakesStat

\* An operator with its operands takes tokens.
LEMMA BinaryMoves ==
    ASSUME NEW list, IsTokenList(list), NEW i \in Positions(list), NEW j \in Positions(list), NEW t,
           IsBinary(list, Derived(list), ExprOpOf, "sum", "sum", i, j, t)
    PROVE  i < j
<1>1. "sum" \in Parts \ {"stats"} /\ i \in Int /\ j \in Int /\ Positions(list) \subseteq Int
  BY ListPlaces DEF Parts
<1>2. PICK k \in Positions(list), l \in Tables, r \in Tables :
           Splits(list, ExprOpOf, "sum", "sum", i, j, t, k, l, r)
  BY <1>1, BinaryIs
<1> QED BY <1>1, <1>2 DEF Splits

\* Before a semicolon or a closing parenthesis there is nothing to look out for.
LEMMA ExprBefore ==
    ASSUME NEW list, IsTokenList(list),
           NEW i \in Positions(list), NEW j \in Positions(list), NEW t,
           list[j].type \in {"SCOL_TOK", "RPAREN_TOK"}
    PROVE  MakesExpr(list, i, j, t) <=> t \in From(list, "expr", i, j)
<1>1. NoCall(list, j) /\ ~Ahead(list, j, FactorOpOf) /\ ~Ahead(list, j, TermOpOf) /\ ~Ahead(list, j, ExprOpOf)
  BY AheadTypes DEF NoCall, Is
<1>2. IsBinary(list, Derived(list), ExprOpOf, "sum", "sum", i, j, t) => i < j
  BY BinaryMoves
<1>3. t \in From(list, "sum", i, j) => i < j
  BY ExprIs
<1> QED BY <1>1, <1>2, <1>3, ExprIs DEF MakesExpr

\* Nothing is made of no token.
LEMMA ExprMoves ==
    ASSUME NEW list, IsTokenList(list),
           NEW i \in Positions(list), NEW j \in Positions(list), NEW t, MakesExpr(list, i, j, t)
    PROVE  i < j /\ t \in Tables /\ t \in From(list, "expr", i, j)
<1>1. IsBinary(list, Derived(list), ExprOpOf, "sum", "sum", i, j, t) => i < j
  BY BinaryMoves
<1>2. "expr" \in Parts \ {"stats"}
  BY DEF Parts
<1>3. i < j /\ t \in From(list, "expr", i, j)
  BY <1>1, ExprIs DEF MakesExpr
<1> QED BY <1>2, <1>3, FromTables

-----------------------------------------------------------------------------
(* Sums: the terms that follow, one by one. *)

\* No further term is reached from where one is.
LEMMA ReachesHere ==
    ASSUME NEW list, NEW k \in Positions(list), NEW l \in Tables
    PROVE  Reaches(list, k, l, k, l)
BY DEF Reaches

\* One more term at the end.
LEMMA ReachesNext ==
    ASSUME NEW list, NEW k \in Positions(list), NEW l \in Tables,
           NEW a \in Positions(list), NEW x \in Tables, NEW b \in Positions(list), NEW y \in Tables,
           Reaches(list, k, l, a, x), NextTerm(list, a, x, b, y)
    PROVE  Reaches(list, k, l, b, y)
<1> SUFFICES ASSUME NEW R \in SUBSET (Positions(list) \X Tables), <<k, l>> \in R,
                    \A c, d \in Positions(list) : \A v, w \in Tables :
                       <<c, v>> \in R /\ NextTerm(list, c, v, d, w) => <<d, w>> \in R
             PROVE  <<b, y>> \in R
  BY DEF Reaches
<1>1. <<a, x>> \in R
  BY Zenon DEF Reaches
<1> QED BY <1>1

\* One more term at the beginning.
LEMMA ReachesFirst ==
    ASSUME NEW list, NEW k \in Positions(list), NEW l \in Tables,
           NEW a \in Positions(list), NEW x \in Tables, NEW b \in Positions(list), NEW y \in Tables,
           NextTerm(list, k, l, a, x), Reaches(list, a, x, b, y)
    PROVE  Reaches(list, k, l, b, y)
<1> SUFFICES ASSUME NEW R \in SUBSET (Positions(list) \X Tables), <<k, l>> \in R,
                    \A c, d \in Positions(list) : \A v, w \in Tables :
                       <<c, v>> \in R /\ NextTerm(list, c, v, d, w) => <<d, w>> \in R
             PROVE  <<b, y>> \in R
  BY DEF Reaches
<1>1. <<a, x>> \in R
  OBVIOUS
<1> QED BY <1>1, Zenon DEF Reaches

\* What is reached is reached at once or over a next term.
LEMMA ReachesBy ==
    ASSUME NEW list, NEW k \in Positions(list), NEW l \in Tables,
           NEW j \in Positions(list), NEW t \in Tables, Reaches(list, k, l, j, t)
    PROVE  \/ j = k /\ t = l
           \/ \E a \in Positions(list) : \E x \in Tables :
                 NextTerm(list, k, l, a, x) /\ Reaches(list, a, x, j, t)
<1> DEFINE On(b, y) == \E a \in Positions(list) : \E x \in Tables :
                          NextTerm(list, k, l, a, x) /\ Reaches(list, a, x, b, y)
           R == {p \in Positions(list) \X Tables : (p[1] = k /\ p[2] = l) \/ On(p[1], p[2])}
<1>1. R \in SUBSET (Positions(list) \X Tables)
  OBVIOUS
<1>2. \A b \in Positions(list) : \A y \in Tables : <<b, y>> \in R <=> (b = k /\ y = l) \/ On(b, y)
  OBVIOUS
<1>3. ASSUME NEW c \in Positions(list), NEW d \in Positions(list), NEW v \in Tables, NEW w \in Tables,
             <<c, v>> \in R, NextTerm(list, c, v, d, w)
      PROVE  <<d, w>> \in R
  <2>1. On(d, w)
    <3>1. CASE c = k /\ v = l
      BY <1>3, <3>1, ReachesHere
    <3>2. CASE On(c, v)
      BY <1>3, <3>2, ReachesNext
    <3> HIDE DEF R, On
    <3> QED BY <1>2, <1>3, <3>1, <3>2
  <2> HIDE DEF R, On
  <2> QED BY <1>2, <2>1
<1>4. <<k, l>> \in R
  BY <1>2
<1>5. <<j, t>> \in R
  <2> HIDE DEF R
  <2> QED BY <1>1, <1>3, <1>4, Zenon DEF Reaches
<1> HIDE DEF R
<1> QED BY <1>2, <1>5

\* A term makes a longer sum of a sum.
LEMMA SumGrows ==
    ASSUME NEW list, IsTokenList(list), NEW i \in Positions(list),
           NEW a \in Positions(list), NEW x \in From(list, "sum", i, a),
           NEW b \in Positions(list), NEW y, NextTerm(list, a, x, b, y)
    PROVE  y \in From(list, "sum", i, b) /\ NoCall(list, b) /\ ~Ahead(list, b, FactorOpOf)
<1>1. PICK r \in Tables : /\ MakesTerm(list, a + 1, b, r) /\ Ahead(list, a, TermOpOf)
                          /\ y = Over(BinOp(TermOpOf[list[a].type]), <<x, r>>)
  BY DEF NextTerm
<1>2. {"sum", "product"} \subseteq Parts \ {"stats"} /\ Positions(list) \subseteq Int
  BY ListPlaces DEF Parts
<1>3. a + 1 \in Positions(list)
  <2>1. list[a].type # "PROGRAM_END_TOK"
    BY <1>1, AheadTypes
  <2> QED BY <2>1, PlaceBehind
<1>4. i < a /\ a + 1 < b
  BY <1>1, <1>3, ExprIs DEF MakesTerm
<1>5. x \in Tables
  BY <1>2, FromTables
<1>6. IsBinary(list, Derived(list), TermOpOf, "sum", "product", i, b, y)
  <2>1. Splits(list, TermOpOf, "sum", "product", i, b, y, a, x, r)
    BY <1>1, <1>4, <1>5 DEF MakesTerm, Splits
  <2>2. "sum" \in Parts \ {"stats"} /\ "product" \in Parts \ {"stats"}
    BY <1>2
  <2> QED BY <1>1, <1>5, <2>1, <2>2, BinaryIs
<1>7. i < b
  BY <1>2, <1>4
<1> QED BY <1>1, <1>6, <1>7, ExprIs DEF MakesTerm

\* A sum is its first term and the ones that follow.
LEMMA SumReached ==
    ASSUME NEW list, IsTokenList(list), NEW i \in Positions(list)
    PROVE  \A j \in Positions(list) : \A t \in Tables :
              (t \in From(list, "sum", i, j) /\ NoCall(list, j) /\ ~Ahead(list, j, FactorOpOf)) =>
                 \E k \in Positions(list) : \E l \in Tables :
                    MakesTerm(list, i, k, l) /\ Reaches(list, k, l, j, t)
<1> DEFINE Ok(j) == \A t \in Tables :
              (t \in From(list, "sum", i, j) /\ NoCall(list, j) /\ ~Ahead(list, j, FactorOpOf)) =>
                 \E k \in Positions(list) : \E l \in Tables :
                    MakesTerm(list, i, k, l) /\ Reaches(list, k, l, j, t)
<1>1. {"sum", "product"} \subseteq Parts \ {"stats"} /\ Positions(list) \subseteq Int
  BY ListPlaces DEF Parts
<1>2. ASSUME NEW j \in Positions(list), \A a \in Positions(list) : a < j => Ok(a)
      PROVE  Ok(j)
  <2> SUFFICES ASSUME NEW t \in Tables, t \in From(list, "sum", i, j), NoCall(list, j),
                      ~Ahead(list, j, FactorOpOf)
               PROVE  \E k \in Positions(list) : \E l \in Tables :
                         MakesTerm(list, i, k, l) /\ Reaches(list, k, l, j, t)
    OBVIOUS
  <2>1. CASE t \in From(list, "product", i, j)
    BY <1>2, <2>1, ReachesHere DEF MakesTerm
  <2>2. CASE IsBinary(list, Derived(list), TermOpOf, "sum", "product", i, j, t)
    <3>1. "sum" \in Parts \ {"stats"} /\ "product" \in Parts \ {"stats"} /\ j \in Positions(list)
      BY <1>1, <1>2
    <3>2. PICK a \in Positions(list), l \in Tables, r \in Tables :
             Splits(list, TermOpOf, "sum", "product", i, j, t, a, l, r)
      BY <2>2, <3>1, BinaryIs
    <3>3. a < j
      BY <1>1, <1>2, <3>2 DEF Splits
    <3>4. NoCall(list, a) /\ ~Ahead(list, a, FactorOpOf)
      BY <1>2, <3>2, AheadTypes DEF NoCall, Is, Splits
    <3>5. PICK k \in Positions(list), l0 \in Tables : MakesTerm(list, i, k, l0) /\ Reaches(list, k, l0, a, l)
      BY <1>2, <3>2, <3>3, <3>4 DEF Splits
    <3>6. NextTerm(list, a, l, j, t)
      BY <3>2 DEF NextTerm, MakesTerm, Splits
    <3>7. Reaches(list, k, l0, j, t)
      BY <1>2, <3>5, <3>6, ReachesNext
    <3> QED BY <3>5, <3>7
  <2> QED BY <1>2, <2>1, <2>2, ExprIs
<1> HIDE DEF Ok
<1>3. \A j \in Positions(list) : Ok(j)
  <2> DEFINE S == {j \in Positions(list) : ~Ok(j)}
  <2>1. CASE S = {}
    BY <2>1
  <2>2. CASE S # {}
    <3>1. S \in SUBSET Nat
      BY ListPlaces DEF Positions
    <3>2. Min(S) \in S /\ \A a \in S : Min(S) <= a
      BY <2>2, <3>1, MinProperties
    <3>3. PICK m \in Positions(list) : ~Ok(m) /\ \A a \in S : m <= a
      BY <3>2
    <3>4. \A a \in Positions(list) : a < m => Ok(a)
      BY <1>1, <3>3
    <3> QED BY <1>2, <3>3, <3>4
  <2> QED BY <2>1, <2>2
<1> QED BY <1>3 DEF Ok

\* A sum is a term and all the terms that follow it.
LEMMA SumIs ==
    ASSUME NEW list, IsTokenList(list), NEW i \in Positions(list),
           NEW j \in Positions(list), NEW t \in Tables
    PROVE  MakesSum(list, i, j, t) <=>
              /\ ~Ahead(list, j, TermOpOf)
              /\ \E k \in Positions(list) : \E l \in Tables :
                    MakesTerm(list, i, k, l) /\ Reaches(list, k, l, j, t)
<1>1. ASSUME ~Ahead(list, j, TermOpOf), NEW k \in Positions(list), NEW l \in Tables,
             MakesTerm(list, i, k, l), Reaches(list, k, l, j, t)
      PROVE  MakesSum(list, i, j, t)
  <2> DEFINE R == {p \in Positions(list) \X Tables :
                      p[2] \in From(list, "sum", i, p[1]) /\ NoCall(list, p[1]) /\ ~Ahead(list, p[1], FactorOpOf)}
  <2>1. \A b \in Positions(list) : \A y \in Tables :
           <<b, y>> \in R <=> y \in From(list, "sum", i, b) /\ NoCall(list, b) /\ ~Ahead(list, b, FactorOpOf)
    OBVIOUS
  <2>2. R \in SUBSET (Positions(list) \X Tables)
    OBVIOUS
  <2> HIDE DEF R
  <2>3. <<k, l>> \in R
    <3>1. i < k /\ l \in From(list, "sum", i, k)
      BY <1>1, ExprIs DEF MakesTerm
    <3> QED BY <1>1, <2>1, <3>1 DEF MakesTerm
  <2>4. \A c, d \in Positions(list) : \A v, w \in Tables :
           <<c, v>> \in R /\ NextTerm(list, c, v, d, w) => <<d, w>> \in R
    BY <2>1, SumGrows
  <2>5. <<j, t>> \in R
    BY <1>1, <2>2, <2>3, <2>4, Zenon DEF Reaches
  <2> QED BY <1>1, <2>1, <2>5 DEF MakesSum
<1>2. MakesSum(list, i, j, t) =>
         /\ ~Ahead(list, j, TermOpOf)
         /\ \E k \in Positions(list) : \E l \in Tables :
               MakesTerm(list, i, k, l) /\ Reaches(list, k, l, j, t)
  BY SumReached DEF MakesSum
<1> QED BY <1>1, <1>2

\* The terms that follow, from the first operator on.
LEMMA TermsAhead ==
    ASSUME NEW list, NEW k \in Positions(list), NEW l \in Tables,
           NEW j \in Positions(list), NEW t \in Tables, ~Ahead(list, j, TermOpOf)
    PROVE  Reaches(list, k, l, j, t) <=>
              IF Ahead(list, k, TermOpOf)
              THEN \E a \in Positions(list) : \E x \in Tables :
                      NextTerm(list, k, l, a, x) /\ Reaches(list, a, x, j, t)
              ELSE j = k /\ t = l
<1>1. CASE Ahead(list, k, TermOpOf)
  BY <1>1, ReachesBy, ReachesFirst
<1>2. CASE ~Ahead(list, k, TermOpOf)
  <2>1. \A a, x : ~NextTerm(list, k, l, a, x)
    BY <1>2 DEF NextTerm
  <2> QED BY <1>2, <2>1, ReachesBy, ReachesHere
<1> QED BY <1>1, <1>2

-----------------------------------------------------------------------------
(* The first task is replaced by others.                                     *)

\* The tasks news have taken the place of the first of the tasks old.
Unfolded(list, old, new, news) ==
    IsTokenList(list) /\ Len(old) \in Nat /\ HeadReplaced(new, old, news)

\* The new tasks come first.
LEMMA NewTasks ==
    ASSUME NEW list, NEW old, NEW new, NEW news, Unfolded(list, old, new, news)
    PROVE  /\ Len(new) \in Nat /\ Len(news) \in Nat /\ 1 \in 1 .. Len(old)
           /\ \A n \in 1 .. Len(news) : n \in 1 .. Len(new) /\ new[n] = news[n]
<1>1. /\ Len(news) \in Nat /\ Len(new) = Len(news) + Len(old) - 1
      /\ DOMAIN new = 1 .. Len(new) /\ DOMAIN old = 1 .. Len(old) /\ DOMAIN news = 1 .. Len(news)
      /\ 1 \in DOMAIN old /\ \A n \in DOMAIN news : n \in DOMAIN new /\ new[n] = news[n]
  BY DEF Unfolded, HeadReplaced
<1>2. PICK a \in Nat : a = Len(old)
  BY DEF Unfolded
<1>3. PICK b \in Nat : b = Len(news)
  BY <1>1
<1>4. 1 \in 1 .. a
  BY <1>1, <1>2
<1>5. a >= 1 /\ b + a - 1 \in Nat
  BY <1>4
<1> QED BY <1>1, <1>2, <1>3, <1>5

\* Behind them, nothing has changed.
LEMMA AtEnd ==
    ASSUME NEW list, NEW old, NEW new, NEW news, Unfolded(list, old, new, news), NEW T
    PROVE  \A i, s : Meets(list, new, Len(news) + 1, i, s, T) <=> Meets(list, old, 2, i, s, T)
BY MeetsShift DEF Unfolded

\* The n-th task matches a token.
Checks(list, tasks, n, tok, T) ==
    \A i \in Positions(list) : \A s \in Stacks :
       Meets(list, tasks, n, i, s, T) <=>
          list[i].type = tok /\ i + 1 \in Positions(list) /\ Meets(list, tasks, n + 1, i + 1, s, T)

\* A token to match among the new tasks.
LEMMA AtMatch ==
    ASSUME NEW list, NEW old, NEW new, NEW news, Unfolded(list, old, new, news), NEW T,
           NEW n \in 1 .. Len(news), NEW tok \in TokenTypes \ {"PROGRAM_END_TOK"}, news[n] = Match(tok)
    PROVE  Checks(list, new, n, tok, T)
<1>1. Len(new) \in Nat /\ n \in 1 .. Len(new) /\ new[n] = Match(tok) /\ IsTokenList(list)
  BY NewTasks DEF Unfolded
<1> QED BY <1>1, MeetsMatch DEF Checks

\* A node to create among the new tasks.
LEMMA AtMake ==
    ASSUME NEW list, NEW old, NEW new, NEW news, Unfolded(list, old, new, news), NEW T,
           NEW n \in 1 .. Len(news), NEW m, m = n + 1,
           NEW node \in Leaves, NEW arity \in 0 .. 4, news[n] = Make(node, arity),
           NEW i \in Positions(list), NEW s \in Stacks, NEW u \in Stacks, u = MadeOf(s, node, arity)
    PROVE  Meets(list, new, n, i, s, T) <=> Meets(list, new, m, i, u, T)
<1>1. Len(new) \in Nat /\ n \in 1 .. Len(new) /\ new[n] = Make(node, arity)
  BY NewTasks
<1> QED BY <1>1, MeetsMake

\* The n-th task creates a node over no tree.
Creates0(list, tasks, n, node, T) ==
    \A i \in Positions(list) : \A r \in Stacks :
       /\ Over(node, <<>>) \in Tables
       /\ Meets(list, tasks, n, i, r, T) <=>
             Meets(list, tasks, n + 1, i, Append(r, Over(node, <<>>)), T)

\* A node over no tree among the new tasks.
LEMMA AtMake0 ==
    ASSUME NEW list, NEW old, NEW new, NEW news, Unfolded(list, old, new, news), NEW T,
           NEW n \in 1 .. Len(news), NEW node \in Leaves, news[n] = Make(node, 0)
    PROVE  Creates0(list, new, n, node, T)
<1> SUFFICES ASSUME NEW i \in Positions(list), NEW r \in Stacks
             PROVE  /\ Over(node, <<>>) \in Tables
                    /\ Meets(list, new, n, i, r, T) <=>
                          Meets(list, new, n + 1, i, Append(r, Over(node, <<>>)), T)
  BY DEF Creates0
<1> PICK m : m = n + 1
  OBVIOUS
<1>1. Over(node, <<>>) \in Tables
  BY OverNone
<1>2. PICK s \in Stacks : s = r
  BY AppendProperties DEF Stacks
<1>3. PICK u \in Stacks : u = Append(r, Over(node, <<>>))
  BY <1>1, AppendProperties DEF Stacks
<1>4. u = MadeOf(s, node, 0)
  BY <1>2, <1>3, MadeOver0
<1>5. PICK k \in 0 .. 4 : k = 0
  OBVIOUS
<1>6. news[n] = Make(node, k) /\ u = MadeOf(s, node, k)
  BY <1>4, <1>5
<1>7. Meets(list, new, n, i, s, T) <=> Meets(list, new, m, i, u, T)
  BY <1>6, AtMake, Zenon
<1> QED BY <1>1, <1>2, <1>3, <1>7

\* The n-th task creates a node over one tree.
Creates1(list, tasks, n, node, T) ==
    \A i \in Positions(list) : \A r \in Stacks : \A a \in Tables :
       /\ Over(node, <<a>>) \in Tables
       /\ Meets(list, tasks, n, i, Append(r, a), T) <=>
             Meets(list, tasks, n + 1, i, Append(r, Over(node, <<a>>)), T)

\* A node over one tree among the new tasks.
LEMMA AtMake1 ==
    ASSUME NEW list, NEW old, NEW new, NEW news, Unfolded(list, old, new, news), NEW T,
           NEW n \in 1 .. Len(news), NEW node \in Leaves, news[n] = Make(node, 1)
    PROVE  Creates1(list, new, n, node, T)
<1> SUFFICES ASSUME NEW i \in Positions(list), NEW r \in Stacks, NEW a \in Tables
             PROVE  /\ Over(node, <<a>>) \in Tables
                    /\ Meets(list, new, n, i, Append(r, a), T) <=>
                          Meets(list, new, n + 1, i, Append(r, Over(node, <<a>>)), T)
  BY DEF Creates1
<1> PICK m : m = n + 1
  OBVIOUS
<1>1. Over(node, <<a>>) \in Tables
  BY OverTable, FewTables
<1>2. PICK s \in Stacks : s = Append(r, a)
  BY AppendProperties DEF Stacks
<1>3. PICK u \in Stacks : u = Append(r, Over(node, <<a>>))
  BY <1>1, AppendProperties DEF Stacks
<1>4. u = MadeOf(s, node, 1)
  BY <1>2, <1>3, MadeOver1
<1>5. PICK k \in 0 .. 4 : k = 1
  OBVIOUS
<1>6. news[n] = Make(node, k) /\ u = MadeOf(s, node, k)
  BY <1>4, <1>5
<1>7. Meets(list, new, n, i, s, T) <=> Meets(list, new, m, i, u, T)
  BY <1>6, AtMake, Zenon
<1> QED BY <1>1, <1>2, <1>3, <1>7

\* The n-th task creates a node over two trees.
Creates2(list, tasks, n, node, T) ==
    \A i \in Positions(list) : \A r \in Stacks : \A a \in Tables : \A b \in Tables :
       /\ Over(node, <<a, b>>) \in Tables
       /\ Meets(list, tasks, n, i, Append(Append(r, a), b), T) <=>
             Meets(list, tasks, n + 1, i, Append(r, Over(node, <<a, b>>)), T)

\* A node over two trees among the new tasks.
LEMMA AtMake2 ==
    ASSUME NEW list, NEW old, NEW new, NEW news, Unfolded(list, old, new, news), NEW T,
           NEW n \in 1 .. Len(news), NEW node \in Leaves, news[n] = Make(node, 2)
    PROVE  Creates2(list, new, n, node, T)
<1> SUFFICES ASSUME NEW i \in Positions(list), NEW r \in Stacks, NEW a \in Tables, NEW b \in Tables
             PROVE  /\ Over(node, <<a, b>>) \in Tables
                    /\ Meets(list, new, n, i, Append(Append(r, a), b), T) <=>
                          Meets(list, new, n + 1, i, Append(r, Over(node, <<a, b>>)), T)
  BY DEF Creates2
<1> PICK m : m = n + 1
  OBVIOUS
<1>1. Over(node, <<a, b>>) \in Tables
  BY OverTable, FewTables
<1>2. PICK s \in Stacks : s = Append(Append(r, a), b)
  BY AppendProperties DEF Stacks
<1>3. PICK u \in Stacks : u = Append(r, Over(node, <<a, b>>))
  BY <1>1, AppendProperties DEF Stacks
<1>4. u = MadeOf(s, node, 2)
  BY <1>2, <1>3, MadeOver2
<1>5. PICK k \in 0 .. 4 : k = 2
  OBVIOUS
<1>6. news[n] = Make(node, k) /\ u = MadeOf(s, node, k)
  BY <1>4, <1>5
<1>7. Meets(list, new, n, i, s, T) <=> Meets(list, new, m, i, u, T)
  BY <1>6, AtMake, Zenon
<1> QED BY <1>1, <1>2, <1>3, <1>7

\* The n-th task creates a node over three trees.
Creates3(list, tasks, n, node, T) ==
    \A i \in Positions(list) : \A r \in Stacks : \A a \in Tables : \A b \in Tables : \A c \in Tables :
       /\ Over(node, <<a, b, c>>) \in Tables
       /\ Meets(list, tasks, n, i, Append(Append(Append(r, a), b), c), T) <=>
             Meets(list, tasks, n + 1, i, Append(r, Over(node, <<a, b, c>>)), T)

\* A node over three trees among the new tasks.
LEMMA AtMake3 ==
    ASSUME NEW list, NEW old, NEW new, NEW news, Unfolded(list, old, new, news), NEW T,
           NEW n \in 1 .. Len(news), NEW node \in Leaves, news[n] = Make(node, 3)
    PROVE  Creates3(list, new, n, node, T)
<1> SUFFICES ASSUME NEW i \in Positions(list), NEW r \in Stacks, NEW a \in Tables, NEW b \in Tables, NEW c \in Tables
             PROVE  /\ Over(node, <<a, b, c>>) \in Tables
                    /\ Meets(list, new, n, i, Append(Append(Append(r, a), b), c), T) <=>
                          Meets(list, new, n + 1, i, Append(r, Over(node, <<a, b, c>>)), T)
  BY DEF Creates3
<1> PICK m : m = n + 1
  OBVIOUS
<1>1. Over(node, <<a, b, c>>) \in Tables
  BY OverTable, FewTables
<1>2. PICK s \in Stacks : s = Append(Append(Append(r, a), b), c)
  BY AppendProperties DEF Stacks
<1>3. PICK u \in Stacks : u = Append(r, Over(node, <<a, b, c>>))
  BY <1>1, AppendProperties DEF Stacks
<1>4. u = MadeOf(s, node, 3)
  BY <1>2, <1>3, MadeOver3
<1>5. PICK k \in 0 .. 4 : k = 3
  OBVIOUS
<1>6. news[n] = Make(node, k) /\ u = MadeOf(s, node, k)
  BY <1>4, <1>5
<1>7. Meets(list, new, n, i, s, T) <=> Meets(list, new, m, i, u, T)
  BY <1>6, AtMake, Zenon
<1> QED BY <1>1, <1>2, <1>3, <1>7

\* The n-th task creates a node over four trees.
Creates4(list, tasks, n, node, T) ==
    \A i \in Positions(list) : \A r \in Stacks : \A a \in Tables : \A b \in Tables : \A c \in Tables : \A d \in Tables :
       /\ Over(node, <<a, b, c, d>>) \in Tables
       /\ Meets(list, tasks, n, i, Append(Append(Append(Append(r, a), b), c), d), T) <=>
             Meets(list, tasks, n + 1, i, Append(r, Over(node, <<a, b, c, d>>)), T)

\* A node over four trees among the new tasks.
LEMMA AtMake4 ==
    ASSUME NEW list, NEW old, NEW new, NEW news, Unfolded(list, old, new, news), NEW T,
           NEW n \in 1 .. Len(news), NEW node \in Leaves, news[n] = Make(node, 4)
    PROVE  Creates4(list, new, n, node, T)
<1> SUFFICES ASSUME NEW i \in Positions(list), NEW r \in Stacks, NEW a \in Tables, NEW b \in Tables, NEW c \in Tables, NEW d \in Tables
             PROVE  /\ Over(node, <<a, b, c, d>>) \in Tables
                    /\ Meets(list, new, n, i, Append(Append(Append(Append(r, a), b), c), d), T) <=>
                          Meets(list, new, n + 1, i, Append(r, Over(node, <<a, b, c, d>>)), T)
  BY DEF Creates4
<1> PICK m : m = n + 1
  OBVIOUS
<1>1. Over(node, <<a, b, c, d>>) \in Tables
  BY OverTable, FewTables
<1>2. PICK s \in Stacks : s = Append(Append(Append(Append(r, a), b), c), d)
  BY AppendProperties DEF Stacks
<1>3. PICK u \in Stacks : u = Append(r, Over(node, <<a, b, c, d>>))
  BY <1>1, AppendProperties DEF Stacks
<1>4. u = MadeOf(s, node, 4)
  BY <1>2, <1>3, MadeOver4
<1>5. PICK k \in 0 .. 4 : k = 4
  OBVIOUS
<1>6. news[n] = Make(node, k) /\ u = MadeOf(s, node, k)
  BY <1>4, <1>5
<1>7. Meets(list, new, n, i, s, T) <=> Meets(list, new, m, i, u, T)
  BY <1>6, AtMake, Zenon
<1> QED BY <1>1, <1>2, <1>3, <1>7

\* What the functions that make a tree make of the tokens between two places.
LEMMA MakesWhat ==
    ASSUME NEW list, NEW task, NEW i, NEW j, NEW t
    PROVE  /\ task.do = "factor" => (Makes(list, task, i, j, t) <=> MakesFactor(list, i, j, t))
           /\ task.do = "term" => (Makes(list, task, i, j, t) <=> MakesTerm(list, i, j, t))
           /\ task.do = "subexpr" => (Makes(list, task, i, j, t) <=> MakesSum(list, i, j, t))
           /\ task.do = "expr" => (Makes(list, task, i, j, t) <=> MakesExpr(list, i, j, t))
           /\ task.do = "stat" => (Makes(list, task, i, j, t) <=> MakesStat(list, i, j, t))
           /\ task.do = "declarator" =>
                 (Makes(list, task, i, j, t) <=> IsDeclarator(list, Derived(list), task.name, i, j, t))
           /\ task.do = "body" =>
                 (Makes(list, task, i, j, t) <=> IsBody(list, Derived(list), task.name, i, j, t))
BY DEF Makes

\* From the n-th task on, a tree is made and pushed first.
Begins(list, tasks, n, makes(_, _, _, _), T) ==
    \A i \in Positions(list) : \A s \in Stacks :
       Meets(list, tasks, n, i, s, T) <=>
          \E j \in Positions(list) : \E t \in Tables :
             makes(list, i, j, t) /\ Meets(list, tasks, n + 1, j, Append(s, t), T)

\* A function that parses a part of an expression, or a statement.
LEMMA TaskBegins ==
    ASSUME NEW list, NEW tasks, Len(tasks) \in Nat, NEW n \in 1 .. Len(tasks), NEW T
    PROVE  /\ tasks[n].do = "factor" => Begins(list, tasks, n, MakesFactor, T)
           /\ tasks[n].do = "term" => Begins(list, tasks, n, MakesTerm, T)
           /\ tasks[n].do = "subexpr" => Begins(list, tasks, n, MakesSum, T)
           /\ tasks[n].do = "expr" => Begins(list, tasks, n, MakesExpr, T)
           /\ tasks[n].do = "stat" => Begins(list, tasks, n, MakesStat, T)
<1>0. tasks[n].do \in {"factor", "term", "subexpr", "expr", "stat"} =>
         \A i \in Positions(list) : \A s \in Stacks :
            Meets(list, tasks, n, i, s, T) <=>
               \E j \in Positions(list) : \E t \in Tables :
                  Makes(list, tasks[n], i, j, t) /\ Meets(list, tasks, n + 1, j, Append(s, t), T)
  BY MeetsMaker DEF Makers
<1>1. ASSUME tasks[n].do = "factor"
      PROVE  Begins(list, tasks, n, MakesFactor, T)
  <2>1. \A i, j, t : Makes(list, tasks[n], i, j, t) <=> MakesFactor(list, i, j, t)
    BY <1>1, MakesWhat
  <2> QED BY <1>0, <1>1, <2>1, Zenon DEF Begins
<1>2. ASSUME tasks[n].do = "term"
      PROVE  Begins(list, tasks, n, MakesTerm, T)
  <2>1. \A i, j, t : Makes(list, tasks[n], i, j, t) <=> MakesTerm(list, i, j, t)
    BY <1>2, MakesWhat
  <2> QED BY <1>0, <1>2, <2>1, Zenon DEF Begins
<1>3. ASSUME tasks[n].do = "subexpr"
      PROVE  Begins(list, tasks, n, MakesSum, T)
  <2>1. \A i, j, t : Makes(list, tasks[n], i, j, t) <=> MakesSum(list, i, j, t)
    BY <1>3, MakesWhat
  <2> QED BY <1>0, <1>3, <2>1, Zenon DEF Begins
<1>4. ASSUME tasks[n].do = "expr"
      PROVE  Begins(list, tasks, n, MakesExpr, T)
  <2>1. \A i, j, t : Makes(list, tasks[n], i, j, t) <=> MakesExpr(list, i, j, t)
    BY <1>4, MakesWhat
  <2> QED BY <1>0, <1>4, <2>1, Zenon DEF Begins
<1>5. ASSUME tasks[n].do = "stat"
      PROVE  Begins(list, tasks, n, MakesStat, T)
  <2>1. \A i, j, t : Makes(list, tasks[n], i, j, t) <=> MakesStat(list, i, j, t)
    BY <1>5, MakesWhat
  <2> QED BY <1>0, <1>5, <2>1, Zenon DEF Begins
<1> QED BY <1>1, <1>2, <1>3, <1>4, <1>5

\* The same, of the first of the old tasks.
LEMMA OldBegins ==
    ASSUME NEW list, NEW old, NEW new, NEW news, Unfolded(list, old, new, news), NEW T
    PROVE  /\ old[1].do = "factor" => Begins(list, old, 1, MakesFactor, T)
           /\ old[1].do = "term" => Begins(list, old, 1, MakesTerm, T)
           /\ old[1].do = "subexpr" => Begins(list, old, 1, MakesSum, T)
           /\ old[1].do = "expr" => Begins(list, old, 1, MakesExpr, T)
           /\ old[1].do = "stat" => Begins(list, old, 1, MakesStat, T)
<1>1. Len(old) \in Nat /\ 1 \in 1 .. Len(old)
  BY NewTasks DEF Unfolded
<1> QED BY <1>1, TaskBegins

\* The same, of one of the new tasks.
LEMMA AtMaker ==
    ASSUME NEW list, NEW old, NEW new, NEW news, Unfolded(list, old, new, news), NEW T,
           NEW n \in 1 .. Len(news)
    PROVE  /\ news[n] = Parse("factor") => Begins(list, new, n, MakesFactor, T)
           /\ news[n] = Parse("term") => Begins(list, new, n, MakesTerm, T)
           /\ news[n] = Parse("subexpr") => Begins(list, new, n, MakesSum, T)
           /\ news[n] = Parse("expr") => Begins(list, new, n, MakesExpr, T)
           /\ news[n] = Parse("stat") => Begins(list, new, n, MakesStat, T)
<1>1. Len(new) \in Nat /\ n \in 1 .. Len(new) /\ new[n] = news[n]
  BY NewTasks
<1>2. \A do : Parse(do).do = do
  BY DEF Parse, ParserTask
<1> QED BY <1>1, <1>2, TaskBegins

\* The tokens that parser.c matches, and the numbers of children it gives.
LEMMA Matched ==
    /\ {"RETURN_TOK", "IF_TOK", "WHILE_TOK", "FOR_TOK", "ELSE_TOK", "LPAREN_TOK", "RPAREN_TOK",
        "LBRACE_TOK", "RBRACE_TOK", "SCOL_TOK", "ASSIGN_TOK"} \subseteq TokenTypes \ {"PROGRAM_END_TOK"}
    /\ 0 \in 0 .. 4 /\ 1 \in 0 .. 4 /\ 2 \in 0 .. 4 /\ 3 \in 0 .. 4 /\ 4 \in 0 .. 4
BY DEF TokenTypes

-----------------------------------------------------------------------------
(* Statements. *)

\* An expression and a semicolon, as the only child of that node.
ExprOver(list, node, i, j, t) ==
    /\ Is(list, j - 1, "SCOL_TOK")
    /\ \E e \in From(list, "expr", i, j - 1) : t = Over(node, <<e>>)

\* What a statement is, by its first token.
LEMMA StartsIs ==
    ASSUME NEW list, IsTokenList(list), NEW kind \in {"stat", "closed"},
           NEW i \in Positions(list), NEW j, NEW t
    PROVE  /\ list[i].type \in {"IF_TOK", "WHILE_TOK", "FOR_TOK"} =>
                 (IsStatement(list, Derived(list), kind, i, j, t) <=>
                     IsConditional(list, Derived(list), kind, i, j, t))
           /\ list[i].type = "LBRACE_TOK" =>
                 (IsStatement(list, Derived(list), kind, i, j, t) <=>
                     IsBlocks(list, Derived(list), i, j, t))
           /\ IsTypeIdent(list[i]) =>
                 (IsStatement(list, Derived(list), kind, i, j, t) <=>
                     IsDeclaration(list, Derived(list), i, j, t))
           /\ list[i].type = "RETURN_TOK" =>
                 (IsStatement(list, Derived(list), kind, i, j, t) <=>
                     ExprOver(list, Plain("RETURN_STAT"), i + 1, j, t))
           /\ list[i].type = "SCOL_TOK" =>
                 (IsStatement(list, Derived(list), kind, i, j, t) <=> j = i + 1 /\ t = <<Plain("SKIP_STAT")>>)
           /\ list[i].type = "INT_LIT_TOK" \/ (list[i].type = "IDENT_TOK" /\ ~IsTypeIdent(list[i])) =>
                 (IsStatement(list, Derived(list), kind, i, j, t) <=>
                     ExprOver(list, Plain("EXPR_STAT"), i, j, t))
<1>0. i \in DOMAIN list
  BY ListPlaces
<1> DEFINE Returned == \E e \in From(list, "expr", i + 1, j - 1) : t = Over(Plain("RETURN_STAT"), <<e>>)
           Valued == \E e \in From(list, "expr", i, j - 1) : t = Over(Plain("EXPR_STAT"), <<e>>)
<1>1. IsSimple(list, Derived(list), i, j, t) <=>
         \/ list[i].type = "RETURN_TOK" /\ Is(list, j - 1, "SCOL_TOK") /\ Returned
         \/ j = i + 1 /\ list[i].type = "SCOL_TOK" /\ t = <<Plain("SKIP_STAT")>>
         \/ /\ list[i].type = "INT_LIT_TOK" \/ (list[i].type = "IDENT_TOK" /\ ~IsTypeIdent(list[i]))
            /\ Is(list, j - 1, "SCOL_TOK") /\ Valued
  <2>1. \A type : Is(list, i, type) <=> list[i].type = type
    BY <1>0 DEF Is
  <2>2. IsInt(list, i) <=> IsTypeIdent(list[i])
    BY <1>0 DEF IsInt
  <2>3. IsSimple(list, Derived(list), i, j, t) <=>
         \/ Is(list, i, "RETURN_TOK") /\ Is(list, j - 1, "SCOL_TOK") /\ Returned
         \/ j = i + 1 /\ Is(list, i, "SCOL_TOK") /\ t = <<Plain("SKIP_STAT")>>
         \/ /\ Is(list, i, "INT_LIT_TOK") \/ (Is(list, i, "IDENT_TOK") /\ ~IsInt(list, i))
            /\ Is(list, j - 1, "SCOL_TOK") /\ Valued
    BY Zenon DEF IsSimple, From
  <2> HIDE DEF Returned, Valued
  <2> QED BY <2>1, <2>2, <2>3
<1>2. IsBlocks(list, Derived(list), i, j, t) => list[i].type = "LBRACE_TOK"
  BY DEF IsBlocks, Is
<1>3. IsDeclaration(list, Derived(list), i, j, t) => IsTypeIdent(list[i])
  BY DEF IsDeclaration, IsInt
<1>4. IsConditional(list, Derived(list), kind, i, j, t) => list[i].type \in {"IF_TOK", "WHILE_TOK", "FOR_TOK"}
  BY DEF IsConditional, Is
<1>5. IsTypeIdent(list[i]) => list[i].type = "IDENT_TOK"
  BY DEF IsTypeIdent
<1> HIDE DEF Returned, Valued
<1>6. /\ list[i].type \in {"IF_TOK", "WHILE_TOK", "FOR_TOK"} =>
            (IsStatement(list, Derived(list), kind, i, j, t) <=> IsConditional(list, Derived(list), kind, i, j, t))
      /\ list[i].type = "LBRACE_TOK" =>
            (IsStatement(list, Derived(list), kind, i, j, t) <=> IsBlocks(list, Derived(list), i, j, t))
      /\ IsTypeIdent(list[i]) =>
            (IsStatement(list, Derived(list), kind, i, j, t) <=> IsDeclaration(list, Derived(list), i, j, t))
  BY <1>1, <1>2, <1>3, <1>4, <1>5 DEF IsStatement
<1>7. /\ list[i].type = "RETURN_TOK" =>
            (IsStatement(list, Derived(list), kind, i, j, t) <=> Is(list, j - 1, "SCOL_TOK") /\ Returned)
      /\ list[i].type = "SCOL_TOK" =>
            (IsStatement(list, Derived(list), kind, i, j, t) <=> j = i + 1 /\ t = <<Plain("SKIP_STAT")>>)
      /\ list[i].type = "INT_LIT_TOK" \/ (list[i].type = "IDENT_TOK" /\ ~IsTypeIdent(list[i])) =>
            (IsStatement(list, Derived(list), kind, i, j, t) <=> Is(list, j - 1, "SCOL_TOK") /\ Valued)
  BY <1>1, <1>2, <1>3, <1>4, <1>5 DEF IsStatement
<1>8. ExprOver(list, Plain("RETURN_STAT"), i + 1, j, t) <=> Is(list, j - 1, "SCOL_TOK") /\ Returned
  BY DEF ExprOver, Returned
<1>9. ExprOver(list, Plain("EXPR_STAT"), i, j, t) <=> Is(list, j - 1, "SCOL_TOK") /\ Valued
  BY DEF ExprOver, Valued
<1> QED BY <1>6, <1>7, <1>8, <1>9

\* The kind of a statement that comes before j.
KindAt(list, j) == IF list[j].type = "ELSE_TOK" THEN "closed" ELSE "stat"

\* A statement has a token, and is a tree of the grammar.
LEMMA StatMoves ==
    ASSUME NEW list, IsTokenList(list),
           NEW i \in Positions(list), NEW j \in Positions(list), NEW t
    PROVE  /\ KindAt(list, j) \in {"stat", "closed"}
           /\ MakesStat(list, i, j, t) <=> t \in From(list, KindAt(list, j), i, j)
           /\ MakesStat(list, i, j, t) <=> i < j /\ IsStatement(list, Derived(list), KindAt(list, j), i, j, t)
           /\ MakesStat(list, i, j, t) => i < j /\ t \in Tables
<1>1. KindAt(list, j) \in {"stat", "closed"} /\ {"stat", "closed"} \subseteq Parts \ {"stats"}
  BY DEF KindAt, Parts
<1>2. MakesStat(list, i, j, t) <=> t \in From(list, KindAt(list, j), i, j)
  BY DEF MakesStat, KindAt
<1>3. t \in From(list, KindAt(list, j), i, j) =>  t \in Tables
  BY <1>1, FromTables
<1> QED BY <1>1, <1>2, <1>3, StatIs

\* An expression before a semicolon.
LEMMA Value ==
    ASSUME NEW list, IsTokenList(list),
           NEW i \in Positions(list), NEW j \in Positions(list), NEW e
    PROVE  Is(list, j - 1, "SCOL_TOK") /\ i < j /\ e \in From(list, "expr", i, j - 1) <=>
              \E k \in Positions(list) : MakesExpr(list, i, k, e) /\ list[k].type = "SCOL_TOK" /\ j = k + 1
<1>0. DOMAIN list = Positions(list) /\ Positions(list) \subseteq Int
  BY ListPlaces
<1>1. ASSUME Is(list, j - 1, "SCOL_TOK"), i < j, e \in From(list, "expr", i, j - 1)
      PROVE  j - 1 \in Positions(list) /\ MakesExpr(list, i, j - 1, e) /\ list[j - 1].type = "SCOL_TOK" /\ j = j - 1 + 1
  <2>1. j - 1 \in Positions(list) /\ list[j - 1].type = "SCOL_TOK" /\ j = j - 1 + 1
    BY <1>0, <1>1 DEF Is
  <2> QED BY <1>1, <2>1, ExprBefore
<1>2. ASSUME NEW k \in Positions(list), MakesExpr(list, i, k, e), list[k].type = "SCOL_TOK", j = k + 1
      PROVE  Is(list, j - 1, "SCOL_TOK") /\ i < j /\ e \in From(list, "expr", i, j - 1)
  <2>1. i < k /\ e \in From(list, "expr", i, k)
    BY <1>2, ExprMoves
  <2>2. j - 1 = k /\ i < j
    BY <1>0, <1>2, <2>1
  <2> QED BY <1>0, <1>2, <2>1, <2>2 DEF Is
<1> QED BY <1>1, <1>2

\* A statement that starts with return.
LEMMA ReturnIs ==
    ASSUME NEW list, IsTokenList(list), NEW i \in Positions(list), NEW j \in Positions(list), NEW t,
           list[i].type = "RETURN_TOK"
    PROVE  MakesStat(list, i, j, t) <=>
              \E k \in Positions(list) : \E e \in Tables :
                 /\ i + 1 \in Positions(list) /\ MakesExpr(list, i + 1, k, e)
                 /\ list[k].type = "SCOL_TOK" /\ j = k + 1
                 /\ t = Over(Plain("RETURN_STAT"), <<e>>)
<1>0. Positions(list) \subseteq Int /\ i + 1 \in Positions(list)
  BY ListPlaces, PlaceBehind
<1>1. MakesStat(list, i, j, t) <=> i < j /\ ExprOver(list, Plain("RETURN_STAT"), i + 1, j, t)
  BY StatMoves, StartsIs
<1>2. ASSUME MakesStat(list, i, j, t)
      PROVE  \E k \in Positions(list) : \E e \in Tables :
                 /\ i + 1 \in Positions(list) /\ MakesExpr(list, i + 1, k, e)
                 /\ list[k].type = "SCOL_TOK" /\ j = k + 1
                 /\ t = Over(Plain("RETURN_STAT"), <<e>>)
  <2>1. PICK e \in From(list, "expr", i + 1, j - 1) : t = Over(Plain("RETURN_STAT"), <<e>>)
    BY <1>1, <1>2 DEF ExprOver
  <2>2. i + 1 < j
    <3>1. list[j - 1].type = "SCOL_TOK" /\ i < j
      BY <1>1, <1>2 DEF Is, ExprOver
    <3>2. j # i + 1
      BY <1>0, <3>1
    <3> QED BY <1>0, <3>1, <3>2
  <2>3. PICK k \in Positions(list) : MakesExpr(list, i + 1, k, e) /\ list[k].type = "SCOL_TOK" /\ j = k + 1
    BY <1>0, <1>1, <1>2, <2>1, <2>2, Value DEF ExprOver
  <2>4. e \in Tables
    BY <1>0, <2>3, ExprMoves
  <2> QED BY <1>0, <2>1, <2>3, <2>4
<1>3. ASSUME NEW k \in Positions(list), NEW e, i + 1 \in Positions(list), MakesExpr(list, i + 1, k, e),
             list[k].type = "SCOL_TOK", j = k + 1, t = Over(Plain("RETURN_STAT"), <<e>>)
      PROVE  MakesStat(list, i, j, t)
  <2>1. Is(list, j - 1, "SCOL_TOK") /\ i + 1 < j /\ e \in From(list, "expr", i + 1, j - 1)
    BY <1>3, Value
  <2> QED BY <1>0, <1>1, <1>3, <2>1 DEF ExprOver
<1> QED BY <1>2, <1>3

\* A statement that is an expression.
LEMMA ExprStatIs ==
    ASSUME NEW list, IsTokenList(list), NEW i \in Positions(list), NEW j \in Positions(list), NEW t,
           list[i].type = "INT_LIT_TOK" \/ (list[i].type = "IDENT_TOK" /\ ~IsTypeIdent(list[i]))
    PROVE  MakesStat(list, i, j, t) <=>
              \E k \in Positions(list) : \E e \in Tables :
                 /\ MakesExpr(list, i, k, e) /\ list[k].type = "SCOL_TOK" /\ j = k + 1
                 /\ t = Over(Plain("EXPR_STAT"), <<e>>)
<1>1. MakesStat(list, i, j, t) <=> i < j /\ ExprOver(list, Plain("EXPR_STAT"), i, j, t)
  BY StatMoves, StartsIs
<1>2. ASSUME MakesStat(list, i, j, t)
      PROVE  \E k \in Positions(list) : \E e \in Tables :
                 /\ MakesExpr(list, i, k, e) /\ list[k].type = "SCOL_TOK" /\ j = k + 1
                 /\ t = Over(Plain("EXPR_STAT"), <<e>>)
  <2>1. PICK e \in From(list, "expr", i, j - 1) : t = Over(Plain("EXPR_STAT"), <<e>>)
    BY <1>1, <1>2 DEF ExprOver
  <2>3. PICK k \in Positions(list) : MakesExpr(list, i, k, e) /\ list[k].type = "SCOL_TOK" /\ j = k + 1
    BY <1>1, <1>2, <2>1, Value DEF ExprOver
  <2>4. e \in Tables
    BY <2>3, ExprMoves
  <2> QED BY <2>1, <2>3, <2>4
<1>3. ASSUME NEW k \in Positions(list), NEW e, MakesExpr(list, i, k, e),
             list[k].type = "SCOL_TOK", j = k + 1, t = Over(Plain("EXPR_STAT"), <<e>>)
      PROVE  MakesStat(list, i, j, t)
  <2>1. Is(list, j - 1, "SCOL_TOK") /\ i < j /\ e \in From(list, "expr", i, j - 1)
    BY <1>3, Value
  <2> QED BY <1>1, <1>3, <2>1 DEF ExprOver
<1> QED BY <1>2, <1>3

\* A statement that is a semicolon.
LEMMA SkipIs ==
    ASSUME NEW list, IsTokenList(list), NEW i \in Positions(list), NEW j \in Positions(list), NEW t,
           list[i].type = "SCOL_TOK"
    PROVE  MakesStat(list, i, j, t) <=> j = i + 1 /\ t = Over(Plain("SKIP_STAT"), <<>>)
<1>1. Positions(list) \subseteq Int
  BY ListPlaces
<1>2. Over(Plain("SKIP_STAT"), <<>>) = <<Plain("SKIP_STAT")>>
  BY StatementLeaves, OverNone
<1>3. MakesStat(list, i, j, t) <=> i < j /\ j = i + 1 /\ t = <<Plain("SKIP_STAT")>>
  BY StatMoves, StartsIs
<1> QED BY <1>1, <1>2, <1>3

-----------------------------------------------------------------------------
(* What parse_stat unfolds into makes the statement. *)

\* parse_stat: return.
LEMMA ReturnMeets ==
    ASSUME NEW list, NEW old, NEW new, NEW T, old[1].do = "stat",
           Unfolded(list, old, new, <<Match("RETURN_TOK"), Parse("expr"),
                                      Make(Plain("RETURN_STAT"), 1), Match("SCOL_TOK")>>),
           NEW i \in Positions(list), NEW s \in Stacks, list[i].type = "RETURN_TOK"
    PROVE  Meets(list, old, 1, i, s, T) <=> Meets(list, new, 1, i, s, T)
<1> DEFINE t1 == Match("RETURN_TOK")
           t2 == Parse("expr")
           t3 == Make(Plain("RETURN_STAT"), 1)
           t4 == Match("SCOL_TOK")
           news == <<t1, t2, t3, t4>>
           M(n, a, r) == Meets(list, new, n, a, r, T)
           K(a, r) == Meets(list, old, 2, a, r, T)
<1>a. Unfolded(list, old, new, news) /\ IsTokenList(list)
  BY DEF Unfolded
<1>b. /\ 1 \in 1 .. Len(news) /\ 2 \in 1 .. Len(news) /\ 3 \in 1 .. Len(news) /\ 4 \in 1 .. Len(news)
      /\ news[1] = t1 /\ news[2] = t2 /\ news[3] = t3 /\ news[4] = t4 /\ Len(news) + 1 = 5
      /\ 2 = 1 + 1 /\ 3 = 2 + 1 /\ 4 = 3 + 1 /\ 5 = 4 + 1
  <2> HIDE DEF t1, t2, t3, t4
  <2> QED OBVIOUS
<1> HIDE DEF news
<1>c. \A a, r : M(5, a, r) <=> K(a, r)
  <2>1. \A a, r : Meets(list, new, Len(news) + 1, a, r, T) <=> K(a, r)
    BY <1>a, AtEnd
  <2> QED BY <1>b, <2>1
<1>t1. \A a \in Positions(list) : \A r \in Stacks :
         M(1, a, r) <=> list[a].type = "RETURN_TOK" /\ a + 1 \in Positions(list) /\ M(2, a + 1, r)
  <2>1. Checks(list, new, 1, "RETURN_TOK", T)
    BY <1>a, <1>b, Matched, AtMatch
  <2>2. \A j, r : Meets(list, new, 1 + 1, j, r, T) <=> M(2, j, r)
    BY <1>b
  <2>3. \A a, r : Meets(list, new, 1, a, r, T) <=> M(1, a, r)
    OBVIOUS
  <2> HIDE DEF M
  <2> QED BY <2>1, <2>2, <2>3, Zenon DEF Checks
<1>t2. \A a \in Positions(list) : \A r \in Stacks :
         M(2, a, r) <=> \E j \in Positions(list) : \E t \in Tables :
                           MakesExpr(list, a, j, t) /\ M(3, j, Append(r, t))
  <2>1. Begins(list, new, 2, MakesExpr, T)
    BY <1>a, <1>b, AtMaker
  <2>2. \A j, r : Meets(list, new, 2 + 1, j, r, T) <=> M(3, j, r)
    BY <1>b
  <2>3. \A a, r : Meets(list, new, 2, a, r, T) <=> M(2, a, r)
    OBVIOUS
  <2> HIDE DEF M
  <2> QED BY <2>1, <2>2, <2>3, Zenon DEF Begins
<1>t3. \A a \in Positions(list) : \A r \in Stacks : \A c \in Tables :
         /\ Over(Plain("RETURN_STAT"), <<c>>) \in Tables
         /\ M(3, a, Append(r, c)) <=> M(4, a, Append(r, Over(Plain("RETURN_STAT"), <<c>>)))
  <2>1. Creates1(list, new, 3, Plain("RETURN_STAT"), T)
    BY <1>a, <1>b, StatementLeaves, AtMake1
  <2>2. \A j, r : Meets(list, new, 3 + 1, j, r, T) <=> M(4, j, r)
    BY <1>b
  <2>3. \A a, r : Meets(list, new, 3, a, r, T) <=> M(3, a, r)
    OBVIOUS
  <2> HIDE DEF M
  <2> QED BY <2>1, <2>2, <2>3, Zenon DEF Creates1
<1>t4. \A a \in Positions(list) : \A r \in Stacks :
         M(4, a, r) <=> list[a].type = "SCOL_TOK" /\ a + 1 \in Positions(list) /\ M(5, a + 1, r)
  <2>1. Checks(list, new, 4, "SCOL_TOK", T)
    BY <1>a, <1>b, Matched, AtMatch
  <2>2. \A j, r : Meets(list, new, 4 + 1, j, r, T) <=> M(5, j, r)
    BY <1>b
  <2>3. \A a, r : Meets(list, new, 4, a, r, T) <=> M(4, a, r)
    OBVIOUS
  <2> HIDE DEF M
  <2> QED BY <2>1, <2>2, <2>3, Zenon DEF Checks
<1>d. \A t \in Tables : Append(s, t) \in Stacks
  BY AppendProperties DEF Stacks
<1>e. Meets(list, old, 1, i, s, T) <=>
         \E j \in Positions(list) : \E t \in Tables : MakesStat(list, i, j, t) /\ K(j, Append(s, t))
  <2>1. Begins(list, old, 1, MakesStat, T) /\ 1 + 1 = 2
    BY <1>a, OldBegins
  <2>2. \A j, r : Meets(list, old, 1 + 1, j, r, T) <=> K(j, r)
    BY <2>1
  <2> HIDE DEF K
  <2> QED BY <2>1, <2>2, Zenon DEF Begins
<1> HIDE DEF M, K
<1>1. ASSUME Meets(list, old, 1, i, s, T)
      PROVE  M(1, i, s)
  <2>1. PICK j \in Positions(list), t \in Tables : MakesStat(list, i, j, t) /\ K(j, Append(s, t))
    BY <1>e, <1>1
  <2>2. PICK k \in Positions(list), e \in Tables :
             /\ i + 1 \in Positions(list) /\ MakesExpr(list, i + 1, k, e)
             /\ list[k].type = "SCOL_TOK" /\ j = k + 1
             /\ t = Over(Plain("RETURN_STAT"), <<e>>)
    BY <1>a, <2>1, ReturnIs
  <2>3. M(3, k, Append(s, e))
    BY <1>c, <1>d, <1>t3, <1>t4, <2>1, <2>2
  <2>4. M(2, i + 1, s)
    BY <1>t2, <2>2, <2>3
  <2> QED BY <1>t1, <2>2, <2>4
<1>2. ASSUME M(1, i, s)
      PROVE  Meets(list, old, 1, i, s, T)
  <2>1. i + 1 \in Positions(list) /\ M(2, i + 1, s)
    BY <1>t1, <1>2
  <2>2. PICK k \in Positions(list), e \in Tables : MakesExpr(list, i + 1, k, e) /\ M(3, k, Append(s, e))
    BY <1>t2, <2>1
  <2>3. PICK t \in Tables : t = Over(Plain("RETURN_STAT"), <<e>>) /\ M(4, k, Append(s, t))
    BY <1>t3, <2>2
  <2>4. list[k].type = "SCOL_TOK" /\ k + 1 \in Positions(list) /\ K(k + 1, Append(s, t))
    BY <1>c, <1>d, <1>t4, <2>3
  <2>5. MakesStat(list, i, k + 1, t)
    BY <1>a, <2>1, <2>2, <2>3, <2>4, ReturnIs
  <2> QED BY <1>e, <2>4, <2>5
<1> QED BY <1>1, <1>2 DEF M

\* parse_stat: an expression.
LEMMA ExprStatMeets ==
    ASSUME NEW list, NEW old, NEW new, NEW T, old[1].do = "stat",
           Unfolded(list, old, new, <<Parse("expr"), Make(Plain("EXPR_STAT"), 1), Match("SCOL_TOK")>>),
           NEW i \in Positions(list), NEW s \in Stacks,
           list[i].type = "INT_LIT_TOK" \/ (list[i].type = "IDENT_TOK" /\ ~IsTypeIdent(list[i]))
    PROVE  Meets(list, old, 1, i, s, T) <=> Meets(list, new, 1, i, s, T)
<1> DEFINE t1 == Parse("expr")
           t2 == Make(Plain("EXPR_STAT"), 1)
           t3 == Match("SCOL_TOK")
           news == <<t1, t2, t3>>
           M(n, a, r) == Meets(list, new, n, a, r, T)
           K(a, r) == Meets(list, old, 2, a, r, T)
<1>a. Unfolded(list, old, new, news) /\ IsTokenList(list)
  BY DEF Unfolded
<1>b. /\ 1 \in 1 .. Len(news) /\ 2 \in 1 .. Len(news) /\ 3 \in 1 .. Len(news)
      /\ news[1] = t1 /\ news[2] = t2 /\ news[3] = t3 /\ Len(news) + 1 = 4
      /\ 2 = 1 + 1 /\ 3 = 2 + 1 /\ 4 = 3 + 1
  <2> HIDE DEF t1, t2, t3
  <2> QED OBVIOUS
<1> HIDE DEF news
<1>c. \A a, r : M(4, a, r) <=> K(a, r)
  <2>1. \A a, r : Meets(list, new, Len(news) + 1, a, r, T) <=> K(a, r)
    BY <1>a, AtEnd
  <2> QED BY <1>b, <2>1
<1>t1. \A a \in Positions(list) : \A r \in Stacks :
         M(1, a, r) <=> \E j \in Positions(list) : \E t \in Tables :
                           MakesExpr(list, a, j, t) /\ M(2, j, Append(r, t))
  <2>1. Begins(list, new, 1, MakesExpr, T)
    BY <1>a, <1>b, AtMaker
  <2>2. \A j, r : Meets(list, new, 1 + 1, j, r, T) <=> M(2, j, r)
    BY <1>b
  <2>3. \A a, r : Meets(list, new, 1, a, r, T) <=> M(1, a, r)
    OBVIOUS
  <2> HIDE DEF M
  <2> QED BY <2>1, <2>2, <2>3, Zenon DEF Begins
<1>t2. \A a \in Positions(list) : \A r \in Stacks : \A c \in Tables :
         /\ Over(Plain("EXPR_STAT"), <<c>>) \in Tables
         /\ M(2, a, Append(r, c)) <=> M(3, a, Append(r, Over(Plain("EXPR_STAT"), <<c>>)))
  <2>1. Creates1(list, new, 2, Plain("EXPR_STAT"), T)
    BY <1>a, <1>b, StatementLeaves, AtMake1
  <2>2. \A j, r : Meets(list, new, 2 + 1, j, r, T) <=> M(3, j, r)
    BY <1>b
  <2>3. \A a, r : Meets(list, new, 2, a, r, T) <=> M(2, a, r)
    OBVIOUS
  <2> HIDE DEF M
  <2> QED BY <2>1, <2>2, <2>3, Zenon DEF Creates1
<1>t3. \A a \in Positions(list) : \A r \in Stacks :
         M(3, a, r) <=> list[a].type = "SCOL_TOK" /\ a + 1 \in Positions(list) /\ M(4, a + 1, r)
  <2>1. Checks(list, new, 3, "SCOL_TOK", T)
    BY <1>a, <1>b, Matched, AtMatch
  <2>2. \A j, r : Meets(list, new, 3 + 1, j, r, T) <=> M(4, j, r)
    BY <1>b
  <2>3. \A a, r : Meets(list, new, 3, a, r, T) <=> M(3, a, r)
    OBVIOUS
  <2> HIDE DEF M
  <2> QED BY <2>1, <2>2, <2>3, Zenon DEF Checks
<1>d. \A t \in Tables : Append(s, t) \in Stacks
  BY AppendProperties DEF Stacks
<1>e. Meets(list, old, 1, i, s, T) <=>
         \E j \in Positions(list) : \E t \in Tables : MakesStat(list, i, j, t) /\ K(j, Append(s, t))
  <2>1. Begins(list, old, 1, MakesStat, T) /\ 1 + 1 = 2
    BY <1>a, OldBegins
  <2>2. \A j, r : Meets(list, old, 1 + 1, j, r, T) <=> K(j, r)
    BY <2>1
  <2> HIDE DEF K
  <2> QED BY <2>1, <2>2, Zenon DEF Begins
<1> HIDE DEF M, K
<1>1. ASSUME Meets(list, old, 1, i, s, T)
      PROVE  M(1, i, s)
  <2>1. PICK j \in Positions(list), t \in Tables : MakesStat(list, i, j, t) /\ K(j, Append(s, t))
    BY <1>e, <1>1
  <2>2. PICK k \in Positions(list), e \in Tables :
             /\ MakesExpr(list, i, k, e) /\ list[k].type = "SCOL_TOK" /\ j = k + 1
             /\ t = Over(Plain("EXPR_STAT"), <<e>>)
    BY <1>a, <2>1, ExprStatIs
  <2>3. M(2, k, Append(s, e))
    BY <1>c, <1>d, <1>t2, <1>t3, <2>1, <2>2
  <2> QED BY <1>t1, <2>2, <2>3
<1>2. ASSUME M(1, i, s)
      PROVE  Meets(list, old, 1, i, s, T)
  <2>2. PICK k \in Positions(list), e \in Tables : MakesExpr(list, i, k, e) /\ M(2, k, Append(s, e))
    BY <1>t1, <1>2
  <2>3. PICK t \in Tables : t = Over(Plain("EXPR_STAT"), <<e>>) /\ M(3, k, Append(s, t))
    BY <1>t2, <2>2
  <2>4. list[k].type = "SCOL_TOK" /\ k + 1 \in Positions(list) /\ K(k + 1, Append(s, t))
    BY <1>c, <1>d, <1>t3, <2>3
  <2>5. MakesStat(list, i, k + 1, t)
    BY <1>a, <2>2, <2>3, <2>4, ExprStatIs
  <2> QED BY <1>e, <2>4, <2>5
<1> QED BY <1>1, <1>2 DEF M

\* parse_stat: a semicolon.
LEMMA SkipMeets ==
    ASSUME NEW list, NEW old, NEW new, NEW T, old[1].do = "stat",
           Unfolded(list, old, new, <<Make(Plain("SKIP_STAT"), 0), Match("SCOL_TOK")>>),
           NEW i \in Positions(list), NEW s \in Stacks, list[i].type = "SCOL_TOK"
    PROVE  Meets(list, old, 1, i, s, T) <=> Meets(list, new, 1, i, s, T)
<1> DEFINE t1 == Make(Plain("SKIP_STAT"), 0)
           t2 == Match("SCOL_TOK")
           news == <<t1, t2>>
           M(n, a, r) == Meets(list, new, n, a, r, T)
           K(a, r) == Meets(list, old, 2, a, r, T)
<1>a. Unfolded(list, old, new, news) /\ IsTokenList(list)
  BY DEF Unfolded
<1>b. /\ 1 \in 1 .. Len(news) /\ 2 \in 1 .. Len(news)
      /\ news[1] = t1 /\ news[2] = t2 /\ Len(news) + 1 = 3
      /\ 2 = 1 + 1 /\ 3 = 2 + 1
  <2> HIDE DEF t1, t2
  <2> QED OBVIOUS
<1> HIDE DEF news
<1>c. \A a, r : M(3, a, r) <=> K(a, r)
  <2>1. \A a, r : Meets(list, new, Len(news) + 1, a, r, T) <=> K(a, r)
    BY <1>a, AtEnd
  <2> QED BY <1>b, <2>1
<1>t1. \A a \in Positions(list) : \A r \in Stacks :
         /\ Over(Plain("SKIP_STAT"), <<>>) \in Tables
         /\ M(1, a, r) <=> M(2, a, Append(r, Over(Plain("SKIP_STAT"), <<>>)))
  <2>1. Creates0(list, new, 1, Plain("SKIP_STAT"), T)
    BY <1>a, <1>b, StatementLeaves, AtMake0
  <2>2. \A j, r : Meets(list, new, 1 + 1, j, r, T) <=> M(2, j, r)
    BY <1>b
  <2>3. \A a, r : Meets(list, new, 1, a, r, T) <=> M(1, a, r)
    OBVIOUS
  <2> HIDE DEF M
  <2> QED BY <2>1, <2>2, <2>3, Zenon DEF Creates0
<1>t2. \A a \in Positions(list) : \A r \in Stacks :
         M(2, a, r) <=> list[a].type = "SCOL_TOK" /\ a + 1 \in Positions(list) /\ M(3, a + 1, r)
  <2>1. Checks(list, new, 2, "SCOL_TOK", T)
    BY <1>a, <1>b, Matched, AtMatch
  <2>2. \A j, r : Meets(list, new, 2 + 1, j, r, T) <=> M(3, j, r)
    BY <1>b
  <2>3. \A a, r : Meets(list, new, 2, a, r, T) <=> M(2, a, r)
    OBVIOUS
  <2> HIDE DEF M
  <2> QED BY <2>1, <2>2, <2>3, Zenon DEF Checks
<1>d. \A t \in Tables : Append(s, t) \in Stacks
  BY AppendProperties DEF Stacks
<1>e. Meets(list, old, 1, i, s, T) <=>
         \E j \in Positions(list) : \E t \in Tables : MakesStat(list, i, j, t) /\ K(j, Append(s, t))
  <2>1. Begins(list, old, 1, MakesStat, T) /\ 1 + 1 = 2
    BY <1>a, OldBegins
  <2>2. \A j, r : Meets(list, old, 1 + 1, j, r, T) <=> K(j, r)
    BY <2>1
  <2> HIDE DEF K
  <2> QED BY <2>1, <2>2, Zenon DEF Begins
<1> HIDE DEF M, K
<1>1. PICK t \in Tables : t = Over(Plain("SKIP_STAT"), <<>>)
  BY <1>t1
<1>2. \A j \in Positions(list) : \A x \in Tables : MakesStat(list, i, j, x) <=> j = i + 1 /\ x = t
  BY <1>a, <1>1, SkipIs
<1>3. i + 1 \in Positions(list)
  BY <1>a, PlaceBehind
<1>4. Meets(list, old, 1, i, s, T) <=> K(i + 1, Append(s, t))
  BY <1>e, <1>2, <1>3
<1>5. M(1, i, s) <=> K(i + 1, Append(s, t))
  BY <1>c, <1>d, <1>t1, <1>t2, <1>1, <1>3
<1> QED BY <1>4, <1>5 DEF M

-----------------------------------------------------------------------------
(* Trees that get one child after the other. *)

\* A tree that no further trees are hung to stays as it is.
LEMMA GrownNone ==
    ASSUME NEW top \in Tables, NEW t
    PROVE  GrownTree(top, <<>>, t) <=> t = top
<1>1. Len(<<>>) = 0 /\ 0 .. 0 = {0} /\ 1 .. 0 = {}
  OBVIOUS
<1>2. ASSUME t = top
      PROVE  GrownTree(top, <<>>, t)
  <2>1. PICK f : f = [n \in {0} |-> top]
    OBVIOUS
  <2>2. f \in [{0} -> Tables] /\ f[0] = top
    BY <2>1
  <2> QED BY <1>1, <1>2, <2>2 DEF GrownTree
<1>3. GrownTree(top, <<>>, t) => t = top
  BY <1>1 DEF GrownTree
<1> QED BY <1>2, <1>3

\* The trees are hung to it one after the other.
LEMMA GrownMore ==
    ASSUME NEW top \in Tables, NEW kid \in Tables, NEW rest \in Stacks, NEW t
    PROVE  GrownTree(top, <<kid>> \o rest, t) <=> GrownTree(Hang(top, kid), rest, t)
<1>1. PICK w \in Stacks : w = <<kid>> \o rest
  <2>1. <<kid>> \in Seq(Tables)
    OBVIOUS
  <2> QED BY <2>1, ConcatProperties DEF Stacks
<1>2. PICK N \in Nat : N = Len(rest)
  BY LenProperties DEF Stacks
<1>3. Len(w) = N + 1 /\ w[1] = kid /\ \A n \in 1 .. N : w[n + 1] = rest[n]
  <2>1. <<kid>> \in Stacks /\ Len(<<kid>>) = 1 /\ <<kid>>[1] = kid
    BY DEF Stacks
  <2>2. Len(w) = 1 + N
    BY <1>1, <1>2, <2>1, ConcatProperties DEF Stacks
  <2>3. \A n \in 1 .. 1 + N : w[n] = IF n <= 1 THEN <<kid>>[n] ELSE rest[n - 1]
    BY <1>1, <1>2, <2>1, <2>2, ConcatProperties DEF Stacks
  <2>4. \A n \in 1 .. N : n + 1 \in 1 .. 1 + N /\ ~(n + 1 <= 1) /\ n + 1 - 1 = n
    BY <1>2
  <2>5. 1 \in 1 .. 1 + N
    BY <1>2
  <2>6. \A n \in 1 .. N : w[n + 1] = rest[n]
    BY <2>3, <2>4
  <2>7. w[1] = kid
    BY <2>1, <2>3, <2>5
  <2> QED BY <1>2, <2>2, <2>6, <2>7
<1>4. Hang(top, kid) \in Tables
  BY HangIsHung DEF Hung, IsTable
<1>5. /\ 0 \in 0 .. N /\ N \in 0 .. N /\ 1 \in 1 .. N + 1 /\ 0 \in 0 .. N + 1 /\ 1 - 1 = 0 /\ N + 1 \in 0 .. N + 1
      /\ \A n \in 0 .. N : n + 1 \in 0 .. N + 1
      /\ \A n \in 1 .. N : n + 1 \in 1 .. N + 1 /\ n + 1 - 1 = n - 1 + 1 /\ n - 1 \in 0 .. N /\ n \in 0 .. N
      /\ \A n \in 0 .. N + 1 : n # 0 => n - 1 \in 0 .. N
      /\ \A n \in 1 .. N + 1 : /\ n # 0 /\ n \in 0 .. N + 1 /\ n - 1 \in 0 .. N + 1 /\ (n = 1 \/ n - 1 # 0)
                               /\ n = 1 \/ n - 1 \in 1 .. N
                               /\ n - 1 + 1 = n
  BY <1>2
<1>6. ASSUME GrownTree(top, w, t)
      PROVE  GrownTree(Hang(top, kid), rest, t)
  <2>1. PICK f \in [0 .. N + 1 -> Tables] :
             /\ f[0] = top /\ f[N + 1] = t
             /\ \A n \in 1 .. N + 1 : f[n] = Hang(f[n - 1], w[n])
    BY <1>3, <1>6 DEF GrownTree
  <2>2. PICK g : g = [n \in 0 .. N |-> f[n + 1]]
    OBVIOUS
  <2>3. g \in [0 .. N -> Tables] /\ \A n \in 0 .. N : g[n] = f[n + 1]
    BY <1>5, <2>1, <2>2
  <2>4. g[0] = Hang(top, kid)
    <3>1. f[1] = Hang(f[0], w[1])
      BY <1>5, <2>1
    <3>2. g[0] = f[1]
      BY <1>5, <2>3
    <3> QED BY <1>3, <2>1, <3>1, <3>2
  <2>5. g[N] = t
    BY <1>5, <2>1, <2>3
  <2>6. \A n \in 1 .. N : g[n] = Hang(g[n - 1], rest[n])
    <3> TAKE n \in 1 .. N
    <3>1. f[n + 1] = Hang(f[n + 1 - 1], w[n + 1])
      BY <1>5, <2>1
    <3>2. g[n] = f[n + 1] /\ g[n - 1] = f[n - 1 + 1] /\ n + 1 - 1 = n - 1 + 1
      BY <1>5, <2>3
    <3> QED BY <1>3, <3>1, <3>2
  <2> QED BY <1>2, <2>3, <2>4, <2>5, <2>6 DEF GrownTree
<1>7. ASSUME GrownTree(Hang(top, kid), rest, t)
      PROVE  GrownTree(top, w, t)
  <2>1. PICK g \in [0 .. N -> Tables] :
             /\ g[0] = Hang(top, kid) /\ g[N] = t
             /\ \A n \in 1 .. N : g[n] = Hang(g[n - 1], rest[n])
    BY <1>2, <1>7 DEF GrownTree
  <2>2. PICK f : f = [n \in 0 .. N + 1 |-> IF n = 0 THEN top ELSE g[n - 1]]
    OBVIOUS
  <2>3. f \in [0 .. N + 1 -> Tables] /\ f[0] = top /\ \A n \in 0 .. N + 1 : n # 0 => f[n] = g[n - 1]
    BY <1>5, <2>1, <2>2
  <2>4. f[N + 1] = t
    <3>1. N + 1 # 0 /\ N + 1 - 1 = N
      BY <1>2
    <3> QED BY <1>5, <2>1, <2>3, <3>1
  <2>5. \A n \in 1 .. N + 1 : f[n] = Hang(f[n - 1], w[n])
    <3> TAKE n \in 1 .. N + 1
    <3>1. CASE n = 1
      <4>1. f[1] = g[0] /\ f[0] = top /\ 1 - 1 = 0
        BY <1>5, <2>3
      <4> QED BY <1>3, <2>1, <3>1, <4>1
    <3>2. CASE n # 1
      <4>1. n - 1 \in 1 .. N /\ n - 1 # 0 /\ n - 1 \in 0 .. N + 1 /\ n # 0 /\ n \in 0 .. N + 1 /\ n - 1 + 1 = n
        BY <1>5, <3>2
      <4>2. g[n - 1] = Hang(g[n - 1 - 1], rest[n - 1]) /\ rest[n - 1] = w[n - 1 + 1]
        BY <1>3, <2>1, <4>1
      <4>3. f[n] = g[n - 1] /\ f[n - 1] = g[n - 1 - 1]
        BY <2>3, <4>1
      <4> QED BY <4>1, <4>2, <4>3
    <3> QED BY <3>1, <3>2
  <2> QED BY <1>3, <2>3, <2>4, <2>5 DEF GrownTree
<1> QED BY <1>1, <1>6, <1>7

\* A node over trees is the node that they are hung to.
LEMMA OverGrown ==
    ASSUME NEW node \in Leaves, NEW trees \in Stacks, NEW t
    PROVE  GrownTree(<<node>>, trees, t) <=> t = Over(node, trees)
<1>1. node \in Nodes
  BY LoneNode
<1>2. PICK N \in Nat : N = Len(trees)
  BY LenProperties DEF Stacks
<1>3. PICK f \in [0 .. N -> Tables] : OverUpTo(node, trees, f)
  BY <1>1, <1>2, OverDef DEF Stacks
<1>4. /\ f[0] = <<node>> /\ Over(node, trees) = f[N]
      /\ \A n \in 1 .. N : f[n] = Hang(f[n - 1], trees[n])
  BY <1>2, <1>3 DEF OverUpTo
<1>5. ASSUME t = Over(node, trees)
      PROVE  GrownTree(<<node>>, trees, t)
  BY <1>2, <1>3, <1>4, <1>5 DEF GrownTree
<1>6. ASSUME GrownTree(<<node>>, trees, t)
      PROVE  t = Over(node, trees)
  <2>1. PICK g \in [0 .. N -> Tables] :
             /\ g[0] = <<node>> /\ g[N] = t
             /\ \A n \in 1 .. N : g[n] = Hang(g[n - 1], trees[n])
    BY <1>2, <1>6 DEF GrownTree
  <2>2. PICK S : S = {n \in 0 .. N : g[n] = f[n]}
    OBVIOUS
  <2>3. 0 \in S
    BY <1>2, <1>4, <2>1, <2>2
  <2>4. \A k \in 0 .. N : k + 1 \in 0 .. N /\ k \in S => k + 1 \in S
    <3> SUFFICES ASSUME NEW k \in 0 .. N, k + 1 \in 0 .. N, k \in S
                 PROVE  k + 1 \in S
      OBVIOUS
    <3>1. k + 1 \in 1 .. N /\ k + 1 - 1 = k /\ g[k] = f[k]
      BY <1>2, <2>2
    <3>2. g[k + 1] = f[k + 1]
      BY <1>4, <2>1, <3>1
    <3> QED BY <2>2, <3>2
  <2>5. N \in S
    <3>1. 0 .. N \subseteq S
      BY <1>2, <2>3, <2>4, Upward
    <3>2. N \in 0 .. N
      BY <1>2
    <3> QED BY <3>1, <3>2
  <2> QED BY <1>4, <2>1, <2>2, <2>5
<1> QED BY <1>5, <1>6

\* A stack has one top.
LEMMA OneTop ==
    ASSUME NEW r \in Stacks, NEW x \in Tables, NEW q \in Stacks, NEW y \in Tables
    PROVE  Append(r, x) = Append(q, y) <=> r = q /\ x = y
BY AppendInjective DEF Stacks

-----------------------------------------------------------------------------
(* The tasks that take trees from the stack. *)

\* The n-th task looks for an else.
Chooses(list, tasks, n, T) ==
    \A i \in Positions(list) : \A r \in Stacks : \A c \in Tables : \A b \in Tables :
       /\ list[i].type = "ELSE_TOK" =>
             (Meets(list, tasks, n, i, Append(Append(r, c), b), T) <=>
                 \E j \in Positions(list) : \E f \in Tables :
                    /\ MakesStat(list, i + 1, j, f)
                    /\ Meets(list, tasks, n + 1, j, Append(r, Over(Plain("IF_STAT"), <<c, b, f>>)), T))
       /\ list[i].type # "ELSE_TOK" =>
             (Meets(list, tasks, n, i, Append(Append(r, c), b), T) <=>
                 Meets(list, tasks, n + 1, i, Append(r, Over(Plain("IF_STAT"), <<c, b>>)), T))

\* The task of an else chooses by the token ahead.
LEMMA ElseChooses ==
    ASSUME NEW list, NEW tasks, Len(tasks) \in Nat, NEW n \in 1 .. Len(tasks), NEW T, tasks[n].do = "else"
    PROVE  Chooses(list, tasks, n, T)
<1> SUFFICES ASSUME NEW i \in Positions(list), NEW r \in Stacks, NEW c \in Tables, NEW b \in Tables
             PROVE  /\ list[i].type = "ELSE_TOK" =>
                          (Meets(list, tasks, n, i, Append(Append(r, c), b), T) <=>
                              \E j \in Positions(list) : \E f \in Tables :
                                 /\ MakesStat(list, i + 1, j, f)
                                 /\ Meets(list, tasks, n + 1, j, Append(r, Over(Plain("IF_STAT"), <<c, b, f>>)), T))
                    /\ list[i].type # "ELSE_TOK" =>
                          (Meets(list, tasks, n, i, Append(Append(r, c), b), T) <=>
                              Meets(list, tasks, n + 1, i, Append(r, Over(Plain("IF_STAT"), <<c, b>>)), T))
  BY DEF Chooses
<1>1. PICK s \in Stacks : s = Append(Append(r, c), b)
  BY AppendProperties DEF Stacks
<1>2. Meets(list, tasks, n, i, s, T) <=>
         \E j \in Positions(list) : \E u \in Stacks :
            Does(list, tasks[n], i, s, j, u) /\ Meets(list, tasks, n + 1, j, u, T)
  BY MeetsStep
<1>3. CASE list[i].type = "ELSE_TOK"
  <2>1. \A f \in Tables : /\ Append(r, Over(Plain("IF_STAT"), <<c, b, f>>)) \in Stacks
                          /\ MadeOf(Append(s, f), Plain("IF_STAT"), 3) = Append(r, Over(Plain("IF_STAT"), <<c, b, f>>))
    <3> TAKE f \in Tables
    <3>1. Over(Plain("IF_STAT"), <<c, b, f>>) \in Tables
      BY StatementLeaves, OverTable, FewTables
    <3> QED BY <1>1, <3>1, MadeOver3, AppendProperties DEF Stacks
  <2>2. \A j, u : Does(list, tasks[n], i, s, j, u) <=>
           \E f \in Tables : MakesStat(list, i + 1, j, f) /\ u = MadeOf(Append(s, f), Plain("IF_STAT"), 3)
    <3> DEFINE X(j, u) == \E f \in Tables : MakesStat(list, i + 1, j, f)
                                            /\ u = MadeOf(Append(s, f), Plain("IF_STAT"), 3)
    <3>1. \A j, u : X(j, u) <=> \E f \in Tables : MakesStat(list, i + 1, j, f)
                                            /\ u = MadeOf(Append(s, f), Plain("IF_STAT"), 3)
      OBVIOUS
    <3> HIDE DEF X
    <3>2. \A j, u : Does(list, tasks[n], i, s, j, u) <=> X(j, u)
      BY <1>3, <3>1 DEF Does, Makers
    <3> QED BY <3>1, <3>2
  <2>3. Meets(list, tasks, n, i, s, T) <=>
           \E j \in Positions(list) : \E u \in Stacks :
              /\ \E f \in Tables : MakesStat(list, i + 1, j, f) /\ u = MadeOf(Append(s, f), Plain("IF_STAT"), 3)
              /\ Meets(list, tasks, n + 1, j, u, T)
    BY <1>2, <2>2, Zenon
  <2> QED BY <1>1, <1>3, <2>1, <2>3, Zenon
<1>4. CASE list[i].type # "ELSE_TOK"
  <2>1. PICK u \in Stacks : u = Append(r, Over(Plain("IF_STAT"), <<c, b>>))
    <3>1. Over(Plain("IF_STAT"), <<c, b>>) \in Tables
      BY StatementLeaves, OverTable, FewTables
    <3> QED BY <3>1, AppendProperties DEF Stacks
  <2>2. u = MadeOf(s, Plain("IF_STAT"), 2)
    BY <1>1, <2>1, MadeOver2
  <2>3. \A j, v : Does(list, tasks[n], i, s, j, v) <=> j = i /\ v = u
    BY <1>4, <2>2 DEF Does, Makers
  <2> QED BY <1>1, <1>2, <1>4, <2>1, <2>3
<1> QED BY <1>3, <1>4

\* The n-th task looks for an operator.
Joins(list, tasks, n, opOf, makes(_, _, _, _), T) ==
    \A i \in Positions(list) : \A r \in Stacks : \A l \in Tables :
       /\ Ahead(list, i, opOf) =>
             (Meets(list, tasks, n, i, Append(r, l), T) <=>
                 \E j \in Positions(list) : \E x \in Tables :
                    /\ makes(list, i + 1, j, x)
                    /\ Meets(list, tasks, n + 1, j, Append(r, Over(BinOp(opOf[list[i].type]), <<l, x>>)), T))
       /\ ~Ahead(list, i, opOf) =>
             (Meets(list, tasks, n, i, Append(r, l), T) <=> Meets(list, tasks, n + 1, i, Append(r, l), T))

\* A task that reads at most one operator joins its operands.
LEMMA OperatesJoins ==
    ASSUME NEW list, NEW tasks, Len(tasks) \in Nat, NEW n \in 1 .. Len(tasks), NEW T,
           NEW opOf, \A x \in DOMAIN opOf : opOf[x] \in Operators, NEW makes(_, _, _, _),
           \A i, s, j, u : Does(list, tasks[n], i, s, j, u) <=> Operates(list, opOf, makes, i, s, j, u)
    PROVE  Joins(list, tasks, n, opOf, makes, T)
<1> SUFFICES ASSUME NEW i \in Positions(list), NEW r \in Stacks, NEW l \in Tables
             PROVE  /\ Ahead(list, i, opOf) =>
                          (Meets(list, tasks, n, i, Append(r, l), T) <=>
                              \E j \in Positions(list) : \E x \in Tables :
                                 /\ makes(list, i + 1, j, x)
                                 /\ Meets(list, tasks, n + 1, j,
                                          Append(r, Over(BinOp(opOf[list[i].type]), <<l, x>>)), T))
                    /\ ~Ahead(list, i, opOf) =>
                          (Meets(list, tasks, n, i, Append(r, l), T) <=>
                              Meets(list, tasks, n + 1, i, Append(r, l), T))
  BY DEF Joins
<1>1. PICK s \in Stacks : s = Append(r, l)
  BY AppendProperties DEF Stacks
<1>2. Meets(list, tasks, n, i, s, T) <=>
         \E j \in Positions(list) : \E u \in Stacks :
            Does(list, tasks[n], i, s, j, u) /\ Meets(list, tasks, n + 1, j, u, T)
  BY MeetsStep
<1>3. CASE Ahead(list, i, opOf)
  <2>1. PICK node \in Leaves : node = BinOp(opOf[list[i].type])
    BY <1>3, BinOpLeaf DEF Ahead
  <2>2. \A x \in Tables : /\ Append(r, Over(node, <<l, x>>)) \in Stacks
                          /\ MadeOf(Append(s, x), node, 2) = Append(r, Over(node, <<l, x>>))
    <3> TAKE x \in Tables
    <3>1. Over(node, <<l, x>>) \in Tables
      BY OverTable, FewTables
    <3> QED BY <1>1, <3>1, MadeOver2, AppendProperties DEF Stacks
  <2>3. \A j, u : Does(list, tasks[n], i, s, j, u) <=>
           \E x \in Tables : makes(list, i + 1, j, x) /\ u = MadeOf(Append(s, x), node, 2)
    <3> DEFINE X(j, u) == \E x \in Tables : makes(list, i + 1, j, x) /\ u = MadeOf(Append(s, x), node, 2)
    <3>1. \A j, u : Operates(list, opOf, makes, i, s, j, u) <=> X(j, u)
      BY <1>3, <2>1 DEF Operates
    <3> HIDE DEF X
    <3>2. \A j, u : Does(list, tasks[n], i, s, j, u) <=> X(j, u)
      BY <3>1
    <3> QED BY <3>2 DEF X
  <2>4. Meets(list, tasks, n, i, s, T) <=>
           \E j \in Positions(list) : \E u \in Stacks :
              /\ \E x \in Tables : makes(list, i + 1, j, x) /\ u = MadeOf(Append(s, x), node, 2)
              /\ Meets(list, tasks, n + 1, j, u, T)
    BY <1>2, <2>3, Zenon
  <2>5. Meets(list, tasks, n, i, s, T) <=>
           \E j \in Positions(list) : \E x \in Tables :
              makes(list, i + 1, j, x) /\ Meets(list, tasks, n + 1, j, Append(r, Over(node, <<l, x>>)), T)
    BY <2>2, <2>4, Zenon
  <2> QED BY <1>1, <1>3, <2>1, <2>5, Zenon
<1>4. CASE ~Ahead(list, i, opOf)
  <2>1. \A j, u : Does(list, tasks[n], i, s, j, u) <=> j = i /\ u = s
    BY <1>4 DEF Operates
  <2> QED BY <1>1, <1>2, <1>4, <2>1
<1> QED BY <1>3, <1>4

\* The comparison and the chain of factors join their operands.
LEMMA ComparisonJoins ==
    ASSUME NEW list, NEW tasks, Len(tasks) \in Nat, NEW n \in 1 .. Len(tasks), NEW T
    PROVE  /\ tasks[n].do = "comparison" => Joins(list, tasks, n, ExprOpOf, MakesSum, T)
           /\ tasks[n].do = "factors" => Joins(list, tasks, n, FactorOpOf, MakesTerm, T)
<1>1. ASSUME tasks[n].do = "comparison"
      PROVE  Joins(list, tasks, n, ExprOpOf, MakesSum, T)
  <2>1. \A i, s, j, u : Does(list, tasks[n], i, s, j, u) <=> Operates(list, ExprOpOf, MakesSum, i, s, j, u)
    BY <1>1 DEF Does, Makers
  <2> QED BY <2>1, OperatorTypes, OperatesJoins
<1>2. ASSUME tasks[n].do = "factors"
      PROVE  Joins(list, tasks, n, FactorOpOf, MakesTerm, T)
  <2>1. \A i, s, j, u : Does(list, tasks[n], i, s, j, u) <=> Operates(list, FactorOpOf, MakesTerm, i, s, j, u)
    BY <1>2 DEF Does, Makers
  <2> QED BY <2>1, OperatorTypes, OperatesJoins
<1> QED BY <1>1, <1>2

\* The statements that follow become children, up to such a token.
FilledTo(list, token, i, top, j, t) ==
    list[j].type = token /\ \E trees \in From(list, "stats", i, j) : GrownTree(top, trees, t)

\* What becomes of the tree l on top of the stack: the terms that follow are added, as far
\* as there are any, or the statements up to the closing brace, or to the end.
Turned(list, do, i, l, j, t) ==
    \/ do = "terms" /\ ~Ahead(list, j, TermOpOf) /\ Reaches(list, i, l, j, t)
    \/ do = "stats" /\ FilledTo(list, "RBRACE_TOK", i, l, j, t)
    \/ do = "program" /\ FilledTo(list, "PROGRAM_END_TOK", i, l, j, t)

Turners == {"terms", "stats", "program"}

\* Above the trees r, l has become such a tree.
TurnsTop(list, do, i, l, j, u, r) == \E t \in Tables : Turned(list, do, i, l, j, t) /\ u = Append(r, t)

\* The n-th task turns the tree on top of the stack into another.
Turns(list, tasks, n, do, T) ==
    \A i \in Positions(list) : \A r \in Stacks : \A l \in Tables :
       Meets(list, tasks, n, i, Append(r, l), T) <=>
          \E j \in Positions(list) : \E t \in Tables :
             Turned(list, do, i, l, j, t) /\ Meets(list, tasks, n + 1, j, Append(r, t), T)

\* What the parser does then to the tree on top of the stack.
LEMMA DoesTurned ==
    ASSUME NEW list, NEW task, task.do \in Turners,
           NEW i, NEW r \in Stacks, NEW l \in Tables, NEW j, NEW u
    PROVE  Does(list, task, i, Append(r, l), j, u) <=> TurnsTop(list, task.do, i, l, j, u, r)
<1> SUFFICES Does(list, task, i, Append(r, l), j, u) <=>
                \E t \in Tables : Turned(list, task.do, i, l, j, t) /\ u = Append(r, t)
  BY DEF TurnsTop
<1>0. task.do \notin Makers
  BY DEF Makers, Turners
<1>1. CASE task.do = "terms"
  <2> DEFINE X == \E q \in Stacks : \E x, t \in Tables :
                     Append(r, l) = Append(q, x) /\ u = Append(q, t) /\ Reaches(list, i, x, j, t)
  <2>1. Does(list, task, i, Append(r, l), j, u) <=> ~Ahead(list, j, TermOpOf) /\ X
    BY <1>0, <1>1, Zenon DEF Does
  <2>2. X <=> \E t \in Tables : u = Append(r, t) /\ Reaches(list, i, l, j, t)
    BY OneTop
  <2>3. \A t : Turned(list, task.do, i, l, j, t) <=> ~Ahead(list, j, TermOpOf) /\ Reaches(list, i, l, j, t)
    BY <1>1 DEF Turned
  <2> HIDE DEF X
  <2> QED BY <2>1, <2>2, <2>3, Zenon
<1>2. ASSUME NEW token
      PROVE  Fills(list, token, i, Append(r, l), j, u) <=>
                \E t \in Tables : FilledTo(list, token, i, l, j, t) /\ u = Append(r, t)
  <2> DEFINE X == \E q \in Stacks : \E top \in Tables : \E trees \in From(list, "stats", i, j) : \E t \in Tables :
                     Append(r, l) = Append(q, top) /\ u = Append(q, t) /\ GrownTree(top, trees, t)
  <2>1. Fills(list, token, i, Append(r, l), j, u) <=> list[j].type = token /\ X
    BY DEF Fills
  <2>2. X <=> \E t \in Tables : \E trees \in From(list, "stats", i, j) : u = Append(r, t) /\ GrownTree(l, trees, t)
    BY OneTop
  <2> HIDE DEF X
  <2> QED BY <2>1, <2>2 DEF FilledTo
<1>3. CASE task.do = "stats"
  <2>1. Does(list, task, i, Append(r, l), j, u) <=> Fills(list, "RBRACE_TOK", i, Append(r, l), j, u)
    BY <1>0, <1>3, Zenon DEF Does
  <2>2. \A t : Turned(list, task.do, i, l, j, t) <=> FilledTo(list, "RBRACE_TOK", i, l, j, t)
    BY <1>3 DEF Turned
  <2>3. Fills(list, "RBRACE_TOK", i, Append(r, l), j, u) <=>
           \E t \in Tables : FilledTo(list, "RBRACE_TOK", i, l, j, t) /\ u = Append(r, t)
    BY <1>2
  <2> QED BY <2>1, <2>2, <2>3, Zenon
<1>4. CASE task.do = "program"
  <2>1. Does(list, task, i, Append(r, l), j, u) <=> Fills(list, "PROGRAM_END_TOK", i, Append(r, l), j, u)
    BY <1>0, <1>4, Zenon DEF Does
  <2>2. \A t : Turned(list, task.do, i, l, j, t) <=> FilledTo(list, "PROGRAM_END_TOK", i, l, j, t)
    BY <1>4 DEF Turned
  <2>3. Fills(list, "PROGRAM_END_TOK", i, Append(r, l), j, u) <=>
           \E t \in Tables : FilledTo(list, "PROGRAM_END_TOK", i, l, j, t) /\ u = Append(r, t)
    BY <1>2
  <2> QED BY <2>1, <2>2, <2>3, Zenon
<1> QED BY <1>1, <1>3, <1>4 DEF Turners

\* The terms of a sum, and the statements of a block or of the program.
LEMMA TaskTurns ==
    ASSUME NEW list, NEW tasks, Len(tasks) \in Nat, NEW n \in 1 .. Len(tasks), NEW T,
           NEW do \in Turners, tasks[n].do = do
    PROVE  Turns(list, tasks, n, do, T)
<1> SUFFICES ASSUME NEW i \in Positions(list), NEW r \in Stacks, NEW l \in Tables
             PROVE  Meets(list, tasks, n, i, Append(r, l), T) <=>
                       \E j \in Positions(list) : \E t \in Tables :
                          Turned(list, do, i, l, j, t) /\ Meets(list, tasks, n + 1, j, Append(r, t), T)
  BY DEF Turns
<1>1. PICK s \in Stacks : s = Append(r, l)
  BY AppendProperties DEF Stacks
<1>2. Meets(list, tasks, n, i, s, T) <=>
         \E j \in Positions(list) : \E u \in Stacks :
            Does(list, tasks[n], i, s, j, u) /\ Meets(list, tasks, n + 1, j, u, T)
  BY MeetsStep
<1>3. \A j, u : Does(list, tasks[n], i, s, j, u) <=> \E t \in Tables : Turned(list, do, i, l, j, t) /\ u = Append(r, t)
  <2> TAKE j, u
  <2>1. PICK task : task = tasks[n] /\ task.do = do
    OBVIOUS
  <2>2. Does(list, task, i, Append(r, l), j, u) <=> TurnsTop(list, task.do, i, l, j, u, r)
    <3>1. task.do \in Turners
      BY <2>1
    <3>2. i \in Positions(list) /\ r \in Stacks /\ l \in Tables
      OBVIOUS
    <3> QED BY <3>1, <3>2, DoesTurned, SMT
  <2> QED BY <1>1, <2>1, <2>2, Zenon DEF TurnsTop
<1>4. \A t \in Tables : Append(r, t) \in Stacks
  BY AppendProperties DEF Stacks
<1>5. Meets(list, tasks, n, i, s, T) <=>
         \E j \in Positions(list) : \E u \in Stacks :
            (\E t \in Tables : Turned(list, do, i, l, j, t) /\ u = Append(r, t)) /\ Meets(list, tasks, n + 1, j, u, T)
  BY <1>2, <1>3, Zenon
<1> QED BY <1>1, <1>4, <1>5, Zenon

\* The n-th task hangs the top of the stack to the tree below it.
Appends(list, tasks, n, T) ==
    \A i \in Positions(list) : \A r \in Stacks : \A a \in Tables : \A b \in Tables :
       /\ Hang(a, b) \in Tables
       /\ Meets(list, tasks, n, i, Append(Append(r, a), b), T) <=>
             Meets(list, tasks, n + 1, i, Append(r, Hang(a, b)), T)

\* A statement that joins its block.
LEMMA JoinedIs ==
    ASSUME NEW r \in Stacks, NEW a \in Tables, NEW b \in Tables
    PROVE  Joined(Append(Append(r, a), b)) = Append(r, Hang(a, b)) /\ Hang(a, b) \in Tables
<1>0. Hang(a, b) \in Tables
  BY HangIsHung DEF Hung, IsTable
<1>1. PICK n \in Nat : n = Len(r)
  BY LenProperties DEF Stacks
<1>2. PICK s1 \in Stacks : s1 = Append(r, a) /\ Len(s1) = n + 1 /\ s1[n + 1] = a
                           /\ \A i \in 1 .. n : s1[i] = r[i]
  <2>1. /\ Append(r, a) \in Stacks /\ Len(Append(r, a)) = n + 1 /\ Append(r, a)[n + 1] = a
        /\ \A i \in 1 .. n : Append(r, a)[i] = r[i]
    BY <1>1, AppendProperties DEF Stacks
  <2> QED BY <2>1
<1>3. PICK s \in Stacks : s = Append(s1, b) /\ Len(s) = n + 2 /\ s[n + 2] = b
                           /\ \A i \in 1 .. n + 1 : s[i] = s1[i]
  <2>1. /\ Append(s1, b) \in Stacks /\ Len(Append(s1, b)) = n + 1 + 1 /\ Append(s1, b)[n + 1 + 1] = b
        /\ \A i \in 1 .. n + 1 : Append(s1, b)[i] = s1[i]
    BY <1>2, AppendProperties DEF Stacks
  <2>2. n + 1 + 1 = n + 2
    BY <1>1
  <2> QED BY <2>1, <2>2
<1>4. s[n + 1] = a /\ \A i \in 1 .. n : s[i] = r[i]
  BY <1>2, <1>3
<1>5. SubSeq(s, 1, n) = r
  <2>1. \A i \in 1 .. n : s[i] \in Tables
    BY <1>1, <1>4, ElementOfSeq DEF Stacks
  <2>2. /\ SubSeq(s, 1, n) \in Seq(Tables) /\ Len(SubSeq(s, 1, n)) = IF 1 <= n THEN n - 1 + 1 ELSE 0
        /\ \A i \in 1 .. n - 1 + 1 : SubSeq(s, 1, n)[i] = s[1 + i - 1]
    BY <1>1, <2>1, SubSeqProperties
  <2>3. Len(SubSeq(s, 1, n)) = n /\ \A i \in 1 .. n : SubSeq(s, 1, n)[i] = r[i]
    BY <1>1, <1>4, <2>2
  <2> QED BY <1>1, <2>2, <2>3, SeqEqual DEF Stacks
<1>6. Len(s) - 2 = n /\ Len(s) - 1 = n + 1 /\ Len(s) = n + 2
  BY <1>3
<1>7. Joined(s) = Append(r, Hang(a, b))
  BY <1>3, <1>4, <1>5, <1>6 DEF Joined
<1> QED BY <1>0, <1>2, <1>3, <1>7

\* The task that hangs a statement to its block.
LEMMA AppendAppends ==
    ASSUME NEW list, NEW tasks, Len(tasks) \in Nat, NEW n \in 1 .. Len(tasks), NEW T, tasks[n].do = "append"
    PROVE  Appends(list, tasks, n, T)
<1> SUFFICES ASSUME NEW i \in Positions(list), NEW r \in Stacks, NEW a \in Tables, NEW b \in Tables
             PROVE  /\ Hang(a, b) \in Tables
                    /\ Meets(list, tasks, n, i, Append(Append(r, a), b), T) <=>
                          Meets(list, tasks, n + 1, i, Append(r, Hang(a, b)), T)
  BY DEF Appends
<1>1. PICK s \in Stacks : s = Append(Append(r, a), b)
  BY AppendProperties DEF Stacks
<1>2. PICK u \in Stacks : u = Append(r, Hang(a, b))
  BY JoinedIs, AppendProperties DEF Stacks
<1>3. \A j, v : Does(list, tasks[n], i, s, j, v) <=> j = i /\ v = u
  BY <1>1, <1>2, JoinedIs DEF Does, Makers
<1>4. Meets(list, tasks, n, i, s, T) <=>
         \E j \in Positions(list) : \E v \in Stacks :
            Does(list, tasks[n], i, s, j, v) /\ Meets(list, tasks, n + 1, j, v, T)
  BY MeetsStep
<1> QED BY <1>1, <1>2, <1>3, <1>4, JoinedIs

\* The same, of one of the new tasks.
LEMMA AtRest ==
    ASSUME NEW list, NEW old, NEW new, NEW news, Unfolded(list, old, new, news), NEW T,
           NEW n \in 1 .. Len(news)
    PROVE  /\ news[n] = Parse("else") => Chooses(list, new, n, T)
           /\ news[n] = Parse("comparison") => Joins(list, new, n, ExprOpOf, MakesSum, T)
           /\ news[n] = Parse("factors") => Joins(list, new, n, FactorOpOf, MakesTerm, T)
           /\ news[n] = Parse("terms") => Turns(list, new, n, "terms", T)
           /\ news[n] = Parse("stats") => Turns(list, new, n, "stats", T)
           /\ news[n] = Parse("program") => Turns(list, new, n, "program", T)
           /\ news[n] = Parse("append") => Appends(list, new, n, T)
<1>1. Len(new) \in Nat /\ n \in 1 .. Len(new) /\ new[n] = news[n]
  BY NewTasks
<1>2. \A do : Parse(do).do = do
  BY DEF Parse, ParserTask
<1>3. news[n] = Parse("else") => Chooses(list, new, n, T)
  BY <1>1, <1>2, ElseChooses
<1>4. /\ news[n] = Parse("comparison") => Joins(list, new, n, ExprOpOf, MakesSum, T)
      /\ news[n] = Parse("factors") => Joins(list, new, n, FactorOpOf, MakesTerm, T)
  BY <1>1, <1>2, ComparisonJoins
<1>5. news[n] = Parse("terms") => Turns(list, new, n, "terms", T)
  BY <1>1, <1>2, TaskTurns DEF Turners
<1>6. /\ news[n] = Parse("stats") => Turns(list, new, n, "stats", T)
      /\ news[n] = Parse("program") => Turns(list, new, n, "program", T)
  BY <1>1, <1>2, TaskTurns DEF Turners
<1>7. news[n] = Parse("append") => Appends(list, new, n, T)
  BY <1>1, <1>2, AppendAppends
<1> QED BY <1>3, <1>4, <1>5, <1>6, <1>7

\* The same, of the first of the old tasks.
LEMMA OldRest ==
    ASSUME NEW list, NEW old, NEW new, NEW news, Unfolded(list, old, new, news), NEW T
    PROVE  /\ old[1].do = "else" => Chooses(list, old, 1, T)
           /\ old[1].do = "comparison" => Joins(list, old, 1, ExprOpOf, MakesSum, T)
           /\ old[1].do = "factors" => Joins(list, old, 1, FactorOpOf, MakesTerm, T)
           /\ old[1].do = "terms" => Turns(list, old, 1, "terms", T)
           /\ old[1].do = "stats" => Turns(list, old, 1, "stats", T)
           /\ old[1].do = "program" => Turns(list, old, 1, "program", T)
           /\ old[1].do = "append" => Appends(list, old, 1, T)
<1>1. Len(old) \in Nat /\ 1 \in 1 .. Len(old)
  BY NewTasks DEF Unfolded
<1>3. old[1].do = "else" => Chooses(list, old, 1, T)
  BY <1>1, ElseChooses
<1>4. /\ old[1].do = "comparison" => Joins(list, old, 1, ExprOpOf, MakesSum, T)
      /\ old[1].do = "factors" => Joins(list, old, 1, FactorOpOf, MakesTerm, T)
  BY <1>1, ComparisonJoins
<1>5. old[1].do = "terms" => Turns(list, old, 1, "terms", T)
  BY <1>1, TaskTurns DEF Turners
<1>6. /\ old[1].do = "stats" => Turns(list, old, 1, "stats", T)
      /\ old[1].do = "program" => Turns(list, old, 1, "program", T)
  BY <1>1, TaskTurns DEF Turners
<1>7. old[1].do = "append" => Appends(list, old, 1, T)
  BY <1>1, AppendAppends
<1> QED BY <1>3, <1>4, <1>5, <1>6, <1>7

-----------------------------------------------------------------------------
(* Statements with parts. *)

\* In parentheses behind the token i, up to the parenthesis k.
Condition(list, i, k, c) ==
    /\ i + 1 \in Positions(list) /\ list[i + 1].type = "LPAREN_TOK"
    /\ i + 2 \in Positions(list) /\ MakesExpr(list, i + 2, k, c)
    /\ list[k].type = "RPAREN_TOK" /\ k + 1 \in Positions(list)

\* The closing parenthesis of a statement.
LEMMA Closing ==
    ASSUME NEW list, IsTokenList(list), NEW i \in Positions(list), NEW j \in Positions(list), NEW k
    PROVE  Is(list, i + 1, "LPAREN_TOK") /\ k \in Places(list, i + 2, j - 1, {"RPAREN_TOK"}) <=>
              /\ i + 1 \in Positions(list) /\ list[i + 1].type = "LPAREN_TOK" /\ i + 2 \in Positions(list)
              /\ k \in Positions(list) /\ list[k].type = "RPAREN_TOK" /\ k + 1 \in Positions(list)
              /\ i + 2 <= k /\ k < j
<1>0. Positions(list) \subseteq Int /\ DOMAIN list = Positions(list)
  BY ListPlaces
<1>1. k \in Places(list, i + 2, j - 1, {"RPAREN_TOK"}) <=>
         k \in Int /\ i + 2 <= k /\ k < j /\ list[k].type = "RPAREN_TOK"
  BY <1>0 DEF Places
<1>2. ASSUME k \in Int, i + 2 <= k, k < j
      PROVE  i + 2 \in Positions(list) /\ k \in Positions(list) /\ k + 1 \in Positions(list)
  <2>1. \A a, b \in Positions(list) : \A c \in Int : a <= c /\ c <= b => c \in Positions(list)
    BY ListPlaces
  <2>2. i + 2 \in Int /\ i <= i + 2 /\ i + 2 <= j /\ i <= k /\ k <= j /\ k + 1 \in Int /\ i <= k + 1 /\ k + 1 <= j
    BY <1>0, <1>2
  <2> QED BY <1>2, <2>1, <2>2
<1> QED BY <1>0, <1>1, <1>2 DEF Is

\* What starts with if, while or for.
LEMMA ConditionalIs ==
    ASSUME NEW list, IsTokenList(list), NEW i \in Positions(list), NEW j \in Positions(list), NEW t
    PROVE  /\ list[i].type = "IF_TOK" =>
                 (MakesStat(list, i, j, t) <=>
                     \E k \in Positions(list) :
                        /\ Is(list, i + 1, "LPAREN_TOK") /\ k \in Places(list, i + 2, j - 1, {"RPAREN_TOK"})
                        /\ IsIf(list, Derived(list), KindAt(list, j), i, k, j, t))
           /\ list[i].type = "WHILE_TOK" =>
                 (MakesStat(list, i, j, t) <=>
                     \E k \in Positions(list) :
                        /\ Is(list, i + 1, "LPAREN_TOK") /\ k \in Places(list, i + 2, j - 1, {"RPAREN_TOK"})
                        /\ IsWhile(Derived(list), KindAt(list, j), i, k, j, t))
           /\ list[i].type = "FOR_TOK" =>
                 (MakesStat(list, i, j, t) <=>
                     \E k \in Positions(list) :
                        /\ Is(list, i + 1, "LPAREN_TOK") /\ k \in Places(list, i + 2, j - 1, {"RPAREN_TOK"})
                        /\ IsFor(list, Derived(list), KindAt(list, j), i, k, j, t))
<1>0. Positions(list) \subseteq Int /\ i \in DOMAIN list
  BY ListPlaces
<1> DEFINE D == Derived(list)
           kind == KindAt(list, j)
           P(k) == Is(list, i + 1, "LPAREN_TOK") /\ k \in Places(list, i + 2, j - 1, {"RPAREN_TOK"})
<1>1. kind \in {"stat", "closed"}
  BY StatMoves
<1>2. list[i].type \in {"IF_TOK", "WHILE_TOK", "FOR_TOK"} =>
         (MakesStat(list, i, j, t) <=> i < j /\ IsConditional(list, D, kind, i, j, t))
  BY <1>1, StatMoves, StartsIs
<1>3. IsConditional(list, D, kind, i, j, t) <=>
         \E k : P(k) /\ (\/ list[i].type = "IF_TOK" /\ IsIf(list, D, kind, i, k, j, t)
                         \/ list[i].type = "WHILE_TOK" /\ IsWhile(D, kind, i, k, j, t)
                         \/ list[i].type = "FOR_TOK" /\ IsFor(list, D, kind, i, k, j, t))
  <2>1. \A type : Is(list, i, type) <=> list[i].type = type
    BY <1>0 DEF Is
  <2>2. IsConditional(list, D, kind, i, j, t) <=>
         \E k : P(k) /\ (\/ Is(list, i, "IF_TOK") /\ IsIf(list, D, kind, i, k, j, t)
                         \/ Is(list, i, "WHILE_TOK") /\ IsWhile(D, kind, i, k, j, t)
                         \/ Is(list, i, "FOR_TOK") /\ IsFor(list, D, kind, i, k, j, t))
    <3> HIDE DEF D, kind
    <3> QED BY Zenon DEF IsConditional
  <2> HIDE DEF D, kind, P
  <2> QED BY <2>1, <2>2
<1>4. \A k : P(k) => k \in Positions(list) /\ i < j
  BY <1>0, Closing
<1> DEFINE A(k) == IsIf(list, D, kind, i, k, j, t)
           B(k) == IsWhile(D, kind, i, k, j, t)
           C(k) == IsFor(list, D, kind, i, k, j, t)
<1> HIDE DEF D, kind, P, A, B, C
<1>5. list[i].type \in {"IF_TOK", "WHILE_TOK", "FOR_TOK"} =>
         (MakesStat(list, i, j, t) <=>
            \E k \in Positions(list) : P(k) /\ (\/ list[i].type = "IF_TOK" /\ A(k)
                                                \/ list[i].type = "WHILE_TOK" /\ B(k)
                                                \/ list[i].type = "FOR_TOK" /\ C(k)))
  <2>1. IsConditional(list, D, kind, i, j, t) <=>
           \E k : P(k) /\ (\/ list[i].type = "IF_TOK" /\ A(k)
                           \/ list[i].type = "WHILE_TOK" /\ B(k)
                           \/ list[i].type = "FOR_TOK" /\ C(k))
    BY <1>3, Zenon DEF A, B, C
  <2>2. (i < j /\ IsConditional(list, D, kind, i, j, t)) <=>
           \E k \in Positions(list) : P(k) /\ (\/ list[i].type = "IF_TOK" /\ A(k)
                                               \/ list[i].type = "WHILE_TOK" /\ B(k)
                                               \/ list[i].type = "FOR_TOK" /\ C(k))
    BY <1>4, <2>1
  <2> QED BY <1>2, <2>2
<1>6. /\ list[i].type = "IF_TOK" => (MakesStat(list, i, j, t) <=> \E k \in Positions(list) : P(k) /\ A(k))
      /\ list[i].type = "WHILE_TOK" => (MakesStat(list, i, j, t) <=> \E k \in Positions(list) : P(k) /\ B(k))
      /\ list[i].type = "FOR_TOK" => (MakesStat(list, i, j, t) <=> \E k \in Positions(list) : P(k) /\ C(k))
  BY <1>5
<1> QED BY <1>6, Zenon DEF P, D, kind, A, B, C

\* A loop with a condition.
LEMMA WhileIs ==
    ASSUME NEW list, IsTokenList(list), NEW i \in Positions(list), NEW j \in Positions(list), NEW t,
           list[i].type = "WHILE_TOK"
    PROVE  MakesStat(list, i, j, t) <=>
              \E k \in Positions(list) : \E c \in Tables : \E b \in Tables :
                 /\ Condition(list, i, k, c) /\ MakesStat(list, k + 1, j, b)
                 /\ t = Over(Plain("WHILE_STAT"), <<c, b>>)
<1>0. Positions(list) \subseteq Int
  BY ListPlaces
<1>1. MakesStat(list, i, j, t) <=>
         \E k \in Positions(list) :
            /\ Is(list, i + 1, "LPAREN_TOK") /\ k \in Places(list, i + 2, j - 1, {"RPAREN_TOK"})
            /\ IsWhile(Derived(list), KindAt(list, j), i, k, j, t)
  BY ConditionalIs
<1>2. ASSUME MakesStat(list, i, j, t)
      PROVE  \E k \in Positions(list) : \E c \in Tables : \E b \in Tables :
                 /\ Condition(list, i, k, c) /\ MakesStat(list, k + 1, j, b)
                 /\ t = Over(Plain("WHILE_STAT"), <<c, b>>)
  <2>1. PICK k \in Positions(list) :
            /\ Is(list, i + 1, "LPAREN_TOK") /\ k \in Places(list, i + 2, j - 1, {"RPAREN_TOK"})
            /\ IsWhile(Derived(list), KindAt(list, j), i, k, j, t)
    BY <1>1, <1>2
  <2>2. PICK c \in From(list, "expr", i + 2, k), b \in From(list, KindAt(list, j), k + 1, j) :
           t = Over(Plain("WHILE_STAT"), <<c, b>>)
    BY <2>1, Zenon DEF IsWhile, From
  <2>3. /\ i + 1 \in Positions(list) /\ list[i + 1].type = "LPAREN_TOK" /\ i + 2 \in Positions(list)
        /\ list[k].type = "RPAREN_TOK" /\ k + 1 \in Positions(list)
    BY <2>1, Closing
  <2>4. MakesExpr(list, i + 2, k, c) /\ c \in Tables
    <3>1. MakesExpr(list, i + 2, k, c)
      BY <2>2, <2>3, ExprBefore
    <3> QED BY <2>3, <3>1, ExprMoves
  <2>5. MakesStat(list, k + 1, j, b) /\ b \in Tables
    BY <2>2, <2>3, StatMoves
  <2>6. Condition(list, i, k, c)
    BY <2>3, <2>4 DEF Condition
  <2> QED BY <2>2, <2>4, <2>5, <2>6
<1>3. ASSUME NEW k \in Positions(list), NEW c \in Tables, NEW b \in Tables,
             Condition(list, i, k, c), MakesStat(list, k + 1, j, b),
             t = Over(Plain("WHILE_STAT"), <<c, b>>)
      PROVE  MakesStat(list, i, j, t)
  <2>1. /\ i + 1 \in Positions(list) /\ list[i + 1].type = "LPAREN_TOK" /\ i + 2 \in Positions(list)
        /\ list[k].type = "RPAREN_TOK" /\ k + 1 \in Positions(list) /\ MakesExpr(list, i + 2, k, c)
    BY <1>3 DEF Condition
  <2>2. i + 2 < k /\ c \in From(list, "expr", i + 2, k)
    BY <2>1, ExprMoves
  <2>3. k + 1 < j /\ b \in From(list, KindAt(list, j), k + 1, j)
    BY <1>3, <2>1, StatMoves
  <2>4. Is(list, i + 1, "LPAREN_TOK") /\ k \in Places(list, i + 2, j - 1, {"RPAREN_TOK"})
    <3>1. i + 2 <= k /\ k < j
      BY <1>0, <2>2, <2>3
    <3> QED BY <1>3, <2>1, <3>1, Closing
  <2>5. IsWhile(Derived(list), KindAt(list, j), i, k, j, t)
    <3>1. \E b0 \in From(list, KindAt(list, j), k + 1, j) : t = Over(Plain("WHILE_STAT"), <<c, b0>>)
      BY <1>3, <2>3
    <3> QED BY <2>2, <3>1, Zenon DEF IsWhile, From
  <2> QED BY <1>1, <2>4, <2>5
<1> QED BY <1>2, <1>3

\* The statement t with the condition c and the branch b that ends before m.
Chosen(list, m, c, b, j, t) ==
    IF list[m].type = "ELSE_TOK"
    THEN \E f \in Tables : MakesStat(list, m + 1, j, f) /\ t = Over(Plain("IF_STAT"), <<c, b, f>>)
    ELSE j = m /\ t = Over(Plain("IF_STAT"), <<c, b>>)

\* A branch.
IfAt(list, i, j, t, k, c, m, b) ==
    Condition(list, i, k, c) /\ MakesStat(list, k + 1, m, b) /\ Chosen(list, m, c, b, j, t)

\* A conditional statement.
LEMMA IfIs ==
    ASSUME NEW list, IsTokenList(list), NEW i \in Positions(list), NEW j \in Positions(list), NEW t,
           list[i].type = "IF_TOK"
    PROVE  MakesStat(list, i, j, t) <=>
              \E k \in Positions(list) : \E c \in Tables : \E m \in Positions(list) : \E b \in Tables :
                 IfAt(list, i, j, t, k, c, m, b)
<1>0. Positions(list) \subseteq Int /\ {"expr", "stat", "closed"} \subseteq Parts \ {"stats"}
  BY ListPlaces DEF Parts
<1>1. MakesStat(list, i, j, t) <=>
         \E k \in Positions(list) :
            /\ Is(list, i + 1, "LPAREN_TOK") /\ k \in Places(list, i + 2, j - 1, {"RPAREN_TOK"})
            /\ IsIf(list, Derived(list), KindAt(list, j), i, k, j, t)
  BY ConditionalIs
<1>2. ASSUME MakesStat(list, i, j, t)
      PROVE  \E k \in Positions(list) : \E c \in Tables : \E m \in Positions(list) : \E b \in Tables :
                 IfAt(list, i, j, t, k, c, m, b)
  <2>1. PICK k \in Positions(list) :
            /\ Is(list, i + 1, "LPAREN_TOK") /\ k \in Places(list, i + 2, j - 1, {"RPAREN_TOK"})
            /\ IsIf(list, Derived(list), KindAt(list, j), i, k, j, t)
    BY <1>1, <1>2
  <2> DEFINE Without(c) == \E b \in From(list, "stat", k + 1, j) : t = Over(Plain("IF_STAT"), <<c, b>>)
             With(c) == \E m \in Places(list, k + 1, j - 1, {"ELSE_TOK"}) :
                           \E b \in From(list, "closed", k + 1, m), f \in From(list, KindAt(list, j), m + 1, j) :
                              t = Over(Plain("IF_STAT"), <<c, b, f>>)
  <2>2. PICK c \in From(list, "expr", i + 2, k) : (KindAt(list, j) = "stat" /\ Without(c)) \/ With(c)
    BY <2>1, Zenon DEF IsIf, From
  <2>3. /\ i + 1 \in Positions(list) /\ list[i + 1].type = "LPAREN_TOK" /\ i + 2 \in Positions(list)
        /\ list[k].type = "RPAREN_TOK" /\ k + 1 \in Positions(list) /\ k < j
    BY <2>1, Closing
  <2>4. MakesExpr(list, i + 2, k, c) /\ c \in Tables
    <3>1. MakesExpr(list, i + 2, k, c)
      BY <2>2, <2>3, ExprBefore
    <3> QED BY <2>3, <3>1, ExprMoves
  <2>5. Condition(list, i, k, c)
    BY <2>3, <2>4 DEF Condition
  <2>6. CASE KindAt(list, j) = "stat" /\ Without(c)
    <3>1. PICK b \in From(list, "stat", k + 1, j) : t = Over(Plain("IF_STAT"), <<c, b>>)
      BY <2>6
    <3>2. MakesStat(list, k + 1, j, b) /\ b \in Tables
      BY <2>3, <2>6, <3>1, StatMoves
    <3>3. list[j].type # "ELSE_TOK"
      BY <2>6 DEF KindAt
    <3>4. Chosen(list, j, c, b, j, t)
      BY <3>1, <3>3 DEF Chosen
    <3>5. IfAt(list, i, j, t, k, c, j, b)
      BY <2>5, <3>2, <3>4 DEF IfAt
    <3> QED BY <2>4, <3>2, <3>5
  <2>7. CASE With(c)
    <3>1. PICK m \in Places(list, k + 1, j - 1, {"ELSE_TOK"}) :
             \E b \in From(list, "closed", k + 1, m), f \in From(list, KindAt(list, j), m + 1, j) :
                t = Over(Plain("IF_STAT"), <<c, b, f>>)
      BY <2>7
    <3>2. PICK b \in From(list, "closed", k + 1, m), f \in From(list, KindAt(list, j), m + 1, j) :
                t = Over(Plain("IF_STAT"), <<c, b, f>>)
      BY <3>1
    <3>3. m \in Positions(list) /\ m + 1 \in Positions(list) /\ list[m].type = "ELSE_TOK"
      <4>1. m \in Int /\ k <= m /\ m <= j /\ m + 1 \in Int /\ k <= m + 1 /\ m + 1 <= j /\ list[m].type = "ELSE_TOK"
        BY <1>0, <2>3 DEF Places
      <4> QED BY <4>1, ListPlaces
    <3>4. MakesStat(list, k + 1, m, b) /\ b \in Tables
      <4>1. KindAt(list, m) = "closed"
        BY <3>3 DEF KindAt
      <4> QED BY <2>3, <3>2, <3>3, <4>1, StatMoves
    <3>5. MakesStat(list, m + 1, j, f) /\ f \in Tables
      BY <3>2, <3>3, StatMoves
    <3>6. Chosen(list, m, c, b, j, t)
      BY <3>2, <3>3, <3>5 DEF Chosen
    <3>7. IfAt(list, i, j, t, k, c, m, b)
      BY <2>5, <3>4, <3>6 DEF IfAt
    <3> QED BY <2>4, <3>3, <3>4, <3>7
  <2> QED BY <2>2, <2>6, <2>7
<1>3. ASSUME NEW k \in Positions(list), NEW c \in Tables, NEW m \in Positions(list), NEW b \in Tables,
             IfAt(list, i, j, t, k, c, m, b)
      PROVE  MakesStat(list, i, j, t)
  <2>0. Condition(list, i, k, c) /\ MakesStat(list, k + 1, m, b) /\ Chosen(list, m, c, b, j, t)
    BY <1>3 DEF IfAt
  <2>1. /\ i + 1 \in Positions(list) /\ list[i + 1].type = "LPAREN_TOK" /\ i + 2 \in Positions(list)
        /\ list[k].type = "RPAREN_TOK" /\ k + 1 \in Positions(list) /\ MakesExpr(list, i + 2, k, c)
    BY <2>0 DEF Condition
  <2>2. i + 2 < k /\ c \in From(list, "expr", i + 2, k)
    BY <2>1, ExprMoves
  <2>3. k + 1 < m /\ b \in From(list, KindAt(list, m), k + 1, m)
    BY <2>0, <2>1, StatMoves
  <2>4. ASSUME m <= j
        PROVE  Is(list, i + 1, "LPAREN_TOK") /\ k \in Places(list, i + 2, j - 1, {"RPAREN_TOK"})
    <3>1. i + 2 <= k /\ k < j
      BY <1>0, <2>2, <2>3, <2>4
    <3> QED BY <1>3, <2>1, <3>1, Closing
  <2> DEFINE Without == \E b0 \in From(list, "stat", k + 1, j) : t = Over(Plain("IF_STAT"), <<c, b0>>)
             With == \E m0 \in Places(list, k + 1, j - 1, {"ELSE_TOK"}) :
                           \E b0 \in From(list, "closed", k + 1, m0), f \in From(list, KindAt(list, j), m0 + 1, j) :
                              t = Over(Plain("IF_STAT"), <<c, b0, f>>)
  <2>5. ASSUME (KindAt(list, j) = "stat" /\ Without) \/ With
        PROVE  IsIf(list, Derived(list), KindAt(list, j), i, k, j, t)
    BY <2>2, <2>5, Zenon DEF IsIf, From
  <2>6. CASE list[m].type = "ELSE_TOK"
    <3>1. PICK f \in Tables : MakesStat(list, m + 1, j, f) /\ t = Over(Plain("IF_STAT"), <<c, b, f>>)
      BY <2>0, <2>6 DEF Chosen
    <3>2. m + 1 \in Positions(list)
      BY <2>6, PlaceBehind
    <3>3. m + 1 < j /\ f \in From(list, KindAt(list, j), m + 1, j)
      BY <3>1, <3>2, StatMoves
    <3>4. m \in Places(list, k + 1, j - 1, {"ELSE_TOK"}) /\ m <= j
      BY <1>0, <2>3, <2>6, <3>3 DEF Places
    <3>5. KindAt(list, m) = "closed"
      BY <2>6 DEF KindAt
    <3>6. With
      <4>1. \E f0 \in From(list, KindAt(list, j), m + 1, j) : t = Over(Plain("IF_STAT"), <<c, b, f0>>)
        BY <3>1, <3>3
      <4>2. \E b0 \in From(list, "closed", k + 1, m) : \E f0 \in From(list, KindAt(list, j), m + 1, j) :
               t = Over(Plain("IF_STAT"), <<c, b0, f0>>)
        BY <2>3, <3>5, <4>1
      <4> QED BY <3>4, <4>2, Zenon
    <3> QED BY <1>1, <2>4, <2>5, <3>4, <3>6
  <2>7. CASE list[m].type # "ELSE_TOK"
    <3>1. j = m /\ t = Over(Plain("IF_STAT"), <<c, b>>)
      BY <2>0, <2>7 DEF Chosen
    <3>2. KindAt(list, j) = "stat"
      BY <2>7, <3>1 DEF KindAt
    <3>3. Without
      BY <2>3, <3>1, <3>2
    <3>4. m <= j
      BY <1>0, <3>1
    <3> QED BY <1>1, <2>4, <2>5, <3>2, <3>3, <3>4
  <2> QED BY <2>6, <2>7
<1> QED BY <1>2, <1>3

\* The expressions of a loop, and what is repeated.
ForAt(list, i, j, t, l, a, m, c, k, b, s) ==
    /\ i + 1 \in Positions(list) /\ list[i + 1].type = "LPAREN_TOK" /\ i + 2 \in Positions(list)
    /\ MakesExpr(list, i + 2, l, a) /\ list[l].type = "SCOL_TOK" /\ l + 1 \in Positions(list)
    /\ MakesExpr(list, l + 1, m, c) /\ list[m].type = "SCOL_TOK" /\ m + 1 \in Positions(list)
    /\ MakesExpr(list, m + 1, k, b) /\ list[k].type = "RPAREN_TOK" /\ k + 1 \in Positions(list)
    /\ MakesStat(list, k + 1, j, s)
    /\ t = Over(Plain("FOR_STAT"), <<a, c, b, s>>)

\* A loop with three expressions.
LEMMA ForIs ==
    ASSUME NEW list, IsTokenList(list), NEW i \in Positions(list), NEW j \in Positions(list), NEW t,
           list[i].type = "FOR_TOK"
    PROVE  MakesStat(list, i, j, t) <=>
              \E l \in Positions(list) : \E a \in Tables : \E m \in Positions(list) : \E c \in Tables :
              \E k \in Positions(list) : \E b \in Tables : \E s \in Tables :
                 ForAt(list, i, j, t, l, a, m, c, k, b, s)
<1>0. Positions(list) \subseteq Int
  BY ListPlaces
<1>1. MakesStat(list, i, j, t) <=>
         \E k \in Positions(list) :
            /\ Is(list, i + 1, "LPAREN_TOK") /\ k \in Places(list, i + 2, j - 1, {"RPAREN_TOK"})
            /\ IsFor(list, Derived(list), KindAt(list, j), i, k, j, t)
  BY ConditionalIs
<1>2. ASSUME MakesStat(list, i, j, t)
      PROVE  \E l \in Positions(list) : \E a \in Tables : \E m \in Positions(list) : \E c \in Tables :
             \E k \in Positions(list) : \E b \in Tables : \E s \in Tables :
                ForAt(list, i, j, t, l, a, m, c, k, b, s)
  <2>1. PICK k \in Positions(list) :
            /\ Is(list, i + 1, "LPAREN_TOK") /\ k \in Places(list, i + 2, j - 1, {"RPAREN_TOK"})
            /\ IsFor(list, Derived(list), KindAt(list, j), i, k, j, t)
    BY <1>1, <1>2
  <2>2. PICK l \in Places(list, i + 2, k - 1, {"SCOL_TOK"}), m \in Places(list, i + 2, k - 1, {"SCOL_TOK"}) :
           \E a \in From(list, "expr", i + 2, l), c \in From(list, "expr", l + 1, m),
              b \in From(list, "expr", m + 1, k), s \in From(list, KindAt(list, j), k + 1, j) :
              t = Over(Plain("FOR_STAT"), <<a, c, b, s>>)
    BY <2>1, Zenon DEF IsFor, From
  <2>3. PICK a \in From(list, "expr", i + 2, l), c \in From(list, "expr", l + 1, m),
             b \in From(list, "expr", m + 1, k), s \in From(list, KindAt(list, j), k + 1, j) :
           t = Over(Plain("FOR_STAT"), <<a, c, b, s>>)
    BY <2>2
  <2>4. /\ i + 1 \in Positions(list) /\ list[i + 1].type = "LPAREN_TOK" /\ i + 2 \in Positions(list)
        /\ list[k].type = "RPAREN_TOK" /\ k + 1 \in Positions(list) /\ k < j
    BY <2>1, Closing
  <2>5. \A n \in Places(list, i + 2, k - 1, {"SCOL_TOK"}) :
           n \in Positions(list) /\ n + 1 \in Positions(list) /\ list[n].type = "SCOL_TOK"
    <3> TAKE n \in Places(list, i + 2, k - 1, {"SCOL_TOK"})
    <3>1. n \in Int /\ i <= n /\ n <= k /\ n + 1 \in Int /\ i <= n + 1 /\ n + 1 <= k /\ list[n].type = "SCOL_TOK"
      BY <1>0, <2>4 DEF Places
    <3> QED BY <3>1, ListPlaces
  <2>6. /\ l \in Positions(list) /\ l + 1 \in Positions(list) /\ list[l].type = "SCOL_TOK"
        /\ m \in Positions(list) /\ m + 1 \in Positions(list) /\ list[m].type = "SCOL_TOK"
    BY <2>2, <2>5
  <2>7. MakesExpr(list, i + 2, l, a) /\ MakesExpr(list, l + 1, m, c) /\ MakesExpr(list, m + 1, k, b)
    BY <2>3, <2>4, <2>6, ExprBefore
  <2>8. a \in Tables /\ c \in Tables /\ b \in Tables
    BY <2>4, <2>6, <2>7, ExprMoves
  <2>9. MakesStat(list, k + 1, j, s) /\ s \in Tables
    BY <2>3, <2>4, StatMoves
  <2>10. ForAt(list, i, j, t, l, a, m, c, k, b, s)
    BY <2>3, <2>4, <2>6, <2>7, <2>9 DEF ForAt
  <2> QED BY <2>6, <2>8, <2>9, <2>10
<1>3. ASSUME NEW l \in Positions(list), NEW a \in Tables, NEW m \in Positions(list), NEW c \in Tables,
             NEW k \in Positions(list), NEW b \in Tables, NEW s \in Tables,
             ForAt(list, i, j, t, l, a, m, c, k, b, s)
      PROVE  MakesStat(list, i, j, t)
  <2>1. /\ i + 1 \in Positions(list) /\ list[i + 1].type = "LPAREN_TOK" /\ i + 2 \in Positions(list)
        /\ MakesExpr(list, i + 2, l, a) /\ list[l].type = "SCOL_TOK" /\ l + 1 \in Positions(list)
        /\ MakesExpr(list, l + 1, m, c) /\ list[m].type = "SCOL_TOK" /\ m + 1 \in Positions(list)
        /\ MakesExpr(list, m + 1, k, b) /\ list[k].type = "RPAREN_TOK" /\ k + 1 \in Positions(list)
        /\ MakesStat(list, k + 1, j, s)
        /\ t = Over(Plain("FOR_STAT"), <<a, c, b, s>>)
    BY <1>3 DEF ForAt
  <2>2. /\ i + 2 < l /\ a \in From(list, "expr", i + 2, l)
        /\ l + 1 < m /\ c \in From(list, "expr", l + 1, m)
        /\ m + 1 < k /\ b \in From(list, "expr", m + 1, k)
    BY <2>1, ExprMoves
  <2>3. k + 1 < j /\ s \in From(list, KindAt(list, j), k + 1, j)
    BY <2>1, StatMoves
  <2>4. Is(list, i + 1, "LPAREN_TOK") /\ k \in Places(list, i + 2, j - 1, {"RPAREN_TOK"})
    <3>1. i + 2 <= k /\ k < j
      BY <1>0, <2>2, <2>3
    <3> QED BY <1>3, <2>1, <3>1, Closing
  <2>5. l \in Places(list, i + 2, k - 1, {"SCOL_TOK"}) /\ m \in Places(list, i + 2, k - 1, {"SCOL_TOK"})
    BY <1>0, <2>1, <2>2 DEF Places
  <2>6. IsFor(list, Derived(list), KindAt(list, j), i, k, j, t)
    <3>1. \E s0 \in From(list, KindAt(list, j), k + 1, j) : t = Over(Plain("FOR_STAT"), <<a, c, b, s0>>)
      BY <2>1, <2>3
    <3>2. \E b0 \in From(list, "expr", m + 1, k) : \E s0 \in From(list, KindAt(list, j), k + 1, j) :
             t = Over(Plain("FOR_STAT"), <<a, c, b0, s0>>)
      BY <2>2, <3>1
    <3>3. \E c0 \in From(list, "expr", l + 1, m) : \E b0 \in From(list, "expr", m + 1, k) :
          \E s0 \in From(list, KindAt(list, j), k + 1, j) : t = Over(Plain("FOR_STAT"), <<a, c0, b0, s0>>)
      BY <2>2, <3>2, Zenon
    <3>4. \E a0 \in From(list, "expr", i + 2, l) : \E c0 \in From(list, "expr", l + 1, m) :
          \E b0 \in From(list, "expr", m + 1, k) : \E s0 \in From(list, KindAt(list, j), k + 1, j) :
             t = Over(Plain("FOR_STAT"), <<a0, c0, b0, s0>>)
      BY <2>2, <3>3, Zenon
    <3> QED BY <2>5, <3>4, Zenon DEF IsFor, From
  <2> QED BY <1>1, <2>4, <2>6
<1> QED BY <1>2, <1>3

\* The statements between braces.
LEMMA BlocksIs ==
    ASSUME NEW list, IsTokenList(list), NEW i \in Positions(list), NEW j \in Positions(list), NEW t
    PROVE  IsBlocks(list, Derived(list), i, j, t) <=>
              \E k \in Positions(list) :
                 /\ list[i].type = "LBRACE_TOK" /\ i + 1 \in Positions(list)
                 /\ Turned(list, "stats", i + 1, Over(Plain("BLOCK_STAT"), <<>>), k, t)
                 /\ j = k + 1
<1>0. Positions(list) \subseteq Int /\ DOMAIN list = Positions(list)
  BY ListPlaces
<1>1. \A k, x : Turned(list, "stats", i + 1, Over(Plain("BLOCK_STAT"), <<>>), k, x) <=>
                list[k].type = "RBRACE_TOK" /\ \E s \in From(list, "stats", i + 1, k) :
                    GrownTree(Over(Plain("BLOCK_STAT"), <<>>), s, x)
  BY DEF Turned, FilledTo
<1>2. ASSUME i + 1 \in Positions(list), NEW k \in Positions(list), NEW s \in From(list, "stats", i + 1, k), NEW x
      PROVE  GrownTree(Over(Plain("BLOCK_STAT"), <<>>), s, x) <=> x = Over(Plain("BLOCK_STAT"), s)
  <2>1. s \in Stacks
    BY <1>2, StatsTables DEF Stacks
  <2>2. Over(Plain("BLOCK_STAT"), <<>>) = <<Plain("BLOCK_STAT")>>
    BY StatementLeaves, OverNone
  <2> QED BY <2>1, <2>2, StatementLeaves, OverGrown
<1>3. ASSUME IsBlocks(list, Derived(list), i, j, t)
      PROVE  /\ list[i].type = "LBRACE_TOK" /\ i + 1 \in Positions(list) /\ j - 1 \in Positions(list)
             /\ Turned(list, "stats", i + 1, Over(Plain("BLOCK_STAT"), <<>>), j - 1, t)
             /\ j = j - 1 + 1
  <2>1. PICK s \in From(list, "stats", i + 1, j - 1) : t = Over(Plain("BLOCK_STAT"), s)
    BY <1>3 DEF IsBlocks, From
  <2>2. list[i].type = "LBRACE_TOK" /\ j - 1 \in Positions(list) /\ list[j - 1].type = "RBRACE_TOK"
    BY <1>0, <1>3 DEF IsBlocks, Is
  <2>3. i + 1 \in Positions(list)
    BY <2>2, PlaceBehind
  <2>4. GrownTree(Over(Plain("BLOCK_STAT"), <<>>), s, t)
    BY <1>2, <2>1, <2>2, <2>3
  <2> QED BY <1>0, <1>1, <2>1, <2>2, <2>3, <2>4
<1>4. ASSUME NEW k \in Positions(list), list[i].type = "LBRACE_TOK", i + 1 \in Positions(list),
             Turned(list, "stats", i + 1, Over(Plain("BLOCK_STAT"), <<>>), k, t), j = k + 1
      PROVE  IsBlocks(list, Derived(list), i, j, t)
  <2>1. list[k].type = "RBRACE_TOK"
    BY <1>1, <1>4
  <2>2. PICK s \in From(list, "stats", i + 1, k) : GrownTree(Over(Plain("BLOCK_STAT"), <<>>), s, t)
    BY <1>1, <1>4
  <2>3. t = Over(Plain("BLOCK_STAT"), s)
    BY <1>2, <1>4, <2>2
  <2>4. i + 1 <= k
    <3>1. i + 1 = k \/ i + 1 < k
      BY <1>4, <2>2, StatsIs
    <3> QED BY <1>0, <1>4, <3>1
  <2>5. j - 1 = k /\ j >= i + 2
    BY <1>0, <1>4, <2>4
  <2> QED BY <1>0, <1>4, <2>1, <2>2, <2>3, <2>5 DEF IsBlocks, Is, From
<1> QED BY <1>3, <1>4

\* A statement that is a block.
LEMMA BlockIs ==
    ASSUME NEW list, IsTokenList(list), NEW i \in Positions(list), NEW j \in Positions(list), NEW t,
           list[i].type = "LBRACE_TOK"
    PROVE  MakesStat(list, i, j, t) <=> IsBlocks(list, Derived(list), i, j, t)
<1>0. Positions(list) \subseteq Int
  BY ListPlaces
<1>1. IsBlocks(list, Derived(list), i, j, t) => i < j
  BY <1>0 DEF IsBlocks
<1> QED BY <1>1, StatMoves, StartsIs

-----------------------------------------------------------------------------
(* The statements of a block, and declarations.                              *)

\* The list stops at such a token, where no statement starts.
LEMMA FilledHere ==
    ASSUME NEW list, IsTokenList(list), NEW token \in {"RBRACE_TOK", "PROGRAM_END_TOK"},
           NEW i \in Positions(list), list[i].type = token, NEW l \in Tables,
           NEW j \in Positions(list), NEW t
    PROVE  FilledTo(list, token, i, l, j, t) <=> j = i /\ t = l
<1>1. \A trees : trees \in From(list, "stats", i, j) <=> i = j /\ trees = <<>>
  <2> SUFFICES ASSUME i < j, NEW trees, IsStats(Derived(list), i, j, trees)
               PROVE  FALSE
    BY StatsIs
  <2>1. PICK k \in i + 1 .. j : \E s \in From(list, "stat", i, k) : TRUE
    BY DEF IsStats, From
  <2>2. PICK s \in From(list, "stat", i, k) : TRUE
    BY <2>1
  <2>3. k \in Positions(list)
    <3>1. k \in Int /\ i <= k /\ k <= j
      BY ListPlaces
    <3> QED BY <3>1, ListPlaces
  <2>4. list[i].type \in StatStarts
    BY <2>2, <2>3, FirstToken
  <2> QED BY <2>4 DEF StatStarts
<1>2. \A trees : GrownTree(l, <<>>, t) <=> t = l
  BY GrownNone
<1> QED BY <1>1, <1>2 DEF FilledTo

\* Elsewhere a statement comes first.
LEMMA FilledMore ==
    ASSUME NEW list, IsTokenList(list), NEW token \in {"RBRACE_TOK", "PROGRAM_END_TOK"},
           NEW i \in Positions(list), list[i].type # token, NEW l \in Tables,
           NEW j \in Positions(list), NEW t
    PROVE  FilledTo(list, token, i, l, j, t) <=>
              \E k \in Positions(list) : \E s \in Tables :
                 MakesStat(list, i, k, s) /\ FilledTo(list, token, k, Hang(l, s), j, t)
<1>0. Positions(list) \subseteq Int /\ "ELSE_TOK" \notin StatStarts
  BY ListPlaces DEF StatStarts
<1>1. ASSUME NEW k \in Positions(list), list[j].type = token, NEW rest \in From(list, "stats", k, j)
      PROVE  KindAt(list, k) = "stat" /\ k <= j
  <2>1. CASE k = j
    BY <1>0, <1>1, <2>1 DEF KindAt
  <2>2. CASE k < j /\ IsStats(Derived(list), k, j, rest)
    <3>1. PICK m \in k + 1 .. j : \E s \in From(list, "stat", k, m) : TRUE
      BY <2>2 DEF IsStats, From
    <3>2. PICK s \in From(list, "stat", k, m) : TRUE
      BY <3>1
    <3>3. m \in Positions(list)
      <4>1. m \in Int /\ k <= m /\ m <= j
        BY <1>0, <1>1
      <4> QED BY <1>1, <4>1, ListPlaces
    <3>4. list[k].type \in StatStarts
      BY <1>1, <3>2, <3>3, FirstToken
    <3> QED BY <1>0, <1>1, <2>2, <3>4 DEF KindAt
  <2> QED BY <1>1, <2>1, <2>2, StatsIs
<1>2. ASSUME FilledTo(list, token, i, l, j, t)
      PROVE  \E k \in Positions(list) : \E s \in Tables :
                MakesStat(list, i, k, s) /\ FilledTo(list, token, k, Hang(l, s), j, t)
  <2>1. PICK trees \in From(list, "stats", i, j) : list[j].type = token /\ GrownTree(l, trees, t)
    BY <1>2 DEF FilledTo
  <2>2. i < j /\ IsStats(Derived(list), i, j, trees)
    BY <2>1, StatsIs
  <2>3. PICK k \in i + 1 .. j : \E s \in From(list, "stat", i, k), rest \in From(list, "stats", k, j) :
           trees = <<s>> \o rest
    BY <2>2, Zenon DEF IsStats, From
  <2>4. PICK s \in From(list, "stat", i, k), rest \in From(list, "stats", k, j) : trees = <<s>> \o rest
    BY <2>3
  <2>5. k \in Positions(list)
    <3>1. k \in Int /\ i <= k /\ k <= j
      BY <1>0
    <3> QED BY <3>1, ListPlaces
  <2>6. MakesStat(list, i, k, s) /\ s \in Tables
    BY <1>1, <2>1, <2>4, <2>5, StatMoves
  <2>7. rest \in Stacks
    BY <2>5, StatsTables DEF Stacks
  <2>8. GrownTree(Hang(l, s), rest, t)
    BY <2>1, <2>4, <2>6, <2>7, GrownMore
  <2> QED BY <2>1, <2>4, <2>5, <2>6, <2>8 DEF FilledTo
<1>3. ASSUME NEW k \in Positions(list), NEW s \in Tables,
             MakesStat(list, i, k, s), FilledTo(list, token, k, Hang(l, s), j, t)
      PROVE  FilledTo(list, token, i, l, j, t)
  <2>1. PICK rest \in From(list, "stats", k, j) : list[j].type = token /\ GrownTree(Hang(l, s), rest, t)
    BY <1>3 DEF FilledTo
  <2>2. KindAt(list, k) = "stat" /\ k <= j
    BY <1>1, <1>3, <2>1
  <2>3. i < k /\ s \in From(list, "stat", i, k)
    BY <1>3, <2>2, StatMoves
  <2>4. k \in i + 1 .. j /\ i < j
    BY <1>0, <1>3, <2>2, <2>3
  <2>5. PICK trees : trees = <<s>> \o rest
    OBVIOUS
  <2>6. IsStats(Derived(list), i, j, trees)
    <3>1. \E r \in From(list, "stats", k, j) : trees = <<s>> \o r
      BY <2>1, <2>5
    <3> QED BY <2>3, <2>4, <3>1, Zenon DEF IsStats, From
  <2>7. trees \in From(list, "stats", i, j)
    BY <2>4, <2>6, StatsIs
  <2>8. rest \in Stacks
    BY <1>3, <2>1, StatsTables DEF Stacks
  <2>9. GrownTree(l, trees, t)
    BY <1>3, <2>1, <2>5, <2>8, GrownMore
  <2> QED BY <2>1, <2>7, <2>9 DEF FilledTo
<1> QED BY <1>2, <1>3

\* A body has a token.
LEMMA BodyMoves ==
    ASSUME NEW list, IsTokenList(list), NEW k \in Int, NEW j \in Positions(list), NEW name, NEW t,
           IsBody(list, Derived(list), name, k, j, t)
    PROVE  j > k
<1>0. j \in Int
  BY ListPlaces
<1>1. CASE j = k + 1
  BY <1>0, <1>1
<1>2. CASE \E b : IsBlocks(list, Derived(list), k, j, b)
  <2>1. j >= k + 2
    BY <1>2 DEF IsBlocks
  <2> QED BY <1>0, <2>1
<1> QED BY <1>1, <1>2 DEF IsBody

\* A statement that declares a name.
LEMMA DeclarationIs ==
    ASSUME NEW list, IsTokenList(list), NEW i \in Positions(list), NEW j \in Positions(list), NEW t,
           IsTypeIdent(list[i])
    PROVE  MakesStat(list, i, j, t) <=>
              /\ i + 1 \in Positions(list) /\ list[i + 1].type = "IDENT_TOK" /\ i + 2 \in Positions(list)
              /\ IsDeclarator(list, Derived(list), list[i + 1].name, i + 2, j, t)
<1>0. Positions(list) \subseteq Int /\ DOMAIN list = Positions(list)
  BY ListPlaces
<1>1. IsInt(list, i)
  BY <1>0 DEF IsInt
<1>2. MakesStat(list, i, j, t) <=> i < j /\ IsDeclaration(list, Derived(list), i, j, t)
  BY StatMoves, StartsIs
<1>3. \A name : IsDeclarator(list, Derived(list), name, i + 2, j, t) => j > i + 2
  <2>2. \A name : \A k \in Int : IsBody(list, Derived(list), name, k, j, t) => j > k
    BY BodyMoves
  <2>3. i + 2 + 2 \in Int /\ i + 2 \in Int
    BY <1>0
  <2> QED BY <1>0, <2>2, <2>3 DEF IsDeclarator
<1>4. i + 1 \in Positions(list) /\ list[i + 1].type = "IDENT_TOK" => i + 2 \in Positions(list)
  <2>1. i + 1 \in Positions(list) /\ list[i + 1].type = "IDENT_TOK" => i + 1 + 1 \in Positions(list)
    BY PlaceBehind
  <2>2. i + 1 + 1 = i + 2
    BY <1>0
  <2> QED BY <2>1, <2>2
<1>5. Is(list, i + 1, "IDENT_TOK") <=> i + 1 \in Positions(list) /\ list[i + 1].type = "IDENT_TOK"
  BY <1>0 DEF Is
<1>6. j > i + 2 => i < j
  BY <1>0
<1>7. IsDeclaration(list, Derived(list), i, j, t) <=>
         /\ j > i + 2 /\ IsInt(list, i) /\ Is(list, i + 1, "IDENT_TOK")
         /\ IsDeclarator(list, Derived(list), list[i + 1].name, i + 2, j, t)
  BY DEF IsDeclaration
<1> QED BY <1>1, <1>2, <1>3, <1>4, <1>5, <1>6, <1>7

\* An initial value up to the token k, and a semicolon.
InitialTo(list, name, i, j, t, k, e) ==
    /\ i + 1 \in Positions(list) /\ MakesExpr(list, i + 1, k, e)
    /\ list[k].type = "SCOL_TOK" /\ j = k + 1
    /\ t = Over(Named("DECL_STAT", name), <<e>>)

\* Statements up to the brace k.
BodyTo(list, name, i, j, t, k, b) ==
    /\ i + 1 \in Positions(list)
    /\ Turned(list, "stats", i + 1, Over(Plain("BLOCK_STAT"), <<>>), k, b)
    /\ j = k + 1 /\ t = Over(FuncDecl(name), <<b>>)

\* What follows the name.
LEMMA DeclaratorIs ==
    ASSUME NEW list, IsTokenList(list), NEW i \in Positions(list), NEW j \in Positions(list), NEW t, NEW name
    PROVE  /\ list[i].type = "LPAREN_TOK" =>
                 (IsDeclarator(list, Derived(list), name, i, j, t) <=>
                     /\ i + 1 \in Positions(list) /\ list[i + 1].type = "RPAREN_TOK" /\ i + 2 \in Positions(list)
                     /\ IsBody(list, Derived(list), name, i + 2, j, t))
           /\ list[i].type = "ASSIGN_TOK" =>
                 (IsDeclarator(list, Derived(list), name, i, j, t) <=>
                     \E k \in Positions(list) : \E e \in Tables : InitialTo(list, name, i, j, t, k, e))
           /\ list[i].type \notin {"LPAREN_TOK", "ASSIGN_TOK"} =>
                 (IsDeclarator(list, Derived(list), name, i, j, t) <=>
                     list[i].type = "SCOL_TOK" /\ j = i + 1 /\ t = <<Named("DECL_STAT", name)>>)
<1>0. Positions(list) \subseteq Int /\ DOMAIN list = Positions(list) /\ i \in DOMAIN list
  BY ListPlaces
<1> DEFINE Valued == \E e \in From(list, "expr", i + 1, j - 1) : t = Over(Named("DECL_STAT", name), <<e>>)
<1>1. IsDeclarator(list, Derived(list), name, i, j, t) <=>
         \/ j = i + 1 /\ list[i].type = "SCOL_TOK" /\ t = <<Named("DECL_STAT", name)>>
         \/ j > i + 1 /\ list[i].type = "ASSIGN_TOK" /\ Is(list, j - 1, "SCOL_TOK") /\ Valued
         \/ /\ j > i + 2 /\ list[i].type = "LPAREN_TOK" /\ Is(list, i + 1, "RPAREN_TOK")
            /\ IsBody(list, Derived(list), name, i + 2, j, t)
  <2>1. \A type : Is(list, i, type) <=> list[i].type = type
    BY <1>0 DEF Is
  <2>2. IsDeclarator(list, Derived(list), name, i, j, t) <=>
         \/ j = i + 1 /\ Is(list, i, "SCOL_TOK") /\ t = <<Named("DECL_STAT", name)>>
         \/ j > i + 1 /\ Is(list, i, "ASSIGN_TOK") /\ Is(list, j - 1, "SCOL_TOK") /\ Valued
         \/ /\ j > i + 2 /\ Is(list, i, "LPAREN_TOK") /\ Is(list, i + 1, "RPAREN_TOK")
            /\ IsBody(list, Derived(list), name, i + 2, j, t)
    BY Zenon DEF IsDeclarator, From
  <2> HIDE DEF Valued
  <2> QED BY <2>1, <2>2
<1>2. ASSUME list[i].type = "LPAREN_TOK"
      PROVE  IsDeclarator(list, Derived(list), name, i, j, t) <=>
                     /\ i + 1 \in Positions(list) /\ list[i + 1].type = "RPAREN_TOK" /\ i + 2 \in Positions(list)
                     /\ IsBody(list, Derived(list), name, i + 2, j, t)
  <2>1. IsBody(list, Derived(list), name, i + 2, j, t) => j > i + 2
    <3>1. i + 2 \in Int
      BY <1>0
    <3> QED BY <3>1, BodyMoves
  <2>2. Is(list, i + 1, "RPAREN_TOK") <=> i + 1 \in Positions(list) /\ list[i + 1].type = "RPAREN_TOK"
    BY <1>0 DEF Is
  <2>3. i + 1 \in Positions(list) /\ list[i + 1].type = "RPAREN_TOK" => i + 2 \in Positions(list)
    <3>1. i + 1 \in Positions(list) /\ list[i + 1].type = "RPAREN_TOK" => i + 1 + 1 \in Positions(list)
      BY PlaceBehind
    <3>2. i + 1 + 1 = i + 2
      BY <1>0
    <3> QED BY <3>1, <3>2
  <2> HIDE DEF Valued
  <2> QED BY <1>1, <1>2, <2>1, <2>2, <2>3
<1>3. ASSUME list[i].type = "ASSIGN_TOK"
      PROVE  IsDeclarator(list, Derived(list), name, i, j, t) <=>
                     \E k \in Positions(list) : \E e \in Tables : InitialTo(list, name, i, j, t, k, e)
  <2>0. i + 1 \in Positions(list)
    BY <1>3, PlaceBehind
  <2>1. \A e : Is(list, j - 1, "SCOL_TOK") /\ i + 1 < j /\ e \in From(list, "expr", i + 1, j - 1) <=>
              \E k \in Positions(list) : MakesExpr(list, i + 1, k, e) /\ list[k].type = "SCOL_TOK" /\ j = k + 1
    BY <2>0, Value
  <2>2. \A k \in Positions(list) : \A e : MakesExpr(list, i + 1, k, e) => e \in Tables
    BY <2>0, ExprMoves
  <2>3. j > i + 1 <=> i + 1 < j
    BY <1>0
  <2>4. IsDeclarator(list, Derived(list), name, i, j, t) <=>
           \E e : /\ Is(list, j - 1, "SCOL_TOK") /\ i + 1 < j /\ e \in From(list, "expr", i + 1, j - 1)
                  /\ t = Over(Named("DECL_STAT", name), <<e>>)
    <3>1. IsDeclarator(list, Derived(list), name, i, j, t) <=> i + 1 < j /\ Is(list, j - 1, "SCOL_TOK") /\ Valued
      <4> HIDE DEF Valued
      <4> QED BY <1>1, <1>3, <2>3
    <3> QED BY <3>1
  <2> QED BY <2>0, <2>1, <2>2, <2>4 DEF InitialTo
<1>4. ASSUME list[i].type \notin {"LPAREN_TOK", "ASSIGN_TOK"}
      PROVE  IsDeclarator(list, Derived(list), name, i, j, t) <=>
                     list[i].type = "SCOL_TOK" /\ j = i + 1 /\ t = <<Named("DECL_STAT", name)>>
  <2> HIDE DEF Valued
  <2> QED BY <1>1, <1>4
<1> QED BY <1>2, <1>3, <1>4

\* What follows the parentheses of a function.
LEMMA BodyIs ==
    ASSUME NEW list, IsTokenList(list), NEW i \in Positions(list), NEW j \in Positions(list), NEW t, NEW name
    PROVE  /\ list[i].type = "LBRACE_TOK" =>
                 (IsBody(list, Derived(list), name, i, j, t) <=>
                     \E k \in Positions(list) : \E b \in Tables : BodyTo(list, name, i, j, t, k, b))
           /\ list[i].type # "LBRACE_TOK" =>
                 (IsBody(list, Derived(list), name, i, j, t) <=>
                     list[i].type = "SCOL_TOK" /\ j = i + 1 /\ t = <<FuncDecl(name)>>)
<1>0. Positions(list) \subseteq Int /\ DOMAIN list = Positions(list) /\ i \in DOMAIN list
  BY ListPlaces
<1>1. Is(list, i, "SCOL_TOK") <=> list[i].type = "SCOL_TOK"
  BY <1>0 DEF Is
<1>2. \A b : IsBlocks(list, Derived(list), i, j, b) <=>
              \E k \in Positions(list) :
                 /\ list[i].type = "LBRACE_TOK" /\ i + 1 \in Positions(list)
                 /\ Turned(list, "stats", i + 1, Over(Plain("BLOCK_STAT"), <<>>), k, b)
                 /\ j = k + 1
  BY BlocksIs
<1>3. \A b : IsBlocks(list, Derived(list), i, j, b) => b \in Tables
  <2> SUFFICES ASSUME NEW b, IsBlocks(list, Derived(list), i, j, b)
               PROVE  b \in Tables
    OBVIOUS
  <2>1. PICK s \in From(list, "stats", i + 1, j - 1) : b = Over(Plain("BLOCK_STAT"), s)
    BY DEF IsBlocks, From
  <2>2. i + 1 \in Positions(list)
    BY <1>2
  <2>3. j - 1 \in Positions(list)
    BY <1>0 DEF IsBlocks, Is
  <2>4. s \in Seq(Tables)
    BY <2>2, <2>3, StatsTables
  <2> QED BY <2>1, <2>4, OverTable, StatementLeaves
<1>4. IsBody(list, Derived(list), name, i, j, t) <=>
         \/ j = i + 1 /\ list[i].type = "SCOL_TOK" /\ t = <<FuncDecl(name)>>
         \/ \E b : IsBlocks(list, Derived(list), i, j, b) /\ t = Over(FuncDecl(name), <<b>>)
  BY <1>1 DEF IsBody
<1> QED BY <1>2, <1>3, <1>4 DEF BodyTo

-----------------------------------------------------------------------------
(* Expressions, from the left. *)

\* An operator and its right operand, where there is one.
Extended(list, opOf, makes(_, _, _, _), k, l, j, t) ==
    IF Ahead(list, k, opOf)
    THEN \E r \in Tables : makes(list, k + 1, j, r) /\ t = Over(BinOp(opOf[list[k].type]), <<l, r>>)
    ELSE j = k /\ t = l

\* Behind an operator there is a place.
LEMMA AheadPlace ==
    ASSUME NEW list, IsTokenList(list), NEW k \in Positions(list),
           Ahead(list, k, ExprOpOf) \/ Ahead(list, k, TermOpOf) \/ Ahead(list, k, FactorOpOf)
    PROVE  /\ k + 1 \in Positions(list) /\ NoCall(list, k)
           /\ Ahead(list, k, ExprOpOf) => ~Ahead(list, k, TermOpOf) /\ ~Ahead(list, k, FactorOpOf)
           /\ Ahead(list, k, TermOpOf) => ~Ahead(list, k, FactorOpOf)
<1>1. list[k].type # "PROGRAM_END_TOK"
  BY AheadTypes
<1> QED BY <1>1, PlaceBehind, AheadTypes DEF NoCall, Is

\* An expression is a sum, or a comparison or an assignment of two.
LEMMA ExprMakes ==
    ASSUME NEW list, IsTokenList(list), NEW i \in Positions(list), NEW j \in Positions(list), NEW t \in Tables
    PROVE  MakesExpr(list, i, j, t) <=>
              \E k \in Positions(list) : \E l \in Tables :
                 MakesSum(list, i, k, l) /\ Extended(list, ExprOpOf, MakesSum, k, l, j, t)
<1>0. Positions(list) \subseteq Int /\ "sum" \in Parts \ {"stats"}
  BY ListPlaces DEF Parts
<1>1. ASSUME MakesExpr(list, i, j, t)
      PROVE  \E k \in Positions(list) : \E l \in Tables :
                MakesSum(list, i, k, l) /\ Extended(list, ExprOpOf, MakesSum, k, l, j, t)
  <2>1. CASE t \in From(list, "sum", i, j) /\ ~Ahead(list, j, ExprOpOf)
    <3>1. MakesSum(list, i, j, t)
      BY <1>1, <2>1 DEF MakesExpr, MakesSum
    <3>2. Extended(list, ExprOpOf, MakesSum, j, t, j, t)
      BY <2>1 DEF Extended
    <3> QED BY <3>1, <3>2
  <2>2. CASE IsBinary(list, Derived(list), ExprOpOf, "sum", "sum", i, j, t)
    <3>1. PICK k \in Positions(list), l \in Tables, r \in Tables :
             Splits(list, ExprOpOf, "sum", "sum", i, j, t, k, l, r)
      BY <1>0, <2>2, BinaryIs
    <3>2. /\ Ahead(list, k, ExprOpOf) /\ l \in From(list, "sum", i, k) /\ r \in From(list, "sum", k + 1, j)
          /\ t = Over(BinOp(ExprOpOf[list[k].type]), <<l, r>>)
      BY <3>1 DEF Splits
    <3>3. MakesSum(list, i, k, l)
      BY <3>2, AheadPlace DEF MakesSum
    <3>4. MakesSum(list, k + 1, j, r)
      BY <1>1, <3>2 DEF MakesSum, MakesExpr
    <3>5. Extended(list, ExprOpOf, MakesSum, k, l, j, t)
      BY <3>2, <3>4 DEF Extended
    <3> QED BY <3>3, <3>5
  <2> QED BY <1>1, <2>1, <2>2 DEF MakesExpr
<1>2. ASSUME NEW k \in Positions(list), NEW l \in Tables,
             MakesSum(list, i, k, l), Extended(list, ExprOpOf, MakesSum, k, l, j, t)
      PROVE  MakesExpr(list, i, j, t)
  <2>1. CASE Ahead(list, k, ExprOpOf)
    <3>1. PICK r \in Tables : MakesSum(list, k + 1, j, r) /\ t = Over(BinOp(ExprOpOf[list[k].type]), <<l, r>>)
      BY <1>2, <2>1 DEF Extended
    <3>2. k + 1 \in Positions(list)
      BY <2>1, AheadPlace
    <3>3. l \in From(list, "sum", i, k) /\ r \in From(list, "sum", k + 1, j)
      BY <1>2, <3>1 DEF MakesSum
    <3>4. i < k /\ k + 1 < j
      BY <1>2, <3>2, <3>3, ExprIs
    <3>5. Splits(list, ExprOpOf, "sum", "sum", i, j, t, k, l, r)
      BY <2>1, <3>1, <3>3, <3>4 DEF Splits
    <3>6. IsBinary(list, Derived(list), ExprOpOf, "sum", "sum", i, j, t)
      BY <1>0, <1>2, <3>5, BinaryIs
    <3> QED BY <3>1, <3>6 DEF MakesExpr, MakesSum
  <2>2. CASE ~Ahead(list, k, ExprOpOf)
    <3>1. j = k /\ t = l
      BY <1>2, <2>2 DEF Extended
    <3> QED BY <1>2, <2>2, <3>1 DEF MakesExpr, MakesSum
  <2> QED BY <2>1, <2>2
<1> QED BY <1>1, <1>2

\* A term is a factor, or a product of a factor and a term.
LEMMA TermMakes ==
    ASSUME NEW list, IsTokenList(list), NEW i \in Positions(list), NEW j \in Positions(list), NEW t \in Tables
    PROVE  MakesTerm(list, i, j, t) <=>
              \E k \in Positions(list) : \E l \in Tables :
                 MakesFactor(list, i, k, l) /\ Extended(list, FactorOpOf, MakesTerm, k, l, j, t)
<1>0. Positions(list) \subseteq Int /\ "factor" \in Parts \ {"stats"} /\ "product" \in Parts \ {"stats"}
  BY ListPlaces DEF Parts
<1>1. ASSUME MakesTerm(list, i, j, t)
      PROVE  \E k \in Positions(list) : \E l \in Tables :
                MakesFactor(list, i, k, l) /\ Extended(list, FactorOpOf, MakesTerm, k, l, j, t)
  <2>1. CASE t \in From(list, "factor", i, j)
    <3>1. MakesFactor(list, i, j, t)
      BY <1>1, <2>1 DEF MakesTerm, MakesFactor
    <3>2. Extended(list, FactorOpOf, MakesTerm, j, t, j, t)
      BY <1>1 DEF Extended, MakesTerm
    <3> QED BY <3>1, <3>2
  <2>2. CASE IsBinary(list, Derived(list), FactorOpOf, "factor", "product", i, j, t)
    <3>1. PICK k \in Positions(list), l \in Tables, r \in Tables :
             Splits(list, FactorOpOf, "factor", "product", i, j, t, k, l, r)
      BY <1>0, <2>2, BinaryIs
    <3>2. /\ Ahead(list, k, FactorOpOf) /\ l \in From(list, "factor", i, k) /\ r \in From(list, "product", k + 1, j)
          /\ t = Over(BinOp(FactorOpOf[list[k].type]), <<l, r>>)
      BY <3>1 DEF Splits
    <3>3. MakesFactor(list, i, k, l)
      BY <3>2, AheadPlace DEF MakesFactor
    <3>4. MakesTerm(list, k + 1, j, r)
      BY <1>1, <3>2 DEF MakesTerm
    <3>5. Extended(list, FactorOpOf, MakesTerm, k, l, j, t)
      BY <3>2, <3>4 DEF Extended
    <3> QED BY <3>3, <3>5
  <2> QED BY <1>1, <2>1, <2>2, ExprIs DEF MakesTerm
<1>2. ASSUME NEW k \in Positions(list), NEW l \in Tables,
             MakesFactor(list, i, k, l), Extended(list, FactorOpOf, MakesTerm, k, l, j, t)
      PROVE  MakesTerm(list, i, j, t)
  <2>0. i < k /\ l \in From(list, "factor", i, k) /\ l \in From(list, "product", i, k)
    BY <1>2, ExprIs DEF MakesFactor
  <2>1. CASE Ahead(list, k, FactorOpOf)
    <3>1. PICK r \in Tables : MakesTerm(list, k + 1, j, r) /\ t = Over(BinOp(FactorOpOf[list[k].type]), <<l, r>>)
      BY <1>2, <2>1 DEF Extended
    <3>2. k + 1 \in Positions(list)
      BY <2>1, AheadPlace
    <3>3. r \in From(list, "product", k + 1, j)
      BY <3>1 DEF MakesTerm
    <3>4. k + 1 < j
      BY <3>2, <3>3, ExprIs
    <3>5. Splits(list, FactorOpOf, "factor", "product", i, j, t, k, l, r)
      BY <2>0, <2>1, <3>1, <3>3, <3>4 DEF Splits
    <3>6. IsBinary(list, Derived(list), FactorOpOf, "factor", "product", i, j, t)
      BY <1>0, <1>2, <3>5, BinaryIs
    <3>7. i < j
      BY <1>0, <1>2, <2>0, <3>2, <3>4
    <3> QED BY <3>1, <3>6, <3>7, ExprIs DEF MakesTerm
  <2>2. CASE ~Ahead(list, k, FactorOpOf)
    <3>1. j = k /\ t = l
      BY <1>2, <2>2 DEF Extended
    <3> QED BY <1>2, <2>0, <2>2, <3>1 DEF MakesTerm, MakesFactor
  <2> QED BY <2>1, <2>2
<1> QED BY <1>1, <1>2

\* A factor, by its first token.
LEMMA FactorIs ==
    ASSUME NEW list, IsTokenList(list), NEW i \in Positions(list), NEW j \in Positions(list), NEW t
    PROVE  /\ list[i].type = "LPAREN_TOK" =>
                 (MakesFactor(list, i, j, t) <=>
                     \E k \in Positions(list) :
                        i + 1 \in Positions(list) /\ MakesExpr(list, i + 1, k, t)
                        /\ list[k].type = "RPAREN_TOK" /\ j = k + 1)
           /\ list[i].type = "IDENT_TOK" =>
                 (MakesFactor(list, i, j, t) <=>
                     IF list[i + 1].type = "LPAREN_TOK"
                     THEN /\ i + 2 \in Positions(list) /\ list[i + 2].type = "RPAREN_TOK" /\ j = i + 3
                          /\ t = <<Named("FUNC_CALL", list[i].name)>>
                     ELSE j = i + 1 /\ t = <<Named("VAR_REF", list[i].name)>>)
           /\ list[i].type = "INT_LIT_TOK" => (MakesFactor(list, i, j, t) <=> j = i + 1 /\ t = <<IntLit(list[i].ival)>>)
           /\ list[i].type \notin {"LPAREN_TOK", "IDENT_TOK", "INT_LIT_TOK"} => ~MakesFactor(list, i, j, t)
<1>0. Positions(list) \subseteq Int /\ DOMAIN list = Positions(list)
  BY ListPlaces
<1>1. \A type : Is(list, i, type) <=> list[i].type = type
  BY <1>0 DEF Is
<1>2. MakesFactor(list, i, j, t) <=> i < j /\ IsFactor(list, Derived(list), i, j, t) /\ NoCall(list, j)
  BY ExprIs DEF MakesFactor
<1>3. IsFactor(list, Derived(list), i, j, t) <=>
         \/ j = i + 1 /\ list[i].type = "INT_LIT_TOK" /\ t = <<IntLit(list[i].ival)>>
         \/ j = i + 1 /\ list[i].type = "IDENT_TOK" /\ t = <<Named("VAR_REF", list[i].name)>>
         \/ /\ j = i + 3 /\ list[i].type = "IDENT_TOK"
            /\ Is(list, i + 1, "LPAREN_TOK") /\ Is(list, i + 2, "RPAREN_TOK")
            /\ t = <<Named("FUNC_CALL", list[i].name)>>
         \/ /\ j >= i + 3 /\ list[i].type = "LPAREN_TOK" /\ Is(list, j - 1, "RPAREN_TOK")
            /\ t \in From(list, "expr", i + 1, j - 1)
  BY <1>1, Zenon DEF IsFactor, From
<1>4. ASSUME list[i].type = "LPAREN_TOK"
      PROVE  MakesFactor(list, i, j, t) <=>
                     \E k \in Positions(list) :
                        i + 1 \in Positions(list) /\ MakesExpr(list, i + 1, k, t)
                        /\ list[k].type = "RPAREN_TOK" /\ j = k + 1
  <2>1. i + 1 \in Positions(list)
    BY <1>4, PlaceBehind
  <2>2. MakesFactor(list, i, j, t) <=>
           /\ i < j /\ NoCall(list, j) /\ j >= i + 3 /\ Is(list, j - 1, "RPAREN_TOK")
           /\ t \in From(list, "expr", i + 1, j - 1)
    BY <1>2, <1>3, <1>4
  <2>3. ASSUME MakesFactor(list, i, j, t)
        PROVE  j - 1 \in Positions(list) /\ MakesExpr(list, i + 1, j - 1, t)
                /\ list[j - 1].type = "RPAREN_TOK" /\ j = j - 1 + 1
    <3>1. j - 1 \in Positions(list) /\ list[j - 1].type = "RPAREN_TOK"
      BY <1>0, <2>2, <2>3 DEF Is
    <3> QED BY <1>0, <2>1, <2>2, <2>3, <3>1, ExprBefore
  <2>4. ASSUME NEW k \in Positions(list), MakesExpr(list, i + 1, k, t), list[k].type = "RPAREN_TOK", j = k + 1
        PROVE  MakesFactor(list, i, j, t)
    <3>1. i + 1 < k /\ t \in From(list, "expr", i + 1, k)
      BY <2>1, <2>4, ExprMoves
    <3>2. j - 1 = k /\ i < j /\ j >= i + 3
      BY <1>0, <2>4, <3>1
    <3>3. NoCall(list, j)
      BY <2>4, <3>2 DEF NoCall, Is
    <3> QED BY <1>0, <2>2, <2>4, <3>1, <3>2, <3>3 DEF Is
  <2> QED BY <2>1, <2>3, <2>4
<1>5. ASSUME list[i].type = "IDENT_TOK"
      PROVE  MakesFactor(list, i, j, t) <=>
                     IF list[i + 1].type = "LPAREN_TOK"
                     THEN /\ i + 2 \in Positions(list) /\ list[i + 2].type = "RPAREN_TOK" /\ j = i + 3
                          /\ t = <<Named("FUNC_CALL", list[i].name)>>
                     ELSE j = i + 1 /\ t = <<Named("VAR_REF", list[i].name)>>
  <2>1. i + 1 \in Positions(list) /\ i + 1 \in DOMAIN list
    BY <1>0, <1>5, PlaceBehind
  <2>2. MakesFactor(list, i, j, t) <=>
           /\ i < j /\ NoCall(list, j)
           /\ \/ j = i + 1 /\ t = <<Named("VAR_REF", list[i].name)>>
              \/ /\ j = i + 3 /\ Is(list, i + 1, "LPAREN_TOK") /\ Is(list, i + 2, "RPAREN_TOK")
                 /\ t = <<Named("FUNC_CALL", list[i].name)>>
    BY <1>2, <1>3, <1>5
  <2>3. j = i + 1 => i < j /\ (NoCall(list, j) <=> list[i + 1].type # "LPAREN_TOK")
    <3>1. i + 1 - 1 = i
      BY <1>0
    <3> QED BY <1>0, <1>1, <1>5, <2>1, <3>1 DEF NoCall, Is
  <2>4. j = i + 3 /\ Is(list, i + 2, "RPAREN_TOK") => i < j /\ NoCall(list, j)
    <3>1. i + 3 - 1 = i + 2
      BY <1>0
    <3> QED BY <1>0, <3>1 DEF NoCall, Is
  <2>5. Is(list, i + 1, "LPAREN_TOK") <=> list[i + 1].type = "LPAREN_TOK"
    BY <2>1 DEF Is
  <2>6. Is(list, i + 2, "RPAREN_TOK") <=> i + 2 \in Positions(list) /\ list[i + 2].type = "RPAREN_TOK"
    BY <1>0 DEF Is
  <2>7. i + 1 # i + 3
    BY <1>0
  <2> QED BY <2>2, <2>3, <2>4, <2>5, <2>6, <2>7
<1>6. ASSUME list[i].type = "INT_LIT_TOK"
      PROVE  MakesFactor(list, i, j, t) <=> j = i + 1 /\ t = <<IntLit(list[i].ival)>>
  <2>1. j = i + 1 => i < j /\ NoCall(list, j)
    <3>1. i + 1 - 1 = i
      BY <1>0
    <3> QED BY <1>0, <1>1, <1>6, <3>1 DEF NoCall
  <2> QED BY <1>2, <1>3, <1>6, <2>1
<1>7. list[i].type \notin {"LPAREN_TOK", "IDENT_TOK", "INT_LIT_TOK"} => ~MakesFactor(list, i, j, t)
  BY <1>2, <1>3
<1> QED BY <1>4, <1>5, <1>6, <1>7

-----------------------------------------------------------------------------
(* What parse_stat unfolds into makes the statement: if, while, for, a block. *)

\* parse_stat: while.
LEMMA WhileMeets ==
    ASSUME NEW list, NEW old, NEW new, NEW T, old[1].do = "stat",
           Unfolded(list, old, new, <<Match("WHILE_TOK"), Match("LPAREN_TOK"), Parse("expr"),
                                      Match("RPAREN_TOK"), Parse("stat"),
                                      Make(Plain("WHILE_STAT"), 2)>>),
           NEW i \in Positions(list), NEW s \in Stacks, list[i].type = "WHILE_TOK"
    PROVE  Meets(list, old, 1, i, s, T) <=> Meets(list, new, 1, i, s, T)
<1> DEFINE t1 == Match("WHILE_TOK")
           t2 == Match("LPAREN_TOK")
           t3 == Parse("expr")
           t4 == Match("RPAREN_TOK")
           t5 == Parse("stat")
           t6 == Make(Plain("WHILE_STAT"), 2)
           news == <<t1, t2, t3, t4, t5, t6>>
           M(n, a, r) == Meets(list, new, n, a, r, T)
           K(a, r) == Meets(list, old, 2, a, r, T)
<1>a. Unfolded(list, old, new, news) /\ IsTokenList(list)
  BY DEF Unfolded
<1>b. /\ 1 \in 1 .. Len(news) /\ 2 \in 1 .. Len(news) /\ 3 \in 1 .. Len(news) /\ 4 \in 1 .. Len(news) /\ 5 \in 1 .. Len(news) /\ 6 \in 1 .. Len(news)
      /\ news[1] = t1 /\ news[2] = t2 /\ news[3] = t3 /\ news[4] = t4 /\ news[5] = t5 /\ news[6] = t6 /\ Len(news) + 1 = 7
      /\ 2 = 1 + 1 /\ 3 = 2 + 1 /\ 4 = 3 + 1 /\ 5 = 4 + 1 /\ 6 = 5 + 1 /\ 7 = 6 + 1
  <2> HIDE DEF t1, t2, t3, t4, t5, t6
  <2> QED OBVIOUS
<1> HIDE DEF news
<1>c. \A a, r : M(7, a, r) <=> K(a, r)
  <2>1. \A a, r : Meets(list, new, Len(news) + 1, a, r, T) <=> K(a, r)
    BY <1>a, AtEnd
  <2> QED BY <1>b, <2>1
<1>t1. \A a \in Positions(list) : \A r \in Stacks :
         M(1, a, r) <=> list[a].type = "WHILE_TOK" /\ a + 1 \in Positions(list) /\ M(2, a + 1, r)
  <2>1. Checks(list, new, 1, "WHILE_TOK", T)
    BY <1>a, <1>b, Matched, AtMatch
  <2>2. \A j, r : Meets(list, new, 1 + 1, j, r, T) <=> M(2, j, r)
    BY <1>b
  <2>3. \A a, r : Meets(list, new, 1, a, r, T) <=> M(1, a, r)
    OBVIOUS
  <2> HIDE DEF M
  <2> QED BY <2>1, <2>2, <2>3, Zenon DEF Checks
<1>t2. \A a \in Positions(list) : \A r \in Stacks :
         M(2, a, r) <=> list[a].type = "LPAREN_TOK" /\ a + 1 \in Positions(list) /\ M(3, a + 1, r)
  <2>1. Checks(list, new, 2, "LPAREN_TOK", T)
    BY <1>a, <1>b, Matched, AtMatch
  <2>2. \A j, r : Meets(list, new, 2 + 1, j, r, T) <=> M(3, j, r)
    BY <1>b
  <2>3. \A a, r : Meets(list, new, 2, a, r, T) <=> M(2, a, r)
    OBVIOUS
  <2> HIDE DEF M
  <2> QED BY <2>1, <2>2, <2>3, Zenon DEF Checks
<1>t3. \A a \in Positions(list) : \A r \in Stacks :
         M(3, a, r) <=> \E j \in Positions(list) : \E t \in Tables :
                           MakesExpr(list, a, j, t) /\ M(4, j, Append(r, t))
  <2>1. Begins(list, new, 3, MakesExpr, T)
    BY <1>a, <1>b, AtMaker
  <2>2. \A j, r : Meets(list, new, 3 + 1, j, r, T) <=> M(4, j, r)
    BY <1>b
  <2>3. \A a, r : Meets(list, new, 3, a, r, T) <=> M(3, a, r)
    OBVIOUS
  <2> HIDE DEF M
  <2> QED BY <2>1, <2>2, <2>3, Zenon DEF Begins
<1>t4. \A a \in Positions(list) : \A r \in Stacks :
         M(4, a, r) <=> list[a].type = "RPAREN_TOK" /\ a + 1 \in Positions(list) /\ M(5, a + 1, r)
  <2>1. Checks(list, new, 4, "RPAREN_TOK", T)
    BY <1>a, <1>b, Matched, AtMatch
  <2>2. \A j, r : Meets(list, new, 4 + 1, j, r, T) <=> M(5, j, r)
    BY <1>b
  <2>3. \A a, r : Meets(list, new, 4, a, r, T) <=> M(4, a, r)
    OBVIOUS
  <2> HIDE DEF M
  <2> QED BY <2>1, <2>2, <2>3, Zenon DEF Checks
<1>t5. \A a \in Positions(list) : \A r \in Stacks :
         M(5, a, r) <=> \E j \in Positions(list) : \E t \in Tables :
                           MakesStat(list, a, j, t) /\ M(6, j, Append(r, t))
  <2>1. Begins(list, new, 5, MakesStat, T)
    BY <1>a, <1>b, AtMaker
  <2>2. \A j, r : Meets(list, new, 5 + 1, j, r, T) <=> M(6, j, r)
    BY <1>b
  <2>3. \A a, r : Meets(list, new, 5, a, r, T) <=> M(5, a, r)
    OBVIOUS
  <2> HIDE DEF M
  <2> QED BY <2>1, <2>2, <2>3, Zenon DEF Begins
<1>t6. \A a \in Positions(list) : \A r \in Stacks : \A c \in Tables : \A d \in Tables :
         /\ Over(Plain("WHILE_STAT"), <<c, d>>) \in Tables
         /\ M(6, a, Append(Append(r, c), d)) <=> M(7, a, Append(r, Over(Plain("WHILE_STAT"), <<c, d>>)))
  <2>1. Creates2(list, new, 6, Plain("WHILE_STAT"), T)
    BY <1>a, <1>b, StatementLeaves, AtMake2
  <2>2. \A j, r : Meets(list, new, 6 + 1, j, r, T) <=> M(7, j, r)
    BY <1>b
  <2>3. \A a, r : Meets(list, new, 6, a, r, T) <=> M(6, a, r)
    OBVIOUS
  <2> HIDE DEF M
  <2> QED BY <2>1, <2>2, <2>3, Zenon DEF Creates2
<1>d. \A t \in Tables : Append(s, t) \in Stacks
  BY AppendProperties DEF Stacks
<1>e. Meets(list, old, 1, i, s, T) <=>
         \E j \in Positions(list) : \E t \in Tables : MakesStat(list, i, j, t) /\ K(j, Append(s, t))
  <2>1. Begins(list, old, 1, MakesStat, T) /\ 1 + 1 = 2
    BY <1>a, OldBegins
  <2>2. \A j, r : Meets(list, old, 1 + 1, j, r, T) <=> K(j, r)
    BY <2>1
  <2> HIDE DEF K
  <2> QED BY <2>1, <2>2, Zenon DEF Begins
<1> HIDE DEF M, K
<1>0. i + 1 + 1 = i + 2
  BY DEF Positions
<1>1. ASSUME Meets(list, old, 1, i, s, T)
      PROVE  M(1, i, s)
  <2>1. PICK j \in Positions(list), t \in Tables : MakesStat(list, i, j, t) /\ K(j, Append(s, t))
    BY <1>e, <1>1
  <2>2. PICK k \in Positions(list), c \in Tables, b \in Tables :
             /\ Condition(list, i, k, c) /\ MakesStat(list, k + 1, j, b)
             /\ t = Over(Plain("WHILE_STAT"), <<c, b>>)
    BY <1>a, <2>1, WhileIs
  <2>3. M(6, j, Append(Append(s, c), b))
    BY <1>c, <1>t6, <2>1, <2>2
  <2>4. M(4, k, Append(s, c))
    BY <1>d, <1>t4, <1>t5, <2>2, <2>3 DEF Condition
  <2>5. M(2, i + 1, s)
    BY <1>0, <1>t2, <1>t3, <2>2, <2>4 DEF Condition
  <2> QED BY <1>t1, <2>2, <2>5 DEF Condition
<1>2. ASSUME M(1, i, s)
      PROVE  Meets(list, old, 1, i, s, T)
  <2>1. i + 1 \in Positions(list) /\ list[i + 1].type = "LPAREN_TOK" /\ i + 2 \in Positions(list) /\ M(3, i + 2, s)
    BY <1>0, <1>t1, <1>t2, <1>2
  <2>2. PICK k \in Positions(list), c \in Tables : MakesExpr(list, i + 2, k, c) /\ M(4, k, Append(s, c))
    BY <1>t3, <2>1
  <2>3. list[k].type = "RPAREN_TOK" /\ k + 1 \in Positions(list) /\ M(5, k + 1, Append(s, c))
    BY <1>d, <1>t4, <2>2
  <2>4. PICK j \in Positions(list), b \in Tables : MakesStat(list, k + 1, j, b) /\ M(6, j, Append(Append(s, c), b))
    BY <1>d, <1>t5, <2>3
  <2>5. PICK t \in Tables : t = Over(Plain("WHILE_STAT"), <<c, b>>) /\ K(j, Append(s, t))
    BY <1>c, <1>t6, <2>4
  <2>6. Condition(list, i, k, c)
    BY <2>1, <2>2, <2>3 DEF Condition
  <2>7. MakesStat(list, i, j, t)
    BY <1>a, <2>4, <2>5, <2>6, WhileIs
  <2> QED BY <1>e, <2>5, <2>7
<1> QED BY <1>1, <1>2 DEF M

\* parse_stat: if.
LEMMA IfMeets ==
    ASSUME NEW list, NEW old, NEW new, NEW T, old[1].do = "stat",
           Unfolded(list, old, new, <<Match("IF_TOK"), Match("LPAREN_TOK"), Parse("expr"),
                                      Match("RPAREN_TOK"), Parse("stat"), Parse("else")>>),
           NEW i \in Positions(list), NEW s \in Stacks, list[i].type = "IF_TOK"
    PROVE  Meets(list, old, 1, i, s, T) <=> Meets(list, new, 1, i, s, T)
<1> DEFINE t1 == Match("IF_TOK")
           t2 == Match("LPAREN_TOK")
           t3 == Parse("expr")
           t4 == Match("RPAREN_TOK")
           t5 == Parse("stat")
           t6 == Parse("else")
           news == <<t1, t2, t3, t4, t5, t6>>
           M(n, a, r) == Meets(list, new, n, a, r, T)
           K(a, r) == Meets(list, old, 2, a, r, T)
<1>a. Unfolded(list, old, new, news) /\ IsTokenList(list)
  BY DEF Unfolded
<1>b. /\ 1 \in 1 .. Len(news) /\ 2 \in 1 .. Len(news) /\ 3 \in 1 .. Len(news) /\ 4 \in 1 .. Len(news) /\ 5 \in 1 .. Len(news) /\ 6 \in 1 .. Len(news)
      /\ news[1] = t1 /\ news[2] = t2 /\ news[3] = t3 /\ news[4] = t4 /\ news[5] = t5 /\ news[6] = t6 /\ Len(news) + 1 = 7
      /\ 2 = 1 + 1 /\ 3 = 2 + 1 /\ 4 = 3 + 1 /\ 5 = 4 + 1 /\ 6 = 5 + 1 /\ 7 = 6 + 1
  <2> HIDE DEF t1, t2, t3, t4, t5, t6
  <2> QED OBVIOUS
<1> HIDE DEF news
<1>c. \A a, r : M(7, a, r) <=> K(a, r)
  <2>1. \A a, r : Meets(list, new, Len(news) + 1, a, r, T) <=> K(a, r)
    BY <1>a, AtEnd
  <2> QED BY <1>b, <2>1
<1>t1. \A a \in Positions(list) : \A r \in Stacks :
         M(1, a, r) <=> list[a].type = "IF_TOK" /\ a + 1 \in Positions(list) /\ M(2, a + 1, r)
  <2>1. Checks(list, new, 1, "IF_TOK", T)
    BY <1>a, <1>b, Matched, AtMatch
  <2>2. \A j, r : Meets(list, new, 1 + 1, j, r, T) <=> M(2, j, r)
    BY <1>b
  <2>3. \A a, r : Meets(list, new, 1, a, r, T) <=> M(1, a, r)
    OBVIOUS
  <2> HIDE DEF M
  <2> QED BY <2>1, <2>2, <2>3, Zenon DEF Checks
<1>t2. \A a \in Positions(list) : \A r \in Stacks :
         M(2, a, r) <=> list[a].type = "LPAREN_TOK" /\ a + 1 \in Positions(list) /\ M(3, a + 1, r)
  <2>1. Checks(list, new, 2, "LPAREN_TOK", T)
    BY <1>a, <1>b, Matched, AtMatch
  <2>2. \A j, r : Meets(list, new, 2 + 1, j, r, T) <=> M(3, j, r)
    BY <1>b
  <2>3. \A a, r : Meets(list, new, 2, a, r, T) <=> M(2, a, r)
    OBVIOUS
  <2> HIDE DEF M
  <2> QED BY <2>1, <2>2, <2>3, Zenon DEF Checks
<1>t3. \A a \in Positions(list) : \A r \in Stacks :
         M(3, a, r) <=> \E j \in Positions(list) : \E t \in Tables :
                           MakesExpr(list, a, j, t) /\ M(4, j, Append(r, t))
  <2>1. Begins(list, new, 3, MakesExpr, T)
    BY <1>a, <1>b, AtMaker
  <2>2. \A j, r : Meets(list, new, 3 + 1, j, r, T) <=> M(4, j, r)
    BY <1>b
  <2>3. \A a, r : Meets(list, new, 3, a, r, T) <=> M(3, a, r)
    OBVIOUS
  <2> HIDE DEF M
  <2> QED BY <2>1, <2>2, <2>3, Zenon DEF Begins
<1>t4. \A a \in Positions(list) : \A r \in Stacks :
         M(4, a, r) <=> list[a].type = "RPAREN_TOK" /\ a + 1 \in Positions(list) /\ M(5, a + 1, r)
  <2>1. Checks(list, new, 4, "RPAREN_TOK", T)
    BY <1>a, <1>b, Matched, AtMatch
  <2>2. \A j, r : Meets(list, new, 4 + 1, j, r, T) <=> M(5, j, r)
    BY <1>b
  <2>3. \A a, r : Meets(list, new, 4, a, r, T) <=> M(4, a, r)
    OBVIOUS
  <2> HIDE DEF M
  <2> QED BY <2>1, <2>2, <2>3, Zenon DEF Checks
<1>t5. \A a \in Positions(list) : \A r \in Stacks :
         M(5, a, r) <=> \E j \in Positions(list) : \E t \in Tables :
                           MakesStat(list, a, j, t) /\ M(6, j, Append(r, t))
  <2>1. Begins(list, new, 5, MakesStat, T)
    BY <1>a, <1>b, AtMaker
  <2>2. \A j, r : Meets(list, new, 5 + 1, j, r, T) <=> M(6, j, r)
    BY <1>b
  <2>3. \A a, r : Meets(list, new, 5, a, r, T) <=> M(5, a, r)
    OBVIOUS
  <2> HIDE DEF M
  <2> QED BY <2>1, <2>2, <2>3, Zenon DEF Begins
<1>t6. \A a \in Positions(list) : \A r \in Stacks : \A c \in Tables : \A d \in Tables :
         /\ list[a].type = "ELSE_TOK" =>
               (M(6, a, Append(Append(r, c), d)) <=>
                   \E j \in Positions(list) : \E f \in Tables :
                      MakesStat(list, a + 1, j, f)
                      /\ M(7, j, Append(r, Over(Plain("IF_STAT"), <<c, d, f>>))))
         /\ list[a].type # "ELSE_TOK" =>
               (M(6, a, Append(Append(r, c), d)) <=> M(7, a, Append(r, Over(Plain("IF_STAT"), <<c, d>>))))
  <2>1. Chooses(list, new, 6, T)
    BY <1>a, <1>b, AtRest
  <2>2. \A j, r : Meets(list, new, 6 + 1, j, r, T) <=> M(7, j, r)
    BY <1>b
  <2>3. \A a, r : Meets(list, new, 6, a, r, T) <=> M(6, a, r)
    OBVIOUS
  <2> HIDE DEF M
  <2> TAKE a \in Positions(list)
  <2> TAKE r \in Stacks
  <2> TAKE c \in Tables
  <2> TAKE d \in Tables
  <2>4. CASE list[a].type = "ELSE_TOK"
    <3>1. Meets(list, new, 6, a, Append(Append(r, c), d), T) <=>
             \E j \in Positions(list) : \E f \in Tables :
                /\ MakesStat(list, a + 1, j, f)
                /\ Meets(list, new, 6 + 1, j, Append(r, Over(Plain("IF_STAT"), <<c, d, f>>)), T)
      BY <2>1, <2>4 DEF Chooses
    <3> QED BY <2>2, <2>3, <2>4, <3>1, Zenon
  <2>5. CASE list[a].type # "ELSE_TOK"
    <3>1. Meets(list, new, 6, a, Append(Append(r, c), d), T) <=>
             Meets(list, new, 6 + 1, a, Append(r, Over(Plain("IF_STAT"), <<c, d>>)), T)
      BY <2>1, <2>5 DEF Chooses
    <3> QED BY <2>2, <2>3, <2>5, <3>1, Zenon
  <2> QED BY <2>4, <2>5
<1>d. \A t \in Tables : Append(s, t) \in Stacks
  BY AppendProperties DEF Stacks
<1>e. Meets(list, old, 1, i, s, T) <=>
         \E j \in Positions(list) : \E t \in Tables : MakesStat(list, i, j, t) /\ K(j, Append(s, t))
  <2>1. Begins(list, old, 1, MakesStat, T) /\ 1 + 1 = 2
    BY <1>a, OldBegins
  <2>2. \A j, r : Meets(list, old, 1 + 1, j, r, T) <=> K(j, r)
    BY <2>1
  <2> HIDE DEF K
  <2> QED BY <2>1, <2>2, Zenon DEF Begins
<1> HIDE DEF M, K
<1>0. i + 1 + 1 = i + 2
  BY DEF Positions
<1>1. ASSUME Meets(list, old, 1, i, s, T)
      PROVE  M(1, i, s)
  <2>1. PICK j \in Positions(list), t \in Tables : MakesStat(list, i, j, t) /\ K(j, Append(s, t))
    BY <1>e, <1>1
  <2>2. PICK k \in Positions(list), c \in Tables, m \in Positions(list), b \in Tables : IfAt(list, i, j, t, k, c, m, b)
    BY <1>a, <2>1, IfIs
  <2>3. Condition(list, i, k, c) /\ MakesStat(list, k + 1, m, b) /\ Chosen(list, m, c, b, j, t)
    BY <2>2 DEF IfAt
  <2>4. M(6, m, Append(Append(s, c), b))
    <3>1. CASE list[m].type = "ELSE_TOK"
      <4>1. PICK f \in Tables : MakesStat(list, m + 1, j, f) /\ t = Over(Plain("IF_STAT"), <<c, b, f>>)
        BY <2>3, <3>1 DEF Chosen
      <4> QED BY <1>c, <1>t6, <2>1, <3>1, <4>1
    <3>2. CASE list[m].type # "ELSE_TOK"
      BY <1>c, <1>t6, <2>1, <2>3, <3>2 DEF Chosen
    <3> QED BY <3>1, <3>2
  <2>5. M(4, k, Append(s, c))
    BY <1>d, <1>t4, <1>t5, <2>3, <2>4 DEF Condition
  <2>6. M(2, i + 1, s)
    BY <1>0, <1>t2, <1>t3, <2>3, <2>5 DEF Condition
  <2> QED BY <1>t1, <2>3, <2>6 DEF Condition
<1>2. ASSUME M(1, i, s)
      PROVE  Meets(list, old, 1, i, s, T)
  <2>1. i + 1 \in Positions(list) /\ list[i + 1].type = "LPAREN_TOK" /\ i + 2 \in Positions(list) /\ M(3, i + 2, s)
    BY <1>0, <1>t1, <1>t2, <1>2
  <2>2. PICK k \in Positions(list), c \in Tables : MakesExpr(list, i + 2, k, c) /\ M(4, k, Append(s, c))
    BY <1>t3, <2>1
  <2>3. list[k].type = "RPAREN_TOK" /\ k + 1 \in Positions(list) /\ M(5, k + 1, Append(s, c))
    BY <1>d, <1>t4, <2>2
  <2>4. PICK m \in Positions(list), b \in Tables : MakesStat(list, k + 1, m, b) /\ M(6, m, Append(Append(s, c), b))
    BY <1>d, <1>t5, <2>3
  <2>5. PICK j \in Positions(list), t \in Tables : Chosen(list, m, c, b, j, t) /\ K(j, Append(s, t))
    <3>1. CASE list[m].type = "ELSE_TOK"
      <4>1. PICK j \in Positions(list), f \in Tables :
               MakesStat(list, m + 1, j, f) /\ M(7, j, Append(s, Over(Plain("IF_STAT"), <<c, b, f>>)))
        BY <1>t6, <2>4, <3>1
      <4>2. PICK t \in Tables : t = Over(Plain("IF_STAT"), <<c, b, f>>)
        BY StatementLeaves, OverTable, FewTables
      <4>3. Chosen(list, m, c, b, j, t)
        BY <3>1, <4>1, <4>2 DEF Chosen
      <4> QED BY <1>c, <4>1, <4>2, <4>3
    <3>2. CASE list[m].type # "ELSE_TOK"
      <4>2. PICK t \in Tables : t = Over(Plain("IF_STAT"), <<c, b>>)
        BY StatementLeaves, OverTable, FewTables
      <4>3. Chosen(list, m, c, b, m, t)
        BY <3>2, <4>2 DEF Chosen
      <4> QED BY <1>c, <1>t6, <2>4, <3>2, <4>2, <4>3
    <3> QED BY <3>1, <3>2
  <2>6. Condition(list, i, k, c)
    BY <2>1, <2>2, <2>3 DEF Condition
  <2>7. IfAt(list, i, j, t, k, c, m, b)
    BY <2>4, <2>5, <2>6 DEF IfAt
  <2>8. MakesStat(list, i, j, t)
    BY <1>a, <2>7, IfIs
  <2> QED BY <1>e, <2>5, <2>8
<1> QED BY <1>1, <1>2 DEF M

\* parse_stat: for.
LEMMA ForMeets ==
    ASSUME NEW list, NEW old, NEW new, NEW T, old[1].do = "stat",
           Unfolded(list, old, new, <<Match("FOR_TOK"), Match("LPAREN_TOK"), Parse("expr"),
                                      Match("SCOL_TOK"), Parse("expr"), Match("SCOL_TOK"),
                                      Parse("expr"), Match("RPAREN_TOK"), Parse("stat"),
                                      Make(Plain("FOR_STAT"), 4)>>),
           NEW i \in Positions(list), NEW s \in Stacks, list[i].type = "FOR_TOK"
    PROVE  Meets(list, old, 1, i, s, T) <=> Meets(list, new, 1, i, s, T)
<1> DEFINE t1 == Match("FOR_TOK")
           t2 == Match("LPAREN_TOK")
           t3 == Parse("expr")
           t4 == Match("SCOL_TOK")
           t5 == Parse("expr")
           t6 == Match("SCOL_TOK")
           t7 == Parse("expr")
           t8 == Match("RPAREN_TOK")
           t9 == Parse("stat")
           t10 == Make(Plain("FOR_STAT"), 4)
           news == <<t1, t2, t3, t4, t5, t6, t7, t8, t9, t10>>
           M(n, a, r) == Meets(list, new, n, a, r, T)
           K(a, r) == Meets(list, old, 2, a, r, T)
<1>a. Unfolded(list, old, new, news) /\ IsTokenList(list)
  BY DEF Unfolded
<1>b. /\ 1 \in 1 .. Len(news) /\ 2 \in 1 .. Len(news) /\ 3 \in 1 .. Len(news) /\ 4 \in 1 .. Len(news) /\ 5 \in 1 .. Len(news) /\ 6 \in 1 .. Len(news) /\ 7 \in 1 .. Len(news) /\ 8 \in 1 .. Len(news) /\ 9 \in 1 .. Len(news) /\ 10 \in 1 .. Len(news)
      /\ news[1] = t1 /\ news[2] = t2 /\ news[3] = t3 /\ news[4] = t4 /\ news[5] = t5 /\ news[6] = t6 /\ news[7] = t7 /\ news[8] = t8 /\ news[9] = t9 /\ news[10] = t10 /\ Len(news) + 1 = 11
      /\ 2 = 1 + 1 /\ 3 = 2 + 1 /\ 4 = 3 + 1 /\ 5 = 4 + 1 /\ 6 = 5 + 1 /\ 7 = 6 + 1 /\ 8 = 7 + 1 /\ 9 = 8 + 1 /\ 10 = 9 + 1 /\ 11 = 10 + 1
  <2> HIDE DEF t1, t2, t3, t4, t5, t6, t7, t8, t9, t10
  <2> QED OBVIOUS
<1> HIDE DEF news
<1>c. \A a, r : M(11, a, r) <=> K(a, r)
  <2>1. \A a, r : Meets(list, new, Len(news) + 1, a, r, T) <=> K(a, r)
    BY <1>a, AtEnd
  <2> QED BY <1>b, <2>1
<1>t1. \A a \in Positions(list) : \A r \in Stacks :
         M(1, a, r) <=> list[a].type = "FOR_TOK" /\ a + 1 \in Positions(list) /\ M(2, a + 1, r)
  <2>1. Checks(list, new, 1, "FOR_TOK", T)
    BY <1>a, <1>b, Matched, AtMatch
  <2>2. \A j, r : Meets(list, new, 1 + 1, j, r, T) <=> M(2, j, r)
    BY <1>b
  <2>3. \A a, r : Meets(list, new, 1, a, r, T) <=> M(1, a, r)
    OBVIOUS
  <2> HIDE DEF M
  <2> QED BY <2>1, <2>2, <2>3, Zenon DEF Checks
<1>t2. \A a \in Positions(list) : \A r \in Stacks :
         M(2, a, r) <=> list[a].type = "LPAREN_TOK" /\ a + 1 \in Positions(list) /\ M(3, a + 1, r)
  <2>1. Checks(list, new, 2, "LPAREN_TOK", T)
    BY <1>a, <1>b, Matched, AtMatch
  <2>2. \A j, r : Meets(list, new, 2 + 1, j, r, T) <=> M(3, j, r)
    BY <1>b
  <2>3. \A a, r : Meets(list, new, 2, a, r, T) <=> M(2, a, r)
    OBVIOUS
  <2> HIDE DEF M
  <2> QED BY <2>1, <2>2, <2>3, Zenon DEF Checks
<1>t3. \A a \in Positions(list) : \A r \in Stacks :
         M(3, a, r) <=> \E j \in Positions(list) : \E t \in Tables :
                           MakesExpr(list, a, j, t) /\ M(4, j, Append(r, t))
  <2>1. Begins(list, new, 3, MakesExpr, T)
    BY <1>a, <1>b, AtMaker
  <2>2. \A j, r : Meets(list, new, 3 + 1, j, r, T) <=> M(4, j, r)
    BY <1>b
  <2>3. \A a, r : Meets(list, new, 3, a, r, T) <=> M(3, a, r)
    OBVIOUS
  <2> HIDE DEF M
  <2> QED BY <2>1, <2>2, <2>3, Zenon DEF Begins
<1>t4. \A a \in Positions(list) : \A r \in Stacks :
         M(4, a, r) <=> list[a].type = "SCOL_TOK" /\ a + 1 \in Positions(list) /\ M(5, a + 1, r)
  <2>1. Checks(list, new, 4, "SCOL_TOK", T)
    BY <1>a, <1>b, Matched, AtMatch
  <2>2. \A j, r : Meets(list, new, 4 + 1, j, r, T) <=> M(5, j, r)
    BY <1>b
  <2>3. \A a, r : Meets(list, new, 4, a, r, T) <=> M(4, a, r)
    OBVIOUS
  <2> HIDE DEF M
  <2> QED BY <2>1, <2>2, <2>3, Zenon DEF Checks
<1>t5. \A a \in Positions(list) : \A r \in Stacks :
         M(5, a, r) <=> \E j \in Positions(list) : \E t \in Tables :
                           MakesExpr(list, a, j, t) /\ M(6, j, Append(r, t))
  <2>1. Begins(list, new, 5, MakesExpr, T)
    BY <1>a, <1>b, AtMaker
  <2>2. \A j, r : Meets(list, new, 5 + 1, j, r, T) <=> M(6, j, r)
    BY <1>b
  <2>3. \A a, r : Meets(list, new, 5, a, r, T) <=> M(5, a, r)
    OBVIOUS
  <2> HIDE DEF M
  <2> QED BY <2>1, <2>2, <2>3, Zenon DEF Begins
<1>t6. \A a \in Positions(list) : \A r \in Stacks :
         M(6, a, r) <=> list[a].type = "SCOL_TOK" /\ a + 1 \in Positions(list) /\ M(7, a + 1, r)
  <2>1. Checks(list, new, 6, "SCOL_TOK", T)
    BY <1>a, <1>b, Matched, AtMatch
  <2>2. \A j, r : Meets(list, new, 6 + 1, j, r, T) <=> M(7, j, r)
    BY <1>b
  <2>3. \A a, r : Meets(list, new, 6, a, r, T) <=> M(6, a, r)
    OBVIOUS
  <2> HIDE DEF M
  <2> QED BY <2>1, <2>2, <2>3, Zenon DEF Checks
<1>t7. \A a \in Positions(list) : \A r \in Stacks :
         M(7, a, r) <=> \E j \in Positions(list) : \E t \in Tables :
                           MakesExpr(list, a, j, t) /\ M(8, j, Append(r, t))
  <2>1. Begins(list, new, 7, MakesExpr, T)
    BY <1>a, <1>b, AtMaker
  <2>2. \A j, r : Meets(list, new, 7 + 1, j, r, T) <=> M(8, j, r)
    BY <1>b
  <2>3. \A a, r : Meets(list, new, 7, a, r, T) <=> M(7, a, r)
    OBVIOUS
  <2> HIDE DEF M
  <2> QED BY <2>1, <2>2, <2>3, Zenon DEF Begins
<1>t8. \A a \in Positions(list) : \A r \in Stacks :
         M(8, a, r) <=> list[a].type = "RPAREN_TOK" /\ a + 1 \in Positions(list) /\ M(9, a + 1, r)
  <2>1. Checks(list, new, 8, "RPAREN_TOK", T)
    BY <1>a, <1>b, Matched, AtMatch
  <2>2. \A j, r : Meets(list, new, 8 + 1, j, r, T) <=> M(9, j, r)
    BY <1>b
  <2>3. \A a, r : Meets(list, new, 8, a, r, T) <=> M(8, a, r)
    OBVIOUS
  <2> HIDE DEF M
  <2> QED BY <2>1, <2>2, <2>3, Zenon DEF Checks
<1>t9. \A a \in Positions(list) : \A r \in Stacks :
         M(9, a, r) <=> \E j \in Positions(list) : \E t \in Tables :
                           MakesStat(list, a, j, t) /\ M(10, j, Append(r, t))
  <2>1. Begins(list, new, 9, MakesStat, T)
    BY <1>a, <1>b, AtMaker
  <2>2. \A j, r : Meets(list, new, 9 + 1, j, r, T) <=> M(10, j, r)
    BY <1>b
  <2>3. \A a, r : Meets(list, new, 9, a, r, T) <=> M(9, a, r)
    OBVIOUS
  <2> HIDE DEF M
  <2> QED BY <2>1, <2>2, <2>3, Zenon DEF Begins
<1>t10. \A a \in Positions(list) : \A r \in Stacks : \A c \in Tables : \A d \in Tables : \A e \in Tables : \A f \in Tables :
         /\ Over(Plain("FOR_STAT"), <<c, d, e, f>>) \in Tables
         /\ M(10, a, Append(Append(Append(Append(r, c), d), e), f)) <=> M(11, a, Append(r, Over(Plain("FOR_STAT"), <<c, d, e, f>>)))
  <2>1. Creates4(list, new, 10, Plain("FOR_STAT"), T)
    BY <1>a, <1>b, StatementLeaves, AtMake4
  <2>2. \A j, r : Meets(list, new, 10 + 1, j, r, T) <=> M(11, j, r)
    BY <1>b
  <2>3. \A a, r : Meets(list, new, 10, a, r, T) <=> M(10, a, r)
    OBVIOUS
  <2> HIDE DEF M
  <2> QED BY <2>1, <2>2, <2>3, Zenon DEF Creates4
<1>d. \A t \in Tables : Append(s, t) \in Stacks
  BY AppendProperties DEF Stacks
<1>e. Meets(list, old, 1, i, s, T) <=>
         \E j \in Positions(list) : \E t \in Tables : MakesStat(list, i, j, t) /\ K(j, Append(s, t))
  <2>1. Begins(list, old, 1, MakesStat, T) /\ 1 + 1 = 2
    BY <1>a, OldBegins
  <2>2. \A j, r : Meets(list, old, 1 + 1, j, r, T) <=> K(j, r)
    BY <2>1
  <2> HIDE DEF K
  <2> QED BY <2>1, <2>2, Zenon DEF Begins
<1> HIDE DEF M, K
<1>0. i + 1 + 1 = i + 2
  BY DEF Positions
<1>1. ASSUME Meets(list, old, 1, i, s, T)
      PROVE  M(1, i, s)
  <2>1. PICK j \in Positions(list), t \in Tables : MakesStat(list, i, j, t) /\ K(j, Append(s, t))
    BY <1>e, <1>1
  <2>2. PICK l \in Positions(list), a \in Tables, m \in Positions(list), c \in Tables,
             k \in Positions(list), b \in Tables, x \in Tables : ForAt(list, i, j, t, l, a, m, c, k, b, x)
    BY <1>a, <2>1, ForIs
  <2>3. /\ Append(s, a) \in Stacks /\ Append(Append(s, a), c) \in Stacks
        /\ Append(Append(Append(s, a), c), b) \in Stacks
    BY AppendProperties DEF Stacks
  <2>4. M(10, j, Append(Append(Append(Append(s, a), c), b), x))
    BY <1>c, <1>t10, <2>1, <2>2 DEF ForAt
  <2>5. M(8, k, Append(Append(Append(s, a), c), b))
    BY <1>t8, <1>t9, <2>2, <2>3, <2>4 DEF ForAt
  <2>6. M(6, m, Append(Append(s, a), c))
    BY <1>t6, <1>t7, <2>2, <2>3, <2>5 DEF ForAt
  <2>7. M(4, l, Append(s, a))
    BY <1>t4, <1>t5, <2>2, <2>3, <2>6 DEF ForAt
  <2>8. M(2, i + 1, s)
    BY <1>0, <1>t2, <1>t3, <2>2, <2>7 DEF ForAt
  <2> QED BY <1>t1, <2>2, <2>8 DEF ForAt
<1>2. ASSUME M(1, i, s)
      PROVE  Meets(list, old, 1, i, s, T)
  <2>1. i + 1 \in Positions(list) /\ list[i + 1].type = "LPAREN_TOK" /\ i + 2 \in Positions(list) /\ M(3, i + 2, s)
    BY <1>0, <1>t1, <1>t2, <1>2
  <2>2. PICK l \in Positions(list), a \in Tables : MakesExpr(list, i + 2, l, a) /\ M(4, l, Append(s, a))
    BY <1>t3, <2>1
  <2>3. Append(s, a) \in Stacks /\ \A c \in Tables : Append(Append(s, a), c) \in Stacks
           /\ \A b \in Tables : Append(Append(Append(s, a), c), b) \in Stacks
    BY AppendProperties DEF Stacks
  <2>4. list[l].type = "SCOL_TOK" /\ l + 1 \in Positions(list) /\ M(5, l + 1, Append(s, a))
    BY <1>t4, <2>2, <2>3
  <2>5. PICK m \in Positions(list), c \in Tables : MakesExpr(list, l + 1, m, c) /\ M(6, m, Append(Append(s, a), c))
    BY <1>t5, <2>3, <2>4
  <2>6. list[m].type = "SCOL_TOK" /\ m + 1 \in Positions(list) /\ M(7, m + 1, Append(Append(s, a), c))
    BY <1>t6, <2>3, <2>5
  <2>7. PICK k \in Positions(list), b \in Tables :
           MakesExpr(list, m + 1, k, b) /\ M(8, k, Append(Append(Append(s, a), c), b))
    BY <1>t7, <2>3, <2>6
  <2>8. list[k].type = "RPAREN_TOK" /\ k + 1 \in Positions(list) /\ M(9, k + 1, Append(Append(Append(s, a), c), b))
    BY <1>t8, <2>3, <2>7
  <2>9. PICK j \in Positions(list), x \in Tables :
           MakesStat(list, k + 1, j, x) /\ M(10, j, Append(Append(Append(Append(s, a), c), b), x))
    BY <1>t9, <2>3, <2>8
  <2>10. PICK t \in Tables : t = Over(Plain("FOR_STAT"), <<a, c, b, x>>) /\ K(j, Append(s, t))
    BY <1>c, <1>t10, <2>9
  <2>11. ForAt(list, i, j, t, l, a, m, c, k, b, x)
    BY <2>1, <2>2, <2>4, <2>5, <2>6, <2>7, <2>8, <2>9, <2>10 DEF ForAt
  <2>12. MakesStat(list, i, j, t)
    BY <1>a, <2>11, ForIs
  <2> QED BY <1>e, <2>10, <2>12
<1> QED BY <1>1, <1>2 DEF M

\* parse_stat: a block.
LEMMA BlockMeets ==
    ASSUME NEW list, NEW old, NEW new, NEW T, old[1].do = "stat",
           Unfolded(list, old, new, <<Match("LBRACE_TOK"), Make(Plain("BLOCK_STAT"), 0),
                                      Parse("stats"), Match("RBRACE_TOK")>>),
           NEW i \in Positions(list), NEW s \in Stacks, list[i].type = "LBRACE_TOK"
    PROVE  Meets(list, old, 1, i, s, T) <=> Meets(list, new, 1, i, s, T)
<1> DEFINE t1 == Match("LBRACE_TOK")
           t2 == Make(Plain("BLOCK_STAT"), 0)
           t3 == Parse("stats")
           t4 == Match("RBRACE_TOK")
           news == <<t1, t2, t3, t4>>
           M(n, a, r) == Meets(list, new, n, a, r, T)
           K(a, r) == Meets(list, old, 2, a, r, T)
<1>a. Unfolded(list, old, new, news) /\ IsTokenList(list)
  BY DEF Unfolded
<1>b. /\ 1 \in 1 .. Len(news) /\ 2 \in 1 .. Len(news) /\ 3 \in 1 .. Len(news) /\ 4 \in 1 .. Len(news)
      /\ news[1] = t1 /\ news[2] = t2 /\ news[3] = t3 /\ news[4] = t4 /\ Len(news) + 1 = 5
      /\ 2 = 1 + 1 /\ 3 = 2 + 1 /\ 4 = 3 + 1 /\ 5 = 4 + 1
  <2> HIDE DEF t1, t2, t3, t4
  <2> QED OBVIOUS
<1> HIDE DEF news
<1>c. \A a, r : M(5, a, r) <=> K(a, r)
  <2>1. \A a, r : Meets(list, new, Len(news) + 1, a, r, T) <=> K(a, r)
    BY <1>a, AtEnd
  <2> QED BY <1>b, <2>1
<1>t1. \A a \in Positions(list) : \A r \in Stacks :
         M(1, a, r) <=> list[a].type = "LBRACE_TOK" /\ a + 1 \in Positions(list) /\ M(2, a + 1, r)
  <2>1. Checks(list, new, 1, "LBRACE_TOK", T)
    BY <1>a, <1>b, Matched, AtMatch
  <2>2. \A j, r : Meets(list, new, 1 + 1, j, r, T) <=> M(2, j, r)
    BY <1>b
  <2>3. \A a, r : Meets(list, new, 1, a, r, T) <=> M(1, a, r)
    OBVIOUS
  <2> HIDE DEF M
  <2> QED BY <2>1, <2>2, <2>3, Zenon DEF Checks
<1>t2. \A a \in Positions(list) : \A r \in Stacks :
         /\ Over(Plain("BLOCK_STAT"), <<>>) \in Tables
         /\ M(2, a, r) <=> M(3, a, Append(r, Over(Plain("BLOCK_STAT"), <<>>)))
  <2>1. Creates0(list, new, 2, Plain("BLOCK_STAT"), T)
    BY <1>a, <1>b, StatementLeaves, AtMake0
  <2>2. \A j, r : Meets(list, new, 2 + 1, j, r, T) <=> M(3, j, r)
    BY <1>b
  <2>3. \A a, r : Meets(list, new, 2, a, r, T) <=> M(2, a, r)
    OBVIOUS
  <2> HIDE DEF M
  <2> QED BY <2>1, <2>2, <2>3, Zenon DEF Creates0
<1>t3. \A a \in Positions(list) : \A r \in Stacks : \A l \in Tables :
         M(3, a, Append(r, l)) <=> \E j \in Positions(list) : \E t \in Tables :
                                     Turned(list, "stats", a, l, j, t) /\ M(4, j, Append(r, t))
  <2>1. Turns(list, new, 3, "stats", T)
    BY <1>a, <1>b, AtRest
  <2>2. \A j, r : Meets(list, new, 3 + 1, j, r, T) <=> M(4, j, r)
    BY <1>b
  <2>3. \A a, r : Meets(list, new, 3, a, r, T) <=> M(3, a, r)
    OBVIOUS
  <2> HIDE DEF M
  <2> QED BY <2>1, <2>2, <2>3, Zenon DEF Turns
<1>t4. \A a \in Positions(list) : \A r \in Stacks :
         M(4, a, r) <=> list[a].type = "RBRACE_TOK" /\ a + 1 \in Positions(list) /\ M(5, a + 1, r)
  <2>1. Checks(list, new, 4, "RBRACE_TOK", T)
    BY <1>a, <1>b, Matched, AtMatch
  <2>2. \A j, r : Meets(list, new, 4 + 1, j, r, T) <=> M(5, j, r)
    BY <1>b
  <2>3. \A a, r : Meets(list, new, 4, a, r, T) <=> M(4, a, r)
    OBVIOUS
  <2> HIDE DEF M
  <2> QED BY <2>1, <2>2, <2>3, Zenon DEF Checks
<1>d. \A t \in Tables : Append(s, t) \in Stacks
  BY AppendProperties DEF Stacks
<1>e. Meets(list, old, 1, i, s, T) <=>
         \E j \in Positions(list) : \E t \in Tables : MakesStat(list, i, j, t) /\ K(j, Append(s, t))
  <2>1. Begins(list, old, 1, MakesStat, T) /\ 1 + 1 = 2
    BY <1>a, OldBegins
  <2>2. \A j, r : Meets(list, old, 1 + 1, j, r, T) <=> K(j, r)
    BY <2>1
  <2> HIDE DEF K
  <2> QED BY <2>1, <2>2, Zenon DEF Begins
<1> HIDE DEF M, K
<1>0. PICK l \in Tables : l = Over(Plain("BLOCK_STAT"), <<>>)
  BY <1>t2
<1>1. ASSUME Meets(list, old, 1, i, s, T)
      PROVE  M(1, i, s)
  <2>1. PICK j \in Positions(list), t \in Tables : MakesStat(list, i, j, t) /\ K(j, Append(s, t))
    BY <1>e, <1>1
  <2>2. PICK k \in Positions(list) :
             i + 1 \in Positions(list) /\ Turned(list, "stats", i + 1, l, k, t) /\ j = k + 1
    BY <1>0, <1>a, <2>1, BlockIs, BlocksIs
  <2>3. list[k].type = "RBRACE_TOK"
    BY <2>2 DEF Turned, FilledTo
  <2>4. M(4, k, Append(s, t))
    BY <1>c, <1>d, <1>t4, <2>1, <2>2, <2>3
  <2>5. M(2, i + 1, s)
    BY <1>0, <1>t2, <1>t3, <2>2, <2>4
  <2> QED BY <1>t1, <2>2, <2>5
<1>2. ASSUME M(1, i, s)
      PROVE  Meets(list, old, 1, i, s, T)
  <2>1. i + 1 \in Positions(list) /\ M(3, i + 1, Append(s, l))
    BY <1>0, <1>t1, <1>t2, <1>2
  <2>2. PICK k \in Positions(list), t \in Tables : Turned(list, "stats", i + 1, l, k, t) /\ M(4, k, Append(s, t))
    BY <1>t3, <2>1
  <2>3. k + 1 \in Positions(list) /\ K(k + 1, Append(s, t))
    BY <1>c, <1>d, <1>t4, <2>2
  <2>4. MakesStat(list, i, k + 1, t)
    BY <1>0, <1>a, <2>1, <2>2, <2>3, BlockIs, BlocksIs
  <2> QED BY <1>e, <2>3, <2>4
<1> QED BY <1>1, <1>2 DEF M

-----------------------------------------------------------------------------
(* The rest of an if, of a block and of the program. *)

\* Nothing takes the place of the first task.
LEMMA NothingNew ==
    ASSUME NEW list, NEW old, NEW new, Unfolded(list, old, new, <<>>), NEW T
    PROVE  \A i, s : Meets(list, new, 1, i, s, T) <=> Meets(list, old, 2, i, s, T)
<1>1. PICK news : news = <<>> /\ Len(news) + 1 = 1
  OBVIOUS
<1>2. \A i, s : Meets(list, new, Len(news) + 1, i, s, T) <=> Meets(list, old, 2, i, s, T)
  BY <1>1, AtEnd
<1> QED BY <1>1, <1>2

\* parse_stat: the else of an if.
LEMMA ElseMeets ==
    ASSUME NEW list, NEW old, NEW new, NEW T, old[1].do = "else",
           Unfolded(list, old, new, <<Match("ELSE_TOK"), Parse("stat"), Make(Plain("IF_STAT"), 3)>>),
           NEW i \in Positions(list), NEW q \in Stacks, NEW c \in Tables, NEW d \in Tables, list[i].type = "ELSE_TOK"
    PROVE  Meets(list, old, 1, i, Append(Append(q, c), d), T) <=> Meets(list, new, 1, i, Append(Append(q, c), d), T)
<1> DEFINE t1 == Match("ELSE_TOK")
           t2 == Parse("stat")
           t3 == Make(Plain("IF_STAT"), 3)
           news == <<t1, t2, t3>>
           M(n, a, r) == Meets(list, new, n, a, r, T)
           K(a, r) == Meets(list, old, 2, a, r, T)
<1>a. Unfolded(list, old, new, news) /\ IsTokenList(list)
  BY DEF Unfolded
<1>b. /\ 1 \in 1 .. Len(news) /\ 2 \in 1 .. Len(news) /\ 3 \in 1 .. Len(news)
      /\ news[1] = t1 /\ news[2] = t2 /\ news[3] = t3 /\ Len(news) + 1 = 4
      /\ 2 = 1 + 1 /\ 3 = 2 + 1 /\ 4 = 3 + 1
  <2> HIDE DEF t1, t2, t3
  <2> QED OBVIOUS
<1> HIDE DEF news
<1>c. \A a, r : M(4, a, r) <=> K(a, r)
  <2>1. \A a, r : Meets(list, new, Len(news) + 1, a, r, T) <=> K(a, r)
    BY <1>a, AtEnd
  <2> QED BY <1>b, <2>1
<1>t1. \A a \in Positions(list) : \A r \in Stacks :
         M(1, a, r) <=> list[a].type = "ELSE_TOK" /\ a + 1 \in Positions(list) /\ M(2, a + 1, r)
  <2>1. Checks(list, new, 1, "ELSE_TOK", T)
    BY <1>a, <1>b, Matched, AtMatch
  <2>2. \A j, r : Meets(list, new, 1 + 1, j, r, T) <=> M(2, j, r)
    BY <1>b
  <2>3. \A a, r : Meets(list, new, 1, a, r, T) <=> M(1, a, r)
    OBVIOUS
  <2> HIDE DEF M
  <2> QED BY <2>1, <2>2, <2>3, Zenon DEF Checks
<1>t2. \A a \in Positions(list) : \A r \in Stacks :
         M(2, a, r) <=> \E j \in Positions(list) : \E t \in Tables :
                           MakesStat(list, a, j, t) /\ M(3, j, Append(r, t))
  <2>1. Begins(list, new, 2, MakesStat, T)
    BY <1>a, <1>b, AtMaker
  <2>2. \A j, r : Meets(list, new, 2 + 1, j, r, T) <=> M(3, j, r)
    BY <1>b
  <2>3. \A a, r : Meets(list, new, 2, a, r, T) <=> M(2, a, r)
    OBVIOUS
  <2> HIDE DEF M
  <2> QED BY <2>1, <2>2, <2>3, Zenon DEF Begins
<1>t3. \A a \in Positions(list) : \A r \in Stacks : \A y \in Tables : \A z \in Tables : \A e \in Tables :
         /\ Over(Plain("IF_STAT"), <<y, z, e>>) \in Tables
         /\ M(3, a, Append(Append(Append(r, y), z), e)) <=> M(4, a, Append(r, Over(Plain("IF_STAT"), <<y, z, e>>)))
  <2>1. Creates3(list, new, 3, Plain("IF_STAT"), T)
    BY <1>a, <1>b, StatementLeaves, AtMake3
  <2>2. \A j, r : Meets(list, new, 3 + 1, j, r, T) <=> M(4, j, r)
    BY <1>b
  <2>3. \A a, r : Meets(list, new, 3, a, r, T) <=> M(3, a, r)
    OBVIOUS
  <2> HIDE DEF M
  <2> QED BY <2>1, <2>2, <2>3, Zenon DEF Creates3
<1>e. Meets(list, old, 1, i, Append(Append(q, c), d), T) <=>
         \E j \in Positions(list) : \E f \in Tables :
            MakesStat(list, i + 1, j, f) /\ K(j, Append(q, Over(Plain("IF_STAT"), <<c, d, f>>)))
  <2>1. Chooses(list, old, 1, T) /\ 1 + 1 = 2
    BY <1>a, OldRest
  <2>2. \A j, r : Meets(list, old, 1 + 1, j, r, T) <=> K(j, r)
    BY <2>1
  <2>3. Meets(list, old, 1, i, Append(Append(q, c), d), T) <=>
         \E j \in Positions(list) : \E f \in Tables :
            MakesStat(list, i + 1, j, f) /\ Meets(list, old, 1 + 1, j, Append(q, Over(Plain("IF_STAT"), <<c, d, f>>)), T)
    BY <2>1 DEF Chooses
  <2> HIDE DEF K
  <2> QED BY <2>2, <2>3, Zenon
<1>d. \A t \in Tables : Append(q, t) \in Stacks
  BY AppendProperties DEF Stacks
<1> HIDE DEF M, K
<1>0. Append(Append(q, c), d) \in Stacks /\ Append(q, c) \in Stacks
  BY AppendProperties DEF Stacks
<1>1. i + 1 \in Positions(list)
  BY <1>a, PlaceBehind
<1>2. M(1, i, Append(Append(q, c), d)) <=>
         \E j \in Positions(list) : \E f \in Tables :
            MakesStat(list, i + 1, j, f) /\ M(3, j, Append(Append(Append(q, c), d), f))
  BY <1>0, <1>1, <1>t1, <1>t2
<1>3. \A j \in Positions(list) : \A f \in Tables :
         M(3, j, Append(Append(Append(q, c), d), f)) <=> K(j, Append(q, Over(Plain("IF_STAT"), <<c, d, f>>)))
  BY <1>c, <1>t3
<1>4. Meets(list, old, 1, i, Append(Append(q, c), d), T) <=>
         \E j \in Positions(list) : \E f \in Tables :
            MakesStat(list, i + 1, j, f) /\ K(j, Append(q, Over(Plain("IF_STAT"), <<c, d, f>>)))
  BY <1>e
<1>5. M(1, i, Append(Append(q, c), d)) <=> Meets(list, old, 1, i, Append(Append(q, c), d), T)
  BY <1>2, <1>3, <1>4, Zenon
<1> QED BY <1>5 DEF M

\* parse_stat: an if without else.
LEMMA NoElseMeets ==
    ASSUME NEW list, NEW old, NEW new, NEW T, old[1].do = "else",
           Unfolded(list, old, new, <<Make(Plain("IF_STAT"), 2)>>),
           NEW i \in Positions(list), NEW q \in Stacks, NEW c \in Tables, NEW d \in Tables, list[i].type # "ELSE_TOK"
    PROVE  Meets(list, old, 1, i, Append(Append(q, c), d), T) <=> Meets(list, new, 1, i, Append(Append(q, c), d), T)
<1> DEFINE t1 == Make(Plain("IF_STAT"), 2)
           news == <<t1>>
           M(n, a, r) == Meets(list, new, n, a, r, T)
           K(a, r) == Meets(list, old, 2, a, r, T)
<1>a. Unfolded(list, old, new, news) /\ IsTokenList(list)
  BY DEF Unfolded
<1>b. /\ 1 \in 1 .. Len(news)
      /\ news[1] = t1 /\ Len(news) + 1 = 2
      /\ 2 = 1 + 1
  <2> HIDE DEF t1
  <2> QED OBVIOUS
<1> HIDE DEF news
<1>c. \A a, r : M(2, a, r) <=> K(a, r)
  <2>1. \A a, r : Meets(list, new, Len(news) + 1, a, r, T) <=> K(a, r)
    BY <1>a, AtEnd
  <2> QED BY <1>b, <2>1
<1>t1. \A a \in Positions(list) : \A r \in Stacks : \A y \in Tables : \A z \in Tables :
         /\ Over(Plain("IF_STAT"), <<y, z>>) \in Tables
         /\ M(1, a, Append(Append(r, y), z)) <=> M(2, a, Append(r, Over(Plain("IF_STAT"), <<y, z>>)))
  <2>1. Creates2(list, new, 1, Plain("IF_STAT"), T)
    BY <1>a, <1>b, StatementLeaves, AtMake2
  <2>2. \A j, r : Meets(list, new, 1 + 1, j, r, T) <=> M(2, j, r)
    BY <1>b
  <2>3. \A a, r : Meets(list, new, 1, a, r, T) <=> M(1, a, r)
    OBVIOUS
  <2> HIDE DEF M
  <2> QED BY <2>1, <2>2, <2>3, Zenon DEF Creates2
<1>e. Meets(list, old, 1, i, Append(Append(q, c), d), T) <=>
         K(i, Append(q, Over(Plain("IF_STAT"), <<c, d>>)))
  <2>1. Chooses(list, old, 1, T) /\ 1 + 1 = 2
    BY <1>a, OldRest
  <2>2. \A j, r : Meets(list, old, 1 + 1, j, r, T) <=> K(j, r)
    BY <2>1
  <2>3. Meets(list, old, 1, i, Append(Append(q, c), d), T) <=>
         Meets(list, old, 1 + 1, i, Append(q, Over(Plain("IF_STAT"), <<c, d>>)), T)
    BY <2>1 DEF Chooses
  <2> HIDE DEF K
  <2> QED BY <2>2, <2>3, Zenon
<1>d. \A t \in Tables : Append(q, t) \in Stacks
  BY AppendProperties DEF Stacks
<1> HIDE DEF M, K
<1>1. Meets(list, old, 1, i, Append(Append(q, c), d), T) <=> K(i, Append(q, Over(Plain("IF_STAT"), <<c, d>>)))
  BY <1>e
<1>2. M(1, i, Append(Append(q, c), d)) <=> M(2, i, Append(q, Over(Plain("IF_STAT"), <<c, d>>)))
  BY <1>t1, Zenon
<1>4. M(1, i, Append(Append(q, c), d)) <=> Meets(list, old, 1, i, Append(Append(q, c), d), T)
  BY <1>c, <1>1, <1>2, Zenon
<1> QED BY <1>4 DEF M

\* parse_block_stat: the next statement of a block.
LEMMA StatsMeets ==
    ASSUME NEW list, NEW old, NEW new, NEW T, old[1].do = "stats",
           Unfolded(list, old, new, <<Parse("stat"), Parse("append"), Parse("stats")>>),
           NEW i \in Positions(list), NEW q \in Stacks, NEW l \in Tables, list[i].type # "RBRACE_TOK"
    PROVE  Meets(list, old, 1, i, Append(q, l), T) <=> Meets(list, new, 1, i, Append(q, l), T)
<1> DEFINE t1 == Parse("stat")
           t2 == Parse("append")
           t3 == Parse("stats")
           news == <<t1, t2, t3>>
           M(n, a, r) == Meets(list, new, n, a, r, T)
           K(a, r) == Meets(list, old, 2, a, r, T)
<1>a. Unfolded(list, old, new, news) /\ IsTokenList(list)
  BY DEF Unfolded
<1>b. /\ 1 \in 1 .. Len(news) /\ 2 \in 1 .. Len(news) /\ 3 \in 1 .. Len(news)
      /\ news[1] = t1 /\ news[2] = t2 /\ news[3] = t3 /\ Len(news) + 1 = 4
      /\ 2 = 1 + 1 /\ 3 = 2 + 1 /\ 4 = 3 + 1
  <2> HIDE DEF t1, t2, t3
  <2> QED OBVIOUS
<1> HIDE DEF news
<1>c. \A a, r : M(4, a, r) <=> K(a, r)
  <2>1. \A a, r : Meets(list, new, Len(news) + 1, a, r, T) <=> K(a, r)
    BY <1>a, AtEnd
  <2> QED BY <1>b, <2>1
<1>t1. \A a \in Positions(list) : \A r \in Stacks :
         M(1, a, r) <=> \E j \in Positions(list) : \E t \in Tables :
                           MakesStat(list, a, j, t) /\ M(2, j, Append(r, t))
  <2>1. Begins(list, new, 1, MakesStat, T)
    BY <1>a, <1>b, AtMaker
  <2>2. \A j, r : Meets(list, new, 1 + 1, j, r, T) <=> M(2, j, r)
    BY <1>b
  <2>3. \A a, r : Meets(list, new, 1, a, r, T) <=> M(1, a, r)
    OBVIOUS
  <2> HIDE DEF M
  <2> QED BY <2>1, <2>2, <2>3, Zenon DEF Begins
<1>t2. \A a \in Positions(list) : \A r \in Stacks : \A c \in Tables : \A d \in Tables :
         /\ Hang(c, d) \in Tables
         /\ M(2, a, Append(Append(r, c), d)) <=> M(3, a, Append(r, Hang(c, d)))
  <2>1. Appends(list, new, 2, T)
    BY <1>a, <1>b, AtRest
  <2>2. \A j, r : Meets(list, new, 2 + 1, j, r, T) <=> M(3, j, r)
    BY <1>b
  <2>3. \A a, r : Meets(list, new, 2, a, r, T) <=> M(2, a, r)
    OBVIOUS
  <2> HIDE DEF M
  <2> QED BY <2>1, <2>2, <2>3, Zenon DEF Appends
<1>t3. \A a \in Positions(list) : \A r \in Stacks : \A y \in Tables :
         M(3, a, Append(r, y)) <=> \E j \in Positions(list) : \E t \in Tables :
                                     Turned(list, "stats", a, y, j, t) /\ M(4, j, Append(r, t))
  <2>1. Turns(list, new, 3, "stats", T)
    BY <1>a, <1>b, AtRest
  <2>2. \A j, r : Meets(list, new, 3 + 1, j, r, T) <=> M(4, j, r)
    BY <1>b
  <2>3. \A a, r : Meets(list, new, 3, a, r, T) <=> M(3, a, r)
    OBVIOUS
  <2> HIDE DEF M
  <2> QED BY <2>1, <2>2, <2>3, Zenon DEF Turns
<1>e. Meets(list, old, 1, i, Append(q, l), T) <=>
         \E j \in Positions(list) : \E t \in Tables : Turned(list, "stats", i, l, j, t) /\ K(j, Append(q, t))
  <2>1. Turns(list, old, 1, "stats", T) /\ 1 + 1 = 2
    BY <1>a, OldRest
  <2>2. \A j, r : Meets(list, old, 1 + 1, j, r, T) <=> K(j, r)
    BY <2>1
  <2> HIDE DEF K
  <2> QED BY <2>1, <2>2, Zenon DEF Turns
<1>d. \A t \in Tables : Append(q, t) \in Stacks
  BY AppendProperties DEF Stacks
<1> HIDE DEF M, K
<1>0. Append(q, l) \in Stacks
  BY AppendProperties DEF Stacks
<1>1. \A j \in Positions(list) : \A t \in Tables :
         Turned(list, "stats", i, l, j, t) <=>
            \E k \in Positions(list) : \E x \in Tables :
               MakesStat(list, i, k, x) /\ Turned(list, "stats", k, Hang(l, x), j, t)
  <2>1. \A k, y, j, t : Turned(list, "stats", k, y, j, t) <=> FilledTo(list, "RBRACE_TOK", k, y, j, t)
    BY DEF Turned
  <2>2. \A j \in Positions(list) : \A t : FilledTo(list, "RBRACE_TOK", i, l, j, t) <=>
            \E k \in Positions(list) : \E x \in Tables :
               MakesStat(list, i, k, x) /\ FilledTo(list, "RBRACE_TOK", k, Hang(l, x), j, t)
    BY <1>a, FilledMore
  <2> QED BY <2>1, <2>2, Zenon
<1>2. M(1, i, Append(q, l)) <=>
         \E k \in Positions(list) : \E x \in Tables :
            MakesStat(list, i, k, x) /\ M(2, k, Append(Append(q, l), x))
  BY <1>0, <1>t1
<1>3. \A k \in Positions(list) : \A x \in Tables :
         M(2, k, Append(Append(q, l), x)) <=>
            \E j \in Positions(list) : \E t \in Tables :
               Turned(list, "stats", k, Hang(l, x), j, t) /\ K(j, Append(q, t))
  <2> TAKE k \in Positions(list)
  <2> TAKE x \in Tables
  <2>1. Hang(l, x) \in Tables /\ (M(2, k, Append(Append(q, l), x)) <=> M(3, k, Append(q, Hang(l, x))))
    BY <1>t2
  <2> QED BY <1>c, <1>t3, <2>1
<1>4. M(1, i, Append(q, l)) <=> Meets(list, old, 1, i, Append(q, l), T)
  BY <1>e, <1>1, <1>2, <1>3, Zenon
<1> QED BY <1>4 DEF M

\* parse_block_stat: the end of a block.
LEMMA StatsEnds ==
    ASSUME NEW list, NEW old, NEW new, NEW T, old[1].do = "stats", Unfolded(list, old, new, <<>>),
           NEW i \in Positions(list), NEW q \in Stacks, NEW l \in Tables, list[i].type = "RBRACE_TOK"
    PROVE  Meets(list, old, 1, i, Append(q, l), T) <=> Meets(list, new, 1, i, Append(q, l), T)
<1>1. Turns(list, old, 1, "stats", T) /\ 1 + 1 = 2
  BY OldRest
<1>2. Meets(list, old, 1, i, Append(q, l), T) <=>
         \E j \in Positions(list) : \E t \in Tables :
            Turned(list, "stats", i, l, j, t) /\ Meets(list, old, 2, j, Append(q, t), T)
  BY <1>1 DEF Turns
<1>3. \A j \in Positions(list) : \A t : Turned(list, "stats", i, l, j, t) <=> j = i /\ t = l
  <2>1. \A j \in Positions(list) : \A t : FilledTo(list, "RBRACE_TOK", i, l, j, t) <=> j = i /\ t = l
    BY FilledHere DEF Unfolded
  <2> QED BY <2>1 DEF Turned
<1> QED BY <1>2, <1>3, NothingNew

\* parse: the next statement of the program.
LEMMA ProgramMeets ==
    ASSUME NEW list, NEW old, NEW new, NEW T, old[1].do = "program",
           Unfolded(list, old, new, <<Parse("stat"), Parse("append"), Parse("program")>>),
           NEW i \in Positions(list), NEW q \in Stacks, NEW l \in Tables, list[i].type # "PROGRAM_END_TOK"
    PROVE  Meets(list, old, 1, i, Append(q, l), T) <=> Meets(list, new, 1, i, Append(q, l), T)
<1> DEFINE t1 == Parse("stat")
           t2 == Parse("append")
           t3 == Parse("program")
           news == <<t1, t2, t3>>
           M(n, a, r) == Meets(list, new, n, a, r, T)
           K(a, r) == Meets(list, old, 2, a, r, T)
<1>a. Unfolded(list, old, new, news) /\ IsTokenList(list)
  BY DEF Unfolded
<1>b. /\ 1 \in 1 .. Len(news) /\ 2 \in 1 .. Len(news) /\ 3 \in 1 .. Len(news)
      /\ news[1] = t1 /\ news[2] = t2 /\ news[3] = t3 /\ Len(news) + 1 = 4
      /\ 2 = 1 + 1 /\ 3 = 2 + 1 /\ 4 = 3 + 1
  <2> HIDE DEF t1, t2, t3
  <2> QED OBVIOUS
<1> HIDE DEF news
<1>c. \A a, r : M(4, a, r) <=> K(a, r)
  <2>1. \A a, r : Meets(list, new, Len(news) + 1, a, r, T) <=> K(a, r)
    BY <1>a, AtEnd
  <2> QED BY <1>b, <2>1
<1>t1. \A a \in Positions(list) : \A r \in Stacks :
         M(1, a, r) <=> \E j \in Positions(list) : \E t \in Tables :
                           MakesStat(list, a, j, t) /\ M(2, j, Append(r, t))
  <2>1. Begins(list, new, 1, MakesStat, T)
    BY <1>a, <1>b, AtMaker
  <2>2. \A j, r : Meets(list, new, 1 + 1, j, r, T) <=> M(2, j, r)
    BY <1>b
  <2>3. \A a, r : Meets(list, new, 1, a, r, T) <=> M(1, a, r)
    OBVIOUS
  <2> HIDE DEF M
  <2> QED BY <2>1, <2>2, <2>3, Zenon DEF Begins
<1>t2. \A a \in Positions(list) : \A r \in Stacks : \A c \in Tables : \A d \in Tables :
         /\ Hang(c, d) \in Tables
         /\ M(2, a, Append(Append(r, c), d)) <=> M(3, a, Append(r, Hang(c, d)))
  <2>1. Appends(list, new, 2, T)
    BY <1>a, <1>b, AtRest
  <2>2. \A j, r : Meets(list, new, 2 + 1, j, r, T) <=> M(3, j, r)
    BY <1>b
  <2>3. \A a, r : Meets(list, new, 2, a, r, T) <=> M(2, a, r)
    OBVIOUS
  <2> HIDE DEF M
  <2> QED BY <2>1, <2>2, <2>3, Zenon DEF Appends
<1>t3. \A a \in Positions(list) : \A r \in Stacks : \A y \in Tables :
         M(3, a, Append(r, y)) <=> \E j \in Positions(list) : \E t \in Tables :
                                     Turned(list, "program", a, y, j, t) /\ M(4, j, Append(r, t))
  <2>1. Turns(list, new, 3, "program", T)
    BY <1>a, <1>b, AtRest
  <2>2. \A j, r : Meets(list, new, 3 + 1, j, r, T) <=> M(4, j, r)
    BY <1>b
  <2>3. \A a, r : Meets(list, new, 3, a, r, T) <=> M(3, a, r)
    OBVIOUS
  <2> HIDE DEF M
  <2> QED BY <2>1, <2>2, <2>3, Zenon DEF Turns
<1>e. Meets(list, old, 1, i, Append(q, l), T) <=>
         \E j \in Positions(list) : \E t \in Tables : Turned(list, "program", i, l, j, t) /\ K(j, Append(q, t))
  <2>1. Turns(list, old, 1, "program", T) /\ 1 + 1 = 2
    BY <1>a, OldRest
  <2>2. \A j, r : Meets(list, old, 1 + 1, j, r, T) <=> K(j, r)
    BY <2>1
  <2> HIDE DEF K
  <2> QED BY <2>1, <2>2, Zenon DEF Turns
<1>d. \A t \in Tables : Append(q, t) \in Stacks
  BY AppendProperties DEF Stacks
<1> HIDE DEF M, K
<1>0. Append(q, l) \in Stacks
  BY AppendProperties DEF Stacks
<1>1. \A j \in Positions(list) : \A t \in Tables :
         Turned(list, "program", i, l, j, t) <=>
            \E k \in Positions(list) : \E x \in Tables :
               MakesStat(list, i, k, x) /\ Turned(list, "program", k, Hang(l, x), j, t)
  <2>1. \A k, y, j, t : Turned(list, "program", k, y, j, t) <=> FilledTo(list, "PROGRAM_END_TOK", k, y, j, t)
    BY DEF Turned
  <2>2. \A j \in Positions(list) : \A t : FilledTo(list, "PROGRAM_END_TOK", i, l, j, t) <=>
            \E k \in Positions(list) : \E x \in Tables :
               MakesStat(list, i, k, x) /\ FilledTo(list, "PROGRAM_END_TOK", k, Hang(l, x), j, t)
    BY <1>a, FilledMore
  <2> QED BY <2>1, <2>2, Zenon
<1>2. M(1, i, Append(q, l)) <=>
         \E k \in Positions(list) : \E x \in Tables :
            MakesStat(list, i, k, x) /\ M(2, k, Append(Append(q, l), x))
  BY <1>0, <1>t1
<1>3. \A k \in Positions(list) : \A x \in Tables :
         M(2, k, Append(Append(q, l), x)) <=>
            \E j \in Positions(list) : \E t \in Tables :
               Turned(list, "program", k, Hang(l, x), j, t) /\ K(j, Append(q, t))
  <2> TAKE k \in Positions(list)
  <2> TAKE x \in Tables
  <2>1. Hang(l, x) \in Tables /\ (M(2, k, Append(Append(q, l), x)) <=> M(3, k, Append(q, Hang(l, x))))
    BY <1>t2
  <2> QED BY <1>c, <1>t3, <2>1
<1>4. M(1, i, Append(q, l)) <=> Meets(list, old, 1, i, Append(q, l), T)
  BY <1>e, <1>1, <1>2, <1>3, Zenon
<1> QED BY <1>4 DEF M

\* parse: the end of the program.
LEMMA ProgramEnds ==
    ASSUME NEW list, NEW old, NEW new, NEW T, old[1].do = "program", Unfolded(list, old, new, <<>>),
           NEW i \in Positions(list), NEW q \in Stacks, NEW l \in Tables, list[i].type = "PROGRAM_END_TOK"
    PROVE  Meets(list, old, 1, i, Append(q, l), T) <=> Meets(list, new, 1, i, Append(q, l), T)
<1>1. Turns(list, old, 1, "program", T) /\ 1 + 1 = 2
  BY OldRest
<1>2. Meets(list, old, 1, i, Append(q, l), T) <=>
         \E j \in Positions(list) : \E t \in Tables :
            Turned(list, "program", i, l, j, t) /\ Meets(list, old, 2, j, Append(q, t), T)
  BY <1>1 DEF Turns
<1>3. \A j \in Positions(list) : \A t : Turned(list, "program", i, l, j, t) <=> j = i /\ t = l
  <2>1. \A j \in Positions(list) : \A t : FilledTo(list, "PROGRAM_END_TOK", i, l, j, t) <=> j = i /\ t = l
    BY FilledHere DEF Unfolded
  <2> QED BY <2>1 DEF Turned
<1> QED BY <1>2, <1>3, NothingNew

-----------------------------------------------------------------------------
(* What the functions that parse expressions unfold into makes them. *)

\* parse_expr.
LEMMA ExprMeets ==
    ASSUME NEW list, NEW old, NEW new, NEW T, NEW i \in Positions(list), NEW s \in Stacks,
           old[1].do = "expr",
           Unfolded(list, old, new, <<Parse("subexpr"), Parse("comparison")>>)
    PROVE  Meets(list, old, 1, i, s, T) <=> Meets(list, new, 1, i, s, T)
<1> DEFINE t1 == Parse("subexpr")
           t2 == Parse("comparison")
           news == <<t1, t2>>
           M(n, a, r) == Meets(list, new, n, a, r, T)
           K(a, r) == Meets(list, old, 2, a, r, T)
<1>a. Unfolded(list, old, new, news) /\ IsTokenList(list)
  BY DEF Unfolded
<1>b. /\ 1 \in 1 .. Len(news) /\ 2 \in 1 .. Len(news)
      /\ news[1] = t1 /\ news[2] = t2 /\ Len(news) + 1 = 3
      /\ 2 = 1 + 1 /\ 3 = 2 + 1
  <2> HIDE DEF t1, t2
  <2> QED OBVIOUS
<1> HIDE DEF news
<1>c. \A a, r : M(3, a, r) <=> K(a, r)
  <2>1. \A a, r : Meets(list, new, Len(news) + 1, a, r, T) <=> K(a, r)
    BY <1>a, AtEnd
  <2> QED BY <1>b, <2>1
<1>t1. \A a \in Positions(list) : \A r \in Stacks :
         M(1, a, r) <=> \E j \in Positions(list) : \E t \in Tables :
                           MakesSum(list, a, j, t) /\ M(2, j, Append(r, t))
  <2>1. Begins(list, new, 1, MakesSum, T)
    BY <1>a, <1>b, AtMaker
  <2>2. \A j, r : Meets(list, new, 1 + 1, j, r, T) <=> M(2, j, r)
    BY <1>b
  <2>3. \A a, r : Meets(list, new, 1, a, r, T) <=> M(1, a, r)
    OBVIOUS
  <2> HIDE DEF M
  <2> QED BY <2>1, <2>2, <2>3, Zenon DEF Begins
<1>t2. \A a \in Positions(list) : \A r \in Stacks : \A l \in Tables :
         /\ Ahead(list, a, ExprOpOf) =>
               (M(2, a, Append(r, l)) <=>
                   \E j \in Positions(list) : \E x \in Tables :
                      MakesSum(list, a + 1, j, x)
                      /\ M(3, j, Append(r, Over(BinOp(ExprOpOf[list[a].type]), <<l, x>>))))
         /\ ~Ahead(list, a, ExprOpOf) => (M(2, a, Append(r, l)) <=> M(3, a, Append(r, l)))
  <2>1. Joins(list, new, 2, ExprOpOf, MakesSum, T)
    BY <1>a, <1>b, AtRest
  <2>2. \A j, r : Meets(list, new, 2 + 1, j, r, T) <=> M(3, j, r)
    BY <1>b
  <2>3. \A a, r : Meets(list, new, 2, a, r, T) <=> M(2, a, r)
    OBVIOUS
  <2> HIDE DEF M
  <2> TAKE a \in Positions(list)
  <2> TAKE r \in Stacks
  <2> TAKE l \in Tables
  <2>4. CASE Ahead(list, a, ExprOpOf)
    <3>1. Meets(list, new, 2, a, Append(r, l), T) <=>
             \E j \in Positions(list) : \E x \in Tables :
                /\ MakesSum(list, a + 1, j, x)
                /\ Meets(list, new, 2 + 1, j, Append(r, Over(BinOp(ExprOpOf[list[a].type]), <<l, x>>)), T)
      BY <2>1, <2>4 DEF Joins
    <3> QED BY <2>2, <2>3, <2>4, <3>1, Zenon
  <2>5. CASE ~Ahead(list, a, ExprOpOf)
    <3>1. Meets(list, new, 2, a, Append(r, l), T) <=> Meets(list, new, 2 + 1, a, Append(r, l), T)
      BY <2>1, <2>5 DEF Joins
    <3> QED BY <2>2, <2>3, <2>5, <3>1, Zenon
  <2> QED BY <2>4, <2>5
<1>d. \A t \in Tables : Append(s, t) \in Stacks
  BY AppendProperties DEF Stacks
<1>e. Meets(list, old, 1, i, s, T) <=>
         \E j \in Positions(list) : \E t \in Tables : MakesExpr(list, i, j, t) /\ K(j, Append(s, t))
  <2>1. Begins(list, old, 1, MakesExpr, T) /\ 1 + 1 = 2
    BY <1>a, OldBegins
  <2>2. \A j, r : Meets(list, old, 1 + 1, j, r, T) <=> K(j, r)
    BY <2>1
  <2> HIDE DEF K
  <2> QED BY <2>1, <2>2, Zenon DEF Begins
<1> HIDE DEF M, K
<1>0. \A k \in Positions(list) : \A l \in Tables :
         M(2, k, Append(s, l)) <=>
            \E j \in Positions(list) : \E t \in Tables :
               Extended(list, ExprOpOf, MakesSum, k, l, j, t) /\ K(j, Append(s, t))
  <2> TAKE k \in Positions(list)
  <2> TAKE l \in Tables
  <2>1. CASE Ahead(list, k, ExprOpOf)
    <3>1. PICK node \in Leaves : node = BinOp(ExprOpOf[list[k].type])
      BY <2>1, OperatorTypes, BinOpLeaf DEF Ahead
    <3>2. \A x \in Tables : Over(node, <<l, x>>) \in Tables
      BY OverTable, FewTables
    <3>3. \A j, t : Extended(list, ExprOpOf, MakesSum, k, l, j, t) <=>
             \E x \in Tables : MakesSum(list, k + 1, j, x) /\ t = Over(node, <<l, x>>)
      BY <2>1, <3>1, Zenon DEF Extended
    <3>4. M(2, k, Append(s, l)) <=>
             \E j \in Positions(list) : \E x \in Tables :
                MakesSum(list, k + 1, j, x) /\ M(3, j, Append(s, Over(node, <<l, x>>)))
      BY <1>t2, <2>1, <3>1, Zenon
    <3>5. M(2, k, Append(s, l)) <=>
             \E j \in Positions(list) : \E x \in Tables :
                MakesSum(list, k + 1, j, x) /\ K(j, Append(s, Over(node, <<l, x>>)))
      BY <1>c, <3>4, Zenon
    <3> QED BY <3>2, <3>3, <3>5, Zenon
  <2>2. CASE ~Ahead(list, k, ExprOpOf)
    <3>1. \A j, t : Extended(list, ExprOpOf, MakesSum, k, l, j, t) <=> j = k /\ t = l
      BY <2>2, Zenon DEF Extended
    <3>2. M(2, k, Append(s, l)) <=> M(3, k, Append(s, l))
      BY <1>t2, <2>2, Zenon
    <3> QED BY <1>c, <3>1, <3>2, Zenon
  <2> QED BY <2>1, <2>2
<1>1. \A j \in Positions(list) : \A t \in Tables : MakesExpr(list, i, j, t) <=>
         \E k \in Positions(list) : \E l \in Tables :
            MakesSum(list, i, k, l) /\ Extended(list, ExprOpOf, MakesSum, k, l, j, t)
  BY <1>a, ExprMakes
<1>2. M(1, i, s) <=> Meets(list, old, 1, i, s, T)
  BY <1>e, <1>t1, <1>0, <1>1, Zenon
<1> QED BY <1>2 DEF M

\* parse_term.
LEMMA TermMeets ==
    ASSUME NEW list, NEW old, NEW new, NEW T, NEW i \in Positions(list), NEW s \in Stacks,
           old[1].do = "term",
           Unfolded(list, old, new, <<Parse("factor"), Parse("factors")>>)
    PROVE  Meets(list, old, 1, i, s, T) <=> Meets(list, new, 1, i, s, T)
<1> DEFINE t1 == Parse("factor")
           t2 == Parse("factors")
           news == <<t1, t2>>
           M(n, a, r) == Meets(list, new, n, a, r, T)
           K(a, r) == Meets(list, old, 2, a, r, T)
<1>a. Unfolded(list, old, new, news) /\ IsTokenList(list)
  BY DEF Unfolded
<1>b. /\ 1 \in 1 .. Len(news) /\ 2 \in 1 .. Len(news)
      /\ news[1] = t1 /\ news[2] = t2 /\ Len(news) + 1 = 3
      /\ 2 = 1 + 1 /\ 3 = 2 + 1
  <2> HIDE DEF t1, t2
  <2> QED OBVIOUS
<1> HIDE DEF news
<1>c. \A a, r : M(3, a, r) <=> K(a, r)
  <2>1. \A a, r : Meets(list, new, Len(news) + 1, a, r, T) <=> K(a, r)
    BY <1>a, AtEnd
  <2> QED BY <1>b, <2>1
<1>t1. \A a \in Positions(list) : \A r \in Stacks :
         M(1, a, r) <=> \E j \in Positions(list) : \E t \in Tables :
                           MakesFactor(list, a, j, t) /\ M(2, j, Append(r, t))
  <2>1. Begins(list, new, 1, MakesFactor, T)
    BY <1>a, <1>b, AtMaker
  <2>2. \A j, r : Meets(list, new, 1 + 1, j, r, T) <=> M(2, j, r)
    BY <1>b
  <2>3. \A a, r : Meets(list, new, 1, a, r, T) <=> M(1, a, r)
    OBVIOUS
  <2> HIDE DEF M
  <2> QED BY <2>1, <2>2, <2>3, Zenon DEF Begins
<1>t2. \A a \in Positions(list) : \A r \in Stacks : \A l \in Tables :
         /\ Ahead(list, a, FactorOpOf) =>
               (M(2, a, Append(r, l)) <=>
                   \E j \in Positions(list) : \E x \in Tables :
                      MakesTerm(list, a + 1, j, x)
                      /\ M(3, j, Append(r, Over(BinOp(FactorOpOf[list[a].type]), <<l, x>>))))
         /\ ~Ahead(list, a, FactorOpOf) => (M(2, a, Append(r, l)) <=> M(3, a, Append(r, l)))
  <2>1. Joins(list, new, 2, FactorOpOf, MakesTerm, T)
    BY <1>a, <1>b, AtRest
  <2>2. \A j, r : Meets(list, new, 2 + 1, j, r, T) <=> M(3, j, r)
    BY <1>b
  <2>3. \A a, r : Meets(list, new, 2, a, r, T) <=> M(2, a, r)
    OBVIOUS
  <2> HIDE DEF M
  <2> TAKE a \in Positions(list)
  <2> TAKE r \in Stacks
  <2> TAKE l \in Tables
  <2>4. CASE Ahead(list, a, FactorOpOf)
    <3>1. Meets(list, new, 2, a, Append(r, l), T) <=>
             \E j \in Positions(list) : \E x \in Tables :
                /\ MakesTerm(list, a + 1, j, x)
                /\ Meets(list, new, 2 + 1, j, Append(r, Over(BinOp(FactorOpOf[list[a].type]), <<l, x>>)), T)
      BY <2>1, <2>4 DEF Joins
    <3> QED BY <2>2, <2>3, <2>4, <3>1, Zenon
  <2>5. CASE ~Ahead(list, a, FactorOpOf)
    <3>1. Meets(list, new, 2, a, Append(r, l), T) <=> Meets(list, new, 2 + 1, a, Append(r, l), T)
      BY <2>1, <2>5 DEF Joins
    <3> QED BY <2>2, <2>3, <2>5, <3>1, Zenon
  <2> QED BY <2>4, <2>5
<1>d. \A t \in Tables : Append(s, t) \in Stacks
  BY AppendProperties DEF Stacks
<1>e. Meets(list, old, 1, i, s, T) <=>
         \E j \in Positions(list) : \E t \in Tables : MakesTerm(list, i, j, t) /\ K(j, Append(s, t))
  <2>1. Begins(list, old, 1, MakesTerm, T) /\ 1 + 1 = 2
    BY <1>a, OldBegins
  <2>2. \A j, r : Meets(list, old, 1 + 1, j, r, T) <=> K(j, r)
    BY <2>1
  <2> HIDE DEF K
  <2> QED BY <2>1, <2>2, Zenon DEF Begins
<1> HIDE DEF M, K
<1>0. \A k \in Positions(list) : \A l \in Tables :
         M(2, k, Append(s, l)) <=>
            \E j \in Positions(list) : \E t \in Tables :
               Extended(list, FactorOpOf, MakesTerm, k, l, j, t) /\ K(j, Append(s, t))
  <2> TAKE k \in Positions(list)
  <2> TAKE l \in Tables
  <2>1. CASE Ahead(list, k, FactorOpOf)
    <3>1. PICK node \in Leaves : node = BinOp(FactorOpOf[list[k].type])
      BY <2>1, OperatorTypes, BinOpLeaf DEF Ahead
    <3>2. \A x \in Tables : Over(node, <<l, x>>) \in Tables
      BY OverTable, FewTables
    <3>3. \A j, t : Extended(list, FactorOpOf, MakesTerm, k, l, j, t) <=>
             \E x \in Tables : MakesTerm(list, k + 1, j, x) /\ t = Over(node, <<l, x>>)
      BY <2>1, <3>1, Zenon DEF Extended
    <3>4. M(2, k, Append(s, l)) <=>
             \E j \in Positions(list) : \E x \in Tables :
                MakesTerm(list, k + 1, j, x) /\ M(3, j, Append(s, Over(node, <<l, x>>)))
      BY <1>t2, <2>1, <3>1, Zenon
    <3>5. M(2, k, Append(s, l)) <=>
             \E j \in Positions(list) : \E x \in Tables :
                MakesTerm(list, k + 1, j, x) /\ K(j, Append(s, Over(node, <<l, x>>)))
      BY <1>c, <3>4, Zenon
    <3> QED BY <3>2, <3>3, <3>5, Zenon
  <2>2. CASE ~Ahead(list, k, FactorOpOf)
    <3>1. \A j, t : Extended(list, FactorOpOf, MakesTerm, k, l, j, t) <=> j = k /\ t = l
      BY <2>2, Zenon DEF Extended
    <3>2. M(2, k, Append(s, l)) <=> M(3, k, Append(s, l))
      BY <1>t2, <2>2, Zenon
    <3> QED BY <1>c, <3>1, <3>2, Zenon
  <2> QED BY <2>1, <2>2
<1>1. \A j \in Positions(list) : \A t \in Tables : MakesTerm(list, i, j, t) <=>
         \E k \in Positions(list) : \E l \in Tables :
            MakesFactor(list, i, k, l) /\ Extended(list, FactorOpOf, MakesTerm, k, l, j, t)
  BY <1>a, TermMakes
<1>2. M(1, i, s) <=> Meets(list, old, 1, i, s, T)
  BY <1>e, <1>t1, <1>0, <1>1, Zenon
<1> QED BY <1>2 DEF M

\* parse_subexpr.
LEMMA SubexprMeets ==
    ASSUME NEW list, NEW old, NEW new, NEW T, NEW i \in Positions(list), NEW s \in Stacks,
           old[1].do = "subexpr",
           Unfolded(list, old, new, <<Parse("term"), Parse("terms")>>)
    PROVE  Meets(list, old, 1, i, s, T) <=> Meets(list, new, 1, i, s, T)
<1> DEFINE t1 == Parse("term")
           t2 == Parse("terms")
           news == <<t1, t2>>
           M(n, a, r) == Meets(list, new, n, a, r, T)
           K(a, r) == Meets(list, old, 2, a, r, T)
<1>a. Unfolded(list, old, new, news) /\ IsTokenList(list)
  BY DEF Unfolded
<1>b. /\ 1 \in 1 .. Len(news) /\ 2 \in 1 .. Len(news)
      /\ news[1] = t1 /\ news[2] = t2 /\ Len(news) + 1 = 3
      /\ 2 = 1 + 1 /\ 3 = 2 + 1
  <2> HIDE DEF t1, t2
  <2> QED OBVIOUS
<1> HIDE DEF news
<1>c. \A a, r : M(3, a, r) <=> K(a, r)
  <2>1. \A a, r : Meets(list, new, Len(news) + 1, a, r, T) <=> K(a, r)
    BY <1>a, AtEnd
  <2> QED BY <1>b, <2>1
<1>t1. \A a \in Positions(list) : \A r \in Stacks :
         M(1, a, r) <=> \E j \in Positions(list) : \E t \in Tables :
                           MakesTerm(list, a, j, t) /\ M(2, j, Append(r, t))
  <2>1. Begins(list, new, 1, MakesTerm, T)
    BY <1>a, <1>b, AtMaker
  <2>2. \A j, r : Meets(list, new, 1 + 1, j, r, T) <=> M(2, j, r)
    BY <1>b
  <2>3. \A a, r : Meets(list, new, 1, a, r, T) <=> M(1, a, r)
    OBVIOUS
  <2> HIDE DEF M
  <2> QED BY <2>1, <2>2, <2>3, Zenon DEF Begins
<1>t2. \A a \in Positions(list) : \A r \in Stacks : \A l \in Tables :
         M(2, a, Append(r, l)) <=> \E j \in Positions(list) : \E t \in Tables :
                                     Turned(list, "terms", a, l, j, t) /\ M(3, j, Append(r, t))
  <2>1. Turns(list, new, 2, "terms", T)
    BY <1>a, <1>b, AtRest
  <2>2. \A j, r : Meets(list, new, 2 + 1, j, r, T) <=> M(3, j, r)
    BY <1>b
  <2>3. \A a, r : Meets(list, new, 2, a, r, T) <=> M(2, a, r)
    OBVIOUS
  <2> HIDE DEF M
  <2> QED BY <2>1, <2>2, <2>3, Zenon DEF Turns
<1>d. \A t \in Tables : Append(s, t) \in Stacks
  BY AppendProperties DEF Stacks
<1>e. Meets(list, old, 1, i, s, T) <=>
         \E j \in Positions(list) : \E t \in Tables : MakesSum(list, i, j, t) /\ K(j, Append(s, t))
  <2>1. Begins(list, old, 1, MakesSum, T) /\ 1 + 1 = 2
    BY <1>a, OldBegins
  <2>2. \A j, r : Meets(list, old, 1 + 1, j, r, T) <=> K(j, r)
    BY <2>1
  <2> HIDE DEF K
  <2> QED BY <2>1, <2>2, Zenon DEF Begins
<1> HIDE DEF M, K
<1>1. \A j \in Positions(list) : \A t \in Tables : MakesSum(list, i, j, t) <=>
         \E k \in Positions(list) : \E l \in Tables :
            MakesTerm(list, i, k, l) /\ Turned(list, "terms", k, l, j, t)
  <2>1. \A j \in Positions(list) : \A t \in Tables : MakesSum(list, i, j, t) <=>
           /\ ~Ahead(list, j, TermOpOf)
           /\ \E k \in Positions(list) : \E l \in Tables :
                 MakesTerm(list, i, k, l) /\ Reaches(list, k, l, j, t)
    BY <1>a, SumIs
  <2>2. \A k, l, j, t : Turned(list, "terms", k, l, j, t) <=> ~Ahead(list, j, TermOpOf) /\ Reaches(list, k, l, j, t)
    BY DEF Turned
  <2> QED BY <2>1, <2>2, Zenon
<1>2. \A k \in Positions(list) : \A l \in Tables :
         M(2, k, Append(s, l)) <=>
            \E j \in Positions(list) : \E t \in Tables : Turned(list, "terms", k, l, j, t) /\ K(j, Append(s, t))
  <2> TAKE k \in Positions(list)
  <2> TAKE l \in Tables
  <2>1. M(2, k, Append(s, l)) <=>
           \E j \in Positions(list) : \E t \in Tables : Turned(list, "terms", k, l, j, t) /\ M(3, j, Append(s, t))
    BY <1>t2
  <2> QED BY <1>c, <2>1, Zenon
<1>3. M(1, i, s) <=>
         \E k \in Positions(list) : \E l \in Tables : MakesTerm(list, i, k, l) /\ M(2, k, Append(s, l))
  BY <1>t1
<1>4. M(1, i, s) <=> Meets(list, old, 1, i, s, T)
  BY <1>e, <1>1, <1>2, <1>3, Zenon
<1> QED BY <1>4 DEF M

\* parse_expr: the second operand.
LEMMA ComparisonMeets ==
    ASSUME NEW list, NEW old, NEW new, NEW T, NEW i \in Positions(list), NEW q \in Stacks, NEW l \in Tables,
           old[1].do = "comparison", Ahead(list, i, ExprOpOf),
           Unfolded(list, old, new, <<Parse("subexpr"), Make(BinOp(ExprOpOf[list[i].type]), 2)>>)
    PROVE  Meets(list, old, 1, i, Append(q, l), T) <=> Meets(list, new, 1, i + 1, Append(q, l), T)
<1> DEFINE t1 == Parse("subexpr")
           t2 == Make(BinOp(ExprOpOf[list[i].type]), 2)
           news == <<t1, t2>>
           M(n, a, r) == Meets(list, new, n, a, r, T)
           K(a, r) == Meets(list, old, 2, a, r, T)
<1>a. Unfolded(list, old, new, news) /\ IsTokenList(list)
  BY DEF Unfolded
<1>b. /\ 1 \in 1 .. Len(news) /\ 2 \in 1 .. Len(news)
      /\ news[1] = t1 /\ news[2] = t2 /\ Len(news) + 1 = 3
      /\ 2 = 1 + 1 /\ 3 = 2 + 1
  <2> HIDE DEF t1, t2
  <2> QED OBVIOUS
<1> HIDE DEF news
<1>c. \A a, r : M(3, a, r) <=> K(a, r)
  <2>1. \A a, r : Meets(list, new, Len(news) + 1, a, r, T) <=> K(a, r)
    BY <1>a, AtEnd
  <2> QED BY <1>b, <2>1
<1>leaf. BinOp(ExprOpOf[list[i].type]) \in Leaves
  BY OperatorTypes, BinOpLeaf DEF Ahead
<1>t1. \A a \in Positions(list) : \A r \in Stacks :
         M(1, a, r) <=> \E j \in Positions(list) : \E t \in Tables :
                           MakesSum(list, a, j, t) /\ M(2, j, Append(r, t))
  <2>1. Begins(list, new, 1, MakesSum, T)
    BY <1>a, <1>b, AtMaker
  <2>2. \A j, r : Meets(list, new, 1 + 1, j, r, T) <=> M(2, j, r)
    BY <1>b
  <2>3. \A a, r : Meets(list, new, 1, a, r, T) <=> M(1, a, r)
    OBVIOUS
  <2> HIDE DEF M
  <2> QED BY <2>1, <2>2, <2>3, Zenon DEF Begins
<1>t2. \A a \in Positions(list) : \A r \in Stacks : \A c \in Tables : \A d \in Tables :
         /\ Over(BinOp(ExprOpOf[list[i].type]), <<c, d>>) \in Tables
         /\ M(2, a, Append(Append(r, c), d)) <=> M(3, a, Append(r, Over(BinOp(ExprOpOf[list[i].type]), <<c, d>>)))
  <2>1. Creates2(list, new, 2, BinOp(ExprOpOf[list[i].type]), T)
    BY <1>a, <1>b, <1>leaf, AtMake2
  <2>2. \A j, r : Meets(list, new, 2 + 1, j, r, T) <=> M(3, j, r)
    BY <1>b
  <2>3. \A a, r : Meets(list, new, 2, a, r, T) <=> M(2, a, r)
    OBVIOUS
  <2> HIDE DEF M
  <2> QED BY <2>1, <2>2, <2>3, Zenon DEF Creates2
<1>e. Meets(list, old, 1, i, Append(q, l), T) <=>
         \E j \in Positions(list) : \E x \in Tables :
            MakesSum(list, i + 1, j, x) /\ K(j, Append(q, Over(BinOp(ExprOpOf[list[i].type]), <<l, x>>)))
  <2>1. Joins(list, old, 1, ExprOpOf, MakesSum, T) /\ 1 + 1 = 2
    BY <1>a, OldRest
  <2>2. \A j, r : Meets(list, old, 1 + 1, j, r, T) <=> K(j, r)
    BY <2>1
  <2>3. Meets(list, old, 1, i, Append(q, l), T) <=>
         \E j \in Positions(list) : \E x \in Tables :
            MakesSum(list, i + 1, j, x) /\ Meets(list, old, 1 + 1, j, Append(q, Over(BinOp(ExprOpOf[list[i].type]), <<l, x>>)), T)
    BY <2>1 DEF Joins
  <2> HIDE DEF K
  <2> QED BY <2>2, <2>3, Zenon
<1>d. \A t \in Tables : Append(q, t) \in Stacks
  BY AppendProperties DEF Stacks
<1> HIDE DEF M, K
<1>0. i + 1 \in Positions(list) /\ Append(q, l) \in Stacks
  BY <1>a, AheadPlace, AppendProperties DEF Stacks
<1>1. M(1, i + 1, Append(q, l)) <=>
         \E j \in Positions(list) : \E x \in Tables :
            MakesSum(list, i + 1, j, x) /\ M(2, j, Append(Append(q, l), x))
  BY <1>0, <1>t1
<1>2. \A j \in Positions(list) : \A x \in Tables :
         M(2, j, Append(Append(q, l), x)) <=> K(j, Append(q, Over(BinOp(ExprOpOf[list[i].type]), <<l, x>>)))
  BY <1>c, <1>t2, Zenon
<1>3. M(1, i + 1, Append(q, l)) <=> Meets(list, old, 1, i, Append(q, l), T)
  BY <1>e, <1>1, <1>2, Zenon
<1> QED BY <1>3 DEF M

\* parse_term: the right operand.
LEMMA FactorsMeets ==
    ASSUME NEW list, NEW old, NEW new, NEW T, NEW i \in Positions(list), NEW q \in Stacks, NEW l \in Tables,
           old[1].do = "factors", Ahead(list, i, FactorOpOf),
           Unfolded(list, old, new, <<Parse("term"), Make(BinOp(FactorOpOf[list[i].type]), 2),
                                      Parse("factors")>>)
    PROVE  Meets(list, old, 1, i, Append(q, l), T) <=> Meets(list, new, 1, i + 1, Append(q, l), T)
<1> DEFINE t1 == Parse("term")
           t2 == Make(BinOp(FactorOpOf[list[i].type]), 2)
           t3 == Parse("factors")
           news == <<t1, t2, t3>>
           M(n, a, r) == Meets(list, new, n, a, r, T)
           K(a, r) == Meets(list, old, 2, a, r, T)
<1>a. Unfolded(list, old, new, news) /\ IsTokenList(list)
  BY DEF Unfolded
<1>b. /\ 1 \in 1 .. Len(news) /\ 2 \in 1 .. Len(news) /\ 3 \in 1 .. Len(news)
      /\ news[1] = t1 /\ news[2] = t2 /\ news[3] = t3 /\ Len(news) + 1 = 4
      /\ 2 = 1 + 1 /\ 3 = 2 + 1 /\ 4 = 3 + 1
  <2> HIDE DEF t1, t2, t3
  <2> QED OBVIOUS
<1> HIDE DEF news
<1>c. \A a, r : M(4, a, r) <=> K(a, r)
  <2>1. \A a, r : Meets(list, new, Len(news) + 1, a, r, T) <=> K(a, r)
    BY <1>a, AtEnd
  <2> QED BY <1>b, <2>1
<1>leaf. BinOp(FactorOpOf[list[i].type]) \in Leaves
  BY OperatorTypes, BinOpLeaf DEF Ahead
<1>t1. \A a \in Positions(list) : \A r \in Stacks :
         M(1, a, r) <=> \E j \in Positions(list) : \E t \in Tables :
                           MakesTerm(list, a, j, t) /\ M(2, j, Append(r, t))
  <2>1. Begins(list, new, 1, MakesTerm, T)
    BY <1>a, <1>b, AtMaker
  <2>2. \A j, r : Meets(list, new, 1 + 1, j, r, T) <=> M(2, j, r)
    BY <1>b
  <2>3. \A a, r : Meets(list, new, 1, a, r, T) <=> M(1, a, r)
    OBVIOUS
  <2> HIDE DEF M
  <2> QED BY <2>1, <2>2, <2>3, Zenon DEF Begins
<1>t2. \A a \in Positions(list) : \A r \in Stacks : \A c \in Tables : \A d \in Tables :
         /\ Over(BinOp(FactorOpOf[list[i].type]), <<c, d>>) \in Tables
         /\ M(2, a, Append(Append(r, c), d)) <=> M(3, a, Append(r, Over(BinOp(FactorOpOf[list[i].type]), <<c, d>>)))
  <2>1. Creates2(list, new, 2, BinOp(FactorOpOf[list[i].type]), T)
    BY <1>a, <1>b, <1>leaf, AtMake2
  <2>2. \A j, r : Meets(list, new, 2 + 1, j, r, T) <=> M(3, j, r)
    BY <1>b
  <2>3. \A a, r : Meets(list, new, 2, a, r, T) <=> M(2, a, r)
    OBVIOUS
  <2> HIDE DEF M
  <2> QED BY <2>1, <2>2, <2>3, Zenon DEF Creates2
<1>t3. \A a \in Positions(list) : \A r \in Stacks : \A y \in Tables :
         /\ Ahead(list, a, FactorOpOf) =>
               (M(3, a, Append(r, y)) <=>
                   \E j \in Positions(list) : \E x \in Tables :
                      MakesTerm(list, a + 1, j, x)
                      /\ M(4, j, Append(r, Over(BinOp(FactorOpOf[list[a].type]), <<y, x>>))))
         /\ ~Ahead(list, a, FactorOpOf) => (M(3, a, Append(r, y)) <=> M(4, a, Append(r, y)))
  <2>1. Joins(list, new, 3, FactorOpOf, MakesTerm, T)
    BY <1>a, <1>b, AtRest
  <2>2. \A j, r : Meets(list, new, 3 + 1, j, r, T) <=> M(4, j, r)
    BY <1>b
  <2>3. \A a, r : Meets(list, new, 3, a, r, T) <=> M(3, a, r)
    OBVIOUS
  <2> HIDE DEF M
  <2> TAKE a \in Positions(list)
  <2> TAKE r \in Stacks
  <2> TAKE y \in Tables
  <2>4. CASE Ahead(list, a, FactorOpOf)
    <3>1. Meets(list, new, 3, a, Append(r, y), T) <=>
             \E j \in Positions(list) : \E x \in Tables :
                /\ MakesTerm(list, a + 1, j, x)
                /\ Meets(list, new, 3 + 1, j, Append(r, Over(BinOp(FactorOpOf[list[a].type]), <<y, x>>)), T)
      BY <2>1, <2>4 DEF Joins
    <3> QED BY <2>2, <2>3, <2>4, <3>1, Zenon
  <2>5. CASE ~Ahead(list, a, FactorOpOf)
    <3>1. Meets(list, new, 3, a, Append(r, y), T) <=> Meets(list, new, 3 + 1, a, Append(r, y), T)
      BY <2>1, <2>5 DEF Joins
    <3> QED BY <2>2, <2>3, <2>5, <3>1, Zenon
  <2> QED BY <2>4, <2>5
<1>e. Meets(list, old, 1, i, Append(q, l), T) <=>
         \E j \in Positions(list) : \E x \in Tables :
            MakesTerm(list, i + 1, j, x) /\ K(j, Append(q, Over(BinOp(FactorOpOf[list[i].type]), <<l, x>>)))
  <2>1. Joins(list, old, 1, FactorOpOf, MakesTerm, T) /\ 1 + 1 = 2
    BY <1>a, OldRest
  <2>2. \A j, r : Meets(list, old, 1 + 1, j, r, T) <=> K(j, r)
    BY <2>1
  <2>3. Meets(list, old, 1, i, Append(q, l), T) <=>
         \E j \in Positions(list) : \E x \in Tables :
            MakesTerm(list, i + 1, j, x) /\ Meets(list, old, 1 + 1, j, Append(q, Over(BinOp(FactorOpOf[list[i].type]), <<l, x>>)), T)
    BY <2>1 DEF Joins
  <2> HIDE DEF K
  <2> QED BY <2>2, <2>3, Zenon
<1>d. \A t \in Tables : Append(q, t) \in Stacks
  BY AppendProperties DEF Stacks
<1> HIDE DEF M, K
<1>0. i + 1 \in Positions(list) /\ Append(q, l) \in Stacks
  BY <1>a, AheadPlace, AppendProperties DEF Stacks
<1>1. M(1, i + 1, Append(q, l)) <=>
         \E j \in Positions(list) : \E x \in Tables :
            MakesTerm(list, i + 1, j, x) /\ M(2, j, Append(Append(q, l), x))
  BY <1>0, <1>t1
<1>2. \A j \in Positions(list) : \A x \in Tables :
         MakesTerm(list, i + 1, j, x) =>
            (M(2, j, Append(Append(q, l), x)) <=> K(j, Append(q, Over(BinOp(FactorOpOf[list[i].type]), <<l, x>>))))
  <2> TAKE j \in Positions(list)
  <2> TAKE x \in Tables
  <2> HAVE MakesTerm(list, i + 1, j, x)
  <2>1. PICK t : t = Over(BinOp(FactorOpOf[list[i].type]), <<l, x>>)
    OBVIOUS
  <2>2. t \in Tables /\ (M(2, j, Append(Append(q, l), x)) <=> M(3, j, Append(q, t)))
    BY <1>t2, <2>1, Zenon
  <2>3. ~Ahead(list, j, FactorOpOf)
    BY DEF MakesTerm
  <2>4. M(3, j, Append(q, t)) <=> M(4, j, Append(q, t))
    BY <1>t3, <2>2, <2>3, Zenon
  <2> QED BY <1>c, <2>1, <2>2, <2>4
<1>3. M(1, i + 1, Append(q, l)) <=> Meets(list, old, 1, i, Append(q, l), T)
  BY <1>e, <1>1, <1>2, Zenon
<1> QED BY <1>3 DEF M

\* parse_subexpr: the next term.
LEMMA TermsMeets ==
    ASSUME NEW list, NEW old, NEW new, NEW T, NEW i \in Positions(list), NEW q \in Stacks, NEW l \in Tables,
           old[1].do = "terms", Ahead(list, i, TermOpOf),
           Unfolded(list, old, new, <<Parse("term"), Make(BinOp(TermOpOf[list[i].type]), 2),
                                      Parse("terms")>>)
    PROVE  Meets(list, old, 1, i, Append(q, l), T) <=> Meets(list, new, 1, i + 1, Append(q, l), T)
<1> DEFINE t1 == Parse("term")
           t2 == Make(BinOp(TermOpOf[list[i].type]), 2)
           t3 == Parse("terms")
           news == <<t1, t2, t3>>
           M(n, a, r) == Meets(list, new, n, a, r, T)
           K(a, r) == Meets(list, old, 2, a, r, T)
<1>a. Unfolded(list, old, new, news) /\ IsTokenList(list)
  BY DEF Unfolded
<1>b. /\ 1 \in 1 .. Len(news) /\ 2 \in 1 .. Len(news) /\ 3 \in 1 .. Len(news)
      /\ news[1] = t1 /\ news[2] = t2 /\ news[3] = t3 /\ Len(news) + 1 = 4
      /\ 2 = 1 + 1 /\ 3 = 2 + 1 /\ 4 = 3 + 1
  <2> HIDE DEF t1, t2, t3
  <2> QED OBVIOUS
<1> HIDE DEF news
<1>c. \A a, r : M(4, a, r) <=> K(a, r)
  <2>1. \A a, r : Meets(list, new, Len(news) + 1, a, r, T) <=> K(a, r)
    BY <1>a, AtEnd
  <2> QED BY <1>b, <2>1
<1>leaf. BinOp(TermOpOf[list[i].type]) \in Leaves
  BY OperatorTypes, BinOpLeaf DEF Ahead
<1>t1. \A a \in Positions(list) : \A r \in Stacks :
         M(1, a, r) <=> \E j \in Positions(list) : \E t \in Tables :
                           MakesTerm(list, a, j, t) /\ M(2, j, Append(r, t))
  <2>1. Begins(list, new, 1, MakesTerm, T)
    BY <1>a, <1>b, AtMaker
  <2>2. \A j, r : Meets(list, new, 1 + 1, j, r, T) <=> M(2, j, r)
    BY <1>b
  <2>3. \A a, r : Meets(list, new, 1, a, r, T) <=> M(1, a, r)
    OBVIOUS
  <2> HIDE DEF M
  <2> QED BY <2>1, <2>2, <2>3, Zenon DEF Begins
<1>t2. \A a \in Positions(list) : \A r \in Stacks : \A c \in Tables : \A d \in Tables :
         /\ Over(BinOp(TermOpOf[list[i].type]), <<c, d>>) \in Tables
         /\ M(2, a, Append(Append(r, c), d)) <=> M(3, a, Append(r, Over(BinOp(TermOpOf[list[i].type]), <<c, d>>)))
  <2>1. Creates2(list, new, 2, BinOp(TermOpOf[list[i].type]), T)
    BY <1>a, <1>b, <1>leaf, AtMake2
  <2>2. \A j, r : Meets(list, new, 2 + 1, j, r, T) <=> M(3, j, r)
    BY <1>b
  <2>3. \A a, r : Meets(list, new, 2, a, r, T) <=> M(2, a, r)
    OBVIOUS
  <2> HIDE DEF M
  <2> QED BY <2>1, <2>2, <2>3, Zenon DEF Creates2
<1>t3. \A a \in Positions(list) : \A r \in Stacks : \A y \in Tables :
         M(3, a, Append(r, y)) <=> \E j \in Positions(list) : \E t \in Tables :
                                     Turned(list, "terms", a, y, j, t) /\ M(4, j, Append(r, t))
  <2>1. Turns(list, new, 3, "terms", T)
    BY <1>a, <1>b, AtRest
  <2>2. \A j, r : Meets(list, new, 3 + 1, j, r, T) <=> M(4, j, r)
    BY <1>b
  <2>3. \A a, r : Meets(list, new, 3, a, r, T) <=> M(3, a, r)
    OBVIOUS
  <2> HIDE DEF M
  <2> QED BY <2>1, <2>2, <2>3, Zenon DEF Turns
<1>e. Meets(list, old, 1, i, Append(q, l), T) <=>
         \E j \in Positions(list) : \E t \in Tables : Turned(list, "terms", i, l, j, t) /\ K(j, Append(q, t))
  <2>1. Turns(list, old, 1, "terms", T) /\ 1 + 1 = 2
    BY <1>a, OldRest
  <2>2. \A j, r : Meets(list, old, 1 + 1, j, r, T) <=> K(j, r)
    BY <2>1
  <2> HIDE DEF K
  <2> QED BY <2>1, <2>2, Zenon DEF Turns
<1>d. \A t \in Tables : Append(q, t) \in Stacks
  BY AppendProperties DEF Stacks
<1> HIDE DEF M, K
<1>0. i + 1 \in Positions(list) /\ Append(q, l) \in Stacks
  BY <1>a, AheadPlace, AppendProperties DEF Stacks
<1>1. M(1, i + 1, Append(q, l)) <=>
         \E k \in Positions(list) : \E x \in Tables :
            MakesTerm(list, i + 1, k, x) /\ M(2, k, Append(Append(q, l), x))
  BY <1>0, <1>t1
<1>2. PICK node \in Leaves : node = BinOp(TermOpOf[list[i].type])
  BY <1>leaf
<1>3. \A x \in Tables : Over(node, <<l, x>>) \in Tables
  BY OverTable, FewTables
<1>4. \A k \in Positions(list) : \A x \in Tables :
         M(2, k, Append(Append(q, l), x)) <=>
            \E j \in Positions(list) : \E t \in Tables :
               Turned(list, "terms", k, Over(node, <<l, x>>), j, t) /\ K(j, Append(q, t))
  <2> TAKE k \in Positions(list)
  <2> TAKE x \in Tables
  <2>1. PICK y \in Tables : y = Over(node, <<l, x>>)
    BY <1>3
  <2>2. M(2, k, Append(Append(q, l), x)) <=> M(3, k, Append(q, y))
    BY <1>2, <1>t2, <2>1, Zenon
  <2>3. M(3, k, Append(q, y)) <=>
           \E j \in Positions(list) : \E t \in Tables : Turned(list, "terms", k, y, j, t) /\ K(j, Append(q, t))
    BY <1>c, <1>t3, Zenon
  <2> QED BY <2>1, <2>2, <2>3
<1>5. \A j \in Positions(list) : \A t \in Tables : Turned(list, "terms", i, l, j, t) <=>
         \E k \in Positions(list) : \E x \in Tables :
            MakesTerm(list, i + 1, k, x) /\ Turned(list, "terms", k, Over(node, <<l, x>>), j, t)
  <2> TAKE j \in Positions(list)
  <2> TAKE t \in Tables
  <2>1. \A k, y : Turned(list, "terms", k, y, j, t) <=> ~Ahead(list, j, TermOpOf) /\ Reaches(list, k, y, j, t)
    BY DEF Turned
  <2>2. ASSUME ~Ahead(list, j, TermOpOf)
        PROVE  Reaches(list, i, l, j, t) <=>
                  \E k \in Positions(list) : \E y \in Tables :
                     NextTerm(list, i, l, k, y) /\ Reaches(list, k, y, j, t)
    BY <2>2, TermsAhead
  <2>3. \A k, y : NextTerm(list, i, l, k, y) <=>
           \E x \in Tables : MakesTerm(list, i + 1, k, x) /\ y = Over(node, <<l, x>>)
    BY <1>2, Zenon DEF NextTerm
  <2>4. ASSUME ~Ahead(list, j, TermOpOf)
        PROVE  Reaches(list, i, l, j, t) <=>
                  \E k \in Positions(list) : \E x \in Tables :
                     MakesTerm(list, i + 1, k, x) /\ Reaches(list, k, Over(node, <<l, x>>), j, t)
    <3>1. Reaches(list, i, l, j, t) <=>
             \E k \in Positions(list) : \E y \in Tables :
                (\E x \in Tables : MakesTerm(list, i + 1, k, x) /\ y = Over(node, <<l, x>>))
                /\ Reaches(list, k, y, j, t)
      BY <2>2, <2>3, <2>4, Zenon
    <3> QED BY <1>3, <3>1, Zenon
  <2> QED BY <2>1, <2>4, Zenon
<1>6. M(1, i + 1, Append(q, l)) <=> Meets(list, old, 1, i, Append(q, l), T)
  BY <1>e, <1>1, <1>4, <1>5, Zenon
<1> QED BY <1>6 DEF M

\* parse_expr: no second operand.
LEMMA ComparisonEnds ==
    ASSUME NEW list, NEW old, NEW new, NEW T, old[1].do = "comparison", Unfolded(list, old, new, <<>>),
           NEW i \in Positions(list), NEW q \in Stacks, NEW l \in Tables, ~Ahead(list, i, ExprOpOf)
    PROVE  Meets(list, old, 1, i, Append(q, l), T) <=> Meets(list, new, 1, i, Append(q, l), T)
<1>1. Joins(list, old, 1, ExprOpOf, MakesSum, T) /\ 1 + 1 = 2
  BY OldRest
<1>2. Meets(list, old, 1, i, Append(q, l), T) <=> Meets(list, old, 2, i, Append(q, l), T)
  <2>1. Meets(list, old, 1, i, Append(q, l), T) <=> Meets(list, old, 1 + 1, i, Append(q, l), T)
    BY <1>1, Zenon DEF Joins
  <2> QED BY <1>1, <2>1
<1> QED BY <1>2, NothingNew

\* parse_term: no further operand.
LEMMA FactorsEnds ==
    ASSUME NEW list, NEW old, NEW new, NEW T, old[1].do = "factors", Unfolded(list, old, new, <<>>),
           NEW i \in Positions(list), NEW q \in Stacks, NEW l \in Tables, ~Ahead(list, i, FactorOpOf)
    PROVE  Meets(list, old, 1, i, Append(q, l), T) <=> Meets(list, new, 1, i, Append(q, l), T)
<1>1. Joins(list, old, 1, FactorOpOf, MakesTerm, T) /\ 1 + 1 = 2
  BY OldRest
<1>2. Meets(list, old, 1, i, Append(q, l), T) <=> Meets(list, old, 2, i, Append(q, l), T)
  <2>1. Meets(list, old, 1, i, Append(q, l), T) <=> Meets(list, old, 1 + 1, i, Append(q, l), T)
    BY <1>1, Zenon DEF Joins
  <2> QED BY <1>1, <2>1
<1> QED BY <1>2, NothingNew

\* parse_subexpr: no further term.
LEMMA TermsEnds ==
    ASSUME NEW list, NEW old, NEW new, NEW T, old[1].do = "terms", Unfolded(list, old, new, <<>>),
           NEW i \in Positions(list), NEW q \in Stacks, NEW l \in Tables, ~Ahead(list, i, TermOpOf)
    PROVE  Meets(list, old, 1, i, Append(q, l), T) <=> Meets(list, new, 1, i, Append(q, l), T)
<1>1. Turns(list, old, 1, "terms", T) /\ 1 + 1 = 2
  BY OldRest
<1>2. Meets(list, old, 1, i, Append(q, l), T) <=>
         \E j \in Positions(list) : \E t \in Tables :
            Turned(list, "terms", i, l, j, t) /\ Meets(list, old, 2, j, Append(q, t), T)
  BY <1>1 DEF Turns
<1>3. \A j \in Positions(list) : \A t \in Tables : Turned(list, "terms", i, l, j, t) <=> j = i /\ t = l
  <2> TAKE j \in Positions(list)
  <2> TAKE t \in Tables
  <2>1. Turned(list, "terms", i, l, j, t) <=> ~Ahead(list, j, TermOpOf) /\ Reaches(list, i, l, j, t)
    BY DEF Turned
  <2>2. ~Ahead(list, j, TermOpOf) => (Reaches(list, i, l, j, t) <=> j = i /\ t = l)
    BY TermsAhead
  <2> QED BY <2>1, <2>2
<1> QED BY <1>2, <1>3, NothingNew

-----------------------------------------------------------------------------
(* What parse_factor unfolds into makes the factor. *)

\* The nodes that bear a name.
LEMMA NameLeaf ==
    ASSUME NEW name \in Names \cup {NULL}
    PROVE  /\ Named("FUNC_CALL", name) \in Leaves /\ Named("VAR_REF", name) \in Leaves
           /\ Named("DECL_STAT", name) \in Leaves /\ FuncDecl(name) \in Leaves
BY DEF Named, FuncDecl, Create, Leaves, NodeTypes, ExprNodes, ExprTypes, StatNodes, StatTypes

\* A name has a name.
LEMMA NamedTokens ==
    ASSUME NEW list, IsTokenList(list), NEW i \in Positions(list), list[i].type = "IDENT_TOK"
    PROVE  list[i].name \in Names \cup {NULL}
<1>1. i \in DOMAIN list
  BY PlaceBehind
<1> QED BY <1>1, TokenFields

\* A number has a value.
LEMMA NumberTokens ==
    ASSUME NEW list, IsTokenList(list), NEW i \in Positions(list), list[i].type = "INT_LIT_TOK"
    PROVE  IntLit(list[i].ival) \in Leaves
<1>1. i \in DOMAIN list
  BY PlaceBehind
<1> QED BY <1>1, TokenFields DEF IntLit, Create, Leaves, NodeTypes, ExprNodes, ExprTypes

\* parse_factor: parentheses.
LEMMA ParensMeets ==
    ASSUME NEW list, NEW old, NEW new, NEW T, NEW i \in Positions(list), NEW s \in Stacks,
           old[1].do = "factor", list[i].type = "LPAREN_TOK",
           Unfolded(list, old, new, <<Match("LPAREN_TOK"), Parse("expr"), Match("RPAREN_TOK")>>)
    PROVE  Meets(list, old, 1, i, s, T) <=> Meets(list, new, 1, i, s, T)
<1> DEFINE t1 == Match("LPAREN_TOK")
           t2 == Parse("expr")
           t3 == Match("RPAREN_TOK")
           news == <<t1, t2, t3>>
           M(n, a, r) == Meets(list, new, n, a, r, T)
           K(a, r) == Meets(list, old, 2, a, r, T)
<1>a. Unfolded(list, old, new, news) /\ IsTokenList(list)
  BY DEF Unfolded
<1>b. /\ 1 \in 1 .. Len(news) /\ 2 \in 1 .. Len(news) /\ 3 \in 1 .. Len(news)
      /\ news[1] = t1 /\ news[2] = t2 /\ news[3] = t3 /\ Len(news) + 1 = 4
      /\ 2 = 1 + 1 /\ 3 = 2 + 1 /\ 4 = 3 + 1
  <2> HIDE DEF t1, t2, t3
  <2> QED OBVIOUS
<1> HIDE DEF news
<1>c. \A a, r : M(4, a, r) <=> K(a, r)
  <2>1. \A a, r : Meets(list, new, Len(news) + 1, a, r, T) <=> K(a, r)
    BY <1>a, AtEnd
  <2> QED BY <1>b, <2>1
<1>t1. \A a \in Positions(list) : \A r \in Stacks :
         M(1, a, r) <=> list[a].type = "LPAREN_TOK" /\ a + 1 \in Positions(list) /\ M(2, a + 1, r)
  <2>1. Checks(list, new, 1, "LPAREN_TOK", T)
    BY <1>a, <1>b, Matched, AtMatch
  <2>2. \A j, r : Meets(list, new, 1 + 1, j, r, T) <=> M(2, j, r)
    BY <1>b
  <2>3. \A a, r : Meets(list, new, 1, a, r, T) <=> M(1, a, r)
    OBVIOUS
  <2> HIDE DEF M
  <2> QED BY <2>1, <2>2, <2>3, Zenon DEF Checks
<1>t2. \A a \in Positions(list) : \A r \in Stacks :
         M(2, a, r) <=> \E j \in Positions(list) : \E t \in Tables :
                           MakesExpr(list, a, j, t) /\ M(3, j, Append(r, t))
  <2>1. Begins(list, new, 2, MakesExpr, T)
    BY <1>a, <1>b, AtMaker
  <2>2. \A j, r : Meets(list, new, 2 + 1, j, r, T) <=> M(3, j, r)
    BY <1>b
  <2>3. \A a, r : Meets(list, new, 2, a, r, T) <=> M(2, a, r)
    OBVIOUS
  <2> HIDE DEF M
  <2> QED BY <2>1, <2>2, <2>3, Zenon DEF Begins
<1>t3. \A a \in Positions(list) : \A r \in Stacks :
         M(3, a, r) <=> list[a].type = "RPAREN_TOK" /\ a + 1 \in Positions(list) /\ M(4, a + 1, r)
  <2>1. Checks(list, new, 3, "RPAREN_TOK", T)
    BY <1>a, <1>b, Matched, AtMatch
  <2>2. \A j, r : Meets(list, new, 3 + 1, j, r, T) <=> M(4, j, r)
    BY <1>b
  <2>3. \A a, r : Meets(list, new, 3, a, r, T) <=> M(3, a, r)
    OBVIOUS
  <2> HIDE DEF M
  <2> QED BY <2>1, <2>2, <2>3, Zenon DEF Checks
<1>d. \A t \in Tables : Append(s, t) \in Stacks
  BY AppendProperties DEF Stacks
<1>e. Meets(list, old, 1, i, s, T) <=>
         \E j \in Positions(list) : \E t \in Tables : MakesFactor(list, i, j, t) /\ K(j, Append(s, t))
  <2>1. Begins(list, old, 1, MakesFactor, T) /\ 1 + 1 = 2
    BY <1>a, OldBegins
  <2>2. \A j, r : Meets(list, old, 1 + 1, j, r, T) <=> K(j, r)
    BY <2>1
  <2> HIDE DEF K
  <2> QED BY <2>1, <2>2, Zenon DEF Begins
<1> HIDE DEF M, K
<1>1. \A j \in Positions(list) : \A t : MakesFactor(list, i, j, t) <=>
         \E k \in Positions(list) :
            i + 1 \in Positions(list) /\ MakesExpr(list, i + 1, k, t) /\ list[k].type = "RPAREN_TOK" /\ j = k + 1
  BY <1>a, FactorIs
<1>2. ASSUME Meets(list, old, 1, i, s, T)
      PROVE  M(1, i, s)
  <2>1. PICK j \in Positions(list), t \in Tables : MakesFactor(list, i, j, t) /\ K(j, Append(s, t))
    BY <1>2, <1>e
  <2>2. PICK k \in Positions(list) :
             i + 1 \in Positions(list) /\ MakesExpr(list, i + 1, k, t) /\ list[k].type = "RPAREN_TOK" /\ j = k + 1
    BY <1>1, <2>1
  <2>3. M(3, k, Append(s, t))
    BY <1>c, <1>d, <1>t3, <2>1, <2>2
  <2> QED BY <1>t1, <1>t2, <2>2, <2>3
<1>3. ASSUME M(1, i, s)
      PROVE  Meets(list, old, 1, i, s, T)
  <2>1. i + 1 \in Positions(list) /\ M(2, i + 1, s)
    BY <1>3, <1>t1
  <2>2. PICK k \in Positions(list), t \in Tables : MakesExpr(list, i + 1, k, t) /\ M(3, k, Append(s, t))
    BY <1>t2, <2>1
  <2>3. list[k].type = "RPAREN_TOK" /\ k + 1 \in Positions(list) /\ K(k + 1, Append(s, t))
    BY <1>c, <1>d, <1>t3, <2>2
  <2>4. MakesFactor(list, i, k + 1, t)
    BY <1>1, <2>1, <2>2, <2>3
  <2> QED BY <1>e, <2>3, <2>4
<1> QED BY <1>2, <1>3 DEF M

\* parse_factor: the call of a function.
LEMMA CallMeets ==
    ASSUME NEW list, NEW old, NEW new, NEW T, NEW i \in Positions(list), NEW s \in Stacks,
           old[1].do = "factor", list[i].type = "IDENT_TOK", list[i + 1].type = "LPAREN_TOK",
           Unfolded(list, old, new, <<Match("LPAREN_TOK"), Match("RPAREN_TOK"),
                                      Make(Named("FUNC_CALL", list[i].name), 0)>>)
    PROVE  Meets(list, old, 1, i, s, T) <=> Meets(list, new, 1, i + 1, s, T)
<1> DEFINE t1 == Match("LPAREN_TOK")
           t2 == Match("RPAREN_TOK")
           t3 == Make(Named("FUNC_CALL", list[i].name), 0)
           news == <<t1, t2, t3>>
           M(n, a, r) == Meets(list, new, n, a, r, T)
           K(a, r) == Meets(list, old, 2, a, r, T)
<1>a. Unfolded(list, old, new, news) /\ IsTokenList(list)
  BY DEF Unfolded
<1>b. /\ 1 \in 1 .. Len(news) /\ 2 \in 1 .. Len(news) /\ 3 \in 1 .. Len(news)
      /\ news[1] = t1 /\ news[2] = t2 /\ news[3] = t3 /\ Len(news) + 1 = 4
      /\ 2 = 1 + 1 /\ 3 = 2 + 1 /\ 4 = 3 + 1
  <2> HIDE DEF t1, t2, t3
  <2> QED OBVIOUS
<1> HIDE DEF news
<1>c. \A a, r : M(4, a, r) <=> K(a, r)
  <2>1. \A a, r : Meets(list, new, Len(news) + 1, a, r, T) <=> K(a, r)
    BY <1>a, AtEnd
  <2> QED BY <1>b, <2>1
<1>leaf. Named("FUNC_CALL", list[i].name) \in Leaves /\ (\A t : t = Over(Named("FUNC_CALL", list[i].name), <<>>) <=> t = <<Named("FUNC_CALL", list[i].name)>>)
  <2>1. Named("FUNC_CALL", list[i].name) \in Leaves
    BY <1>a, NamedTokens, NameLeaf
  <2> QED BY <2>1, OverNone
<1>t1. \A a \in Positions(list) : \A r \in Stacks :
         M(1, a, r) <=> list[a].type = "LPAREN_TOK" /\ a + 1 \in Positions(list) /\ M(2, a + 1, r)
  <2>1. Checks(list, new, 1, "LPAREN_TOK", T)
    BY <1>a, <1>b, Matched, AtMatch
  <2>2. \A j, r : Meets(list, new, 1 + 1, j, r, T) <=> M(2, j, r)
    BY <1>b
  <2>3. \A a, r : Meets(list, new, 1, a, r, T) <=> M(1, a, r)
    OBVIOUS
  <2> HIDE DEF M
  <2> QED BY <2>1, <2>2, <2>3, Zenon DEF Checks
<1>t2. \A a \in Positions(list) : \A r \in Stacks :
         M(2, a, r) <=> list[a].type = "RPAREN_TOK" /\ a + 1 \in Positions(list) /\ M(3, a + 1, r)
  <2>1. Checks(list, new, 2, "RPAREN_TOK", T)
    BY <1>a, <1>b, Matched, AtMatch
  <2>2. \A j, r : Meets(list, new, 2 + 1, j, r, T) <=> M(3, j, r)
    BY <1>b
  <2>3. \A a, r : Meets(list, new, 2, a, r, T) <=> M(2, a, r)
    OBVIOUS
  <2> HIDE DEF M
  <2> QED BY <2>1, <2>2, <2>3, Zenon DEF Checks
<1>t3. \A a \in Positions(list) : \A r \in Stacks :
         /\ Over(Named("FUNC_CALL", list[i].name), <<>>) \in Tables
         /\ M(3, a, r) <=> M(4, a, Append(r, Over(Named("FUNC_CALL", list[i].name), <<>>)))
  <2>1. Creates0(list, new, 3, Named("FUNC_CALL", list[i].name), T)
    BY <1>a, <1>b, <1>leaf, AtMake0
  <2>2. \A j, r : Meets(list, new, 3 + 1, j, r, T) <=> M(4, j, r)
    BY <1>b
  <2>3. \A a, r : Meets(list, new, 3, a, r, T) <=> M(3, a, r)
    OBVIOUS
  <2> HIDE DEF M
  <2> QED BY <2>1, <2>2, <2>3, Zenon DEF Creates0
<1>d. \A t \in Tables : Append(s, t) \in Stacks
  BY AppendProperties DEF Stacks
<1>e. Meets(list, old, 1, i, s, T) <=>
         \E j \in Positions(list) : \E t \in Tables : MakesFactor(list, i, j, t) /\ K(j, Append(s, t))
  <2>1. Begins(list, old, 1, MakesFactor, T) /\ 1 + 1 = 2
    BY <1>a, OldBegins
  <2>2. \A j, r : Meets(list, old, 1 + 1, j, r, T) <=> K(j, r)
    BY <2>1
  <2> HIDE DEF K
  <2> QED BY <2>1, <2>2, Zenon DEF Begins
<1> HIDE DEF M, K
<1>0. i + 1 \in Positions(list) /\ i + 1 + 1 = i + 2 /\ i + 2 + 1 = i + 3
  BY <1>a, PlaceBehind DEF Positions
<1>1. PICK t \in Tables : t = Over(Named("FUNC_CALL", list[i].name), <<>>)
  BY <1>t3
<1>2. \A j \in Positions(list) : \A x \in Tables : MakesFactor(list, i, j, x) <=>
         i + 2 \in Positions(list) /\ list[i + 2].type = "RPAREN_TOK" /\ j = i + 3 /\ x = t
  BY <1>a, <1>1, <1>leaf, FactorIs
<1>3. Meets(list, old, 1, i, s, T) <=>
         /\ i + 2 \in Positions(list) /\ list[i + 2].type = "RPAREN_TOK" /\ i + 3 \in Positions(list)
         /\ K(i + 3, Append(s, t))
  BY <1>e, <1>2
<1>4. M(1, i + 1, s) <=> i + 2 \in Positions(list) /\ M(2, i + 2, s)
  BY <1>0, <1>t1
<1>5. ASSUME i + 2 \in Positions(list)
      PROVE  M(2, i + 2, s) <=> list[i + 2].type = "RPAREN_TOK" /\ i + 3 \in Positions(list) /\ M(3, i + 3, s)
  BY <1>0, <1>5, <1>t2
<1>6. ASSUME i + 3 \in Positions(list)
      PROVE  M(3, i + 3, s) <=> K(i + 3, Append(s, t))
  BY <1>1, <1>6, <1>c, <1>t3
<1> QED BY <1>3, <1>4, <1>5, <1>6 DEF M

\* parse_factor: a variable.
LEMMA VariableMeets ==
    ASSUME NEW list, NEW old, NEW new, NEW T, NEW i \in Positions(list), NEW s \in Stacks,
           old[1].do = "factor", list[i].type = "IDENT_TOK", list[i + 1].type # "LPAREN_TOK",
           Unfolded(list, old, new, <<Make(Named("VAR_REF", list[i].name), 0)>>)
    PROVE  Meets(list, old, 1, i, s, T) <=> Meets(list, new, 1, i + 1, s, T)
<1> DEFINE t1 == Make(Named("VAR_REF", list[i].name), 0)
           news == <<t1>>
           M(n, a, r) == Meets(list, new, n, a, r, T)
           K(a, r) == Meets(list, old, 2, a, r, T)
<1>a. Unfolded(list, old, new, news) /\ IsTokenList(list)
  BY DEF Unfolded
<1>b. /\ 1 \in 1 .. Len(news)
      /\ news[1] = t1 /\ Len(news) + 1 = 2
      /\ 2 = 1 + 1
  <2> HIDE DEF t1
  <2> QED OBVIOUS
<1> HIDE DEF news
<1>c. \A a, r : M(2, a, r) <=> K(a, r)
  <2>1. \A a, r : Meets(list, new, Len(news) + 1, a, r, T) <=> K(a, r)
    BY <1>a, AtEnd
  <2> QED BY <1>b, <2>1
<1>leaf. Named("VAR_REF", list[i].name) \in Leaves /\ (\A t : t = Over(Named("VAR_REF", list[i].name), <<>>) <=> t = <<Named("VAR_REF", list[i].name)>>)
  <2>1. Named("VAR_REF", list[i].name) \in Leaves
    BY <1>a, NamedTokens, NameLeaf
  <2> QED BY <2>1, OverNone
<1>t1. \A a \in Positions(list) : \A r \in Stacks :
         /\ Over(Named("VAR_REF", list[i].name), <<>>) \in Tables
         /\ M(1, a, r) <=> M(2, a, Append(r, Over(Named("VAR_REF", list[i].name), <<>>)))
  <2>1. Creates0(list, new, 1, Named("VAR_REF", list[i].name), T)
    BY <1>a, <1>b, <1>leaf, AtMake0
  <2>2. \A j, r : Meets(list, new, 1 + 1, j, r, T) <=> M(2, j, r)
    BY <1>b
  <2>3. \A a, r : Meets(list, new, 1, a, r, T) <=> M(1, a, r)
    OBVIOUS
  <2> HIDE DEF M
  <2> QED BY <2>1, <2>2, <2>3, Zenon DEF Creates0
<1>d. \A t \in Tables : Append(s, t) \in Stacks
  BY AppendProperties DEF Stacks
<1>e. Meets(list, old, 1, i, s, T) <=>
         \E j \in Positions(list) : \E t \in Tables : MakesFactor(list, i, j, t) /\ K(j, Append(s, t))
  <2>1. Begins(list, old, 1, MakesFactor, T) /\ 1 + 1 = 2
    BY <1>a, OldBegins
  <2>2. \A j, r : Meets(list, old, 1 + 1, j, r, T) <=> K(j, r)
    BY <2>1
  <2> HIDE DEF K
  <2> QED BY <2>1, <2>2, Zenon DEF Begins
<1> HIDE DEF M, K
<1>0. i + 1 \in Positions(list)
  BY <1>a, PlaceBehind
<1>1. PICK t \in Tables : t = Over(Named("VAR_REF", list[i].name), <<>>)
  BY <1>t1
<1>2. \A j \in Positions(list) : \A x \in Tables : MakesFactor(list, i, j, x) <=> j = i + 1 /\ x = t
  BY <1>a, <1>1, <1>leaf, FactorIs
<1>3. Meets(list, old, 1, i, s, T) <=> K(i + 1, Append(s, t))
  BY <1>e, <1>0, <1>2
<1>4. M(1, i + 1, s) <=> K(i + 1, Append(s, t))
  BY <1>0, <1>1, <1>c, <1>t1
<1> QED BY <1>3, <1>4 DEF M

\* parse_factor: a number.
LEMMA NumberMeets ==
    ASSUME NEW list, NEW old, NEW new, NEW T, NEW i \in Positions(list), NEW s \in Stacks,
           old[1].do = "factor", Unfolded(list, old, new, <<>>), list[i].type = "INT_LIT_TOK"
    PROVE  Meets(list, old, 1, i, s, T) <=> Meets(list, new, 1, i + 1, Append(s, <<IntLit(list[i].ival)>>), T)
<1>0. IsTokenList(list) /\ i + 1 \in Positions(list)
  BY PlaceBehind DEF Unfolded
<1>1. PICK t \in Tables : t = <<IntLit(list[i].ival)>>
  BY <1>0, NumberTokens, LoneTable
<1>2. Begins(list, old, 1, MakesFactor, T) /\ 1 + 1 = 2
  BY OldBegins
<1>3. Meets(list, old, 1, i, s, T) <=>
         \E j \in Positions(list) : \E x \in Tables :
            MakesFactor(list, i, j, x) /\ Meets(list, old, 2, j, Append(s, x), T)
  BY <1>2 DEF Begins
<1>4. \A j \in Positions(list) : \A x \in Tables : MakesFactor(list, i, j, x) <=> j = i + 1 /\ x = t
  BY <1>0, <1>1, FactorIs
<1>5. Meets(list, old, 1, i, s, T) <=> Meets(list, old, 2, i + 1, Append(s, t), T)
  BY <1>0, <1>3, <1>4
<1> QED BY <1>1, <1>5, NothingNew

\* parse_factor: anything else is an error.
LEMMA NoFactorFails ==
    ASSUME NEW list, NEW old, NEW new, NEW news, NEW T, NEW i \in Positions(list), NEW s \in Stacks,
           old[1].do = "factor", Unfolded(list, old, new, news),
           list[i].type \notin {"LPAREN_TOK", "IDENT_TOK", "INT_LIT_TOK"}
    PROVE  ~Meets(list, old, 1, i, s, T)
<1>1. Begins(list, old, 1, MakesFactor, T)
  BY OldBegins
<1>2. \A j \in Positions(list) : \A x : ~MakesFactor(list, i, j, x)
  BY FactorIs DEF Unfolded
<1> QED BY <1>1, <1>2 DEF Begins

\* parse_stat: where no statement starts there is an error.
LEMMA InvalidFails ==
    ASSUME NEW list, NEW old, NEW new, NEW news, NEW T, NEW i \in Positions(list), NEW s \in Stacks,
           old[1].do = "stat", Unfolded(list, old, new, news), list[i].type \notin StatStarts
    PROVE  ~Meets(list, old, 1, i, s, T)
<1>1. Begins(list, old, 1, MakesStat, T)
  BY OldBegins
<1>2. \A j \in Positions(list) : \A x : ~MakesStat(list, i, j, x)
  BY StatStart DEF Unfolded
<1> QED BY <1>1, <1>2 DEF Begins

\* parse_declaration: a datatype without a name is an error.
LEMMA NamelessFails ==
    ASSUME NEW list, NEW old, NEW new, NEW news, NEW T, NEW i \in Positions(list), NEW s \in Stacks,
           old[1].do = "stat", Unfolded(list, old, new, news), IsTypeIdent(list[i]),
           list[i + 1].type # "IDENT_TOK"
    PROVE  ~Meets(list, old, 1, i, s, T)
<1>1. Begins(list, old, 1, MakesStat, T)
  BY OldBegins
<1>2. \A j \in Positions(list) : \A x : ~MakesStat(list, i, j, x)
  BY DeclarationIs DEF Unfolded
<1> QED BY <1>1, <1>2 DEF Begins

\* Another token than the one to match is an error.
LEMMA MismatchFails ==
    ASSUME NEW list, NEW old, NEW new, NEW news, NEW T, NEW i \in Positions(list), NEW s \in Stacks,
           NEW tok \in TokenTypes \ {"PROGRAM_END_TOK"}, old[1] = Match(tok),
           Unfolded(list, old, new, news), list[i].type # tok
    PROVE  ~Meets(list, old, 1, i, s, T)
<1>1. Len(old) \in Nat /\ 1 \in 1 .. Len(old) /\ IsTokenList(list)
  BY NewTasks DEF Unfolded
<1> QED BY <1>1, MeetsMatch

\* parse_block_stat: a block does not go on behind the end of the program.
LEMMA EndlessFails ==
    ASSUME NEW list, NEW old, NEW new, NEW news, NEW T, NEW i \in Positions(list), NEW q \in Stacks, NEW l \in Tables,
           old[1].do = "stats", Unfolded(list, old, new, news), list[i].type = "PROGRAM_END_TOK"
    PROVE  ~Meets(list, old, 1, i, Append(q, l), T)
<1>1. Turns(list, old, 1, "stats", T)
  BY OldRest
<1>2. \A j \in Positions(list) : \A t : ~FilledTo(list, "RBRACE_TOK", i, l, j, t)
  <2>1. \A k \in Positions(list) : \A x : ~MakesStat(list, i, k, x)
    BY StatStart DEF Unfolded, StatStarts
  <2> QED BY <2>1, FilledMore DEF Unfolded
<1>3. \A j \in Positions(list) : \A t : ~Turned(list, "stats", i, l, j, t)
  BY <1>2 DEF Turned
<1> QED BY <1>1, <1>3 DEF Turns

-----------------------------------------------------------------------------
(* What parse_declaration unfolds into makes the declaration. *)

\* What follows a name, or the parentheses of the function of that name.
Bears(list, do, name, i, j, t) ==
    \/ do = "declarator" /\ IsDeclarator(list, Derived(list), name, i, j, t)
    \/ do = "body" /\ IsBody(list, Derived(list), name, i, j, t)

\* From the n-th task on, a declaration is made and pushed first.
Grants(list, tasks, n, do, name, T) ==
    \A i \in Positions(list) : \A s \in Stacks :
       Meets(list, tasks, n, i, s, T) <=>
          \E j \in Positions(list) : \E t \in Tables :
             Bears(list, do, name, i, j, t) /\ Meets(list, tasks, n + 1, j, Append(s, t), T)

\* A function that parses a part of a declaration.
LEMMA TaskGrants ==
    ASSUME NEW list, NEW tasks, Len(tasks) \in Nat, NEW n \in 1 .. Len(tasks), NEW T,
           NEW do \in {"declarator", "body"}, NEW name, tasks[n].do = do, tasks[n].name = name
    PROVE  Grants(list, tasks, n, do, name, T)
<1>1. \A i \in Positions(list) : \A s \in Stacks :
         Meets(list, tasks, n, i, s, T) <=>
            \E j \in Positions(list) : \E t \in Tables :
               Makes(list, tasks[n], i, j, t) /\ Meets(list, tasks, n + 1, j, Append(s, t), T)
  BY MeetsMaker DEF Makers
<1>2. \A i, j, t : Makes(list, tasks[n], i, j, t) <=> Bears(list, do, name, i, j, t)
  BY MakesWhat DEF Bears
<1> QED BY <1>1, <1>2, Zenon DEF Grants

\* The same, of one of the new tasks.
LEMMA AtGrant ==
    ASSUME NEW list, NEW old, NEW new, NEW news, Unfolded(list, old, new, news), NEW T,
           NEW n \in 1 .. Len(news), NEW name
    PROVE  /\ news[n] = ParserTask("declarator", name) => Grants(list, new, n, "declarator", name, T)
           /\ news[n] = ParserTask("body", name) => Grants(list, new, n, "body", name, T)
<1>1. Len(new) \in Nat /\ n \in 1 .. Len(new) /\ new[n] = news[n]
  BY NewTasks
<1>2. \A do : ParserTask(do, name).do = do /\ ParserTask(do, name).name = name
  BY DEF ParserTask
<1> QED BY <1>1, <1>2, TaskGrants

\* The same, of the first of the old tasks.
LEMMA OldGrants ==
    ASSUME NEW list, NEW old, NEW new, NEW news, Unfolded(list, old, new, news), NEW T
    PROVE  /\ old[1].do = "declarator" => Grants(list, old, 1, "declarator", old[1].name, T)
           /\ old[1].do = "body" => Grants(list, old, 1, "body", old[1].name, T)
<1>1. Len(old) \in Nat /\ 1 \in 1 .. Len(old)
  BY NewTasks DEF Unfolded
<1> QED BY <1>1, TaskGrants

\* parse_declaration: the datatype and the name.
LEMMA DeclarationMeets ==
    ASSUME NEW list, NEW old, NEW new, NEW T, NEW i \in Positions(list), NEW s \in Stacks,
           old[1].do = "stat", IsTypeIdent(list[i]), list[i + 1].type = "IDENT_TOK", i + 2 \in Positions(list),
           Unfolded(list, old, new, <<ParserTask("declarator", list[i + 1].name)>>)
    PROVE  Meets(list, old, 1, i, s, T) <=> Meets(list, new, 1, i + 2, s, T)
<1> DEFINE t1 == ParserTask("declarator", list[i + 1].name)
           news == <<t1>>
           M(n, a, r) == Meets(list, new, n, a, r, T)
           K(a, r) == Meets(list, old, 2, a, r, T)
<1>a. Unfolded(list, old, new, news) /\ IsTokenList(list)
  BY DEF Unfolded
<1>b. /\ 1 \in 1 .. Len(news)
      /\ news[1] = t1 /\ Len(news) + 1 = 2
      /\ 2 = 1 + 1
  <2> HIDE DEF t1
  <2> QED OBVIOUS
<1> HIDE DEF news
<1>c. \A a, r : M(2, a, r) <=> K(a, r)
  <2>1. \A a, r : Meets(list, new, Len(news) + 1, a, r, T) <=> K(a, r)
    BY <1>a, AtEnd
  <2> QED BY <1>b, <2>1
<1>t1. \A a \in Positions(list) : \A r \in Stacks :
         M(1, a, r) <=> \E j \in Positions(list) : \E t \in Tables :
                           Bears(list, "declarator", list[i + 1].name, a, j, t) /\ M(2, j, Append(r, t))
  <2>1. Grants(list, new, 1, "declarator", list[i + 1].name, T)
    BY <1>a, <1>b, AtGrant
  <2>2. \A j, r : Meets(list, new, 1 + 1, j, r, T) <=> M(2, j, r)
    BY <1>b
  <2>3. \A a, r : Meets(list, new, 1, a, r, T) <=> M(1, a, r)
    OBVIOUS
  <2> HIDE DEF M
  <2> QED BY <2>1, <2>2, <2>3, Zenon DEF Grants
<1>d. \A t \in Tables : Append(s, t) \in Stacks
  BY AppendProperties DEF Stacks
<1>e. Meets(list, old, 1, i, s, T) <=>
         \E j \in Positions(list) : \E t \in Tables : MakesStat(list, i, j, t) /\ K(j, Append(s, t))
  <2>1. Begins(list, old, 1, MakesStat, T) /\ 1 + 1 = 2
    BY <1>a, OldBegins
  <2>2. \A j, r : Meets(list, old, 1 + 1, j, r, T) <=> K(j, r)
    BY <2>1
  <2> HIDE DEF K
  <2> QED BY <2>1, <2>2, Zenon DEF Begins
<1> HIDE DEF M, K
<1>0. i + 1 \in Positions(list)
  BY <1>a, PlaceBehind DEF IsTypeIdent
<1>1. \A j \in Positions(list) : \A t \in Tables :
         MakesStat(list, i, j, t) <=> Bears(list, "declarator", list[i + 1].name, i + 2, j, t)
  BY <1>a, <1>0, DeclarationIs DEF Bears
<1>2. M(1, i + 2, s) <=> Meets(list, old, 1, i, s, T)
  <2>1. M(1, i + 2, s) <=>
           \E j \in Positions(list) : \E t \in Tables :
              Bears(list, "declarator", list[i + 1].name, i + 2, j, t) /\ K(j, Append(s, t))
    BY <1>c, <1>t1, Zenon
  <2> QED BY <1>e, <1>1, <2>1, Zenon
<1> QED BY <1>2 DEF M

\* parse_declaration: the parentheses of a function.
LEMMA PrototypeMeets ==
    ASSUME NEW list, NEW old, NEW new, NEW T, NEW i \in Positions(list), NEW s \in Stacks, NEW name \in Names \cup {NULL},
           old[1].do = "declarator", old[1].name = name, list[i].type = "LPAREN_TOK",
           Unfolded(list, old, new, <<Match("LPAREN_TOK"), Match("RPAREN_TOK"),
                                      ParserTask("body", name)>>)
    PROVE  Meets(list, old, 1, i, s, T) <=> Meets(list, new, 1, i, s, T)
<1> DEFINE t1 == Match("LPAREN_TOK")
           t2 == Match("RPAREN_TOK")
           t3 == ParserTask("body", name)
           news == <<t1, t2, t3>>
           M(n, a, r) == Meets(list, new, n, a, r, T)
           K(a, r) == Meets(list, old, 2, a, r, T)
<1>a. Unfolded(list, old, new, news) /\ IsTokenList(list)
  BY DEF Unfolded
<1>b. /\ 1 \in 1 .. Len(news) /\ 2 \in 1 .. Len(news) /\ 3 \in 1 .. Len(news)
      /\ news[1] = t1 /\ news[2] = t2 /\ news[3] = t3 /\ Len(news) + 1 = 4
      /\ 2 = 1 + 1 /\ 3 = 2 + 1 /\ 4 = 3 + 1
  <2> HIDE DEF t1, t2, t3
  <2> QED OBVIOUS
<1> HIDE DEF news
<1>c. \A a, r : M(4, a, r) <=> K(a, r)
  <2>1. \A a, r : Meets(list, new, Len(news) + 1, a, r, T) <=> K(a, r)
    BY <1>a, AtEnd
  <2> QED BY <1>b, <2>1
<1>t1. \A a \in Positions(list) : \A r \in Stacks :
         M(1, a, r) <=> list[a].type = "LPAREN_TOK" /\ a + 1 \in Positions(list) /\ M(2, a + 1, r)
  <2>1. Checks(list, new, 1, "LPAREN_TOK", T)
    BY <1>a, <1>b, Matched, AtMatch
  <2>2. \A j, r : Meets(list, new, 1 + 1, j, r, T) <=> M(2, j, r)
    BY <1>b
  <2>3. \A a, r : Meets(list, new, 1, a, r, T) <=> M(1, a, r)
    OBVIOUS
  <2> HIDE DEF M
  <2> QED BY <2>1, <2>2, <2>3, Zenon DEF Checks
<1>t2. \A a \in Positions(list) : \A r \in Stacks :
         M(2, a, r) <=> list[a].type = "RPAREN_TOK" /\ a + 1 \in Positions(list) /\ M(3, a + 1, r)
  <2>1. Checks(list, new, 2, "RPAREN_TOK", T)
    BY <1>a, <1>b, Matched, AtMatch
  <2>2. \A j, r : Meets(list, new, 2 + 1, j, r, T) <=> M(3, j, r)
    BY <1>b
  <2>3. \A a, r : Meets(list, new, 2, a, r, T) <=> M(2, a, r)
    OBVIOUS
  <2> HIDE DEF M
  <2> QED BY <2>1, <2>2, <2>3, Zenon DEF Checks
<1>t3. \A a \in Positions(list) : \A r \in Stacks :
         M(3, a, r) <=> \E j \in Positions(list) : \E t \in Tables :
                           Bears(list, "body", name, a, j, t) /\ M(4, j, Append(r, t))
  <2>1. Grants(list, new, 3, "body", name, T)
    BY <1>a, <1>b, AtGrant
  <2>2. \A j, r : Meets(list, new, 3 + 1, j, r, T) <=> M(4, j, r)
    BY <1>b
  <2>3. \A a, r : Meets(list, new, 3, a, r, T) <=> M(3, a, r)
    OBVIOUS
  <2> HIDE DEF M
  <2> QED BY <2>1, <2>2, <2>3, Zenon DEF Grants
<1>e. Meets(list, old, 1, i, s, T) <=>
         \E j \in Positions(list) : \E t \in Tables : Bears(list, "declarator", name, i, j, t) /\ K(j, Append(s, t))
  <2>1. Grants(list, old, 1, "declarator", name, T) /\ 1 + 1 = 2
    BY <1>a, OldGrants
  <2>2. \A j, r : Meets(list, old, 1 + 1, j, r, T) <=> K(j, r)
    BY <2>1
  <2> HIDE DEF K
  <2> QED BY <2>1, <2>2, Zenon DEF Grants
<1>d. \A t \in Tables : Append(s, t) \in Stacks
  BY AppendProperties DEF Stacks
<1> HIDE DEF M, K
<1>0. i + 1 \in Positions(list) /\ i + 1 + 1 = i + 2
  BY <1>a, PlaceBehind DEF Positions
<1>1. \A j \in Positions(list) : \A t \in Tables : Bears(list, "declarator", name, i, j, t) <=>
         /\ list[i + 1].type = "RPAREN_TOK" /\ i + 2 \in Positions(list)
         /\ Bears(list, "body", name, i + 2, j, t)
  BY <1>a, <1>0, DeclaratorIs DEF Bears
<1>2. M(1, i, s) <=>
         /\ list[i + 1].type = "RPAREN_TOK" /\ i + 2 \in Positions(list) /\ M(3, i + 2, s)
  BY <1>0, <1>t1, <1>t2
<1>3. ASSUME i + 2 \in Positions(list)
      PROVE  M(3, i + 2, s) <=>
                \E j \in Positions(list) : \E t \in Tables :
                   Bears(list, "body", name, i + 2, j, t) /\ K(j, Append(s, t))
  BY <1>3, <1>c, <1>t3, Zenon
<1>4. M(1, i, s) <=> Meets(list, old, 1, i, s, T)
  BY <1>e, <1>1, <1>2, <1>3, Zenon
<1> QED BY <1>4 DEF M

\* parse_declaration: an initial value.
LEMMA InitialMeets ==
    ASSUME NEW list, NEW old, NEW new, NEW T, NEW i \in Positions(list), NEW s \in Stacks, NEW name \in Names \cup {NULL},
           old[1].do = "declarator", old[1].name = name, list[i].type = "ASSIGN_TOK",
           Unfolded(list, old, new, <<Match("ASSIGN_TOK"), Parse("expr"),
                                      Make(Named("DECL_STAT", name), 1), Match("SCOL_TOK")>>)
    PROVE  Meets(list, old, 1, i, s, T) <=> Meets(list, new, 1, i, s, T)
<1> DEFINE t1 == Match("ASSIGN_TOK")
           t2 == Parse("expr")
           t3 == Make(Named("DECL_STAT", name), 1)
           t4 == Match("SCOL_TOK")
           news == <<t1, t2, t3, t4>>
           M(n, a, r) == Meets(list, new, n, a, r, T)
           K(a, r) == Meets(list, old, 2, a, r, T)
<1>a. Unfolded(list, old, new, news) /\ IsTokenList(list)
  BY DEF Unfolded
<1>b. /\ 1 \in 1 .. Len(news) /\ 2 \in 1 .. Len(news) /\ 3 \in 1 .. Len(news) /\ 4 \in 1 .. Len(news)
      /\ news[1] = t1 /\ news[2] = t2 /\ news[3] = t3 /\ news[4] = t4 /\ Len(news) + 1 = 5
      /\ 2 = 1 + 1 /\ 3 = 2 + 1 /\ 4 = 3 + 1 /\ 5 = 4 + 1
  <2> HIDE DEF t1, t2, t3, t4
  <2> QED OBVIOUS
<1> HIDE DEF news
<1>c. \A a, r : M(5, a, r) <=> K(a, r)
  <2>1. \A a, r : Meets(list, new, Len(news) + 1, a, r, T) <=> K(a, r)
    BY <1>a, AtEnd
  <2> QED BY <1>b, <2>1
<1>leaf. \A x \in Names \cup {NULL} :
         /\ Named("DECL_STAT", x) \in Leaves /\ FuncDecl(x) \in Leaves
         /\ Over(Named("DECL_STAT", x), <<>>) = <<Named("DECL_STAT", x)>>
         /\ Over(FuncDecl(x), <<>>) = <<FuncDecl(x)>>
  BY NameLeaf, OverNone
<1>t1. \A a \in Positions(list) : \A r \in Stacks :
         M(1, a, r) <=> list[a].type = "ASSIGN_TOK" /\ a + 1 \in Positions(list) /\ M(2, a + 1, r)
  <2>1. Checks(list, new, 1, "ASSIGN_TOK", T)
    BY <1>a, <1>b, Matched, AtMatch
  <2>2. \A j, r : Meets(list, new, 1 + 1, j, r, T) <=> M(2, j, r)
    BY <1>b
  <2>3. \A a, r : Meets(list, new, 1, a, r, T) <=> M(1, a, r)
    OBVIOUS
  <2> HIDE DEF M
  <2> QED BY <2>1, <2>2, <2>3, Zenon DEF Checks
<1>t2. \A a \in Positions(list) : \A r \in Stacks :
         M(2, a, r) <=> \E j \in Positions(list) : \E t \in Tables :
                           MakesExpr(list, a, j, t) /\ M(3, j, Append(r, t))
  <2>1. Begins(list, new, 2, MakesExpr, T)
    BY <1>a, <1>b, AtMaker
  <2>2. \A j, r : Meets(list, new, 2 + 1, j, r, T) <=> M(3, j, r)
    BY <1>b
  <2>3. \A a, r : Meets(list, new, 2, a, r, T) <=> M(2, a, r)
    OBVIOUS
  <2> HIDE DEF M
  <2> QED BY <2>1, <2>2, <2>3, Zenon DEF Begins
<1>t3. \A a \in Positions(list) : \A r \in Stacks : \A c \in Tables :
         /\ Over(Named("DECL_STAT", name), <<c>>) \in Tables
         /\ M(3, a, Append(r, c)) <=> M(4, a, Append(r, Over(Named("DECL_STAT", name), <<c>>)))
  <2>1. Creates1(list, new, 3, Named("DECL_STAT", name), T)
    BY <1>a, <1>b, <1>leaf, AtMake1
  <2>2. \A j, r : Meets(list, new, 3 + 1, j, r, T) <=> M(4, j, r)
    BY <1>b
  <2>3. \A a, r : Meets(list, new, 3, a, r, T) <=> M(3, a, r)
    OBVIOUS
  <2> HIDE DEF M
  <2> QED BY <2>1, <2>2, <2>3, Zenon DEF Creates1
<1>t4. \A a \in Positions(list) : \A r \in Stacks :
         M(4, a, r) <=> list[a].type = "SCOL_TOK" /\ a + 1 \in Positions(list) /\ M(5, a + 1, r)
  <2>1. Checks(list, new, 4, "SCOL_TOK", T)
    BY <1>a, <1>b, Matched, AtMatch
  <2>2. \A j, r : Meets(list, new, 4 + 1, j, r, T) <=> M(5, j, r)
    BY <1>b
  <2>3. \A a, r : Meets(list, new, 4, a, r, T) <=> M(4, a, r)
    OBVIOUS
  <2> HIDE DEF M
  <2> QED BY <2>1, <2>2, <2>3, Zenon DEF Checks
<1>e. Meets(list, old, 1, i, s, T) <=>
         \E j \in Positions(list) : \E t \in Tables : Bears(list, "declarator", name, i, j, t) /\ K(j, Append(s, t))
  <2>1. Grants(list, old, 1, "declarator", name, T) /\ 1 + 1 = 2
    BY <1>a, OldGrants
  <2>2. \A j, r : Meets(list, old, 1 + 1, j, r, T) <=> K(j, r)
    BY <2>1
  <2> HIDE DEF K
  <2> QED BY <2>1, <2>2, Zenon DEF Grants
<1>d. \A t \in Tables : Append(s, t) \in Stacks
  BY AppendProperties DEF Stacks
<1> HIDE DEF M, K
<1>0. \A j \in Positions(list) : \A t \in Tables : Bears(list, "declarator", name, i, j, t) <=>
         \E k \in Positions(list) : \E x \in Tables : InitialTo(list, name, i, j, t, k, x)
  <2> TAKE j \in Positions(list)
  <2> TAKE t \in Tables
  <2>1. IsDeclarator(list, Derived(list), name, i, j, t) <=>
           \E k \in Positions(list) : \E x \in Tables : InitialTo(list, name, i, j, t, k, x)
    BY <1>a, DeclaratorIs
  <2>2. Bears(list, "declarator", name, i, j, t) <=> IsDeclarator(list, Derived(list), name, i, j, t)
    BY DEF Bears
  <2> QED BY <2>1, <2>2, Zenon
<1>1. ASSUME Meets(list, old, 1, i, s, T)
      PROVE  M(1, i, s)
  <2>1. PICK j \in Positions(list), t \in Tables : Bears(list, "declarator", name, i, j, t) /\ K(j, Append(s, t))
    BY <1>e, <1>1
  <2>2. PICK k \in Positions(list), x \in Tables :
             /\ i + 1 \in Positions(list) /\ MakesExpr(list, i + 1, k, x)
             /\ list[k].type = "SCOL_TOK" /\ j = k + 1 /\ t = Over(Named("DECL_STAT", name), <<x>>)
    BY <1>0, <2>1 DEF InitialTo
  <2>3. M(3, k, Append(s, x))
    BY <1>c, <1>d, <1>t3, <1>t4, <2>1, <2>2
  <2>4. M(2, i + 1, s)
    BY <1>t2, <2>2, <2>3
  <2> QED BY <1>t1, <2>2, <2>4
<1>2. ASSUME M(1, i, s)
      PROVE  Meets(list, old, 1, i, s, T)
  <2>1. i + 1 \in Positions(list) /\ M(2, i + 1, s)
    BY <1>t1, <1>2
  <2>2. PICK k \in Positions(list), x \in Tables : MakesExpr(list, i + 1, k, x) /\ M(3, k, Append(s, x))
    BY <1>t2, <2>1
  <2>3. PICK t \in Tables : t = Over(Named("DECL_STAT", name), <<x>>) /\ M(4, k, Append(s, t))
    BY <1>t3, <2>2
  <2>4. list[k].type = "SCOL_TOK" /\ k + 1 \in Positions(list) /\ K(k + 1, Append(s, t))
    BY <1>c, <1>d, <1>t4, <2>3
  <2>5. InitialTo(list, name, i, k + 1, t, k, x)
    BY <2>1, <2>2, <2>3, <2>4 DEF InitialTo
  <2>6. Bears(list, "declarator", name, i, k + 1, t)
    BY <1>0, <2>4, <2>5
  <2> QED BY <1>e, <2>4, <2>6
<1> QED BY <1>1, <1>2 DEF M

\* parse_declaration: no initial value.
LEMMA UninitialMeets ==
    ASSUME NEW list, NEW old, NEW new, NEW T, NEW i \in Positions(list), NEW s \in Stacks, NEW name \in Names \cup {NULL},
           old[1].do = "declarator", old[1].name = name, list[i].type \notin {"LPAREN_TOK", "ASSIGN_TOK"},
           Unfolded(list, old, new, <<Make(Named("DECL_STAT", name), 0), Match("SCOL_TOK")>>)
    PROVE  Meets(list, old, 1, i, s, T) <=> Meets(list, new, 1, i, s, T)
<1> DEFINE t1 == Make(Named("DECL_STAT", name), 0)
           t2 == Match("SCOL_TOK")
           news == <<t1, t2>>
           M(n, a, r) == Meets(list, new, n, a, r, T)
           K(a, r) == Meets(list, old, 2, a, r, T)
<1>a. Unfolded(list, old, new, news) /\ IsTokenList(list)
  BY DEF Unfolded
<1>b. /\ 1 \in 1 .. Len(news) /\ 2 \in 1 .. Len(news)
      /\ news[1] = t1 /\ news[2] = t2 /\ Len(news) + 1 = 3
      /\ 2 = 1 + 1 /\ 3 = 2 + 1
  <2> HIDE DEF t1, t2
  <2> QED OBVIOUS
<1> HIDE DEF news
<1>c. \A a, r : M(3, a, r) <=> K(a, r)
  <2>1. \A a, r : Meets(list, new, Len(news) + 1, a, r, T) <=> K(a, r)
    BY <1>a, AtEnd
  <2> QED BY <1>b, <2>1
<1>leaf. \A x \in Names \cup {NULL} :
         /\ Named("DECL_STAT", x) \in Leaves /\ FuncDecl(x) \in Leaves
         /\ Over(Named("DECL_STAT", x), <<>>) = <<Named("DECL_STAT", x)>>
         /\ Over(FuncDecl(x), <<>>) = <<FuncDecl(x)>>
  BY NameLeaf, OverNone
<1>t1. \A a \in Positions(list) : \A r \in Stacks :
         /\ Over(Named("DECL_STAT", name), <<>>) \in Tables
         /\ M(1, a, r) <=> M(2, a, Append(r, Over(Named("DECL_STAT", name), <<>>)))
  <2>1. Creates0(list, new, 1, Named("DECL_STAT", name), T)
    BY <1>a, <1>b, <1>leaf, AtMake0
  <2>2. \A j, r : Meets(list, new, 1 + 1, j, r, T) <=> M(2, j, r)
    BY <1>b
  <2>3. \A a, r : Meets(list, new, 1, a, r, T) <=> M(1, a, r)
    OBVIOUS
  <2> HIDE DEF M
  <2> QED BY <2>1, <2>2, <2>3, Zenon DEF Creates0
<1>t2. \A a \in Positions(list) : \A r \in Stacks :
         M(2, a, r) <=> list[a].type = "SCOL_TOK" /\ a + 1 \in Positions(list) /\ M(3, a + 1, r)
  <2>1. Checks(list, new, 2, "SCOL_TOK", T)
    BY <1>a, <1>b, Matched, AtMatch
  <2>2. \A j, r : Meets(list, new, 2 + 1, j, r, T) <=> M(3, j, r)
    BY <1>b
  <2>3. \A a, r : Meets(list, new, 2, a, r, T) <=> M(2, a, r)
    OBVIOUS
  <2> HIDE DEF M
  <2> QED BY <2>1, <2>2, <2>3, Zenon DEF Checks
<1>e. Meets(list, old, 1, i, s, T) <=>
         \E j \in Positions(list) : \E t \in Tables : Bears(list, "declarator", name, i, j, t) /\ K(j, Append(s, t))
  <2>1. Grants(list, old, 1, "declarator", name, T) /\ 1 + 1 = 2
    BY <1>a, OldGrants
  <2>2. \A j, r : Meets(list, old, 1 + 1, j, r, T) <=> K(j, r)
    BY <2>1
  <2> HIDE DEF K
  <2> QED BY <2>1, <2>2, Zenon DEF Grants
<1>d. \A t \in Tables : Append(s, t) \in Stacks
  BY AppendProperties DEF Stacks
<1> HIDE DEF M, K
<1>0. PICK t \in Tables : t = Over(Named("DECL_STAT", name), <<>>)
  BY <1>t1
<1>1. \A j \in Positions(list) : \A x \in Tables : Bears(list, "declarator", name, i, j, x) <=>
         list[i].type = "SCOL_TOK" /\ j = i + 1 /\ x = t
  <2> TAKE j \in Positions(list)
  <2> TAKE x \in Tables
  <2>1. IsDeclarator(list, Derived(list), name, i, j, x) <=> list[i].type = "SCOL_TOK" /\ j = i + 1 /\ x = <<Named("DECL_STAT", name)>>
    BY <1>a, DeclaratorIs
  <2>2. Bears(list, "declarator", name, i, j, x) <=> IsDeclarator(list, Derived(list), name, i, j, x)
    BY DEF Bears
  <2>3. t = <<Named("DECL_STAT", name)>>
    BY <1>leaf, <1>0
  <2> QED BY <2>1, <2>2, <2>3
<1>2. M(1, i, s) <=> list[i].type = "SCOL_TOK" /\ i + 1 \in Positions(list) /\ K(i + 1, Append(s, t))
  BY <1>c, <1>d, <1>0, <1>t1, <1>t2
<1>3. Meets(list, old, 1, i, s, T) <=>
         list[i].type = "SCOL_TOK" /\ i + 1 \in Positions(list) /\ K(i + 1, Append(s, t))
  BY <1>e, <1>1
<1> QED BY <1>2, <1>3 DEF M

\* parse_declaration: a function without a body.
LEMMA BodilessMeets ==
    ASSUME NEW list, NEW old, NEW new, NEW T, NEW i \in Positions(list), NEW s \in Stacks, NEW name \in Names \cup {NULL},
           old[1].do = "body", old[1].name = name, list[i].type # "LBRACE_TOK",
           Unfolded(list, old, new, <<Make(FuncDecl(name), 0), Match("SCOL_TOK")>>)
    PROVE  Meets(list, old, 1, i, s, T) <=> Meets(list, new, 1, i, s, T)
<1> DEFINE t1 == Make(FuncDecl(name), 0)
           t2 == Match("SCOL_TOK")
           news == <<t1, t2>>
           M(n, a, r) == Meets(list, new, n, a, r, T)
           K(a, r) == Meets(list, old, 2, a, r, T)
<1>a. Unfolded(list, old, new, news) /\ IsTokenList(list)
  BY DEF Unfolded
<1>b. /\ 1 \in 1 .. Len(news) /\ 2 \in 1 .. Len(news)
      /\ news[1] = t1 /\ news[2] = t2 /\ Len(news) + 1 = 3
      /\ 2 = 1 + 1 /\ 3 = 2 + 1
  <2> HIDE DEF t1, t2
  <2> QED OBVIOUS
<1> HIDE DEF news
<1>c. \A a, r : M(3, a, r) <=> K(a, r)
  <2>1. \A a, r : Meets(list, new, Len(news) + 1, a, r, T) <=> K(a, r)
    BY <1>a, AtEnd
  <2> QED BY <1>b, <2>1
<1>leaf. \A x \in Names \cup {NULL} :
         /\ Named("DECL_STAT", x) \in Leaves /\ FuncDecl(x) \in Leaves
         /\ Over(Named("DECL_STAT", x), <<>>) = <<Named("DECL_STAT", x)>>
         /\ Over(FuncDecl(x), <<>>) = <<FuncDecl(x)>>
  BY NameLeaf, OverNone
<1>t1. \A a \in Positions(list) : \A r \in Stacks :
         /\ Over(FuncDecl(name), <<>>) \in Tables
         /\ M(1, a, r) <=> M(2, a, Append(r, Over(FuncDecl(name), <<>>)))
  <2>1. Creates0(list, new, 1, FuncDecl(name), T)
    BY <1>a, <1>b, <1>leaf, AtMake0
  <2>2. \A j, r : Meets(list, new, 1 + 1, j, r, T) <=> M(2, j, r)
    BY <1>b
  <2>3. \A a, r : Meets(list, new, 1, a, r, T) <=> M(1, a, r)
    OBVIOUS
  <2> HIDE DEF M
  <2> QED BY <2>1, <2>2, <2>3, Zenon DEF Creates0
<1>t2. \A a \in Positions(list) : \A r \in Stacks :
         M(2, a, r) <=> list[a].type = "SCOL_TOK" /\ a + 1 \in Positions(list) /\ M(3, a + 1, r)
  <2>1. Checks(list, new, 2, "SCOL_TOK", T)
    BY <1>a, <1>b, Matched, AtMatch
  <2>2. \A j, r : Meets(list, new, 2 + 1, j, r, T) <=> M(3, j, r)
    BY <1>b
  <2>3. \A a, r : Meets(list, new, 2, a, r, T) <=> M(2, a, r)
    OBVIOUS
  <2> HIDE DEF M
  <2> QED BY <2>1, <2>2, <2>3, Zenon DEF Checks
<1>e. Meets(list, old, 1, i, s, T) <=>
         \E j \in Positions(list) : \E t \in Tables : Bears(list, "body", name, i, j, t) /\ K(j, Append(s, t))
  <2>1. Grants(list, old, 1, "body", name, T) /\ 1 + 1 = 2
    BY <1>a, OldGrants
  <2>2. \A j, r : Meets(list, old, 1 + 1, j, r, T) <=> K(j, r)
    BY <2>1
  <2> HIDE DEF K
  <2> QED BY <2>1, <2>2, Zenon DEF Grants
<1>d. \A t \in Tables : Append(s, t) \in Stacks
  BY AppendProperties DEF Stacks
<1> HIDE DEF M, K
<1>0. PICK t \in Tables : t = Over(FuncDecl(name), <<>>)
  BY <1>t1
<1>1. \A j \in Positions(list) : \A x \in Tables : Bears(list, "body", name, i, j, x) <=>
         list[i].type = "SCOL_TOK" /\ j = i + 1 /\ x = t
  <2> TAKE j \in Positions(list)
  <2> TAKE x \in Tables
  <2>1. IsBody(list, Derived(list), name, i, j, x) <=> list[i].type = "SCOL_TOK" /\ j = i + 1 /\ x = <<FuncDecl(name)>>
    BY <1>a, BodyIs
  <2>2. Bears(list, "body", name, i, j, x) <=> IsBody(list, Derived(list), name, i, j, x)
    BY DEF Bears
  <2>3. t = <<FuncDecl(name)>>
    BY <1>leaf, <1>0
  <2> QED BY <2>1, <2>2, <2>3
<1>2. M(1, i, s) <=> list[i].type = "SCOL_TOK" /\ i + 1 \in Positions(list) /\ K(i + 1, Append(s, t))
  BY <1>c, <1>d, <1>0, <1>t1, <1>t2
<1>3. Meets(list, old, 1, i, s, T) <=>
         list[i].type = "SCOL_TOK" /\ i + 1 \in Positions(list) /\ K(i + 1, Append(s, t))
  BY <1>e, <1>1
<1> QED BY <1>2, <1>3 DEF M

\* parse_declaration: the body of a function.
LEMMA BodyMeets ==
    ASSUME NEW list, NEW old, NEW new, NEW T, NEW i \in Positions(list), NEW s \in Stacks, NEW name \in Names \cup {NULL},
           old[1].do = "body", old[1].name = name, list[i].type = "LBRACE_TOK",
           Unfolded(list, old, new, <<Match("LBRACE_TOK"), Make(Plain("BLOCK_STAT"), 0),
                                      Parse("stats"), Match("RBRACE_TOK"), Make(FuncDecl(name), 1)>>)
    PROVE  Meets(list, old, 1, i, s, T) <=> Meets(list, new, 1, i, s, T)
<1> DEFINE t1 == Match("LBRACE_TOK")
           t2 == Make(Plain("BLOCK_STAT"), 0)
           t3 == Parse("stats")
           t4 == Match("RBRACE_TOK")
           t5 == Make(FuncDecl(name), 1)
           news == <<t1, t2, t3, t4, t5>>
           M(n, a, r) == Meets(list, new, n, a, r, T)
           K(a, r) == Meets(list, old, 2, a, r, T)
<1>a. Unfolded(list, old, new, news) /\ IsTokenList(list)
  BY DEF Unfolded
<1>b. /\ 1 \in 1 .. Len(news) /\ 2 \in 1 .. Len(news) /\ 3 \in 1 .. Len(news) /\ 4 \in 1 .. Len(news) /\ 5 \in 1 .. Len(news)
      /\ news[1] = t1 /\ news[2] = t2 /\ news[3] = t3 /\ news[4] = t4 /\ news[5] = t5 /\ Len(news) + 1 = 6
      /\ 2 = 1 + 1 /\ 3 = 2 + 1 /\ 4 = 3 + 1 /\ 5 = 4 + 1 /\ 6 = 5 + 1
  <2> HIDE DEF t1, t2, t3, t4, t5
  <2> QED OBVIOUS
<1> HIDE DEF news
<1>c. \A a, r : M(6, a, r) <=> K(a, r)
  <2>1. \A a, r : Meets(list, new, Len(news) + 1, a, r, T) <=> K(a, r)
    BY <1>a, AtEnd
  <2> QED BY <1>b, <2>1
<1>leaf. \A x \in Names \cup {NULL} :
         /\ Named("DECL_STAT", x) \in Leaves /\ FuncDecl(x) \in Leaves
         /\ Over(Named("DECL_STAT", x), <<>>) = <<Named("DECL_STAT", x)>>
         /\ Over(FuncDecl(x), <<>>) = <<FuncDecl(x)>>
  BY NameLeaf, OverNone
<1>t1. \A a \in Positions(list) : \A r \in Stacks :
         M(1, a, r) <=> list[a].type = "LBRACE_TOK" /\ a + 1 \in Positions(list) /\ M(2, a + 1, r)
  <2>1. Checks(list, new, 1, "LBRACE_TOK", T)
    BY <1>a, <1>b, Matched, AtMatch
  <2>2. \A j, r : Meets(list, new, 1 + 1, j, r, T) <=> M(2, j, r)
    BY <1>b
  <2>3. \A a, r : Meets(list, new, 1, a, r, T) <=> M(1, a, r)
    OBVIOUS
  <2> HIDE DEF M
  <2> QED BY <2>1, <2>2, <2>3, Zenon DEF Checks
<1>t2. \A a \in Positions(list) : \A r \in Stacks :
         /\ Over(Plain("BLOCK_STAT"), <<>>) \in Tables
         /\ M(2, a, r) <=> M(3, a, Append(r, Over(Plain("BLOCK_STAT"), <<>>)))
  <2>1. Creates0(list, new, 2, Plain("BLOCK_STAT"), T)
    BY <1>a, <1>b, <1>leaf, StatementLeaves, AtMake0
  <2>2. \A j, r : Meets(list, new, 2 + 1, j, r, T) <=> M(3, j, r)
    BY <1>b
  <2>3. \A a, r : Meets(list, new, 2, a, r, T) <=> M(2, a, r)
    OBVIOUS
  <2> HIDE DEF M
  <2> QED BY <2>1, <2>2, <2>3, Zenon DEF Creates0
<1>t3. \A a \in Positions(list) : \A r \in Stacks : \A l \in Tables :
         M(3, a, Append(r, l)) <=> \E j \in Positions(list) : \E t \in Tables :
                                     Turned(list, "stats", a, l, j, t) /\ M(4, j, Append(r, t))
  <2>1. Turns(list, new, 3, "stats", T)
    BY <1>a, <1>b, AtRest
  <2>2. \A j, r : Meets(list, new, 3 + 1, j, r, T) <=> M(4, j, r)
    BY <1>b
  <2>3. \A a, r : Meets(list, new, 3, a, r, T) <=> M(3, a, r)
    OBVIOUS
  <2> HIDE DEF M
  <2> QED BY <2>1, <2>2, <2>3, Zenon DEF Turns
<1>t4. \A a \in Positions(list) : \A r \in Stacks :
         M(4, a, r) <=> list[a].type = "RBRACE_TOK" /\ a + 1 \in Positions(list) /\ M(5, a + 1, r)
  <2>1. Checks(list, new, 4, "RBRACE_TOK", T)
    BY <1>a, <1>b, Matched, AtMatch
  <2>2. \A j, r : Meets(list, new, 4 + 1, j, r, T) <=> M(5, j, r)
    BY <1>b
  <2>3. \A a, r : Meets(list, new, 4, a, r, T) <=> M(4, a, r)
    OBVIOUS
  <2> HIDE DEF M
  <2> QED BY <2>1, <2>2, <2>3, Zenon DEF Checks
<1>t5. \A a \in Positions(list) : \A r \in Stacks : \A c \in Tables :
         /\ Over(FuncDecl(name), <<c>>) \in Tables
         /\ M(5, a, Append(r, c)) <=> M(6, a, Append(r, Over(FuncDecl(name), <<c>>)))
  <2>1. Creates1(list, new, 5, FuncDecl(name), T)
    BY <1>a, <1>b, <1>leaf, StatementLeaves, AtMake1
  <2>2. \A j, r : Meets(list, new, 5 + 1, j, r, T) <=> M(6, j, r)
    BY <1>b
  <2>3. \A a, r : Meets(list, new, 5, a, r, T) <=> M(5, a, r)
    OBVIOUS
  <2> HIDE DEF M
  <2> QED BY <2>1, <2>2, <2>3, Zenon DEF Creates1
<1>e. Meets(list, old, 1, i, s, T) <=>
         \E j \in Positions(list) : \E t \in Tables : Bears(list, "body", name, i, j, t) /\ K(j, Append(s, t))
  <2>1. Grants(list, old, 1, "body", name, T) /\ 1 + 1 = 2
    BY <1>a, OldGrants
  <2>2. \A j, r : Meets(list, old, 1 + 1, j, r, T) <=> K(j, r)
    BY <2>1
  <2> HIDE DEF K
  <2> QED BY <2>1, <2>2, Zenon DEF Grants
<1>d. \A t \in Tables : Append(s, t) \in Stacks
  BY AppendProperties DEF Stacks
<1> HIDE DEF M, K
<1>0. PICK l \in Tables : l = Over(Plain("BLOCK_STAT"), <<>>)
  BY <1>t2
<1>1. \A j \in Positions(list) : \A t \in Tables : Bears(list, "body", name, i, j, t) <=>
         \E k \in Positions(list) : \E b \in Tables : BodyTo(list, name, i, j, t, k, b)
  <2> TAKE j \in Positions(list)
  <2> TAKE t \in Tables
  <2>1. IsBody(list, Derived(list), name, i, j, t) <=>
           \E k \in Positions(list) : \E b \in Tables : BodyTo(list, name, i, j, t, k, b)
    BY <1>a, BodyIs
  <2>2. Bears(list, "body", name, i, j, t) <=> IsBody(list, Derived(list), name, i, j, t)
    BY DEF Bears
  <2> QED BY <2>1, <2>2, Zenon
<1>2. ASSUME Meets(list, old, 1, i, s, T)
      PROVE  M(1, i, s)
  <2>1. PICK j \in Positions(list), t \in Tables : Bears(list, "body", name, i, j, t) /\ K(j, Append(s, t))
    BY <1>e, <1>2
  <2>0. PICK k \in Positions(list), b \in Tables : BodyTo(list, name, i, j, t, k, b)
    BY <1>1, <2>1
  <2>2. /\ i + 1 \in Positions(list) /\ Turned(list, "stats", i + 1, l, k, b)
        /\ j = k + 1 /\ t = Over(FuncDecl(name), <<b>>)
    BY <1>0, <2>0 DEF BodyTo
  <2>3. list[k].type = "RBRACE_TOK"
    BY <2>2 DEF Turned, FilledTo
  <2>4. M(5, j, Append(s, b))
    BY <1>c, <1>t5, <2>1, <2>2
  <2>5. M(4, k, Append(s, b))
    BY <1>d, <1>t4, <2>1, <2>2, <2>3, <2>4
  <2>6. M(2, i + 1, s)
    BY <1>0, <1>t2, <1>t3, <2>2, <2>5
  <2> QED BY <1>t1, <2>2, <2>6
<1>3. ASSUME M(1, i, s)
      PROVE  Meets(list, old, 1, i, s, T)
  <2>1. i + 1 \in Positions(list) /\ M(3, i + 1, Append(s, l))
    BY <1>0, <1>t1, <1>t2, <1>3
  <2>2. PICK k \in Positions(list), b \in Tables : Turned(list, "stats", i + 1, l, k, b) /\ M(4, k, Append(s, b))
    BY <1>t3, <2>1
  <2>3. k + 1 \in Positions(list) /\ M(5, k + 1, Append(s, b))
    BY <1>d, <1>t4, <2>2
  <2>4. PICK t \in Tables : t = Over(FuncDecl(name), <<b>>) /\ K(k + 1, Append(s, t))
    BY <1>c, <1>t5, <2>3
  <2>5. BodyTo(list, name, i, k + 1, t, k, b)
    BY <1>0, <2>1, <2>2, <2>4 DEF BodyTo
  <2>6. Bears(list, "body", name, i, k + 1, t)
    BY <1>1, <2>3, <2>5
  <2> QED BY <1>e, <2>3, <2>4, <2>6
<1> QED BY <1>2, <1>3 DEF M

-----------------------------------------------------------------------------
(* What is still to be parsed stands for the trees of the token list.        *)

\* While there is no error, the trees of the token list are those that the tasks
\* which are left make of the tokens which are left; after an error there are none.
PathInv ==
    /\ (errors = 0 /\ parseStatus # "killed") =>
          \A T : T \in ParseTrees <=> Meets(tokens, pending, 1, next, built, T)
    /\ (errors # 0 \/ parseStatus = "killed") => ParseTrees = {}

\* The tasks that take the place of the first one.
LEMMA AtToken ==
    ASSUME ParserInv, NEW do, Doing(do), NEW tasks, NEW S, tasks \in Seq(S), Instead(tasks)
    PROVE  /\ pending[1] = Head(pending) /\ pending[1].do = do
           /\ Unfolded(tokens, pending, pending', tasks)
           /\ next \in Positions(tokens) /\ built \in Stacks
<1>1. pending \in Seq(ParserTasks) /\ pending # <<>> /\ Head(pending).do = do /\ Len(pending) \in Nat
  BY DEF ParserInv, GoodTasks, AllGood, Doing
<1>2. pending[1] = Head(pending)
  BY <1>1
<1>3. HeadReplaced(pending', pending, tasks)
  <2>1. pending \in Seq(ParserTasks \cup S) /\ tasks \in Seq(ParserTasks \cup S)
    BY <1>1, SeqMonotonic
  <2>2. pending' = tasks \o Tail(pending)
    BY DEF Instead
  <2> QED BY <1>1, <2>1, <2>2, HeadIsReplaced
<1>4. IsTokenList(tokens) /\ next \in Positions(tokens)
  BY DEF ParserInv, InPlace, Positions
<1>5. built \in Stacks
  <2>1. Trees \subseteq Tables
    BY DEF Trees, WholeTree, WholeBelow, IsTree, IsTable, Tables
  <2>2. built \in Seq(Trees)
    BY DEF ParserInv, WholeSoFar
  <2> QED BY <2>1, <2>2, SeqMonotonic DEF Stacks
<1> QED BY <1>1, <1>2, <1>3, <1>4, <1>5 DEF Unfolded

\* A step on the way: the tasks make the same trees as before, or none if an
\* error was found.
LEMMA StepKeeps ==
    ASSUME PathInv, parseStatus = "parsing", parseStatus' \in {"parsing", "done", "killed"},
           tokens' = tokens, errors # 0 => errors' # 0,
           (errors = 0 /\ errors' = 0 /\ parseStatus' # "killed") =>
              \A T : Meets(tokens, pending, 1, next, built, T) <=> Meets(tokens, pending', 1, next', built', T),
           errors = 0 /\ (errors' # 0 \/ parseStatus' = "killed") =>
              \A T : ~Meets(tokens, pending, 1, next, built, T)
    PROVE  PathInv'
<1>1. PICK P : P = ParseTrees
  OBVIOUS
<1>2. ParseTrees' = P
  BY <1>1 DEF ParseTrees
<1>3. ASSUME (errors = 0 /\ parseStatus # "killed")'
      PROVE  (\A T : T \in ParseTrees <=> Meets(tokens, pending, 1, next, built, T))'
  <2>1. errors = 0 /\ errors' = 0 /\ parseStatus' # "killed"
    BY <1>3
  <2>2. \A T : T \in P <=> Meets(tokens, pending, 1, next, built, T)
    BY <1>1, <2>1 DEF PathInv
  <2>3. \A T : Meets(tokens, pending, 1, next, built, T) <=> Meets(tokens, pending', 1, next', built', T)
    BY <2>1
  <2>4. \A T : T \in P <=> Meets(tokens, pending', 1, next', built', T)
    BY <2>2, <2>3
  <2>5. \A T : T \in P <=> Meets(tokens', pending', 1, next', built', T)
    BY <2>4
  <2> QED BY <1>2, <2>5
<1>4. ASSUME (errors # 0 \/ parseStatus = "killed")'
      PROVE  P = {}
  <2>1. CASE errors # 0
    BY <1>1, <2>1 DEF PathInv
  <2>2. CASE errors = 0
    <3>1. \A T : T \in P <=> Meets(tokens, pending, 1, next, built, T)
      BY <1>1, <2>2 DEF PathInv
    <3>2. \A T : ~Meets(tokens, pending, 1, next, built, T)
      BY <1>4, <2>2
    <3> QED BY <3>1, <3>2
  <2> QED BY <2>1, <2>2
<1> QED BY <1>2, <1>3, <1>4 DEF PathInv

\* A parse function calls others.
LEMMA UnfoldKeeps ==
    ASSUME PathInv, NEW do, Doing(do), NEW tasks, Unfold(tasks),
           \A T : Meets(tokens, pending, 1, next, built, T) <=> Meets(tokens, pending', 1, next, built, T)
    PROVE  PathInv'
<1>1. /\ next' = next /\ built' = built /\ tokens' = tokens /\ errors' = errors /\ parseStatus' = parseStatus
      /\ parseStatus = "parsing"
  BY DEF Unfold, Doing
<1>2. \A T : Meets(tokens, pending, 1, next, built, T) <=> Meets(tokens, pending', 1, next', built', T)
  BY <1>1
<1> QED BY <1>1, <1>2, StepKeeps

\* A token to match, and a node to create.
LEMMA MatchMeets ==
    ASSUME NEW list, NEW old, NEW new, Unfolded(list, old, new, <<>>), NEW T,
           old[1].do = "match", NEW tok, old[1].token = tok, tok # "PROGRAM_END_TOK",
           NEW i \in Positions(list), NEW s \in Stacks
    PROVE  Meets(list, old, 1, i, s, T) <=> list[i].type = tok /\ Meets(list, new, 1, i + 1, s, T)
<1>1. IsTokenList(list) /\ Len(old) \in Nat /\ 1 \in 1 .. Len(old) /\ 1 + 1 = 2
  BY NewTasks DEF Unfolded
<1>2. \A j, u : Does(list, old[1], i, s, j, u) <=> list[i].type = tok /\ j = i + 1 /\ u = s
  BY DEF Does, Makers
<1>3. Meets(list, old, 1, i, s, T) <=>
         \E j \in Positions(list) : \E u \in Stacks :
            Does(list, old[1], i, s, j, u) /\ Meets(list, old, 2, j, u, T)
  BY <1>1, MeetsStep
<1>4. Meets(list, old, 1, i, s, T) <=>
         \E j \in Positions(list) : \E u \in Stacks :
            (list[i].type = tok /\ j = i + 1 /\ u = s) /\ Meets(list, old, 2, j, u, T)
  BY <1>2, <1>3
<1>5. list[i].type = tok => i + 1 \in Positions(list)
  BY <1>1, PlaceBehind
<1>6. Meets(list, new, 1, i + 1, s, T) <=> Meets(list, old, 2, i + 1, s, T)
  BY NothingNew
<1> QED BY <1>4, <1>5, <1>6

\* Making a node keeps the trees that the tasks make.
LEMMA MakeMeets ==
    ASSUME NEW list, NEW old, NEW new, Unfolded(list, old, new, <<>>), NEW T,
           old[1].do = "make", NEW i \in Positions(list), NEW s \in Stacks,
           NEW u \in Stacks, u = MadeOf(s, old[1].node, old[1].arity)
    PROVE  Meets(list, old, 1, i, s, T) <=> Meets(list, new, 1, i, u, T)
<1>1. Len(old) \in Nat /\ 1 \in 1 .. Len(old) /\ 1 + 1 = 2
  BY NewTasks DEF Unfolded
<1>2. \A j, v : Does(list, old[1], i, s, j, v) <=> j = i /\ v = u
  BY DEF Does, Makers
<1>3. Meets(list, old, 1, i, s, T) <=>
         \E j \in Positions(list) : \E v \in Stacks :
            Does(list, old[1], i, s, j, v) /\ Meets(list, old, 2, j, v, T)
  BY <1>1, MeetsStep
<1>4. Meets(list, new, 1, i, u, T) <=> Meets(list, old, 2, i, u, T)
  BY NothingNew
<1> QED BY <1>2, <1>3, <1>4

\* Hanging a statement to its block keeps the trees that the tasks make.
LEMMA AppendMeets ==
    ASSUME NEW list, NEW old, NEW new, Unfolded(list, old, new, <<>>), NEW T,
           old[1].do = "append", NEW i \in Positions(list), NEW r \in Stacks, NEW a \in Tables, NEW b \in Tables
    PROVE  Meets(list, old, 1, i, Append(Append(r, a), b), T) <=>
              Meets(list, new, 1, i, Joined(Append(Append(r, a), b)), T)
<1>1. Appends(list, old, 1, T) /\ 1 + 1 = 2
  BY OldRest
<1>2. Meets(list, old, 1, i, Append(Append(r, a), b), T) <=> Meets(list, old, 2, i, Append(r, Hang(a, b)), T)
  BY <1>1 DEF Appends
<1>3. Joined(Append(Append(r, a), b)) = Append(r, Hang(a, b))
  BY JoinedIs
<1>4. Meets(list, new, 1, i, Append(r, Hang(a, b)), T) <=> Meets(list, old, 2, i, Append(r, Hang(a, b)), T)
  BY NothingNew
<1> QED BY <1>2, <1>3, <1>4

\* The stack where the rest of an expression, of a block or of the program goes on.
LEMMA TopIs ==
    ASSUME ParserInv, Len(built) \in Nat, Len(built) >= 1
    PROVE  \E q \in Stacks, l \in Tables : built = Append(q, l)
<1>1. built \in Stacks
  <2>1. Trees \subseteq Tables
    BY DEF Trees, WholeTree, WholeBelow, IsTree, IsTable, Tables
  <2>2. built \in Seq(Trees)
    BY DEF ParserInv, WholeSoFar
  <2> QED BY <2>1, <2>2, SeqMonotonic DEF Stacks
<1>2. built # <<>>
  OBVIOUS
<1> QED BY <1>1, <1>2, SequenceEmptyOrAppend DEF Stacks

\* The two trees on top of a stack of at least two.
LEMMA TopTwo ==
    ASSUME ParserInv, Len(built) \in Nat, Len(built) >= 2
    PROVE  \E q \in Stacks, c, d \in Tables : built = Append(Append(q, c), d)
<1>1. PICK p \in Stacks, d \in Tables : built = Append(p, d)
  BY TopIs
<1>2. Len(built) = Len(p) + 1 /\ Len(p) \in Nat
  BY <1>1, AppendProperties, LenProperties DEF Stacks
<1>3. p # <<>>
  BY <1>2
<1>4. PICK q \in Stacks, c \in Tables : p = Append(q, c)
  BY <1>3, SequenceEmptyOrAppend DEF Stacks
<1> QED BY <1>1, <1>4

\* How many trees the first task finds there.
LEMMA Enough ==
    ASSUME ParserInv, NEW do, Doing(do)
    PROVE  /\ Len(built) \in Nat /\ Len(built) >= 1
           /\ do \in {"comparison", "terms", "factors", "stats", "else", "append"} => Len(built) >= 2
<1>1. pending # <<>> /\ Head(pending).do = do
  BY DEF Doing
<1>2. PICK a, m \in Seq(Kinds) : Stacked(built, Len(built), a) /\ Takes(Head(pending), a, m)
  BY <1>1, FirstTask
<1>3. built \in Seq(Trees)
  BY DEF ParserInv, WholeSoFar
<1>4. Len(built) \in Nat /\ Len(a) = Len(built) - 1 /\ Len(a) \in Nat
  BY <1>2, <1>3, LenProperties DEF Stacked
<1>5. ASSUME do \in {"comparison", "terms", "factors", "stats", "else", "append"}
      PROVE  a # <<>>
  <2>1. \A K \in Seq(Kinds), k \in Kinds : Append(K, k) # <<>>
    <3> TAKE K \in Seq(Kinds), k \in Kinds
    <3>1. Len(Append(K, k)) = Len(K) + 1 /\ Len(K) \in Nat
      BY AppendProperties, LenProperties
    <3> QED BY <3>1
  <2>2. \A K \in Seq(Kinds), k \in Kinds : Append(K, k) \in Seq(Kinds)
    BY AppendProperties
  <2>3. {"expr", "stat", "block"} \subseteq Kinds
    BY DEF Kinds
  <2>4. \E K \in Seq(Kinds), k \in Kinds : a = Append(K, k)
    <3>1. \/ \E K \in Seq(Kinds) : a = Append(K, "expr") \/ a = Append(K, "block")
          \/ \E K \in Seq(Kinds) : a = Append(Append(K, "expr"), "stat") \/ a = Append(Append(K, "block"), "stat")
          \/ a = <<"stat">>
      BY <1>1, <1>2, <1>5 DEF Takes
    <3>2. <<>> \in Seq(Kinds) /\ Append(<<>>, "stat") = <<"stat">>
      OBVIOUS
    <3>3. CASE \E K \in Seq(Kinds) : a = Append(K, "expr") \/ a = Append(K, "block")
      BY <2>3, <3>3
    <3>4. CASE \E K \in Seq(Kinds) : a = Append(Append(K, "expr"), "stat") \/ a = Append(Append(K, "block"), "stat")
      BY <2>2, <2>3, <3>4
    <3>5. CASE a = <<"stat">>
      BY <2>3, <3>2, <3>5
    <3> QED BY <3>1, <3>3, <3>4, <3>5
  <2> QED BY <2>1, <2>4
<1>6. a # <<>> => Len(a) >= 1
  BY <1>2, <1>4, EmptySeq, LenProperties
<1> QED BY <1>4, <1>5, <1>6

-----------------------------------------------------------------------------
(* The parse functions keep to the trees of the token list.                  *)

\* Up to ten tasks in a list.
LEMMA TaskLists ==
    /\ \A a : \E S : <<a>> \in Seq(S)
    /\ \A a, b : \E S : <<a, b>> \in Seq(S)
    /\ \A a, b, c : \E S : <<a, b, c>> \in Seq(S)
    /\ \A a, b, c, d : \E S : <<a, b, c, d>> \in Seq(S)
    /\ \A a, b, c, d, e : \E S : <<a, b, c, d, e>> \in Seq(S)
    /\ \A a, b, c, d, e, f : \E S : <<a, b, c, d, e, f>> \in Seq(S)
    /\ \A a, b, c, d, e, f, g, h, i, j : \E S : <<a, b, c, d, e, f, g, h, i, j>> \in Seq(S)
<1>1. ASSUME NEW a
     PROVE  \E S : <<a>> \in Seq(S)
  <2>1. <<a>> \in Seq({a})
    OBVIOUS
  <2> QED BY <2>1
<1>2. ASSUME NEW a, NEW b
     PROVE  \E S : <<a, b>> \in Seq(S)
  <2>1. <<a, b>> \in Seq({a, b})
    OBVIOUS
  <2> QED BY <2>1
<1>3. ASSUME NEW a, NEW b, NEW c
     PROVE  \E S : <<a, b, c>> \in Seq(S)
  <2>1. <<a, b, c>> \in Seq({a, b, c})
    OBVIOUS
  <2> QED BY <2>1
<1>4. ASSUME NEW a, NEW b, NEW c, NEW d
     PROVE  \E S : <<a, b, c, d>> \in Seq(S)
  <2>1. <<a, b, c, d>> \in Seq({a, b, c, d})
    OBVIOUS
  <2> QED BY <2>1
<1>5. ASSUME NEW a, NEW b, NEW c, NEW d, NEW e
     PROVE  \E S : <<a, b, c, d, e>> \in Seq(S)
  <2>1. <<a, b, c, d, e>> \in Seq({a, b, c, d, e})
    OBVIOUS
  <2> QED BY <2>1
<1>6. ASSUME NEW a, NEW b, NEW c, NEW d, NEW e, NEW f
     PROVE  \E S : <<a, b, c, d, e, f>> \in Seq(S)
  <2>1. <<a, b, c, d, e, f>> \in Seq({a, b, c, d, e, f})
    OBVIOUS
  <2> QED BY <2>1
<1>7. ASSUME NEW a, NEW b, NEW c, NEW d, NEW e, NEW f, NEW g, NEW h, NEW i, NEW j
     PROVE  \E S : <<a, b, c, d, e, f, g, h, i, j>> \in Seq(S)
  <2>1. <<a, b, c, d, e, f, g, h, i, j>> \in Seq({a, b, c, d, e, f, g, h, i, j})
    OBVIOUS
  <2> QED BY <2>1
<1> QED BY <1>1, <1>2, <1>3, <1>4, <1>5, <1>6, <1>7

\* parse_stat: return.
LEMMA ReturnOnPath ==
    ASSUME ParserInv, PathInv, ParseReturn
    PROVE  PathInv'
<1> DEFINE tasks == <<Match("RETURN_TOK"), Parse("expr"), Make(Plain("RETURN_STAT"), 1), Match("SCOL_TOK")>>
<1>1. PICK S : tasks \in Seq(S)
  BY TaskLists, Zenon
<1>2. Doing("stat") /\ Unfold(tasks) /\ Instead(tasks) /\ tokens[next].type = "RETURN_TOK"
  BY DEF ParseReturn, AtStart, Unfold, Tok
<1>3. /\ pending[1].do = "stat" /\ Unfolded(tokens, pending, pending', tasks)
      /\ next \in Positions(tokens) /\ built \in Stacks
  <2> HIDE DEF tasks
  <2> QED BY <1>1, <1>2, AtToken
<1>4. \A T : Meets(tokens, pending, 1, next, built, T) <=> Meets(tokens, pending', 1, next, built, T)
  BY <1>2, <1>3, ReturnMeets, Zenon
<1> HIDE DEF tasks
<1> QED BY <1>2, <1>4, UnfoldKeeps

\* parse_stat: if.
LEMMA IfOnPath ==
    ASSUME ParserInv, PathInv, ParseIf
    PROVE  PathInv'
<1> DEFINE tasks == <<Match("IF_TOK"), Match("LPAREN_TOK"), Parse("expr"), Match("RPAREN_TOK"), Parse("stat"),
                     Parse("else")>>
<1>1. PICK S : tasks \in Seq(S)
  BY TaskLists, Zenon
<1>2. Doing("stat") /\ Unfold(tasks) /\ Instead(tasks) /\ tokens[next].type = "IF_TOK"
  BY DEF ParseIf, AtStart, Unfold, Tok
<1>3. /\ pending[1].do = "stat" /\ Unfolded(tokens, pending, pending', tasks)
      /\ next \in Positions(tokens) /\ built \in Stacks
  <2> HIDE DEF tasks
  <2> QED BY <1>1, <1>2, AtToken
<1>4. \A T : Meets(tokens, pending, 1, next, built, T) <=> Meets(tokens, pending', 1, next, built, T)
  BY <1>2, <1>3, IfMeets, Zenon
<1> HIDE DEF tasks
<1> QED BY <1>2, <1>4, UnfoldKeeps

\* parse_stat: while.
LEMMA WhileOnPath ==
    ASSUME ParserInv, PathInv, ParseWhile
    PROVE  PathInv'
<1> DEFINE tasks == <<Match("WHILE_TOK"), Match("LPAREN_TOK"), Parse("expr"), Match("RPAREN_TOK"), Parse("stat"),
                     Make(Plain("WHILE_STAT"), 2)>>
<1>1. PICK S : tasks \in Seq(S)
  BY TaskLists, Zenon
<1>2. Doing("stat") /\ Unfold(tasks) /\ Instead(tasks) /\ tokens[next].type = "WHILE_TOK"
  BY DEF ParseWhile, AtStart, Unfold, Tok
<1>3. /\ pending[1].do = "stat" /\ Unfolded(tokens, pending, pending', tasks)
      /\ next \in Positions(tokens) /\ built \in Stacks
  <2> HIDE DEF tasks
  <2> QED BY <1>1, <1>2, AtToken
<1>4. \A T : Meets(tokens, pending, 1, next, built, T) <=> Meets(tokens, pending', 1, next, built, T)
  BY <1>2, <1>3, WhileMeets, Zenon
<1> HIDE DEF tasks
<1> QED BY <1>2, <1>4, UnfoldKeeps

\* parse_stat: for.
LEMMA ForOnPath ==
    ASSUME ParserInv, PathInv, ParseFor
    PROVE  PathInv'
<1> DEFINE tasks == <<Match("FOR_TOK"), Match("LPAREN_TOK"), Parse("expr"), Match("SCOL_TOK"), Parse("expr"),
                     Match("SCOL_TOK"), Parse("expr"), Match("RPAREN_TOK"), Parse("stat"),
                     Make(Plain("FOR_STAT"), 4)>>
<1>1. PICK S : tasks \in Seq(S)
  BY TaskLists, Zenon
<1>2. Doing("stat") /\ Unfold(tasks) /\ Instead(tasks) /\ tokens[next].type = "FOR_TOK"
  BY DEF ParseFor, AtStart, Unfold, Tok
<1>3. /\ pending[1].do = "stat" /\ Unfolded(tokens, pending, pending', tasks)
      /\ next \in Positions(tokens) /\ built \in Stacks
  <2> HIDE DEF tasks
  <2> QED BY <1>1, <1>2, AtToken
<1>4. \A T : Meets(tokens, pending, 1, next, built, T) <=> Meets(tokens, pending', 1, next, built, T)
  BY <1>2, <1>3, ForMeets, Zenon
<1> HIDE DEF tasks
<1> QED BY <1>2, <1>4, UnfoldKeeps

\* parse_stat: a block.
LEMMA BlockOnPath ==
    ASSUME ParserInv, PathInv, ParseBlock
    PROVE  PathInv'
<1> DEFINE tasks == <<Match("LBRACE_TOK"), Make(Plain("BLOCK_STAT"), 0), Parse("stats"), Match("RBRACE_TOK")>>
<1>1. PICK S : tasks \in Seq(S)
  BY TaskLists, Zenon
<1>2. Doing("stat") /\ Unfold(tasks) /\ Instead(tasks) /\ tokens[next].type = "LBRACE_TOK"
  BY DEF ParseBlock, Block, AtStart, Unfold, Tok
<1>3. /\ pending[1].do = "stat" /\ Unfolded(tokens, pending, pending', tasks)
      /\ next \in Positions(tokens) /\ built \in Stacks
  <2> HIDE DEF tasks
  <2> QED BY <1>1, <1>2, AtToken
<1>4. \A T : Meets(tokens, pending, 1, next, built, T) <=> Meets(tokens, pending', 1, next, built, T)
  BY <1>2, <1>3, BlockMeets, Zenon
<1> HIDE DEF tasks
<1> QED BY <1>2, <1>4, UnfoldKeeps

\* parse_stat: an empty statement.
LEMMA SkipOnPath ==
    ASSUME ParserInv, PathInv, ParseSkip
    PROVE  PathInv'
<1> DEFINE tasks == <<Make(Plain("SKIP_STAT"), 0), Match("SCOL_TOK")>>
<1>1. PICK S : tasks \in Seq(S)
  BY TaskLists, Zenon
<1>2. Doing("stat") /\ Unfold(tasks) /\ Instead(tasks) /\ tokens[next].type = "SCOL_TOK"
  BY DEF ParseSkip, AtStart, Unfold, Tok
<1>3. /\ pending[1].do = "stat" /\ Unfolded(tokens, pending, pending', tasks)
      /\ next \in Positions(tokens) /\ built \in Stacks
  <2> HIDE DEF tasks
  <2> QED BY <1>1, <1>2, AtToken
<1>4. \A T : Meets(tokens, pending, 1, next, built, T) <=> Meets(tokens, pending', 1, next, built, T)
  BY <1>2, <1>3, SkipMeets, Zenon
<1> HIDE DEF tasks
<1> QED BY <1>2, <1>4, UnfoldKeeps

\* parse_stat: an expression.
LEMMA ExprStatOnPath ==
    ASSUME ParserInv, PathInv, ParseExprStat
    PROVE  PathInv'
<1> DEFINE tasks == <<Parse("expr"), Make(Plain("EXPR_STAT"), 1), Match("SCOL_TOK")>>
<1>1. PICK S : tasks \in Seq(S)
  BY TaskLists, Zenon
<1>2. Doing("stat") /\ Unfold(tasks) /\ Instead(tasks) /\ (tokens[next].type = "INT_LIT_TOK" \/ (tokens[next].type = "IDENT_TOK" /\ ~IsTypeIdent(tokens[next])))
  BY DEF ParseExprStat, AtStart, Unfold, Tok
<1>3. /\ pending[1].do = "stat" /\ Unfolded(tokens, pending, pending', tasks)
      /\ next \in Positions(tokens) /\ built \in Stacks
  <2> HIDE DEF tasks
  <2> QED BY <1>1, <1>2, AtToken
<1>4. \A T : Meets(tokens, pending, 1, next, built, T) <=> Meets(tokens, pending', 1, next, built, T)
  BY <1>2, <1>3, ExprStatMeets, Zenon
<1> HIDE DEF tasks
<1> QED BY <1>2, <1>4, UnfoldKeeps

\* parse_expr.
LEMMA ExprOnPath ==
    ASSUME ParserInv, PathInv, ParseExpr
    PROVE  PathInv'
<1> DEFINE tasks == <<Parse("subexpr"), Parse("comparison")>>
<1>1. PICK S : tasks \in Seq(S)
  BY TaskLists, Zenon
<1>2. Doing("expr") /\ Unfold(tasks) /\ Instead(tasks) /\ TRUE
  BY DEF ParseExpr, Unfold
<1>3. /\ pending[1].do = "expr" /\ Unfolded(tokens, pending, pending', tasks)
      /\ next \in Positions(tokens) /\ built \in Stacks
  <2> HIDE DEF tasks
  <2> QED BY <1>1, <1>2, AtToken
<1>4. \A T : Meets(tokens, pending, 1, next, built, T) <=> Meets(tokens, pending', 1, next, built, T)
  BY <1>2, <1>3, ExprMeets, Zenon
<1> HIDE DEF tasks
<1> QED BY <1>2, <1>4, UnfoldKeeps

\* parse_subexpr.
LEMMA SubexprOnPath ==
    ASSUME ParserInv, PathInv, ParseSubexpr
    PROVE  PathInv'
<1> DEFINE tasks == <<Parse("term"), Parse("terms")>>
<1>1. PICK S : tasks \in Seq(S)
  BY TaskLists, Zenon
<1>2. Doing("subexpr") /\ Unfold(tasks) /\ Instead(tasks) /\ TRUE
  BY DEF ParseSubexpr, Unfold
<1>3. /\ pending[1].do = "subexpr" /\ Unfolded(tokens, pending, pending', tasks)
      /\ next \in Positions(tokens) /\ built \in Stacks
  <2> HIDE DEF tasks
  <2> QED BY <1>1, <1>2, AtToken
<1>4. \A T : Meets(tokens, pending, 1, next, built, T) <=> Meets(tokens, pending', 1, next, built, T)
  BY <1>2, <1>3, SubexprMeets, Zenon
<1> HIDE DEF tasks
<1> QED BY <1>2, <1>4, UnfoldKeeps

\* parse_term.
LEMMA TermOnPath ==
    ASSUME ParserInv, PathInv, ParseTerm
    PROVE  PathInv'
<1> DEFINE tasks == <<Parse("factor"), Parse("factors")>>
<1>1. PICK S : tasks \in Seq(S)
  BY TaskLists, Zenon
<1>2. Doing("term") /\ Unfold(tasks) /\ Instead(tasks) /\ TRUE
  BY DEF ParseTerm, Unfold
<1>3. /\ pending[1].do = "term" /\ Unfolded(tokens, pending, pending', tasks)
      /\ next \in Positions(tokens) /\ built \in Stacks
  <2> HIDE DEF tasks
  <2> QED BY <1>1, <1>2, AtToken
<1>4. \A T : Meets(tokens, pending, 1, next, built, T) <=> Meets(tokens, pending', 1, next, built, T)
  BY <1>2, <1>3, TermMeets, Zenon
<1> HIDE DEF tasks
<1> QED BY <1>2, <1>4, UnfoldKeeps

\* parse_factor: parentheses.
LEMMA ParensOnPath ==
    ASSUME ParserInv, PathInv, ParseParens
    PROVE  PathInv'
<1> DEFINE tasks == <<Match("LPAREN_TOK"), Parse("expr"), Match("RPAREN_TOK")>>
<1>1. PICK S : tasks \in Seq(S)
  BY TaskLists, Zenon
<1>2. Doing("factor") /\ Unfold(tasks) /\ Instead(tasks) /\ tokens[next].type = "LPAREN_TOK"
  BY DEF ParseParens, Unfold, Tok
<1>3. /\ pending[1].do = "factor" /\ Unfolded(tokens, pending, pending', tasks)
      /\ next \in Positions(tokens) /\ built \in Stacks
  <2> HIDE DEF tasks
  <2> QED BY <1>1, <1>2, AtToken
<1>4. \A T : Meets(tokens, pending, 1, next, built, T) <=> Meets(tokens, pending', 1, next, built, T)
  BY <1>2, <1>3, ParensMeets, Zenon
<1> HIDE DEF tasks
<1> QED BY <1>2, <1>4, UnfoldKeeps

-----------------------------------------------------------------------------
(* The functions that go on with what lies on top of the stack.              *)

\* One task behind two, and one behind four.
LEMMA ThreeTasks ==
    ASSUME NEW a, NEW b, NEW c
    PROVE  <<a, b>> \o <<c>> = <<a, b, c>>
<1> DEFINE S == {a, b, c}
<1>1. PICK s \in Seq(S) : s = <<a, b>>
  <2>1. <<a, b>> \in Seq(S)
    OBVIOUS
  <2> QED BY <2>1
<1>2. PICK t \in Seq(S) : t = <<c>>
  <2>1. <<c>> \in Seq(S)
    OBVIOUS
  <2> QED BY <2>1
<1>3. PICK u \in Seq(S) : u = <<a, b, c>>
  <2>1. <<a, b, c>> \in Seq(S)
    OBVIOUS
  <2> QED BY <2>1
<1>4. Len(s) = 2 /\ s[1] = a /\ s[2] = b /\ Len(t) = 1 /\ t[1] = c
  BY <1>1, <1>2
<1>5. Len(u) = 3 /\ u[1] = a /\ u[2] = b /\ u[3] = c
  BY <1>3
<1>6. /\ \A i \in 1 .. Len(s) : u[i] = s[i]
      /\ \A i \in 1 .. Len(t) : u[Len(s) + i] = t[i]
  <2>1. \A i \in 1 .. 2 : i = 1 \/ i = 2
    OBVIOUS
  <2>2. \A i \in 1 .. 1 : i = 1 /\ 2 + i = 3
    OBVIOUS
  <2> QED BY <1>4, <1>5, <2>1, <2>2
<1>7. Len(u) = Len(s) + Len(t)
  BY <1>4, <1>5
<1> HIDE DEF S
<1>8. u = s \o t
  BY <1>6, <1>7, IsConcat
<1> QED BY <1>1, <1>2, <1>3, <1>8

\* Five tasks in a row.
LEMMA FiveTasks ==
    ASSUME NEW a, NEW b, NEW c, NEW d, NEW e
    PROVE  Append(<<a, b, c, d>>, e) = <<a, b, c, d, e>>
<1> DEFINE S == {a, b, c, d, e}
<1>1. PICK s \in Seq(S) : s = <<a, b, c, d>>
  <2>1. <<a, b, c, d>> \in Seq(S)
    OBVIOUS
  <2> QED BY <2>1
<1>2. PICK u \in Seq(S) : u = <<a, b, c, d, e>>
  <2>1. <<a, b, c, d, e>> \in Seq(S)
    OBVIOUS
  <2> QED BY <2>1
<1>3. Len(s) = 4 /\ s[1] = a /\ s[2] = b /\ s[3] = c /\ s[4] = d
  BY <1>1
<1>4. Len(u) = 5 /\ u[1] = a /\ u[2] = b /\ u[3] = c /\ u[4] = d /\ u[5] = e
  BY <1>2
<1>5. PICK v \in Seq(S) : v = Append(s, e)
  <2>1. e \in S
    OBVIOUS
  <2> QED BY <1>1, <2>1, AppendProperties
<1>6. Len(v) = 5 /\ v[5] = e /\ \A i \in 1 .. 4 : v[i] = s[i]
  <2>1. e \in S
    OBVIOUS
  <2> HIDE DEF S
  <2>2. /\ Len(Append(s, e)) = Len(s) + 1 /\ Append(s, e)[Len(s) + 1] = e
        /\ \A i \in 1 .. Len(s) : Append(s, e)[i] = s[i]
    BY <1>1, <2>1, AppendProperties
  <2> QED BY <1>3, <1>5, <2>2
<1>7. \A i \in 1 .. Len(u) : u[i] = v[i]
  <2>1. \A i \in 1 .. 5 : i \in 1 .. 4 \/ i = 5
    OBVIOUS
  <2>2. \A i \in 1 .. 4 : i = 1 \/ i = 2 \/ i = 3 \/ i = 4
    OBVIOUS
  <2>3. \A i \in 1 .. 4 : u[i] = v[i]
    BY <1>3, <1>4, <1>6, <2>2
  <2> QED BY <1>4, <1>6, <2>1, <2>3
<1> HIDE DEF S
<1>8. u = v
  BY <1>4, <1>6, <1>7, SeqEqual
<1> QED BY <1>1, <1>2, <1>5, <1>8

\* parse_stat, after the first branch of an if.
LEMMA ElseOnPath ==
    ASSUME ParserInv, PathInv, ParseElse
    PROVE  PathInv'
<1>1. Doing("else")
  BY DEF ParseElse
<1>2. PICK q \in Stacks, c \in Tables, d \in Tables : built = Append(Append(q, c), d)
  BY <1>1, Enough, TopTwo
<1>3. CASE tokens[next].type = "ELSE_TOK"
  <2> DEFINE tasks == <<Match("ELSE_TOK"), Parse("stat"), Make(Plain("IF_STAT"), 3)>>
  <2>1. PICK S : tasks \in Seq(S)
    BY TaskLists, Zenon
  <2>2. Unfold(tasks) /\ Instead(tasks)
    BY <1>3 DEF ParseElse, Unfold, Tok
  <2>3. /\ pending[1].do = "else" /\ Unfolded(tokens, pending, pending', tasks)
        /\ next \in Positions(tokens) /\ built \in Stacks
    <3> HIDE DEF tasks
    <3> QED BY <1>1, <2>1, <2>2, AtToken
  <2>4. \A T : Meets(tokens, pending, 1, next, built, T) <=> Meets(tokens, pending', 1, next, built, T)
    BY <1>2, <1>3, <2>3, ElseMeets
  <2> HIDE DEF tasks
  <2> QED BY <1>1, <2>2, <2>4, UnfoldKeeps
<1>4. CASE tokens[next].type # "ELSE_TOK"
  <2> DEFINE tasks == <<Make(Plain("IF_STAT"), 2)>>
  <2>1. PICK S : tasks \in Seq(S)
    BY TaskLists, Zenon
  <2>2. Unfold(tasks) /\ Instead(tasks)
    BY <1>4 DEF ParseElse, Unfold, Tok
  <2>3. /\ pending[1].do = "else" /\ Unfolded(tokens, pending, pending', tasks)
        /\ next \in Positions(tokens) /\ built \in Stacks
    <3> HIDE DEF tasks
    <3> QED BY <1>1, <2>1, <2>2, AtToken
  <2>4. \A T : Meets(tokens, pending, 1, next, built, T) <=> Meets(tokens, pending', 1, next, built, T)
    BY <1>2, <1>4, <2>3, NoElseMeets
  <2> HIDE DEF tasks
  <2> QED BY <1>1, <2>2, <2>4, UnfoldKeeps
<1> QED BY <1>3, <1>4

\* The loop of parse_block_stat.
LEMMA StatsOnPath ==
    ASSUME ParserInv, PathInv, ParseStats
    PROVE  PathInv'
<1>1. Doing("stats")
  BY DEF ParseStats
<1>2. PICK q \in Stacks, l \in Tables : built = Append(q, l)
  BY <1>1, Enough, TopIs
<1>3. CASE tokens[next].type = "RBRACE_TOK"
  <2> DEFINE tasks == <<>>
  <2>1. PICK S : tasks \in Seq(S)
    OBVIOUS
  <2>2. Unfold(tasks) /\ Instead(tasks)
    BY <1>3 DEF ParseStats, Unfold, Tok
  <2>3. /\ pending[1].do = "stats" /\ Unfolded(tokens, pending, pending', tasks)
        /\ next \in Positions(tokens) /\ built \in Stacks
    <3> HIDE DEF tasks
    <3> QED BY <1>1, <2>1, <2>2, AtToken
  <2>4. \A T : Meets(tokens, pending, 1, next, built, T) <=> Meets(tokens, pending', 1, next, built, T)
    BY <1>2, <1>3, <2>3, StatsEnds
  <2> HIDE DEF tasks
  <2> QED BY <1>1, <2>2, <2>4, UnfoldKeeps
<1>4. CASE tokens[next].type # "RBRACE_TOK"
  <2> DEFINE tasks == <<Parse("stat"), Parse("append"), Parse("stats")>>
  <2>1. PICK S : tasks \in Seq(S)
    BY TaskLists, Zenon
  <2>2. Unfold(tasks) /\ Instead(tasks)
    BY <1>4 DEF ParseStats, Unfold, Tok
  <2>3. /\ pending[1].do = "stats" /\ Unfolded(tokens, pending, pending', tasks)
        /\ next \in Positions(tokens) /\ built \in Stacks
    <3> HIDE DEF tasks
    <3> QED BY <1>1, <2>1, <2>2, AtToken
  <2>4. \A T : Meets(tokens, pending, 1, next, built, T) <=> Meets(tokens, pending', 1, next, built, T)
    BY <1>2, <1>4, <2>3, StatsMeets
  <2> HIDE DEF tasks
  <2> QED BY <1>1, <2>2, <2>4, UnfoldKeeps
<1> QED BY <1>3, <1>4

\* The loop of parse.
LEMMA ProgramOnPath ==
    ASSUME ParserInv, PathInv, ParseProgram
    PROVE  PathInv'
<1>1. Doing("program")
  BY DEF ParseProgram
<1>2. PICK q \in Stacks, l \in Tables : built = Append(q, l)
  BY <1>1, Enough, TopIs
<1>3. CASE tokens[next].type = "PROGRAM_END_TOK"
  <2> DEFINE tasks == <<>>
  <2>1. PICK S : tasks \in Seq(S)
    OBVIOUS
  <2>2. Unfold(tasks) /\ Instead(tasks)
    BY <1>3 DEF ParseProgram, Unfold, Tok
  <2>3. /\ pending[1].do = "program" /\ Unfolded(tokens, pending, pending', tasks)
        /\ next \in Positions(tokens) /\ built \in Stacks
    <3> HIDE DEF tasks
    <3> QED BY <1>1, <2>1, <2>2, AtToken
  <2>4. \A T : Meets(tokens, pending, 1, next, built, T) <=> Meets(tokens, pending', 1, next, built, T)
    BY <1>2, <1>3, <2>3, ProgramEnds
  <2> HIDE DEF tasks
  <2> QED BY <1>1, <2>2, <2>4, UnfoldKeeps
<1>4. CASE tokens[next].type # "PROGRAM_END_TOK"
  <2> DEFINE tasks == <<Parse("stat"), Parse("append"), Parse("program")>>
  <2>1. PICK S : tasks \in Seq(S)
    BY TaskLists, Zenon
  <2>2. Unfold(tasks) /\ Instead(tasks)
    BY <1>4 DEF ParseProgram, Unfold, Tok
  <2>3. /\ pending[1].do = "program" /\ Unfolded(tokens, pending, pending', tasks)
        /\ next \in Positions(tokens) /\ built \in Stacks
    <3> HIDE DEF tasks
    <3> QED BY <1>1, <2>1, <2>2, AtToken
  <2>4. \A T : Meets(tokens, pending, 1, next, built, T) <=> Meets(tokens, pending', 1, next, built, T)
    BY <1>2, <1>4, <2>3, ProgramMeets
  <2> HIDE DEF tasks
  <2> QED BY <1>1, <2>2, <2>4, UnfoldKeeps
<1> QED BY <1>3, <1>4

\* The operators of parse_comparison.
LEMMA ComparisonOnPath ==
    ASSUME ParserInv, PathInv, ParseComparison
    PROVE  PathInv'
<1>1. Doing("comparison") /\ parseStatus = "parsing"
  BY DEF ParseComparison, Doing
<1>2. PICK q \in Stacks, l \in Tables : built = Append(q, l)
  BY <1>1, Enough, TopIs
<1>3. CASE Ahead(tokens, next, ExprOpOf)
  <2> DEFINE first == Parse("subexpr")
             op == Make(BinOp(ExprOpOf[tokens[next].type]), 2)
             tasks == <<first, op>>
  <2>1. PICK S : tasks \in Seq(S)
    BY TaskLists, Zenon
  <2>2. /\ Instead(<<first, op>> \o <<>>) /\ next' = next + 1
        /\ tokens' = tokens /\ built' = built /\ errors' = errors /\ parseStatus' = parseStatus
    BY <1>3 DEF ParseComparison, Operator, Tok, Ahead
  <2>3. <<first, op>> \o <<>> = tasks
    <3> HIDE DEF first, op
    <3> QED OBVIOUS
  <2>4. Instead(tasks)
    BY <2>2, <2>3, Zenon
  <2>5. /\ pending[1].do = "comparison" /\ Unfolded(tokens, pending, pending', tasks)
        /\ next \in Positions(tokens) /\ built \in Stacks
    <3> HIDE DEF tasks
    <3> QED BY <1>1, <2>1, <2>4, AtToken
  <2>6. \A T : Meets(tokens, pending, 1, next, built, T) <=> Meets(tokens, pending', 1, next + 1, built, T)
    BY <1>2, <1>3, <2>5, ComparisonMeets, Zenon
  <2> HIDE DEF tasks
  <2>7. \A T : Meets(tokens, pending, 1, next, built, T) <=> Meets(tokens, pending', 1, next', built', T)
    BY <2>2, <2>6
  <2> QED BY <1>1, <2>2, <2>7, StepKeeps
<1>4. CASE ~Ahead(tokens, next, ExprOpOf)
  <2>1. Unfold(<<>>) /\ Instead(<<>>) /\ <<>> \in Seq({})
    BY <1>4 DEF ParseComparison, Operator, Unfold, Tok, Ahead
  <2>2. /\ pending[1].do = "comparison" /\ Unfolded(tokens, pending, pending', <<>>)
        /\ next \in Positions(tokens) /\ built \in Stacks
    BY <1>1, <2>1, AtToken
  <2>3. \A T : Meets(tokens, pending, 1, next, built, T) <=> Meets(tokens, pending', 1, next, built, T)
    BY <1>2, <1>4, <2>2, ComparisonEnds
  <2> QED BY <1>1, <2>1, <2>3, UnfoldKeeps
<1> QED BY <1>3, <1>4

\* The operators of parse_terms.
LEMMA TermsOnPath ==
    ASSUME ParserInv, PathInv, ParseTerms
    PROVE  PathInv'
<1>1. Doing("terms") /\ parseStatus = "parsing"
  BY DEF ParseTerms, Doing
<1>2. PICK q \in Stacks, l \in Tables : built = Append(q, l)
  BY <1>1, Enough, TopIs
<1>3. CASE Ahead(tokens, next, TermOpOf)
  <2> DEFINE first == Parse("term")
             op == Make(BinOp(TermOpOf[tokens[next].type]), 2)
             more == Parse("terms")
             tasks == <<first, op, more>>
  <2>1. PICK S : tasks \in Seq(S)
    BY TaskLists, Zenon
  <2>2. /\ Instead(<<first, op>> \o <<Parse("terms")>>) /\ next' = next + 1
        /\ tokens' = tokens /\ built' = built /\ errors' = errors /\ parseStatus' = parseStatus
    BY <1>3 DEF ParseTerms, Operator, Tok, Ahead
  <2>3. <<first, op>> \o <<more>> = tasks
    BY ThreeTasks
  <2>4. Instead(tasks)
    BY <2>2, <2>3, Zenon
  <2>5. /\ pending[1].do = "terms" /\ Unfolded(tokens, pending, pending', tasks)
        /\ next \in Positions(tokens) /\ built \in Stacks
    <3> HIDE DEF tasks
    <3> QED BY <1>1, <2>1, <2>4, AtToken
  <2>6. \A T : Meets(tokens, pending, 1, next, built, T) <=> Meets(tokens, pending', 1, next + 1, built, T)
    BY <1>2, <1>3, <2>5, TermsMeets, Zenon
  <2> HIDE DEF tasks
  <2>7. \A T : Meets(tokens, pending, 1, next, built, T) <=> Meets(tokens, pending', 1, next', built', T)
    BY <2>2, <2>6
  <2> QED BY <1>1, <2>2, <2>7, StepKeeps
<1>4. CASE ~Ahead(tokens, next, TermOpOf)
  <2>1. Unfold(<<>>) /\ Instead(<<>>) /\ <<>> \in Seq({})
    BY <1>4 DEF ParseTerms, Operator, Unfold, Tok, Ahead
  <2>2. /\ pending[1].do = "terms" /\ Unfolded(tokens, pending, pending', <<>>)
        /\ next \in Positions(tokens) /\ built \in Stacks
    BY <1>1, <2>1, AtToken
  <2>3. \A T : Meets(tokens, pending, 1, next, built, T) <=> Meets(tokens, pending', 1, next, built, T)
    BY <1>2, <1>4, <2>2, TermsEnds
  <2> QED BY <1>1, <2>1, <2>3, UnfoldKeeps
<1> QED BY <1>3, <1>4

\* The operators of parse_factors.
LEMMA FactorsOnPath ==
    ASSUME ParserInv, PathInv, ParseFactors
    PROVE  PathInv'
<1>1. Doing("factors") /\ parseStatus = "parsing"
  BY DEF ParseFactors, Doing
<1>2. PICK q \in Stacks, l \in Tables : built = Append(q, l)
  BY <1>1, Enough, TopIs
<1>3. CASE Ahead(tokens, next, FactorOpOf)
  <2> DEFINE first == Parse("term")
             op == Make(BinOp(FactorOpOf[tokens[next].type]), 2)
             more == Parse("factors")
             tasks == <<first, op, more>>
  <2>1. PICK S : tasks \in Seq(S)
    BY TaskLists, Zenon
  <2>2. /\ Instead(<<first, op>> \o <<Parse("factors")>>) /\ next' = next + 1
        /\ tokens' = tokens /\ built' = built /\ errors' = errors /\ parseStatus' = parseStatus
    BY <1>3 DEF ParseFactors, Operator, Tok, Ahead
  <2>3. <<first, op>> \o <<more>> = tasks
    BY ThreeTasks
  <2>4. Instead(tasks)
    BY <2>2, <2>3, Zenon
  <2>5. /\ pending[1].do = "factors" /\ Unfolded(tokens, pending, pending', tasks)
        /\ next \in Positions(tokens) /\ built \in Stacks
    <3> HIDE DEF tasks
    <3> QED BY <1>1, <2>1, <2>4, AtToken
  <2>6. \A T : Meets(tokens, pending, 1, next, built, T) <=> Meets(tokens, pending', 1, next + 1, built, T)
    BY <1>2, <1>3, <2>5, FactorsMeets, Zenon
  <2> HIDE DEF tasks
  <2>7. \A T : Meets(tokens, pending, 1, next, built, T) <=> Meets(tokens, pending', 1, next', built', T)
    BY <2>2, <2>6
  <2> QED BY <1>1, <2>2, <2>7, StepKeeps
<1>4. CASE ~Ahead(tokens, next, FactorOpOf)
  <2>1. Unfold(<<>>) /\ Instead(<<>>) /\ <<>> \in Seq({})
    BY <1>4 DEF ParseFactors, Operator, Unfold, Tok, Ahead
  <2>2. /\ pending[1].do = "factors" /\ Unfolded(tokens, pending, pending', <<>>)
        /\ next \in Positions(tokens) /\ built \in Stacks
    BY <1>1, <2>1, AtToken
  <2>3. \A T : Meets(tokens, pending, 1, next, built, T) <=> Meets(tokens, pending', 1, next, built, T)
    BY <1>2, <1>4, <2>2, FactorsEnds
  <2> QED BY <1>1, <2>1, <2>3, UnfoldKeeps
<1> QED BY <1>3, <1>4

-----------------------------------------------------------------------------
(* Declarations, names and what takes no others.                             *)

\* The name that the task of a declaration carries.
LEMMA NameCarried ==
    ASSUME ParserInv, NEW do, Doing(do)
    PROVE  Head(pending).name \in Names \cup {NULL}
<1>1. pending \in Seq(ParserTasks) /\ pending # <<>>
  BY DEF ParserInv, GoodTasks, AllGood, Doing
<1>2. Head(pending) \in ParserTasks
  BY <1>1, EmptySeq, HeadTailProperties
<1> QED BY <1>2 DEF ParserTasks

\* Where the next token is, and what is in it.
LEMMA TokenHere ==
    ASSUME ParserInv
    PROVE  /\ IsTokenList(tokens) /\ next \in Positions(tokens) /\ built \in Stacks
           /\ tokens[next].type # "PROGRAM_END_TOK" => next + 1 \in Positions(tokens)
<1>1. IsTokenList(tokens) /\ next \in Positions(tokens)
  BY DEF ParserInv, InPlace, Positions
<1>2. built \in Stacks
  <2>1. Trees \subseteq Tables
    BY DEF Trees, WholeTree, WholeBelow, IsTree, IsTable, Tables
  <2>2. built \in Seq(Trees)
    BY DEF ParserInv, WholeSoFar
  <2> QED BY <2>1, <2>2, SeqMonotonic DEF Stacks
<1> QED BY <1>1, <1>2, PlaceBehind

\* parse_declaration, behind the name.
LEMMA DeclaratorOnPath ==
    ASSUME ParserInv, PathInv, ParseDeclarator
    PROVE  PathInv'
<1>1. Doing("declarator")
  BY DEF ParseDeclarator
<1>2. PICK name \in Names \cup {NULL} : name = Head(pending).name
  BY <1>1, NameCarried
<1>3. CASE tokens[next].type = "LPAREN_TOK"
  <2> DEFINE tasks == <<Match("LPAREN_TOK"), Match("RPAREN_TOK"), ParserTask("body", name)>>
  <2>1. PICK S : tasks \in Seq(S)
    BY TaskLists, Zenon
  <2>2. Unfold(tasks) /\ Instead(tasks)
    BY <1>2, <1>3 DEF ParseDeclarator, Unfold, Tok
  <2>3. /\ pending[1].do = "declarator" /\ Unfolded(tokens, pending, pending', tasks)
        /\ pending[1] = Head(pending) /\ next \in Positions(tokens) /\ built \in Stacks
    <3> HIDE DEF tasks
    <3> QED BY <1>1, <2>1, <2>2, AtToken
  <2>4. pending[1].name = name
    BY <1>2, <2>3
  <2>5. \A T : Meets(tokens, pending, 1, next, built, T) <=> Meets(tokens, pending', 1, next, built, T)
    BY <1>3, <2>3, <2>4, PrototypeMeets, Zenon
  <2> HIDE DEF tasks
  <2> QED BY <1>1, <2>2, <2>5, UnfoldKeeps
<1>4. CASE tokens[next].type = "ASSIGN_TOK"
  <2> DEFINE tasks == <<Match("ASSIGN_TOK"), Parse("expr"), Make(Named("DECL_STAT", name), 1),
                       Match("SCOL_TOK")>>
  <2>1. PICK S : tasks \in Seq(S)
    BY TaskLists, Zenon
  <2>2. Unfold(tasks) /\ Instead(tasks)
    BY <1>2, <1>4 DEF ParseDeclarator, Unfold, Tok
  <2>3. /\ pending[1].do = "declarator" /\ Unfolded(tokens, pending, pending', tasks)
        /\ pending[1] = Head(pending) /\ next \in Positions(tokens) /\ built \in Stacks
    <3> HIDE DEF tasks
    <3> QED BY <1>1, <2>1, <2>2, AtToken
  <2>4. pending[1].name = name
    BY <1>2, <2>3
  <2>5. \A T : Meets(tokens, pending, 1, next, built, T) <=> Meets(tokens, pending', 1, next, built, T)
    BY <1>4, <2>3, <2>4, InitialMeets, Zenon
  <2> HIDE DEF tasks
  <2> QED BY <1>1, <2>2, <2>5, UnfoldKeeps
<1>5. CASE tokens[next].type \notin {"LPAREN_TOK", "ASSIGN_TOK"}
  <2> DEFINE tasks == <<Make(Named("DECL_STAT", name), 0), Match("SCOL_TOK")>>
  <2>1. PICK S : tasks \in Seq(S)
    BY TaskLists, Zenon
  <2>2. Unfold(tasks) /\ Instead(tasks)
    BY <1>2, <1>5 DEF ParseDeclarator, Unfold, Tok
  <2>3. /\ pending[1].do = "declarator" /\ Unfolded(tokens, pending, pending', tasks)
        /\ pending[1] = Head(pending) /\ next \in Positions(tokens) /\ built \in Stacks
    <3> HIDE DEF tasks
    <3> QED BY <1>1, <2>1, <2>2, AtToken
  <2>4. pending[1].name = name
    BY <1>2, <2>3
  <2>5. \A T : Meets(tokens, pending, 1, next, built, T) <=> Meets(tokens, pending', 1, next, built, T)
    BY <1>5, <2>3, <2>4, UninitialMeets, Zenon
  <2> HIDE DEF tasks
  <2> QED BY <1>1, <2>2, <2>5, UnfoldKeeps
<1> QED BY <1>3, <1>4, <1>5

\* parse_declaration, behind the parentheses.
LEMMA BodyOnPath ==
    ASSUME ParserInv, PathInv, ParseBody
    PROVE  PathInv'
<1>1. Doing("body")
  BY DEF ParseBody
<1>2. PICK name \in Names \cup {NULL} : name = Head(pending).name
  BY <1>1, NameCarried
<1>3. CASE tokens[next].type = "LBRACE_TOK"
  <2> DEFINE tasks == <<Match("LBRACE_TOK"), Make(Plain("BLOCK_STAT"), 0), Parse("stats"),
                       Match("RBRACE_TOK"), Make(FuncDecl(name), 1)>>
  <2>1. PICK S : tasks \in Seq(S)
    BY TaskLists, Zenon
  <2>2. Unfold(tasks) /\ Instead(tasks)
    <3>1. Unfold(Append(Block, Make(FuncDecl(name), 1)))
      BY <1>2, <1>3 DEF ParseBody, Tok
    <3>2. Append(Block, Make(FuncDecl(name), 1)) = tasks
      BY FiveTasks DEF Block
    <3>3. Unfold(tasks)
      BY <3>1, <3>2, Zenon
    <3> QED BY <3>3 DEF Unfold
  <2>3. /\ pending[1].do = "body" /\ Unfolded(tokens, pending, pending', tasks)
        /\ pending[1] = Head(pending) /\ next \in Positions(tokens) /\ built \in Stacks
    <3> HIDE DEF tasks
    <3> QED BY <1>1, <2>1, <2>2, AtToken
  <2>4. pending[1].name = name
    BY <1>2, <2>3
  <2>5. \A T : Meets(tokens, pending, 1, next, built, T) <=> Meets(tokens, pending', 1, next, built, T)
    BY <1>3, <2>3, <2>4, BodyMeets, Zenon
  <2> HIDE DEF tasks
  <2> QED BY <1>1, <2>2, <2>5, UnfoldKeeps
<1>4. CASE tokens[next].type # "LBRACE_TOK"
  <2> DEFINE tasks == <<Make(FuncDecl(name), 0), Match("SCOL_TOK")>>
  <2>1. PICK S : tasks \in Seq(S)
    BY TaskLists, Zenon
  <2>2. Unfold(tasks) /\ Instead(tasks)
    BY <1>2, <1>4 DEF ParseBody, Unfold, Tok
  <2>3. /\ pending[1].do = "body" /\ Unfolded(tokens, pending, pending', tasks)
        /\ pending[1] = Head(pending) /\ next \in Positions(tokens) /\ built \in Stacks
    <3> HIDE DEF tasks
    <3> QED BY <1>1, <2>1, <2>2, AtToken
  <2>4. pending[1].name = name
    BY <1>2, <2>3
  <2>5. \A T : Meets(tokens, pending, 1, next, built, T) <=> Meets(tokens, pending', 1, next, built, T)
    BY <1>4, <2>3, <2>4, BodilessMeets, Zenon
  <2> HIDE DEF tasks
  <2> QED BY <1>1, <2>2, <2>5, UnfoldKeeps
<1> QED BY <1>3, <1>4

\* parse_declaration.
LEMMA DeclarationOnPath ==
    ASSUME ParserInv, PathInv, ParseDeclaration
    PROVE  PathInv'
<1> DEFINE target == tokens[next + 1]
           tasks  == <<ParserTask("declarator", target.name)>>
<1>1. /\ Doing("stat") /\ parseStatus = "parsing" /\ tokens[next].type = "IDENT_TOK" /\ IsTypeIdent(tokens[next])
      /\ tokens' = tokens /\ built' = built /\ parseStatus' = parseStatus /\ Instead(tasks)
      /\ target.type = "IDENT_TOK" => next' = next + 2 /\ errors' = errors
      /\ target.type # "IDENT_TOK" => errors' = errors + 1
  BY DEF ParseDeclaration, AtStart, Tok, Doing
<1>2. PICK S : tasks \in Seq(S)
  BY TaskLists, Zenon
<1>3. /\ pending[1].do = "stat" /\ Unfolded(tokens, pending, pending', tasks)
      /\ next \in Positions(tokens) /\ built \in Stacks
  <2> HIDE DEF tasks
  <2> QED BY <1>1, <1>2, AtToken
<1>4. errors \in Nat
  BY DEF ParserInv, InPlace
<1>5. CASE target.type = "IDENT_TOK"
  <2>1. next + 2 \in Positions(tokens)
    <3>1. next + 1 \in Positions(tokens)
      BY <1>1, TokenHere
    <3>2. next + 1 + 1 \in Positions(tokens)
      BY <1>5, <3>1, TokenHere, PlaceBehind
    <3>3. next + 1 + 1 = next + 2
      BY <1>3 DEF Positions
    <3> QED BY <3>2, <3>3
  <2>2. \A T : Meets(tokens, pending, 1, next, built, T) <=> Meets(tokens, pending', 1, next + 2, built, T)
    BY <1>1, <1>3, <1>5, <2>1, DeclarationMeets, Zenon
  <2> HIDE DEF tasks, target
  <2>3. \A T : Meets(tokens, pending, 1, next, built, T) <=> Meets(tokens, pending', 1, next', built', T)
    BY <1>1, <1>5, <2>2
  <2> QED BY <1>1, <1>5, <2>3, StepKeeps
<1>6. CASE target.type # "IDENT_TOK"
  <2>1. \A T : ~Meets(tokens, pending, 1, next, built, T)
    BY <1>1, <1>3, <1>6, NamelessFails, Zenon
  <2> HIDE DEF tasks, target
  <2>2. errors' # 0
    BY <1>1, <1>4, <1>6
  <2> QED BY <1>1, <2>1, <2>2, StepKeeps
<1> QED BY <1>5, <1>6

\* parse_factor: a name.
LEMMA IdentOnPath ==
    ASSUME ParserInv, PathInv, ParseIdent
    PROVE  PathInv'
<1>1. /\ Doing("factor") /\ parseStatus = "parsing" /\ tokens[next].type = "IDENT_TOK" /\ next' = next + 1
      /\ tokens' = tokens /\ built' = built /\ errors' = errors /\ parseStatus' = parseStatus
  BY DEF ParseIdent, Tok, Doing
<1>2. ASSUME NEW tasks, NEW S, tasks \in Seq(S), Instead(tasks),
             \A T : pending[1].do = "factor" /\ Unfolded(tokens, pending, pending', tasks)
                      /\ next \in Positions(tokens) /\ built \in Stacks =>
                (Meets(tokens, pending, 1, next, built, T) <=> Meets(tokens, pending', 1, next + 1, built, T))
      PROVE  PathInv'
  <2>1. /\ pending[1].do = "factor" /\ Unfolded(tokens, pending, pending', tasks)
        /\ next \in Positions(tokens) /\ built \in Stacks
    BY <1>1, <1>2, AtToken
  <2>2. \A T : Meets(tokens, pending, 1, next, built, T) <=> Meets(tokens, pending', 1, next', built', T)
    BY <1>1, <1>2, <2>1
  <2> QED BY <1>1, <2>2, StepKeeps
<1>3. CASE tokens[next + 1].type = "LPAREN_TOK"
  <2> DEFINE tasks == <<Match("LPAREN_TOK"), Match("RPAREN_TOK"), Make(Named("FUNC_CALL", tokens[next].name), 0)>>
  <2>1. PICK S : tasks \in Seq(S)
    BY TaskLists, Zenon
  <2>2. Instead(tasks)
    BY <1>3 DEF ParseIdent
  <2>3. \A T : pending[1].do = "factor" /\ Unfolded(tokens, pending, pending', tasks)
                 /\ next \in Positions(tokens) /\ built \in Stacks =>
           (Meets(tokens, pending, 1, next, built, T) <=> Meets(tokens, pending', 1, next + 1, built, T))
    BY <1>1, <1>3, CallMeets, Zenon
  <2> HIDE DEF tasks
  <2> QED BY <1>2, <2>1, <2>2, <2>3, Zenon
<1>4. CASE tokens[next + 1].type # "LPAREN_TOK"
  <2> DEFINE tasks == <<Make(Named("VAR_REF", tokens[next].name), 0)>>
  <2>1. PICK S : tasks \in Seq(S)
    BY TaskLists, Zenon
  <2>2. Instead(tasks)
    BY <1>4 DEF ParseIdent
  <2>3. \A T : pending[1].do = "factor" /\ Unfolded(tokens, pending, pending', tasks)
                 /\ next \in Positions(tokens) /\ built \in Stacks =>
           (Meets(tokens, pending, 1, next, built, T) <=> Meets(tokens, pending', 1, next + 1, built, T))
    BY <1>1, <1>4, VariableMeets, Zenon
  <2> HIDE DEF tasks
  <2> QED BY <1>2, <2>1, <2>2, <2>3, Zenon
<1> QED BY <1>3, <1>4

\* The tasks that are done, when nothing takes their place.
LEMMA Dropped ==
    ASSUME ParserInv, NEW do, Doing(do), Instead(<<>>)
    PROVE  /\ pending[1] = Head(pending) /\ pending[1].do = do
           /\ Unfolded(tokens, pending, pending', <<>>)
           /\ next \in Positions(tokens) /\ built \in Stacks
<1>1. <<>> \in Seq({})
  OBVIOUS
<1> QED BY <1>1, AtToken

\* parse_factor: a literal.
LEMMA IntLitOnPath ==
    ASSUME ParserInv, PathInv, ParseIntLit
    PROVE  PathInv'
<1>1. /\ Doing("factor") /\ parseStatus = "parsing" /\ tokens[next].type = "INT_LIT_TOK" /\ next' = next + 1
      /\ tokens' = tokens /\ errors' = errors /\ parseStatus' = parseStatus /\ Instead(<<>>)
      /\ built' = Append(built, <<IntLit(tokens[next].ival)>>)
  BY DEF ParseIntLit, Tok, Doing, Push
<1>2. \A T : Meets(tokens, pending, 1, next, built, T) <=>
                Meets(tokens, pending', 1, next + 1, Append(built, <<IntLit(tokens[next].ival)>>), T)
  BY <1>1, Dropped, NumberMeets, Zenon
<1>3. \A T : Meets(tokens, pending, 1, next, built, T) <=> Meets(tokens, pending', 1, next', built', T)
  BY <1>1, <1>2, Zenon
<1> QED BY <1>1, <1>3, StepKeeps

\* parse_factor, where no factor starts.
LEMMA NoFactorOnPath ==
    ASSUME ParserInv, PathInv, ParseNoFactor
    PROVE  PathInv'
<1>1. /\ Doing("factor") /\ parseStatus = "parsing"
      /\ tokens[next].type \notin {"LPAREN_TOK", "IDENT_TOK", "INT_LIT_TOK"}
      /\ tokens' = tokens /\ errors' = errors + 1 /\ parseStatus' = parseStatus /\ Instead(<<>>)
  BY DEF ParseNoFactor, Tok, Doing
<1>2. \A T : ~Meets(tokens, pending, 1, next, built, T)
  BY <1>1, Dropped, NoFactorFails, Zenon
<1>3. errors' # 0
  BY <1>1 DEF ParserInv, InPlace
<1> QED BY <1>1, <1>2, <1>3, StepKeeps

\* parse_stat, where no statement starts.
LEMMA InvalidOnPath ==
    ASSUME ParserInv, PathInv, ParseInvalid
    PROVE  PathInv'
<1>1. /\ Doing("stat") /\ parseStatus = "parsing" /\ tokens[next].type \notin StatStarts
      /\ tokens' = tokens /\ errors' \in {errors + 1, errors + 2} /\ parseStatus' = parseStatus
      /\ Instead(<<>>)
  BY DEF ParseInvalid, Tok, Doing
<1>2. \A T : ~Meets(tokens, pending, 1, next, built, T)
  BY <1>1, Dropped, InvalidFails, Zenon
<1>3. errors' # 0
  BY <1>1 DEF ParserInv, InPlace
<1> QED BY <1>1, <1>2, <1>3, StepKeeps

\* match_token.
LEMMA MatchOnPath ==
    ASSUME ParserInv, PathInv, MatchToken
    PROVE  PathInv'
<1>1. /\ Doing("match") /\ parseStatus = "parsing" /\ Instead(<<>>) /\ pending # <<>>
      /\ tokens' = tokens /\ built' = built /\ parseStatus' = parseStatus
      /\ Head(pending).token = tokens[next].type => next' = next + 1 /\ errors' = errors
      /\ Head(pending).token # tokens[next].type => errors' = errors + 1
  BY DEF MatchToken, Tok, Doing
<1>2. /\ pending[1] = Head(pending) /\ pending[1].do = "match" /\ Unfolded(tokens, pending, pending', <<>>)
      /\ next \in Positions(tokens) /\ built \in Stacks
  BY <1>1, Dropped
<1>3. Head(pending).token # "PROGRAM_END_TOK"
  <2>1. pending \in Seq(ParserTasks) /\ \A i \in DOMAIN pending : GoodTask(pending[i], errors)
    BY DEF ParserInv, GoodTasks, AllGood
  <2>2. 1 \in DOMAIN pending
    BY <1>1, <2>1
  <2> QED BY <1>2, <2>1, <2>2 DEF GoodTask
<1>4. PICK tok : tok = Head(pending).token /\ pending[1].token = tok /\ tok # "PROGRAM_END_TOK"
  BY <1>2, <1>3
<1>5. \A T : Meets(tokens, pending, 1, next, built, T) <=>
                tokens[next].type = tok /\ Meets(tokens, pending', 1, next + 1, built, T)
  BY <1>2, <1>4, MatchMeets
<1>6. CASE tok = tokens[next].type
  <2>1. \A T : Meets(tokens, pending, 1, next, built, T) <=> Meets(tokens, pending', 1, next', built', T)
    BY <1>1, <1>4, <1>5, <1>6
  <2> QED BY <1>1, <1>4, <1>6, <2>1, StepKeeps
<1>7. CASE tok # tokens[next].type
  <2>1. \A T : ~Meets(tokens, pending, 1, next, built, T)
    BY <1>5, <1>7
  <2>2. errors' # 0
    BY <1>1, <1>4, <1>7 DEF ParserInv, InPlace
  <2> QED BY <1>1, <2>1, <2>2, StepKeeps
<1> QED BY <1>6, <1>7

\* The create functions.
LEMMA MakeOnPath ==
    ASSUME ParserInv, PathInv, MakeNode
    PROVE  PathInv'
<1>1. /\ Doing("make") /\ parseStatus = "parsing" /\ Instead(<<>>)
      /\ tokens' = tokens /\ next' = next /\ errors' = errors /\ parseStatus' = parseStatus
      /\ built' = MadeOf(built, Head(pending).node, Head(pending).arity)
  BY DEF MakeNode, Doing, MadeOf
<1>2. /\ pending[1] = Head(pending) /\ pending[1].do = "make" /\ Unfolded(tokens, pending, pending', <<>>)
      /\ next \in Positions(tokens) /\ built \in Stacks
  BY <1>1, Dropped
<1>3. PICK u \in Stacks : u = built'
  <2>1. ParserInv'
    BY MakeKeeps
  <2>2. (ParserInv => built \in Stacks)'
    BY TokenHere, PTL
  <2> QED BY <2>1, <2>2
<1>4. \A T : Meets(tokens, pending, 1, next, built, T) <=> Meets(tokens, pending', 1, next, u, T)
  BY <1>1, <1>2, <1>3, MakeMeets
<1>5. \A T : Meets(tokens, pending, 1, next, built, T) <=> Meets(tokens, pending', 1, next', built', T)
  BY <1>1, <1>3, <1>4
<1> QED BY <1>1, <1>5, StepKeeps

\* list_push_back, of a statement to its block.
LEMMA AppendOnPath ==
    ASSUME ParserInv, PathInv, AppendStat
    PROVE  PathInv'
<1>1. /\ Doing("append") /\ parseStatus = "parsing" /\ Instead(<<>>)
      /\ tokens' = tokens /\ next' = next /\ errors' = errors /\ parseStatus' = parseStatus
      /\ built' = Joined(built)
  BY DEF AppendStat, Doing, Joined
<1>2. /\ pending[1].do = "append" /\ Unfolded(tokens, pending, pending', <<>>)
      /\ next \in Positions(tokens)
  BY <1>1, Dropped
<1>3. PICK r \in Stacks, a \in Tables, b \in Tables : built = Append(Append(r, a), b)
  BY <1>1, Enough, TopTwo
<1>4. \A T : Meets(tokens, pending, 1, next, built, T) <=> Meets(tokens, pending', 1, next, Joined(built), T)
  BY <1>2, <1>3, AppendMeets
<1>5. \A T : Meets(tokens, pending, 1, next, built, T) <=> Meets(tokens, pending', 1, next', built', T)
  BY <1>1, <1>4
<1> QED BY <1>1, <1>5, StepKeeps

\* The tasks are left as they are, when the process is killed and when all is done.
LEMMA OutOfMemoryOnPath ==
    ASSUME ParserInv, PathInv, OutOfMemory
    PROVE  PathInv'
<1>1. /\ Doing("stats") /\ parseStatus = "parsing" /\ parseStatus' = "killed" /\ tokens' = tokens
      /\ errors' = errors /\ tokens[next].type = "PROGRAM_END_TOK"
  BY DEF OutOfMemory, Tok, Doing
<1>2. PICK q \in Stacks, l \in Tables : built = Append(q, l)
  BY <1>1, Enough, TopIs
<1>3. \A T : ~Meets(tokens, pending, 1, next, built, T)
  <2>1. PICK new : new = Tail(pending)
    OBVIOUS
  <2>2. pending \in Seq(ParserTasks) /\ pending # <<>> /\ Head(pending).do = "stats" /\ Len(pending) \in Nat
    BY <1>1 DEF ParserInv, GoodTasks, AllGood, Doing
  <2>3. pending[1].do = "stats"
    BY <2>2
  <2>4. PICK more : more = <<>> \o Tail(pending)
    OBVIOUS
  <2>5. Unfolded(tokens, pending, more, <<>>)
    <3>1. <<>> \in Seq(ParserTasks)
      OBVIOUS
    <3>2. HeadReplaced(more, pending, <<>>)
      BY <2>2, <2>4, <3>1, HeadIsReplaced
    <3> QED BY <2>2, <3>2, TokenHere DEF Unfolded
  <2> QED BY <1>1, <1>2, <2>3, <2>5, TokenHere, EndlessFails
<1> QED BY <1>1, <1>3, StepKeeps

\* When no task is left, the tree on the stack is the tree of the list.
LEMMA FinishOnPath ==
    ASSUME ParserInv, PathInv, FinishParse
    PROVE  PathInv'
<1>1. /\ parseStatus = "parsing" /\ parseStatus' = "done"
      /\ tokens' = tokens /\ next' = next /\ pending' = pending /\ built' = built /\ errors' = errors
  BY DEF FinishParse
<1>2. \A T : Meets(tokens, pending, 1, next, built, T) <=> Meets(tokens, pending', 1, next', built', T)
  BY <1>1
<1> QED BY <1>1, <1>2, StepKeeps

\* Every step keeps to them.
LEMMA StepOnPath ==
    ASSUME ParserInv, PathInv, [ParseStep]_parserVars
    PROVE  PathInv'
<1>1. CASE UNCHANGED parserVars
  <2>1. /\ tokens' = tokens /\ next' = next /\ pending' = pending /\ built' = built
        /\ errors' = errors /\ parseStatus' = parseStatus
    BY <1>1 DEF parserVars
  <2> QED BY <2>1 DEF PathInv, ParseTrees
<1>2. CASE MatchToken \/ MakeNode \/ AppendStat
  BY <1>2, MatchOnPath, MakeOnPath, AppendOnPath
<1>3. CASE ParseProgram \/ ParseReturn \/ ParseIf \/ ParseElse \/ ParseWhile \/ ParseFor
  BY <1>3, ProgramOnPath, ReturnOnPath, IfOnPath, ElseOnPath, WhileOnPath, ForOnPath
<1>4. CASE ParseBlock \/ ParseStats \/ ParseExprStat \/ ParseSkip \/ ParseInvalid
  BY <1>4, BlockOnPath, StatsOnPath, ExprStatOnPath, SkipOnPath, InvalidOnPath
<1>5. CASE ParseDeclaration \/ ParseDeclarator \/ ParseBody
  BY <1>5, DeclarationOnPath, DeclaratorOnPath, BodyOnPath
<1>6. CASE \/ ParseExpr \/ ParseComparison \/ ParseSubexpr
           \/ ParseTerms \/ ParseTerm \/ ParseFactors
  BY <1>6, ExprOnPath, ComparisonOnPath, SubexprOnPath, TermsOnPath, TermOnPath, FactorsOnPath
<1>7. CASE ParseParens \/ ParseIdent \/ ParseIntLit \/ ParseNoFactor
  BY <1>7, ParensOnPath, IdentOnPath, IntLitOnPath, NoFactorOnPath
<1>8. CASE OutOfMemory \/ FinishParse
  BY <1>8, OutOfMemoryOnPath, FinishOnPath
<1> QED BY <1>1, <1>2, <1>3, <1>4, <1>5, <1>6, <1>7, <1>8 DEF ParseStep

-----------------------------------------------------------------------------
(* The parser accepts the language of the grammar.                           *)

\* The node of the program, which the statements are hung to.
LEMMA ProgramNode == Plain("BLOCK_STAT") \in Leaves /\ <<Plain("BLOCK_STAT")>> \in Tables
<1>1. Plain("BLOCK_STAT") \in Leaves
  BY PlainLeaf DEF NodeTypes, StatNodes, StatTypes
<1> QED BY <1>1, LoneTable DEF Nodes, Leaves

\* At the beginning the tasks make the trees of the token list.
LEMMA StartOnPath ==
    ASSUME ParserInit, IsTokenList(tokens)
    PROVE  PathInv
<1>1. /\ pending = <<Parse("program")>> /\ built = <<<<Plain("BLOCK_STAT")>>>> /\ next = 1 /\ errors = 0
      /\ parseStatus = "parsing"
  BY DEF ParserInit
<1>2. PICK N \in Nat : N = Len(tokens) /\ 1 \in Positions(tokens) /\ N \in Positions(tokens)
  <2>1. tokens \in Seq(Token) /\ tokens # <<>>
    BY DEF IsTokenList
  <2>2. Len(tokens) \in Nat /\ Len(tokens) # 0
    BY <2>1, EmptySeq, LenProperties
  <2> QED BY <2>2 DEF Positions
<1>3. PICK node \in Leaves : node = Plain("BLOCK_STAT") /\ <<node>> \in Tables
  BY ProgramNode
<1>4. PICK task : task = Parse("program") /\ task.do = "program"
  <2>1. Parse("program").do = "program"
    BY DEF Parse, ParserTask
  <2> QED BY <2>1
<1>5. PICK tasks : tasks = <<task>> /\ Len(tasks) \in Nat /\ Len(tasks) = 1 /\ tasks[1] = task /\ 1 \in 1 .. Len(tasks)
  <2>1. Len(<<task>>) = 1 /\ <<task>>[1] = task
    OBVIOUS
  <2>2. 1 \in Nat /\ 1 \in 1 .. 1
    OBVIOUS
  <2> QED BY <2>1, <2>2
<1>6. SUFFICES ASSUME NEW T
               PROVE  T \in ParseTrees <=> Meets(tokens, tasks, 1, 1, <<<<node>>>>, T)
  BY <1>1, <1>3, <1>4, <1>5 DEF PathInv
<1>7. <<>> \in Stacks /\ Append(<<>>, <<node>>) = <<<<node>>>>
  BY DEF Stacks
<1>8. Turns(tokens, tasks, 1, "program", T)
  BY <1>4, <1>5, TaskTurns DEF Turners
<1>9. Meets(tokens, tasks, 1, 1, <<<<node>>>>, T) <=>
         \E j \in Positions(tokens) : \E t \in Tables :
            FilledTo(tokens, "PROGRAM_END_TOK", 1, <<node>>, j, t) /\ Meets(tokens, tasks, 2, j, Append(<<>>, t), T)
  <2>1. \A j, t : Turned(tokens, "program", 1, <<node>>, j, t) <=> FilledTo(tokens, "PROGRAM_END_TOK", 1, <<node>>, j, t)
    BY DEF Turned
  <2>2. \A i \in Positions(tokens) : \A r \in Stacks : \A l \in Tables :
           Meets(tokens, tasks, 1, i, Append(r, l), T) <=>
              \E j \in Positions(tokens) : \E t \in Tables :
                 Turned(tokens, "program", i, l, j, t) /\ Meets(tokens, tasks, 2, j, Append(r, t), T)
    BY <1>8 DEF Turns
  <2>3. Meets(tokens, tasks, 1, 1, Append(<<>>, <<node>>), T) <=>
         \E j \in Positions(tokens) : \E t \in Tables :
            Turned(tokens, "program", 1, <<node>>, j, t) /\ Meets(tokens, tasks, 2, j, Append(<<>>, t), T)
    BY <1>2, <1>3, <1>7, <2>2, Zenon
  <2> QED BY <1>7, <2>1, <2>3
<1>10. \A j \in Positions(tokens) : \A t \in Tables : Meets(tokens, tasks, 2, j, Append(<<>>, t), T) <=> T = t
  <2> TAKE j \in Positions(tokens)
  <2> TAKE t \in Tables
  <2>1. Append(<<>>, t) \in Stacks /\ Append(<<>>, t) = <<t>> /\ <<t>>[1] = t
    BY <1>7 DEF Stacks
  <2>2. Len(tasks) \in Nat /\ Len(tasks) + 1 = 2
    BY <1>5
  <2>3. Meets(tokens, tasks, 2, j, Append(<<>>, t), T) <=> Append(<<>>, t) = <<T>>
    BY <2>1, <2>2, MeetsEnd
  <2>4. <<t>> = <<T>> <=> T = t
    OBVIOUS
  <2> QED BY <2>1, <2>3, <2>4
<1>11. \A j \in Positions(tokens) : tokens[j].type = "PROGRAM_END_TOK" <=> j = N
  BY <1>2 DEF IsTokenList, Positions
<1>12. \A t : FilledTo(tokens, "PROGRAM_END_TOK", 1, <<node>>, N, t) <=>
                 \E s \in From(tokens, "stats", 1, N) : t = Over(node, s)
  <2> TAKE t
  <2>1. \A s \in From(tokens, "stats", 1, N) : s \in Stacks
    BY <1>2, StatsTables DEF Stacks
  <2>2. \A s \in From(tokens, "stats", 1, N) : GrownTree(<<node>>, s, t) <=> t = Over(node, s)
    BY <2>1, OverGrown
  <2> QED BY <1>2, <1>11, <2>2 DEF FilledTo
<1>13. \A s \in From(tokens, "stats", 1, N) : Over(node, s) \in Tables
  <2> TAKE s \in From(tokens, "stats", 1, N)
  <2>1. s \in Stacks
    BY <1>2, StatsTables DEF Stacks
  <2> QED BY <2>1, OverTable DEF Stacks
<1>14. \A j \in Positions(tokens) : \A t : FilledTo(tokens, "PROGRAM_END_TOK", 1, <<node>>, j, t) => j = N
  BY <1>11 DEF FilledTo
<1>15. Meets(tokens, tasks, 1, 1, <<<<node>>>>, T) <=> \E s \in From(tokens, "stats", 1, N) : T = Over(node, s)
  BY <1>2, <1>9, <1>10, <1>12, <1>13, <1>14
<1>16. T \in ParseTrees <=> \E s \in From(tokens, "stats", 1, N) : T = Over(node, s)
  BY <1>2, <1>3 DEF ParseTrees, From
<1> QED BY <1>15, <1>16

\* At the end there is one tree, or none after an error.
LEMMA EndOfPath ==
    ASSUME ParserInv, PathInv
    PROVE  Recognised
<1> SUFFICES ASSUME parseStatus # "parsing"
             PROVE  ParseTrees = IF parseStatus = "done" /\ errors = 0 THEN {built[1]} ELSE {}
  BY DEF Recognised
<1>1. parseStatus \in {"done", "killed"} /\ (parseStatus = "done" => pending = <<>>)
  BY DEF ParserInv, InPlace
<1>2. CASE parseStatus = "done" /\ errors = 0
  <2>1. \A T : T \in ParseTrees <=> Meets(tokens, pending, 1, next, built, T)
    BY <1>2 DEF PathInv
  <2>2. PICK tasks : tasks = <<>> /\ Len(tasks) \in Nat /\ Len(tasks) + 1 = 1
    OBVIOUS
  <2>3. next \in Positions(tokens) /\ built \in Stacks
    BY TokenHere
  <2>4. \A T : Meets(tokens, tasks, 1, next, built, T) <=> built = <<T>>
    BY <2>2, <2>3, MeetsEnd
  <2>5. \A T : T \in ParseTrees <=> built = <<T>>
    BY <1>1, <1>2, <2>1, <2>2, <2>4
  <2>6. built = <<built[1]>>
    <3>1. ReturnsTree
      BY OneTree
    <3>2. PICK tree : built = <<tree>>
      BY <1>2, <3>1 DEF ReturnsTree
    <3> QED BY <3>2
  <2>7. \A T : built = <<T>> <=> T = built[1]
    BY <2>6
  <2> QED BY <1>2, <2>5, <2>7
<1>3. CASE ~(parseStatus = "done" /\ errors = 0)
  BY <1>1, <1>3 DEF PathInv
<1> QED BY <1>2, <1>3

\* The parser accepts exactly the token lists of the grammar, each as the one
\* tree it stands for, however many tokens there are.
THEOREM ParserRecognises == ParserSpec => []Recognised
<1>1. ParserInit /\ IsTokenList(tokens) => PathInv
  BY StartOnPath
<1>2. ParserInv /\ PathInv /\ [ParseStep]_parserVars => PathInv'
  BY StepOnPath
<1>3. ParserInv /\ PathInv => Recognised
  BY EndOfPath
<1> QED BY <1>1, <1>2, <1>3, ParserInvariant, PTL DEF ParserSpec
=============================================================================
