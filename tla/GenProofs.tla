----------------------------- MODULE GenProofs -----------------------------
(***************************************************************************)
(* Theorems about Gen, for every set of programs, every list of registers  *)
(* and every way the symbols may have been linked.                         *)
(***************************************************************************)
EXTENDS Gen, AstProofs

-----------------------------------------------------------------------------
(* Registers and instructions. *)

\* There is a register, and the first of a register set is one of them.
LEMMA RegisterFacts ==
    /\ register_count \in Nat \ {0} /\ {1} \in RegSets /\ initial_regset \in RegSets
    /\ \A r \in RegSets : /\ Min(r) \in r /\ r \subseteq 1 .. register_count
                          /\ NextReg(r) \in Registers
                          /\ NextReg(r) \notin {"rax", "rdx", "rsp"}
                          /\ ConsumeReg(r) # {} => ConsumeReg(r) \in RegSets
<1>1. register_count \in Nat \ {0} /\ DOMAIN RegisterNames = 1 .. register_count
  BY RegisterAssumption, EmptySeq DEF register_count
<1>2. {1} \in RegSets /\ initial_regset \in RegSets
  BY <1>1 DEF RegSets, initial_regset
<1>3. ASSUME NEW r \in RegSets
      PROVE  /\ Min(r) \in r /\ r \subseteq 1 .. register_count
             /\ NextReg(r) \in Registers
             /\ NextReg(r) \notin {"rax", "rdx", "rsp"}
             /\ ConsumeReg(r) # {} => ConsumeReg(r) \in RegSets
  <2>1. r \subseteq 1 .. register_count /\ r # {}
    BY DEF RegSets, initial_regset
  <2>2. r \in SUBSET Nat
    BY <1>1, <2>1
  <2>3. Min(r) \in r
    BY <2>1, <2>2, MinProperties
  <2>4. NextReg(r) \in Registers /\ NextReg(r) \notin {"rax", "rdx", "rsp"}
    <3>1. Min(r) \in DOMAIN RegisterNames
      BY <1>1, <2>1, <2>3
    <3>2. RegisterNames[Min(r)] \in STRING \ {"rax", "rdx", "rsp"}
      BY <3>1, RegisterAssumption
    <3> QED BY <3>1, <3>2 DEF NextReg, Registers
  <2>5. ConsumeReg(r) # {} => ConsumeReg(r) \in RegSets
    BY <2>1 DEF ConsumeReg, RegSets, initial_regset
  <2> QED BY <2>1, <2>3, <2>4, <2>5
<1> QED BY <1>1, <1>2, <1>3

\* Two sets with the same first register name have the same first register.
LEMMA NamesDiffer ==
    ASSUME NEW r \in RegSets, NEW s \in RegSets, NextReg(r) = NextReg(s)
    PROVE  Min(r) = Min(s)
<1>1. Min(r) \in DOMAIN RegisterNames /\ Min(s) \in DOMAIN RegisterNames
  BY RegisterFacts, RegisterAssumption DEF register_count
<1> QED BY <1>1, RegisterAssumption DEF NextReg

\* The operands.
LEMMA ArgTypes ==
    /\ NoArg \in Args
    /\ \A v \in Int : Lit(v) \in Args
    /\ \A r \in Registers : Reg(r) \in Args
    /\ \A r \in Registers, v \in Int : Mem(r, v) \in Args
BY DEF Args, Arg, NoArg, Lit, Reg, Mem

\* The instructions.
LEMMA InstrTypes ==
    /\ \A op \in Opcodes, a \in Args, b \in Args : Cmd(op, a, b) \in Instrs
    /\ \A a \in Args, b \in Args : Mov(a, b) \in Instrs
    /\ \A op \in Jumps, l \in Nat : Jump(op, l) \in Instrs
    /\ \A l \in Nat : Label(l) \in Instrs
    /\ \A name \in Names \cup {"main"} : Func(name) \in Instrs /\ Call(name) \in Instrs
    /\ Ret \in Instrs /\ Epilogue \in Seq(Instrs)
<1> USE ArgTypes DEF Instrs, Instr, Opcodes
<1>1. \A op \in Opcodes, a \in Args, b \in Args : Cmd(op, a, b) \in Instrs
  BY DEF Cmd
<1>2. \A a \in Args, b \in Args : Mov(a, b) \in Instrs
  BY DEF Mov, Cmd
<1>3. \A op \in Jumps, l \in Nat : Jump(op, l) \in Instrs
  BY DEF Jump
<1>4. \A l \in Nat : Label(l) \in Instrs
  BY DEF Label
<1>5. \A name \in Names \cup {"main"} : Func(name) \in Instrs /\ Call(name) \in Instrs
  BY DEF Func, Call
<1>6. Ret \in Instrs
  BY DEF Ret, Cmd
<1>7. Instr("entry", NoArg, NoArg, NULL, NULL) \in Instrs
  OBVIOUS
<1>8. Epilogue \in Seq(Instrs)
  <2> HIDE DEF Instrs, Instr
  <2> QED BY <1>5, <1>6, <1>7 DEF Epilogue
<1> QED BY <1>1, <1>2, <1>3, <1>4, <1>5, <1>6, <1>8

-----------------------------------------------------------------------------
(* Calls. *)

\* The kinds of calls that compute an expression.
Operands == {"expr", "right", "op"}

\* Where the calls of GenTasks come from.
LEMMA TaskTypes ==
    ASSUME NEW n \in DOMAIN prog, NEW r \in RegSets
    PROVE  /\ IsStat(prog, n) => StatTask(n, r) \in GenTasks
           /\ IsExpr(prog, n) => ExprTask(n, r) \in GenTasks
           /\ Type(n) = "BIN_OP" => Pending("right", n, r) \in GenTasks
           /\ Type(n) = "BIN_OP" /\ ConsumeReg(r) # {} => Pending("op", n, r) \in GenTasks
BY DEF GenTasks, Pending, StatTask, ExprTask

\* A print is a call like the others.
LEMMA EmitTypes == \A code \in Seq(Instrs) : Emit(code) \in GenTasks
BY DEF GenTasks, Emit

\* Only a print carries instructions.
LEMMA TaskParts ==
    ASSUME NEW t \in GenTasks, WellFormed(prog)
    PROVE  /\ t.do \in {"stat", "expr", "right", "op", "emit"}
           /\ t.node \in DOMAIN prog /\ t.regset \in RegSets /\ t.code \in Seq(Instrs)
           /\ t.do # "emit" => t.code = <<>>
           /\ t.do = "stat" => IsStat(prog, t.node)
           /\ t.do = "expr" => IsExpr(prog, t.node)
           /\ t.do \in {"right", "op"} => Type(t.node) = "BIN_OP"
           /\ t.do = "op" => ConsumeReg(t.regset) # {}
<1>1. 1 \in DOMAIN prog /\ {1} \in RegSets
  BY RegisterFacts DEF WellFormed
<1>2. <<>> \in Seq(Instrs)
  OBVIOUS
<1>3. \/ t.do = "stat" /\ t.code = <<>> /\ t.regset \in RegSets
         /\ t.node \in DOMAIN prog /\ IsStat(prog, t.node)
      \/ t.do = "expr" /\ t.code = <<>> /\ t.regset \in RegSets
         /\ t.node \in DOMAIN prog /\ IsExpr(prog, t.node)
      \/ t.do = "right" /\ t.code = <<>> /\ t.regset \in RegSets
         /\ t.node \in DOMAIN prog /\ Type(t.node) = "BIN_OP"
      \/ t.do = "op" /\ t.code = <<>> /\ t.regset \in RegSets /\ ConsumeReg(t.regset) # {}
         /\ t.node \in DOMAIN prog /\ Type(t.node) = "BIN_OP"
      \/ t.do = "emit" /\ t.code \in Seq(Instrs) /\ t.node = 1 /\ t.regset = {1}
  BY DEF GenTasks
<1> QED BY <1>1, <1>2, <1>3

\* The call about to be made.
LEMMA CallFacts ==
    ASSUME GenTypeOK, todo # <<>>
    PROVE  /\ Head(todo) \in GenTasks /\ Tail(todo) \in Seq(GenTasks)
           /\ <<>> \o Tail(todo) = Tail(todo)
           /\ WellFormed(prog) /\ node \in DOMAIN prog /\ prog[node] \in Node
           /\ regset \in RegSets /\ Head(todo).code \in Seq(Instrs)
           /\ Head(todo).do = "stat" => IsStat(prog, node)
           /\ Head(todo).do = "expr" => IsExpr(prog, node)
           /\ Head(todo).do \in {"right", "op"} => Type(node) = "BIN_OP"
           /\ Head(todo).do = "op" => ConsumeReg(regset) # {}
<1>1. Head(todo) \in GenTasks /\ Tail(todo) \in Seq(GenTasks) /\ WellFormed(prog)
  BY HeadTailProperties DEF GenTypeOK
<1>2. <<>> \o Tail(todo) = Tail(todo)
  BY <1>1, ConcatEmptySeq
<1>3. \A n \in DOMAIN prog : prog[n] \in Node
  BY <1>1 DEF WellFormed
<1> QED BY <1>1, <1>2, <1>3, TaskParts DEF node, regset

\* The children of a node are nodes of the kind its parent needs.
LEMMA ChildFacts ==
    ASSUME WellFormed(prog), NEW n \in DOMAIN prog
    PROVE  /\ \A i \in DOMAIN Kids(n) : Kid(n, i) \in DOMAIN prog
           /\ Len(Kids(n)) \in Nat /\ DOMAIN Kids(n) = 1 .. Len(Kids(n))
           /\ Type(n) \in {"RETURN_STAT", "EXPR_STAT"} =>
                 Kid(n, 1) \in DOMAIN prog /\ IsExpr(prog, Kid(n, 1))
           /\ Type(n) = "IF_STAT" =>
                 /\ Len(Kids(n)) \in {2, 3} /\ IsExpr(prog, Kid(n, 1))
                 /\ \A i \in 2 .. Len(Kids(n)) : IsStat(prog, Kid(n, i))
           /\ Type(n) = "WHILE_STAT" =>
                 /\ Kid(n, 1) \in DOMAIN prog /\ Kid(n, 2) \in DOMAIN prog
                 /\ IsExpr(prog, Kid(n, 1)) /\ IsStat(prog, Kid(n, 2))
           /\ Type(n) = "FOR_STAT" =>
                 /\ \A i \in 1 .. 4 : Kid(n, i) \in DOMAIN prog
                 /\ \A i \in 1 .. 3 : IsExpr(prog, Kid(n, i))
                 /\ IsStat(prog, Kid(n, 4))
           /\ Type(n) = "BLOCK_STAT" \/ (Type(n) = "DECL_STAT" /\ prog[n].is_func) =>
                 \A i \in DOMAIN Kids(n) : IsStat(prog, Kid(n, i))
           /\ Type(n) = "BIN_OP" =>
                 /\ Kid(n, 1) \in DOMAIN prog /\ Kid(n, 2) \in DOMAIN prog
                 /\ IsExpr(prog, Kid(n, 1)) /\ IsExpr(prog, Kid(n, 2))
           /\ Type(n) \in {"FUNC_CALL", "DECL_STAT"} => prog[n].name \in Names
<1>1. /\ Kids(n) \in Seq(Nat \ {0}) /\ ShapeOK(prog, n)
      /\ \A i \in DOMAIN Kids(n) : Kid(n, i) \in DOMAIN prog
  <2>1. prog[n] \in Node
    BY DEF WellFormed
  <2> QED BY <2>1 DEF WellFormed, Node, Kids, Kid
<1>2. /\ Len(Kids(n)) \in Nat /\ DOMAIN Kids(n) = 1 .. Len(Kids(n))
      /\ \A i \in 1 .. Len(Kids(n)) : Kids(n)[i] = Kid(n, i) /\ Kid(n, i) \in DOMAIN prog
  BY <1>1 DEF Kids, Kid
<1>3. Type(n) \in {"RETURN_STAT", "EXPR_STAT"} =>
        Kid(n, 1) \in DOMAIN prog /\ IsExpr(prog, Kid(n, 1))
  BY <1>1, <1>2 DEF ShapeOK, Type, Kids, Kid
<1>4. Type(n) = "IF_STAT" =>
        /\ Len(Kids(n)) \in {2, 3} /\ IsExpr(prog, Kid(n, 1))
        /\ \A i \in 2 .. Len(Kids(n)) : IsStat(prog, Kid(n, i))
  BY <1>1, <1>2 DEF ShapeOK, Type, Kids, Kid
<1>5. Type(n) = "WHILE_STAT" =>
        /\ Kid(n, 1) \in DOMAIN prog /\ Kid(n, 2) \in DOMAIN prog
        /\ IsExpr(prog, Kid(n, 1)) /\ IsStat(prog, Kid(n, 2))
  BY <1>1, <1>2 DEF ShapeOK, Type, Kids, Kid
<1>6. Type(n) = "FOR_STAT" =>
        /\ \A i \in 1 .. 4 : Kid(n, i) \in DOMAIN prog
        /\ \A i \in 1 .. 3 : IsExpr(prog, Kid(n, i))
        /\ IsStat(prog, Kid(n, 4))
  <2> SUFFICES ASSUME Type(n) = "FOR_STAT"
               PROVE  /\ \A i \in 1 .. 4 : Kid(n, i) \in DOMAIN prog
                      /\ \A i \in 1 .. 3 : IsExpr(prog, Kid(n, i))
                      /\ IsStat(prog, Kid(n, 4))
    OBVIOUS
  <2>1. /\ Len(Kids(n)) = 4 /\ IsExpr(prog, Kid(n, 1)) /\ IsExpr(prog, Kid(n, 2))
        /\ IsExpr(prog, Kid(n, 3)) /\ IsStat(prog, Kid(n, 4))
    BY <1>1 DEF ShapeOK, Type, Kids, Kid
  <2>2. \A i \in 1 .. 3 : i = 1 \/ i = 2 \/ i = 3
    OBVIOUS
  <2> QED BY <1>2, <2>1, <2>2
<1>7. Type(n) = "BLOCK_STAT" \/ (Type(n) = "DECL_STAT" /\ prog[n].is_func) =>
        \A i \in DOMAIN Kids(n) : IsStat(prog, Kid(n, i))
  BY <1>1, <1>2 DEF ShapeOK, Type, Kids, Kid
<1>8. Type(n) = "BIN_OP" =>
        /\ Kid(n, 1) \in DOMAIN prog /\ Kid(n, 2) \in DOMAIN prog
        /\ IsExpr(prog, Kid(n, 1)) /\ IsExpr(prog, Kid(n, 2))
  BY <1>1, <1>2 DEF ShapeOK, Type, Kids, Kid
<1>9. Type(n) \in {"FUNC_CALL", "DECL_STAT"} => prog[n].name \in Names
  BY <1>1 DEF ShapeOK, Type
<1> QED BY <1>1, <1>2, <1>3, <1>4, <1>5, <1>6, <1>7, <1>8, <1>9

-----------------------------------------------------------------------------
(* A step makes the calls `tasks' in place of the current one, prints       *)
(* `code' and takes n labels from the counter.                              *)

Moves(tasks, code, n) ==
    /\ genStatus = "generating" /\ todo # <<>>
    /\ tasks \in Seq(GenTasks) /\ code \in Seq(Instrs) /\ n \in Nat
    /\ todo' = tasks \o Tail(todo) /\ out' = out \o code /\ next_label' = next_label + n
    /\ slot' \in [Addr -> Nat] /\ next_stack_offset' \in Nat
    /\ UNCHANGED <<prog, symbolOf, genStatus>>

\* Such a step keeps the types.
LEMMA MovesKeepsTypes ==
    ASSUME GenTypeOK, NEW tasks, NEW code, NEW n, Moves(tasks, code, n)
    PROVE  GenTypeOK'
<1>1. Tail(todo) \in Seq(GenTasks)
  BY CallFacts DEF Moves
<1>2. todo' \in Seq(GenTasks) /\ out' \in Seq(Instrs)
  BY <1>1, ConcatProperties DEF GenTypeOK, Moves
<1>3. GenTasks' = GenTasks
  BY DEF Moves, GenTasks, Type
<1> QED BY <1>2, <1>3 DEF GenTypeOK, Moves

\* Where the calls after a step come from.
LEMMA TodoPlaces ==
    ASSUME GenTypeOK, NEW tasks, NEW code, NEW n, Moves(tasks, code, n)
    PROVE  /\ Len(tasks) \in Nat /\ Len(todo') \in Nat /\ Len(todo) \in Nat
           /\ DOMAIN todo' = 1 .. Len(todo') /\ DOMAIN todo = 1 .. Len(todo)
           /\ DOMAIN tasks = 1 .. Len(tasks) /\ Head(todo) = todo[1] /\ 1 \in DOMAIN todo
           /\ \A i \in DOMAIN todo' : \/ i \in DOMAIN tasks /\ todo'[i] = tasks[i]
                                      \/ /\ i > Len(tasks) /\ i - Len(tasks) + 1 \in DOMAIN todo
                                         /\ todo'[i] = todo[i - Len(tasks) + 1]
           /\ \A i \in DOMAIN tasks : i \in DOMAIN todo' /\ todo'[i] = tasks[i]
           /\ \A i \in DOMAIN todo : i > 1 =>
                 /\ i - 1 + Len(tasks) \in DOMAIN todo'
                 /\ todo'[i - 1 + Len(tasks)] = todo[i]
<1>1. /\ todo \in Seq(GenTasks) /\ todo # <<>> /\ tasks \in Seq(GenTasks)
      /\ todo' = tasks \o Tail(todo)
  BY DEF GenTypeOK, Moves
<1>2. Len(todo) \in Nat
  BY <1>1
<1>3. Len(todo') \in Nat
  <2>1. todo' \in Seq(GenTasks)
    BY <1>1, ReplaceHead
  <2> QED BY <2>1, LenProperties
<1> QED BY <1>1, <1>2, <1>3, ReplaceHead

\* Where the instructions after a step come from.
LEMMA OutPlaces ==
    ASSUME GenTypeOK, NEW tasks, NEW code, NEW n, Moves(tasks, code, n)
    PROVE  /\ Len(out) \in Nat /\ Len(out') \in Nat /\ Len(out') = Len(out) + Len(code)
           /\ DOMAIN out' = 1 .. Len(out') /\ DOMAIN out = 1 .. Len(out)
           /\ \A i \in DOMAIN out' : \/ i \in DOMAIN out /\ out'[i] = out[i]
                                     \/ /\ i \notin DOMAIN out /\ i - Len(out) \in DOMAIN code
                                        /\ out'[i] = code[i - Len(out)]
           /\ \A i \in DOMAIN out : i \in DOMAIN out' /\ out'[i] = out[i]
           /\ \A i \in DOMAIN code : /\ i + Len(out) \in DOMAIN out'
                                     /\ out'[i + Len(out)] = code[i]
<1>1. out \in Seq(Instrs) /\ code \in Seq(Instrs) /\ out' = out \o code
  BY DEF GenTypeOK, Moves
<1>2. Len(out') \in Nat
  <2>1. out' \in Seq(Instrs)
    BY <1>1, ConcatPlaces
  <2> QED BY <2>1, LenProperties
<1> QED BY <1>1, <1>2, ConcatPlaces

-----------------------------------------------------------------------------
(* Registers that wait. *)

\* New calls keep off the registers that wait for an operation, their own and
\* those the current call had to keep off.
Ordered(tasks) ==
    /\ \A j \in DOMAIN tasks : tasks[j].do = "op" =>
          \A i \in 1 .. j - 1 : /\ tasks[i].do \in Operands
                                /\ Min(tasks[j].regset) \notin tasks[i].regset
    /\ Head(todo).do \in Operands =>
          \A i \in DOMAIN tasks : /\ tasks[i].do \in Operands
                                  /\ tasks[i].regset \subseteq regset

\* So no new call disturbs a register that waits.
LEMMA OrderedKeepsDiscipline ==
    ASSUME GenTypeOK, RegisterDiscipline,
           NEW tasks, NEW code, NEW n, Moves(tasks, code, n), Ordered(tasks)
    PROVE  RegisterDiscipline'
<1> SUFFICES ASSUME NEW j \in DOMAIN todo', todo'[j].do = "op", NEW i \in 1 .. j - 1
             PROVE  /\ todo'[i].do \in Operands
                    /\ Min(todo'[j].regset) \notin todo'[i].regset
  BY DEF RegisterDiscipline, Operands
<1> DEFINE m == Len(tasks)
<1>1. /\ m \in Nat /\ DOMAIN todo' = 1 .. Len(todo') /\ DOMAIN tasks = 1 .. m
      /\ DOMAIN todo = 1 .. Len(todo)
      /\ Head(todo) = todo[1] /\ 1 \in DOMAIN todo /\ Len(todo') \in Nat
      /\ \A k \in DOMAIN todo' : \/ k \in DOMAIN tasks /\ todo'[k] = tasks[k]
                                 \/ /\ k > m /\ k - m + 1 \in DOMAIN todo
                                    /\ todo'[k] = todo[k - m + 1]
      /\ \A k \in DOMAIN tasks : todo'[k] = tasks[k]
  BY TodoPlaces
<1> HIDE DEF m
<1>2. i \in DOMAIN todo' /\ i \in Nat /\ j \in Nat /\ i < j
  BY <1>1
<1>3. CASE j \in DOMAIN tasks
  <2>1. i \in DOMAIN tasks /\ i \in 1 .. j - 1
    BY <1>1, <1>2, <1>3
  <2> QED BY <1>1, <1>3, <2>1 DEF Ordered
<1>4. CASE j > m
  <2>1. j - m + 1 \in DOMAIN todo /\ todo'[j] = todo[j - m + 1] /\ j - m + 1 > 1
    BY <1>1, <1>2, <1>4
  <2>2. PICK k \in DOMAIN todo : k = j - m + 1 /\ todo'[j] = todo[k] /\ k > 1 /\ k \in Nat
    BY <1>1, <2>1
  <2>3. \A l \in 1 .. k - 1 : /\ todo[l].do \in Operands
                              /\ Min(todo[k].regset) \notin todo[l].regset
    BY <2>2 DEF RegisterDiscipline, Operands
  <2>4. CASE i \in DOMAIN tasks
    <3>1. Head(todo).do \in Operands /\ Min(todo[k].regset) \notin regset
      BY <1>1, <2>2, <2>3 DEF regset
    <3> QED BY <1>1, <2>2, <2>4, <3>1 DEF Ordered
  <2>5. CASE i > m
    <3>1. i - m + 1 \in 1 .. k - 1
      BY <1>1, <1>2, <2>2, <2>5
    <3>2. todo'[i] = todo[i - m + 1]
      BY <1>1, <1>2, <2>5
    <3> QED BY <2>2, <2>3, <3>1, <3>2
  <2> QED BY <1>1, <1>2, <2>4, <2>5
<1> QED BY <1>1, <1>3, <1>4

\* What the current call prints writes no general register but its own.
Gentle(code) ==
    Head(todo).do \in Operands =>
        \A k \in DOMAIN code :
            \/ code[k].op = "pop" \/ code[k].dst.type # "REG_ARG"
            \/ code[k].dst.reg \in {"rax", "rdx"} \/ code[k].dst.reg = NextReg(regset)

\* So it leaves the registers that wait alone.
LEMMA GentleKeepsLeft ==
    ASSUME GenTypeOK, RegisterDiscipline,
           NEW tasks, NEW code, NEW n, Moves(tasks, code, n), Gentle(code),
           code # <<>> => \A i \in DOMAIN tasks : tasks[i].do # "op"
    PROVE  \A k \in Len(out) + 1 .. Len(out') : \A i \in DOMAIN todo' :
              todo'[i].do = "op" =>
                 out'[k].op = "pop" \/ out'[k].dst # Reg(NextReg(todo'[i].regset))
<1> SUFFICES ASSUME NEW k \in Len(out) + 1 .. Len(out'),
                    NEW i \in DOMAIN todo', todo'[i].do = "op"
             PROVE  out'[k].op = "pop" \/ out'[k].dst # Reg(NextReg(todo'[i].regset))
  OBVIOUS
<1>1. PICK l \in DOMAIN code : out'[k] = code[l]
  <2>1. k \in DOMAIN out' /\ k \notin DOMAIN out
    BY OutPlaces
  <2> QED BY <2>1, OutPlaces
<1>2. \A m \in DOMAIN tasks : tasks[m].do # "op"
  BY <1>1
<1>3. PICK m \in DOMAIN todo : m > 1 /\ todo'[i] = todo[m]
  <2>1. i \notin DOMAIN tasks
    BY <1>2, TodoPlaces
  <2>2. i > Len(tasks) /\ i - Len(tasks) + 1 \in DOMAIN todo
        /\ todo'[i] = todo[i - Len(tasks) + 1]
    BY <2>1, TodoPlaces
  <2>3. i - Len(tasks) + 1 > 1
    BY <2>2, TodoPlaces
  <2> QED BY <2>2, <2>3
<1>4. Head(todo).do \in Operands /\ Min(todo[m].regset) \notin regset
  <2>1. todo[1] = Head(todo) /\ 1 \in 1 .. m - 1
    BY <1>3, TodoPlaces
  <2> QED BY <1>3, <2>1 DEF RegisterDiscipline, Operands, regset
<1>5. regset \in RegSets /\ todo[m].regset \in RegSets
  BY CallFacts, TaskParts DEF Moves, GenTypeOK
<1>6. NextReg(todo[m].regset) # NextReg(regset)
  BY <1>4, <1>5, RegisterFacts, NamesDiffer
<1>7. NextReg(todo[m].regset) \notin {"rax", "rdx"}
  BY <1>5, RegisterFacts
<1> QED BY <1>1, <1>3, <1>4, <1>6, <1>7 DEF Gentle, Reg, Arg

-----------------------------------------------------------------------------
(* Labels. *)

IsLabel(instr) == instr.op = "label"

\* The instructions that will be printed, by the call and the place in it.
AwaitingPrint(i, k) == i \in DOMAIN todo /\ k \in DOMAIN todo[i].code

\* Every label placed or about to be placed has been taken from the counter, and
\* no label is placed twice.
LabelInv ==
    /\ LabelsUnique
    /\ \A a \in DOMAIN out : IsLabel(out[a]) => out[a].lab \in 0 .. next_label - 1
    /\ \A i, k : AwaitingPrint(i, k) /\ IsLabel(todo[i].code[k]) =>
          /\ todo[i].code[k].lab \in 0 .. next_label - 1
          /\ \A a \in DOMAIN out : IsLabel(out[a]) => out[a].lab # todo[i].code[k].lab
          /\ \A j, l : /\ AwaitingPrint(j, l) /\ IsLabel(todo[j].code[l])
                       /\ todo[i].code[k].lab = todo[j].code[l].lab
                     => i = j /\ k = l

\* The new labels come from the counter, each once.
Labelled(tasks, code, n) ==
    /\ \A i \in DOMAIN tasks : \A k \in DOMAIN tasks[i].code :
          IsLabel(tasks[i].code[k]) =>
             /\ tasks[i].code[k].lab \in next_label .. next_label + n - 1
             /\ code = <<>>
             /\ \A j \in DOMAIN tasks : \A l \in DOMAIN tasks[j].code :
                   IsLabel(tasks[j].code[l]) /\ tasks[i].code[k].lab = tasks[j].code[l].lab
                   => i = j /\ k = l
    /\ \A k \in DOMAIN code : IsLabel(code[k]) =>
          /\ code[k].lab \in next_label .. next_label + n - 1
          /\ \A l \in DOMAIN code : IsLabel(code[l]) /\ code[k].lab = code[l].lab => k = l

\* Taking labels from the counter keeps them unique.
LEMMA LabelledKeepsLabels ==
    ASSUME GenTypeOK, LabelInv,
           NEW tasks, NEW code, NEW n, Moves(tasks, code, n), Labelled(tasks, code, n)
    PROVE  LabelInv'
<1>1. next_label \in Nat /\ n \in Nat /\ next_label' = next_label + n
  BY DEF GenTypeOK, Moves
<1>2. \A a \in DOMAIN out' : IsLabel(out'[a]) =>
        \/ a \in DOMAIN out /\ out'[a] = out[a] /\ out'[a].lab \in 0 .. next_label - 1
        \/ \E k \in DOMAIN code : /\ a = k + Len(out) /\ out'[a] = code[k]
                                  /\ out'[a].lab \in next_label .. next_label + n - 1
  <2> SUFFICES ASSUME NEW a \in DOMAIN out', IsLabel(out'[a])
               PROVE  \/ a \in DOMAIN out /\ out'[a] = out[a]
                         /\ out'[a].lab \in 0 .. next_label - 1
                      \/ \E k \in DOMAIN code : /\ a = k + Len(out) /\ out'[a] = code[k]
                                   /\ out'[a].lab \in next_label .. next_label + n - 1
    OBVIOUS
  <2>1. CASE a \in DOMAIN out /\ out'[a] = out[a]
    BY <2>1 DEF LabelInv
  <2>2. CASE a - Len(out) \in DOMAIN code /\ out'[a] = code[a - Len(out)]
    <3>1. a = (a - Len(out)) + Len(out)
      BY OutPlaces
    <3> QED BY <2>2, <3>1 DEF Labelled
  <2> QED BY <2>1, <2>2, OutPlaces
<1>3. \A i, k : AwaitingPrint(i, k)' /\ IsLabel(todo'[i].code[k]) =>
        \/ /\ i \in DOMAIN tasks /\ k \in DOMAIN tasks[i].code /\ todo'[i] = tasks[i]
           /\ todo'[i].code[k].lab \in next_label .. next_label + n - 1
        \/ \E m \in DOMAIN todo : /\ m = i - Len(tasks) + 1 /\ todo'[i] = todo[m]
                                  /\ AwaitingPrint(m, k)
                                  /\ todo'[i].code[k].lab \in 0 .. next_label - 1
  <2> SUFFICES ASSUME NEW i, NEW k, i \in DOMAIN todo', k \in DOMAIN todo'[i].code,
                      IsLabel(todo'[i].code[k])
               PROVE  \/ /\ i \in DOMAIN tasks /\ k \in DOMAIN tasks[i].code
                         /\ todo'[i] = tasks[i]
                         /\ todo'[i].code[k].lab \in next_label .. next_label + n - 1
                      \/ \E m \in DOMAIN todo :
                            /\ m = i - Len(tasks) + 1 /\ todo'[i] = todo[m]
                            /\ AwaitingPrint(m, k) /\ todo'[i].code[k].lab \in 0 .. next_label - 1
    BY DEF AwaitingPrint
  <2>1. CASE i \in DOMAIN tasks /\ todo'[i] = tasks[i]
    BY <2>1 DEF Labelled
  <2>2. CASE i - Len(tasks) + 1 \in DOMAIN todo /\ todo'[i] = todo[i - Len(tasks) + 1]
    BY <2>2 DEF LabelInv, AwaitingPrint
  <2> QED BY <2>1, <2>2, TodoPlaces
<1>4. ASSUME NEW a \in DOMAIN out', NEW b \in DOMAIN out',
             IsLabel(out'[a]), IsLabel(out'[b]), out'[a].lab = out'[b].lab
      PROVE  a = b
  <2>1. CASE a \in DOMAIN out /\ b \in DOMAIN out /\ out'[a] = out[a] /\ out'[b] = out[b]
    BY <1>4, <2>1 DEF LabelInv, LabelsUnique, IsLabel
  <2>2. CASE \E k, l \in DOMAIN code : /\ a = k + Len(out) /\ out'[a] = code[k]
                                       /\ b = l + Len(out) /\ out'[b] = code[l]
    BY <1>4, <2>2 DEF Labelled
  <2> QED BY <1>1, <1>2, <1>4, <2>1, <2>2
<1>5. ASSUME NEW i, NEW k, AwaitingPrint(i, k)', IsLabel(todo'[i].code[k])
      PROVE  /\ todo'[i].code[k].lab \in 0 .. next_label' - 1
             /\ \A a \in DOMAIN out' : IsLabel(out'[a]) => out'[a].lab # todo'[i].code[k].lab
             /\ \A j, l : /\ AwaitingPrint(j, l)' /\ IsLabel(todo'[j].code[l])
                          /\ todo'[i].code[k].lab = todo'[j].code[l].lab
                        => i = j /\ k = l
  <2>1. CASE /\ i \in DOMAIN tasks /\ k \in DOMAIN tasks[i].code /\ todo'[i] = tasks[i]
             /\ todo'[i].code[k].lab \in next_label .. next_label + n - 1
    <3>1. todo'[i].code[k].lab \in 0 .. next_label' - 1
      BY <1>1, <2>1
    <3>2. DOMAIN code = {}
      BY <1>5, <2>1 DEF Labelled
    <3>3. \A a \in DOMAIN out' : IsLabel(out'[a]) => out'[a].lab # todo'[i].code[k].lab
      BY <1>1, <1>2, <2>1, <3>2
    <3>4. ASSUME NEW j, NEW l, AwaitingPrint(j, l)', IsLabel(todo'[j].code[l]),
                 todo'[i].code[k].lab = todo'[j].code[l].lab
          PROVE  i = j /\ k = l
      <4>1. j \in DOMAIN tasks /\ l \in DOMAIN tasks[j].code /\ todo'[j] = tasks[j]
        BY <1>1, <1>3, <2>1, <3>4
      <4> QED BY <1>5, <2>1, <3>4, <4>1 DEF Labelled
    <3> QED BY <3>1, <3>3, <3>4
  <2>2. CASE \E m \in DOMAIN todo : /\ m = i - Len(tasks) + 1 /\ todo'[i] = todo[m]
                                    /\ AwaitingPrint(m, k)
                                    /\ todo'[i].code[k].lab \in 0 .. next_label - 1
    <3>0. PICK m \in DOMAIN todo : /\ m = i - Len(tasks) + 1 /\ todo'[i] = todo[m]
                                   /\ AwaitingPrint(m, k)
                                   /\ todo'[i].code[k].lab \in 0 .. next_label - 1
      BY <2>2
    <3>1. todo'[i].code[k].lab \in 0 .. next_label' - 1
      BY <1>1, <3>0
    <3>2. \A a \in DOMAIN out' : IsLabel(out'[a]) => out'[a].lab # todo'[i].code[k].lab
      BY <1>1, <1>2, <1>5, <3>0 DEF LabelInv
    <3>3. ASSUME NEW j, NEW l, AwaitingPrint(j, l)', IsLabel(todo'[j].code[l]),
                 todo'[i].code[k].lab = todo'[j].code[l].lab
          PROVE  i = j /\ k = l
      <4>1. PICK p \in DOMAIN todo : /\ p = j - Len(tasks) + 1 /\ todo'[j] = todo[p]
                                     /\ AwaitingPrint(p, l)
        BY <1>1, <1>3, <3>0, <3>3
      <4>2. m = p /\ k = l
        BY <1>5, <3>0, <3>3, <4>1 DEF LabelInv
      <4>3. i \in DOMAIN todo' /\ j \in DOMAIN todo'
        BY <1>5, <3>3 DEF AwaitingPrint
      <4> QED BY <3>0, <4>1, <4>2, <4>3, TodoPlaces
    <3> QED BY <3>1, <3>2, <3>3
  <2> QED BY <1>3, <1>5, <2>1, <2>2
<1>6. \A a \in DOMAIN out' : IsLabel(out'[a]) => out'[a].lab \in 0 .. next_label' - 1
  BY <1>1, <1>2
<1>7. LabelsUnique'
  BY <1>4 DEF LabelsUnique, IsLabel
<1> QED BY <1>5, <1>6, <1>7 DEF LabelInv, IsLabel

\* Printing what was about to be printed keeps them unique as well.
LEMMA EmitKeepsLabels ==
    ASSUME GenTypeOK, LabelInv, Moves(<<>>, Head(todo).code, 0)
    PROVE  LabelInv'
<1> DEFINE code == Head(todo).code
<1>1. next_label' = next_label /\ next_label \in Nat
  BY DEF GenTypeOK, Moves
<1>2. /\ 1 \in DOMAIN todo /\ code = todo[1].code
      /\ \A i \in DOMAIN todo' : /\ i \in Nat /\ i + 1 \in DOMAIN todo /\ i + 1 # 1
                                 /\ todo'[i] = todo[i + 1]
  <2>1. Len(<<>>) = 0 /\ DOMAIN <<>> = {}
    OBVIOUS
  <2>2. /\ Len(todo') \in Nat /\ DOMAIN todo' = 1 .. Len(todo') /\ Head(todo) = todo[1]
        /\ 1 \in DOMAIN todo
        /\ \A i \in DOMAIN todo' : \/ i \in DOMAIN <<>>
                                   \/ i - 0 + 1 \in DOMAIN todo /\ todo'[i] = todo[i - 0 + 1]
    BY <2>1, TodoPlaces
  <2>3. \A i \in DOMAIN todo' : i \in Nat /\ i - 0 + 1 = i + 1 /\ i + 1 # 1
    BY <2>2
  <2> QED BY <2>1, <2>2, <2>3
<1>3. \A a \in DOMAIN out' : \/ a \in DOMAIN out /\ out'[a] = out[a]
                             \/ \E k \in DOMAIN code : a = k + Len(out) /\ out'[a] = code[k]
  <2> SUFFICES ASSUME NEW a \in DOMAIN out'
               PROVE  \/ a \in DOMAIN out /\ out'[a] = out[a]
                      \/ \E k \in DOMAIN code : a = k + Len(out) /\ out'[a] = code[k]
    OBVIOUS
  <2>1. a - Len(out) \in DOMAIN code => a = (a - Len(out)) + Len(out)
    BY OutPlaces
  <2> QED BY <2>1, OutPlaces
<1> HIDE DEF code
<1>4. \A k \in DOMAIN code : AwaitingPrint(1, k) /\ todo[1].code[k] = code[k]
  BY <1>2 DEF AwaitingPrint
<1>5. \A i, k : AwaitingPrint(i, k)' => AwaitingPrint(i + 1, k) /\ todo'[i] = todo[i + 1] /\ i + 1 # 1
                                /\ i \in Nat
  BY <1>2 DEF AwaitingPrint
<1>6. ASSUME NEW a \in DOMAIN out', NEW b \in DOMAIN out',
             IsLabel(out'[a]), IsLabel(out'[b]), out'[a].lab = out'[b].lab
      PROVE  a = b
  <2>1. CASE a \in DOMAIN out /\ b \in DOMAIN out /\ out'[a] = out[a] /\ out'[b] = out[b]
    BY <1>6, <2>1 DEF LabelInv, LabelsUnique, IsLabel
  <2>2. CASE \E k, l \in DOMAIN code : /\ a = k + Len(out) /\ out'[a] = code[k]
                                       /\ b = l + Len(out) /\ out'[b] = code[l]
    <3>1. PICK k \in DOMAIN code, l \in DOMAIN code :
            /\ a = k + Len(out) /\ out'[a] = code[k]
            /\ b = l + Len(out) /\ out'[b] = code[l]
      BY <2>2
    <3>2. k = l
      BY <1>4, <1>6, <3>1 DEF LabelInv
    <3> QED BY <3>1, <3>2
  <2> QED BY <1>3, <1>4, <1>6, <2>1, <2>2 DEF LabelInv
<1>7. \A a \in DOMAIN out' : IsLabel(out'[a]) => out'[a].lab \in 0 .. next_label' - 1
  BY <1>1, <1>3, <1>4 DEF LabelInv
<1>8. ASSUME NEW i, NEW k, AwaitingPrint(i, k)', IsLabel(todo'[i].code[k])
      PROVE  /\ todo'[i].code[k].lab \in 0 .. next_label' - 1
             /\ \A a \in DOMAIN out' : IsLabel(out'[a]) => out'[a].lab # todo'[i].code[k].lab
             /\ \A j, l : /\ AwaitingPrint(j, l)' /\ IsLabel(todo'[j].code[l])
                          /\ todo'[i].code[k].lab = todo'[j].code[l].lab
                        => i = j /\ k = l
  <2>1. AwaitingPrint(i + 1, k) /\ todo'[i] = todo[i + 1] /\ i + 1 # 1 /\ i \in Nat
    BY <1>5, <1>8
  <2>2. todo'[i].code[k].lab \in 0 .. next_label' - 1
    BY <1>1, <1>8, <2>1 DEF LabelInv
  <2>3. ASSUME NEW a \in DOMAIN out', IsLabel(out'[a])
        PROVE  out'[a].lab # todo'[i].code[k].lab
    BY <1>3, <1>4, <1>8, <2>1, <2>3 DEF LabelInv
  <2>4. ASSUME NEW j, NEW l, AwaitingPrint(j, l)', IsLabel(todo'[j].code[l]),
               todo'[i].code[k].lab = todo'[j].code[l].lab
        PROVE  i = j /\ k = l
    <3>1. AwaitingPrint(j + 1, l) /\ todo'[j] = todo[j + 1] /\ j \in Nat
      BY <1>5, <2>4
    <3>2. i + 1 = j + 1 /\ k = l
      BY <1>8, <2>1, <2>4, <3>1 DEF LabelInv
    <3> QED BY <2>1, <3>1, <3>2
  <2> QED BY <2>2, <2>3, <2>4
<1>9. LabelsUnique'
  BY <1>6 DEF LabelsUnique, IsLabel
<1> QED BY <1>7, <1>8, <1>9 DEF LabelInv, IsLabel

-----------------------------------------------------------------------------
(* Jumps. *)

\* The label is placed or will be.
HasLabel(lab) ==
    \/ \E a \in DOMAIN out : IsLabel(out[a]) /\ out[a].lab = lab
    \/ \E i, k : AwaitingPrint(i, k) /\ IsLabel(todo[i].code[k]) /\ todo[i].code[k].lab = lab

\* Every jump, printed or not, will find its label.
JumpInv ==
    /\ \A a \in DOMAIN out : out[a].op \in Jumps => HasLabel(out[a].lab)
    /\ \A i, k : AwaitingPrint(i, k) /\ todo[i].code[k].op \in Jumps => HasLabel(todo[i].code[k].lab)

\* New jumps have their labels among the new instructions.
NewLabel(tasks, code, lab) ==
    \/ \E i \in DOMAIN tasks : \E k \in DOMAIN tasks[i].code :
          IsLabel(tasks[i].code[k]) /\ tasks[i].code[k].lab = lab
    \/ \E k \in DOMAIN code : IsLabel(code[k]) /\ code[k].lab = lab

Aimed(tasks, code) ==
    /\ \A i \in DOMAIN tasks : \A k \in DOMAIN tasks[i].code :
          tasks[i].code[k].op \in Jumps => NewLabel(tasks, code, tasks[i].code[k].lab)
    /\ \A k \in DOMAIN code : code[k].op \in Jumps => NewLabel(tasks, code, code[k].lab)

\* A label that is placed or will be stays so, and new ones come.
LEMMA LabelsStay ==
    ASSUME GenTypeOK, NEW tasks, NEW code, NEW n, Moves(tasks, code, n),
           Head(todo).code = <<>> \/ Head(todo).code = code,
           NEW lab, HasLabel(lab) \/ NewLabel(tasks, code, lab)
    PROVE  HasLabel(lab)'
<1> SUFFICES \/ \E a \in DOMAIN out' : IsLabel(out'[a]) /\ out'[a].lab = lab
             \/ \E i, k : /\ i \in DOMAIN todo' /\ k \in DOMAIN todo'[i].code
                          /\ IsLabel(todo'[i].code[k]) /\ todo'[i].code[k].lab = lab
  BY DEF HasLabel, AwaitingPrint, IsLabel
<1>1. CASE \E k \in DOMAIN code : IsLabel(code[k]) /\ code[k].lab = lab
  BY <1>1, OutPlaces
<1>2. CASE \E a \in DOMAIN out : IsLabel(out[a]) /\ out[a].lab = lab
  BY <1>2, OutPlaces
<1>3. CASE \E i \in DOMAIN tasks : \E k \in DOMAIN tasks[i].code :
             IsLabel(tasks[i].code[k]) /\ tasks[i].code[k].lab = lab
  BY <1>3, TodoPlaces
<1>4. CASE \E i, k : AwaitingPrint(i, k) /\ IsLabel(todo[i].code[k]) /\ todo[i].code[k].lab = lab
  <2>1. PICK i, k : /\ i \in DOMAIN todo /\ k \in DOMAIN todo[i].code
                    /\ IsLabel(todo[i].code[k]) /\ todo[i].code[k].lab = lab
    BY <1>4 DEF AwaitingPrint
  <2>2. CASE i = 1
    <3>1. Head(todo).code = todo[i].code /\ DOMAIN <<>> = {}
      BY <2>2, TodoPlaces
    <3>2. k \in DOMAIN code /\ code[k] = todo[i].code[k]
      BY <2>1, <3>1
    <3> QED BY <1>1, <2>1, <3>2
  <2>3. CASE i > 1
    BY <2>1, <2>3, TodoPlaces
  <2>4. i = 1 \/ i > 1
    BY <2>1, TodoPlaces
  <2> QED BY <2>2, <2>3, <2>4
<1> QED BY <1>1, <1>2, <1>3, <1>4 DEF HasLabel, NewLabel

\* So every jump keeps its label.
LEMMA AimedKeepsJumps ==
    ASSUME GenTypeOK, JumpInv, NEW tasks, NEW code, NEW n, Moves(tasks, code, n),
           \/ Head(todo).code = <<>> /\ Aimed(tasks, code)
           \/ Head(todo).code = code /\ tasks = <<>>
    PROVE  JumpInv'
<1>1. \A lab : HasLabel(lab) \/ NewLabel(tasks, code, lab) => HasLabel(lab)'
  BY LabelsStay
<1>2. ASSUME NEW a \in DOMAIN out', out'[a].op \in Jumps
      PROVE  HasLabel(out'[a].lab) \/ NewLabel(tasks, code, out'[a].lab)
  <2>1. CASE a \in DOMAIN out /\ out'[a] = out[a]
    BY <1>2, <2>1 DEF JumpInv
  <2>2. CASE \E k \in DOMAIN code : out'[a] = code[k]
    <3>1. PICK k \in DOMAIN code : out'[a] = code[k]
      BY <2>2
    <3>2. CASE Aimed(tasks, code)
      BY <1>2, <3>1, <3>2 DEF Aimed
    <3>3. CASE Head(todo).code = code
      <4>1. AwaitingPrint(1, k) /\ todo[1].code[k] = code[k]
        BY <3>3, TodoPlaces DEF AwaitingPrint
      <4> QED BY <1>2, <3>1, <4>1 DEF JumpInv
    <3> QED BY <3>2, <3>3
  <2> QED BY <2>1, <2>2, OutPlaces
<1>3. ASSUME NEW i, NEW k, i \in DOMAIN todo', k \in DOMAIN todo'[i].code,
             todo'[i].code[k].op \in Jumps
      PROVE  HasLabel(todo'[i].code[k].lab) \/ NewLabel(tasks, code, todo'[i].code[k].lab)
  <2>1. CASE i \in DOMAIN tasks /\ todo'[i] = tasks[i]
    <3>1. Aimed(tasks, code)
      <4>1. DOMAIN <<>> = {}
        OBVIOUS
      <4> QED BY <2>1, <4>1
    <3> QED BY <1>3, <2>1, <3>1 DEF Aimed
  <2>2. CASE i - Len(tasks) + 1 \in DOMAIN todo /\ todo'[i] = todo[i - Len(tasks) + 1]
    BY <1>3, <2>2 DEF JumpInv, AwaitingPrint
  <2> QED BY <1>3, <2>1, <2>2, TodoPlaces
<1>4. \A a \in DOMAIN out' : out'[a].op \in Jumps => \E lab : lab = out'[a].lab /\ HasLabel(lab)'
  BY <1>1, <1>2
<1>5. \A i, k : i \in DOMAIN todo' /\ k \in DOMAIN todo'[i].code /\ todo'[i].code[k].op \in Jumps =>
        \E lab : lab = todo'[i].code[k].lab /\ HasLabel(lab)'
  BY <1>1, <1>3
<1> QED BY <1>4, <1>5 DEF JumpInv, HasLabel, AwaitingPrint, IsLabel

-----------------------------------------------------------------------------
(* The actions. *)

Fine(tasks, code, n) ==
    /\ Moves(tasks, code, n) /\ Head(todo).code = <<>>
    /\ Ordered(tasks) /\ Gentle(code)
    /\ code # <<>> => \A i \in DOMAIN tasks : tasks[i].do # "op"
    /\ Labelled(tasks, code, n) /\ Aimed(tasks, code)

\* Instructions that neither are labels nor need one.
Straight(code) == \A k \in DOMAIN code : ~IsLabel(code[k]) /\ code[k].op \notin Jumps

\* Calls and prints without such instructions.
Silent(tasks) == \A i \in DOMAIN tasks : Straight(tasks[i].code)

\* Most calls carry no instructions at all.
LEMMA EmptyStraight == Straight(<<>>)
<1>1. DOMAIN <<>> = {}
  OBVIOUS
<1> QED BY <1>1 DEF Straight

\* Without new labels and jumps there is nothing to show about them.
LEMMA StraightFacts ==
    ASSUME NEW tasks, NEW code, Silent(tasks), Straight(code)
    PROVE  Labelled(tasks, code, 0) /\ Aimed(tasks, code)
<1>1. \A i \in DOMAIN tasks : \A k \in DOMAIN tasks[i].code :
        ~IsLabel(tasks[i].code[k]) /\ tasks[i].code[k].op \notin Jumps
  BY DEF Silent, Straight
<1>2. \A k \in DOMAIN code : ~IsLabel(code[k]) /\ code[k].op \notin Jumps
  BY DEF Straight
<1> QED BY <1>1, <1>2 DEF Labelled, Aimed

\* A call that makes other calls and prints nothing itself.
LEMMA ContinueFine ==
    ASSUME GenTypeOK, genStatus = "generating", todo # <<>>, Head(todo).do # "emit",
           NEW tasks, tasks \in Seq(GenTasks), Continue(tasks), Silent(tasks), Ordered(tasks)
    PROVE  Fine(tasks, <<>>, 0)
<1>1. DOMAIN <<>> = {} /\ <<>> \in Seq(Instrs)
  OBVIOUS
<1>2. out = out \o <<>> /\ next_label = next_label + 0
  BY ConcatEmptySeq DEF GenTypeOK
<1>3. Moves(tasks, <<>>, 0)
  BY <1>1, <1>2 DEF Moves, Continue, Do, GenTypeOK
<1>4. Gentle(<<>>) /\ Straight(<<>>)
  BY <1>1 DEF Gentle, Straight
<1>5. Head(todo).code = <<>>
  BY CallFacts, TaskParts
<1> QED BY <1>3, <1>4, <1>5, StraightFacts DEF Fine

\* A call that prints and makes no calls.
LEMMA WriteFine ==
    ASSUME GenTypeOK, genStatus = "generating", todo # <<>>, Head(todo).do # "emit",
           NEW code, code \in Seq(Instrs), Write(code), Straight(code), Gentle(code)
    PROVE  Fine(<<>>, code, 0)
<1>1. DOMAIN <<>> = {} /\ <<>> \in Seq(GenTasks) /\ next_label = next_label + 0
  BY DEF GenTypeOK
<1>2. Moves(<<>>, code, 0)
  BY <1>1 DEF Moves, Write, Output, Do, GenTypeOK
<1>3. Ordered(<<>>) /\ Silent(<<>>)
  BY <1>1 DEF Ordered, Silent
<1>4. Head(todo).code = <<>>
  BY CallFacts, TaskParts
<1> QED BY <1>1, <1>2, <1>3, <1>4, StraightFacts DEF Fine

\* The statements that make no labels.
LEMMA StatementsFine ==
    ASSUME GenTypeOK, GenBlock \/ GenFunc \/ GenVar \/ GenExprStat \/ GenSkip
    PROVE  \E tasks, code, n : Fine(tasks, code, n)
<1>1. /\ genStatus = "generating" /\ todo # <<>> /\ Head(todo).do = "stat"
      /\ WellFormed(prog) /\ node \in DOMAIN prog /\ regset \in RegSets
      /\ Head(todo).code = <<>> /\ "stat" \notin Operands
  BY CallFacts, TaskParts DEF GenBlock, GenFunc, GenVar, GenExprStat, GenSkip, AtStatTask, At, Operands
<1> DEFINE all == [i \in DOMAIN Kids(node) |-> StatTask(Kid(node, i), regset)]
<1>2. ASSUME Type(node) = "BLOCK_STAT" \/ (Type(node) = "DECL_STAT" /\ prog[node].is_func)
      PROVE  all \in Seq(GenTasks) /\ Silent(all) /\ Ordered(all)
             /\ \A i \in DOMAIN all : all[i].do # "op"
  <2>1. \A i \in DOMAIN Kids(node) : StatTask(Kid(node, i), regset) \in GenTasks
    BY <1>1, <1>2, ChildFacts, TaskTypes
  <2>2. Len(Kids(node)) \in Nat /\ DOMAIN Kids(node) = 1 .. Len(Kids(node))
    BY <1>1, ChildFacts
  <2>3. all \in [1 .. Len(Kids(node)) -> GenTasks]
    BY <2>1, <2>2
  <2>4. all \in Seq(GenTasks)
    BY <2>2, <2>3
  <2>5. \A i \in DOMAIN all : all[i].do = "stat" /\ all[i].code = <<>>
    BY DEF StatTask, Pending
  <2> QED BY <1>1, <2>4, <2>5, EmptyStraight DEF Silent, Ordered
<1> HIDE DEF all
<1>3. CASE GenBlock
  <2>1. Continue(all) /\ Type(node) = "BLOCK_STAT"
    BY <1>3 DEF GenBlock, AtStatTask, all
  <2>2. all \in Seq(GenTasks) /\ Silent(all) /\ Ordered(all)
    <3>1. Type(node) = "BLOCK_STAT" \/ (Type(node) = "DECL_STAT" /\ prog[node].is_func)
      BY <2>1
    <3>2. /\ all \in Seq(GenTasks) /\ Silent(all) /\ Ordered(all)
          /\ \A i \in DOMAIN all : all[i].do # "op"
      BY <1>2, <3>1
    <3> QED BY <3>2
  <2>3. Head(todo).do # "emit"
    BY <1>1
  <2>4. Fine(all, <<>>, 0)
    BY <1>1, <2>1, <2>2, <2>3, ContinueFine
  <2> QED BY <2>4
<1>4. CASE GenFunc
  <2> DEFINE code == <<Func(prog[node].name)>>
  <2>1. /\ Type(node) = "DECL_STAT" /\ prog[node].is_func /\ prog[node].name \in Names
        /\ todo' = all \o Tail(todo) /\ out' = Append(out, Func(prog[node].name))
        /\ UNCHANGED <<prog, symbolOf, slot, next_label, next_stack_offset, genStatus>>
    BY <1>1, <1>4, ChildFacts DEF GenFunc, AtStatTask, Do, all
  <2>2. code \in Seq(Instrs)
    BY <2>1, InstrTypes
  <2>3. out' = out \o code
    BY <2>1, AppendIsConcat, InstrTypes DEF GenTypeOK
  <2>4. Straight(code) /\ Gentle(code)
    BY <1>1 DEF Straight, Gentle, IsLabel, Func, Instr, Jumps
  <2> HIDE DEF code
  <2>5. Moves(all, code, 0)
    BY <1>1, <1>2, <2>1, <2>2, <2>3 DEF Moves, GenTypeOK
  <2> QED BY <1>1, <1>2, <2>1, <2>4, <2>5, StraightFacts DEF Fine
<1>5. CASE GenVar
  <2>0. DOMAIN <<>> = {} /\ <<>> \in Seq(GenTasks) /\ <<>> \in Seq(Instrs)
    OBVIOUS
  <2>1. /\ todo' = <<>> \o Tail(todo) /\ out' = out /\ next_label' = next_label
        /\ UNCHANGED <<prog, symbolOf, genStatus>>
    BY <1>5 DEF GenVar, Do
  <2>5. slot' \in [Addr -> Nat] /\ next_stack_offset' \in Nat
    <3>1. /\ next_stack_offset \in Nat /\ slot \in [Addr -> Nat]
          /\ next_stack_offset' = next_stack_offset + 8
          /\ slot' = [slot EXCEPT ![symbolOf[node]] = next_stack_offset]
      BY <1>5 DEF GenVar, GenTypeOK
    <3>2. next_stack_offset' \in Nat
      BY <3>1
    <3>3. \A f \in [Addr -> Nat], v \in Nat : \A a : [f EXCEPT ![a] = v] \in [Addr -> Nat]
      OBVIOUS
    <3> QED BY <3>1, <3>2, <3>3
  <2>2. out' = out \o <<>> /\ next_label' = next_label + 0
    BY <2>1, ConcatEmptySeq DEF GenTypeOK
  <2>3. Moves(<<>>, <<>>, 0)
    BY <1>1, <2>0, <2>1, <2>2, <2>5 DEF Moves
  <2>4. Ordered(<<>>) /\ Silent(<<>>) /\ Straight(<<>>) /\ Gentle(<<>>)
    BY <2>0 DEF Ordered, Silent, Straight, Gentle
  <2> QED BY <1>1, <2>3, <2>4, StraightFacts DEF Fine
<1>6. CASE GenExprStat
  <2> DEFINE tasks == <<ExprTask(Kid(node, 1), regset)>>
  <2>1. Continue(tasks) /\ Type(node) = "EXPR_STAT"
    BY <1>6 DEF GenExprStat, AtStatTask
  <2>2. ExprTask(Kid(node, 1), regset) \in GenTasks
    BY <1>1, <2>1, ChildFacts, TaskTypes
  <2>3. tasks \in Seq(GenTasks) /\ Silent(tasks) /\ Ordered(tasks)
    BY <1>1, <2>2, EmptyStraight DEF Silent, Ordered, ExprTask, Pending
  <2> HIDE DEF tasks
  <2> QED BY <1>1, <2>1, <2>3, ContinueFine
<1>7. CASE GenSkip
  <2>1. DOMAIN <<>> = {} /\ <<>> \in Seq(GenTasks) /\ Continue(<<>>)
    BY <1>7 DEF GenSkip
  <2>2. Ordered(<<>>) /\ Silent(<<>>)
    BY <2>1 DEF Ordered, Silent
  <2> QED BY <1>1, <2>1, <2>2, ContinueFine
<1> QED BY <1>3, <1>4, <1>5, <1>6, <1>7

\* A return makes no label either.
LEMMA ReturnFine ==
    ASSUME GenTypeOK, GenReturn
    PROVE  \E tasks, code, n : Fine(tasks, code, n)
<1> DEFINE mov   == Mov(Reg(NextReg(regset)), Reg("rax"))
           code  == <<mov, Ret>>
           tasks == <<ExprTask(Kid(node, 1), regset), Emit(code)>>
<1>1. /\ genStatus = "generating" /\ todo # <<>> /\ Head(todo).do = "stat"
      /\ WellFormed(prog) /\ node \in DOMAIN prog /\ regset \in RegSets
      /\ Type(node) = "RETURN_STAT" /\ Continue(tasks)
  BY CallFacts DEF GenReturn, AtStatTask, At
<1>2. ExprTask(Kid(node, 1), regset) \in GenTasks
  BY <1>1, ChildFacts, TaskTypes
<1>3. mov \in Instrs
  BY <1>1, RegisterFacts, ArgTypes, InstrTypes DEF Registers
<1>4. Straight(code)
  BY DEF Straight, IsLabel, Mov, Cmd, Instr, Ret, Jumps
<1> HIDE DEF mov
<1>5. code \in Seq(Instrs)
  BY <1>3, InstrTypes
<1> HIDE DEF code
<1>6. Emit(code) \in GenTasks
  BY <1>5, EmitTypes
<1>7. /\ tasks[1].do = "expr" /\ tasks[1].code = <<>>
      /\ tasks[2].do = "emit" /\ tasks[2].code = code /\ DOMAIN tasks = 1 .. 2
  BY DEF ExprTask, Pending, Emit
<1>8. tasks \in Seq(GenTasks)
  BY <1>2, <1>6
<1> HIDE DEF tasks
<1>9. Silent(tasks)
  <2>1. \A i \in 1 .. 2 : i = 1 \/ i = 2
    OBVIOUS
  <2> QED BY <1>4, <1>7, <2>1, EmptyStraight DEF Silent
<1>10. Ordered(tasks)
  <2>1. \A i \in 1 .. 2 : tasks[i].do # "op"
    BY <1>7
  <2> QED BY <1>1, <1>7, <2>1 DEF Ordered, Operands
<1>11. Fine(tasks, <<>>, 0)
  BY <1>1, <1>8, <1>9, <1>10, ContinueFine
<1> QED BY <1>11

\* An instruction that neither is a label nor needs one, and that writes no
\* general register but that of the current call, if it does not restore one.
PlainCode ==
    {c \in Instrs :
        /\ ~IsLabel(c) /\ c.op \notin Jumps
        /\ \/ c.op = "pop"
           \/ c.dst.type # "REG_ARG"
           \/ c.dst.reg \in {"rax", "rdx", NextReg(regset)}}

\* Printing plain instructions is fine.
LEMMA PlainFine ==
    ASSUME GenTypeOK, genStatus = "generating", todo # <<>>, Head(todo).do # "emit",
           NEW code, code \in Seq(PlainCode), Write(code)
    PROVE  Fine(<<>>, code, 0)
<1>1. \A k \in DOMAIN code : code[k] \in PlainCode
  BY ElementOfSeq
<1>2. code \in Seq(Instrs)
  BY <1>1, SeqRetype DEF PlainCode
<1>3. Straight(code) /\ Gentle(code)
  BY <1>1 DEF PlainCode, Straight, Gentle
<1> QED BY <1>2, <1>3, WriteFine

\* The plain instructions of the generator.
LEMMA PlainFacts ==
    ASSUME GenTypeOK, todo # <<>>
    PROVE  /\ \A a \in Args, r \in {"rax", "rdx", NextReg(regset)} : Mov(a, Reg(r)) \in PlainCode
           /\ \A op \in {"add", "sub", "imul"}, a \in Args :
                 Cmd(op, a, Reg(NextReg(regset))) \in PlainCode
           /\ \A a \in Args, r \in Registers : Mov(a, Mem(r, 0)) \in PlainCode
           /\ \A op \in {"push", "idivq"}, a \in Args : Cmd(op, a, NoArg) \in PlainCode
           /\ \A a \in Args : Cmd("pop", NoArg, a) \in PlainCode
           /\ \A name \in Names : Call(name) \in PlainCode
<1>1. NextReg(regset) \in Registers /\ {"rax", "rdx"} \subseteq Registers
  BY CallFacts, RegisterFacts DEF Registers
<1>2. \A r \in {"rax", "rdx", NextReg(regset)} : Reg(r) \in Args
  BY <1>1, ArgTypes
<1>3. \A a \in Args, r \in {"rax", "rdx", NextReg(regset)} : Mov(a, Reg(r)) \in PlainCode
  <2>1. \A a \in Args, r \in {"rax", "rdx", NextReg(regset)} : Mov(a, Reg(r)) \in Instrs
    BY <1>2, InstrTypes
  <2> QED BY <2>1 DEF PlainCode, IsLabel, Mov, Cmd, Instr, Jumps, Reg, Arg
<1>4. \A op \in {"add", "sub", "imul"}, a \in Args : Cmd(op, a, Reg(NextReg(regset))) \in PlainCode
  <2>1. \A op \in {"add", "sub", "imul"}, a \in Args :
          Cmd(op, a, Reg(NextReg(regset))) \in Instrs
    BY <1>2, InstrTypes DEF Opcodes
  <2> QED BY <2>1 DEF PlainCode, IsLabel, Cmd, Instr, Jumps, Reg, Arg
<1>5. \A a \in Args, r \in Registers : Mov(a, Mem(r, 0)) \in PlainCode
  <2>1. \A a \in Args, r \in Registers : Mov(a, Mem(r, 0)) \in Instrs
    BY ArgTypes, InstrTypes
  <2> QED BY <2>1 DEF PlainCode, IsLabel, Mov, Cmd, Instr, Jumps, Mem, Arg
<1>6. \A op \in {"push", "idivq"}, a \in Args : Cmd(op, a, NoArg) \in PlainCode
  <2>1. \A op \in {"push", "idivq"}, a \in Args : Cmd(op, a, NoArg) \in Instrs
    BY ArgTypes, InstrTypes DEF Opcodes
  <2> QED BY <2>1 DEF PlainCode, IsLabel, Cmd, Instr, Jumps, NoArg, Arg
<1>7. \A a \in Args : Cmd("pop", NoArg, a) \in PlainCode
  <2>1. \A a \in Args : Cmd("pop", NoArg, a) \in Instrs
    BY ArgTypes, InstrTypes DEF Opcodes
  <2> QED BY <2>1 DEF PlainCode, IsLabel, Cmd, Instr, Jumps
<1>8. \A name \in Names : Call(name) \in PlainCode
  <2>1. \A name \in Names : Call(name) \in Instrs
    BY InstrTypes
  <2> QED BY <2>1 DEF PlainCode, IsLabel, Call, Instr, Jumps, NoArg, Arg
<1> QED BY <1>3, <1>4, <1>5, <1>6, <1>7, <1>8

\* The expressions and operations that print without labels.
LEMMA PlainActionsFine ==
    ASSUME GenTypeOK, GenIntLit \/ GenVarRef \/ GenFuncCall \/ GenArith \/ GenAssign
    PROVE  \E tasks, code, n : Fine(tasks, code, n)
<1>1. /\ genStatus = "generating" /\ todo # <<>> /\ Head(todo).do # "emit"
      /\ WellFormed(prog) /\ node \in DOMAIN prog /\ regset \in RegSets
      /\ prog[node] \in Node
  BY CallFacts DEF GenIntLit, GenVarRef, GenFuncCall, GenArith, GenAssign, AtExprTask, AtOp, At
<1> SUFFICES \E code \in Seq(PlainCode) : Write(code)
  BY <1>1, PlainFine
<1>2. /\ NextReg(regset) \in Registers
      /\ "rax" \in Registers /\ "rdx" \in Registers /\ "rsp" \in Registers
  BY <1>1, RegisterFacts DEF Registers
<1>3. CASE GenIntLit
  <2>1. prog[node].ival \in Int
    BY <1>1 DEF Node
  <2>2. Mov(Lit(prog[node].ival), Reg(NextReg(regset))) \in PlainCode
    BY <1>1, <2>1, ArgTypes, PlainFacts
  <2>3. <<Mov(Lit(prog[node].ival), Reg(NextReg(regset)))>> \in Seq(PlainCode)
    BY <2>2
  <2> QED BY <1>3, <2>3 DEF GenIntLit
<1>4. CASE GenVarRef
  <2> DEFINE dst == NextReg(regset)
             offset == -slot[symbolOf[node]]
             i1 == Mov(Lit(offset), Reg(dst))
             i2 == Cmd("add", Reg("rsp"), Reg(dst))
             i3 == Mov(Mem("rsp", offset), Reg(dst))
  <2>1. offset \in Int
    <3>1. symbolOf[node] \in Addr /\ slot \in [Addr -> Nat]
      BY <1>1, <1>4 DEF GenVarRef, GenTypeOK
    <3> QED BY <3>1
  <2>2. Write(IF Assigned(node) THEN <<i1, i2>> ELSE <<i3>>)
    BY <1>4 DEF GenVarRef
  <2>3. i1 \in PlainCode /\ i2 \in PlainCode /\ i3 \in PlainCode
    <3> HIDE DEF offset
    <3>1. Lit(offset) \in Args /\ Reg("rsp") \in Args /\ Mem("rsp", offset) \in Args
      BY <1>2, <2>1, ArgTypes
    <3> QED BY <1>1, <3>1, PlainFacts
  <2> HIDE DEF i1, i2, i3
  <2>4. <<i1, i2>> \in Seq(PlainCode) /\ <<i3>> \in Seq(PlainCode)
    BY <2>3
  <2> QED BY <2>2, <2>4
<1>5. CASE GenFuncCall
  <2> DEFINE c1 == SaveRegisters
             c2 == <<Call(prog[node].name)>>
             c3 == LoadRegisters
             c4 == <<Mov(Reg("rax"), Reg(NextReg(regset)))>>
  <2>1. /\ register_count \in Nat
        /\ \A i \in 1 .. register_count : /\ register_count + 1 - i \in 1 .. register_count
                                          /\ Reg(RegisterNames[i]) \in Args
    <3>1. register_count \in Nat /\ DOMAIN RegisterNames = 1 .. register_count
      BY RegisterAssumption DEF register_count
    <3>2. \A i \in 1 .. register_count : Reg(RegisterNames[i]) \in Args
      BY <3>1, ArgTypes DEF Registers
    <3> QED BY <3>1, <3>2
  <2>2. c1 \in Seq(PlainCode)
    <3>1. \A i \in 1 .. register_count : Cmd("push", Reg(RegisterNames[i]), NoArg) \in PlainCode
      BY <1>1, <2>1, PlainFacts
    <3>2. c1 \in [1 .. register_count -> PlainCode]
      BY <3>1 DEF SaveRegisters
    <3> QED BY <2>1, <3>2
  <2>3. c3 \in Seq(PlainCode)
    <3>1. \A i \in 1 .. register_count :
            Cmd("pop", NoArg, Reg(RegisterNames[register_count + 1 - i])) \in PlainCode
      BY <1>1, <2>1, PlainFacts
    <3>2. c3 \in [1 .. register_count -> PlainCode]
      BY <3>1 DEF LoadRegisters
    <3> QED BY <2>1, <3>2
  <2>4. c2 \in Seq(PlainCode)
    <3>1. prog[node].name \in Names
      BY <1>1, <1>5, ChildFacts DEF GenFuncCall, AtExprTask
    <3>2. Call(prog[node].name) \in PlainCode
      BY <1>1, <3>1, PlainFacts
    <3> QED BY <3>2
  <2>5. c4 \in Seq(PlainCode)
    <3>1. Mov(Reg("rax"), Reg(NextReg(regset))) \in PlainCode
      BY <1>1, <1>2, ArgTypes, PlainFacts
    <3> QED BY <3>1
  <2>6. Write(c1 \o c2 \o c3 \o c4)
    BY <1>5 DEF GenFuncCall
  <2> HIDE DEF c1, c2, c3, c4
  <2>7. c1 \o c2 \o c3 \o c4 \in Seq(PlainCode)
    BY <2>2, <2>3, <2>4, <2>5, ConcatProperties
  <2> QED BY <2>6, <2>7
<1>6. ASSUME At("op")
      PROVE  /\ left_reg = NextReg(regset) /\ right_reg \in Registers
             /\ left_reg \in Registers
  BY <1>1, <1>2, <1>6, CallFacts, RegisterFacts DEF At, left_reg, right_reg
<1>7. CASE GenArith
  <2>1. /\ left_reg = NextReg(regset) /\ right_reg \in Registers /\ left_reg \in Registers
        /\ prog[node].op \in ArithOps /\ Write(Arith(prog[node].op, right_reg, left_reg))
    BY <1>6, <1>7 DEF GenArith, AtOp
  <2>2. \A op \in {"add", "sub", "imul"} : Cmd(op, Reg(right_reg), Reg(left_reg)) \in PlainCode
    BY <1>1, <2>1, ArgTypes, PlainFacts
  <2>3. /\ Mov(Lit(0), Reg("rdx")) \in PlainCode /\ Cmd("idivq", Reg(right_reg), NoArg) \in PlainCode
        /\ Mov(Reg(left_reg), Reg("rax")) \in PlainCode
        /\ Mov(Reg("rax"), Reg(left_reg)) \in PlainCode
    BY <1>1, <1>2, <2>1, ArgTypes, PlainFacts
  <2>4. Idiv(right_reg, left_reg) \in Seq(PlainCode) /\ <<Mov(Lit(0), Reg("rdx"))>> \in Seq(PlainCode)
    BY <2>3 DEF Idiv
  <2>5. <<Mov(Lit(0), Reg("rdx"))>> \o Idiv(right_reg, left_reg) \in Seq(PlainCode)
    BY <2>4, ConcatProperties
  <2>6. Arith(prog[node].op, right_reg, left_reg) \in Seq(PlainCode)
    <3>1. CASE prog[node].op = "ADD"
      <4>1. Arith("ADD", right_reg, left_reg) = <<Cmd("add", Reg(right_reg), Reg(left_reg))>>
        BY DEF Arith
      <4>2. Cmd("add", Reg(right_reg), Reg(left_reg)) \in PlainCode
        BY <2>2
      <4>3. <<Cmd("add", Reg(right_reg), Reg(left_reg))>> \in Seq(PlainCode)
        BY <4>2
      <4> QED BY <3>1, <4>1, <4>3
    <3>2. CASE prog[node].op = "SUBS"
      <4>1. Arith("SUBS", right_reg, left_reg) = <<Cmd("sub", Reg(right_reg), Reg(left_reg))>>
        BY DEF Arith
      <4>2. Cmd("sub", Reg(right_reg), Reg(left_reg)) \in PlainCode
        BY <2>2
      <4>3. <<Cmd("sub", Reg(right_reg), Reg(left_reg))>> \in Seq(PlainCode)
        BY <4>2
      <4> QED BY <3>2, <4>1, <4>3
    <3>3. CASE prog[node].op = "MUL"
      <4>1. Arith("MUL", right_reg, left_reg) = <<Cmd("imul", Reg(right_reg), Reg(left_reg))>>
        BY DEF Arith
      <4>2. Cmd("imul", Reg(right_reg), Reg(left_reg)) \in PlainCode
        BY <2>2
      <4>3. <<Cmd("imul", Reg(right_reg), Reg(left_reg))>> \in Seq(PlainCode)
        BY <4>2
      <4> QED BY <3>3, <4>1, <4>3
    <3>4. CASE prog[node].op = "DIV"
      <4>1. Arith("DIV", right_reg, left_reg)
              = <<Mov(Lit(0), Reg("rdx"))>> \o Idiv(right_reg, left_reg)
        BY DEF Arith
      <4> QED BY <2>5, <3>4, <4>1
    <3> QED BY <2>1, <3>1, <3>2, <3>3, <3>4 DEF ArithOps
  <2> QED BY <2>1, <2>6
<1>8. CASE GenAssign
  <2>1. /\ right_reg \in Registers /\ left_reg \in Registers
        /\ Write(<<Mov(Reg(right_reg), Mem(left_reg, 0))>>)
    BY <1>6, <1>8 DEF GenAssign, AtOp
  <2>2. Mov(Reg(right_reg), Mem(left_reg, 0)) \in PlainCode
    BY <1>1, <2>1, ArgTypes, PlainFacts
  <2>3. <<Mov(Reg(right_reg), Mem(left_reg, 0))>> \in Seq(PlainCode)
    BY <2>2
  <2> QED BY <2>1, <2>3
<1> QED BY <1>3, <1>4, <1>5, <1>7, <1>8

\* The operands of an operation: the left one keeps off the registers that wait,
\* and the right one keeps off the register of the left one as well.
LEMMA OperandsFine ==
    ASSUME GenTypeOK, GenBinop \/ GenRight
    PROVE  \E tasks, code, n : Fine(tasks, code, n)
<1>1. /\ genStatus = "generating" /\ todo # <<>> /\ Head(todo).do # "emit"
      /\ WellFormed(prog) /\ node \in DOMAIN prog /\ regset \in RegSets
      /\ Type(node) = "BIN_OP"
  BY CallFacts DEF GenBinop, GenRight, AtExprTask, At
<1>2. \A i \in 1 .. 2 : i = 1 \/ i = 2
  OBVIOUS
<1>3. CASE GenBinop
  <2> DEFINE tasks == <<ExprTask(Kid(node, 1), regset), Pending("right", node, regset)>>
  <2>1. /\ ExprTask(Kid(node, 1), regset) \in GenTasks
        /\ Pending("right", node, regset) \in GenTasks
    BY <1>1, ChildFacts, TaskTypes
  <2>2. tasks \in Seq(GenTasks) /\ DOMAIN tasks = 1 .. 2
    BY <2>1
  <2>3. \A i \in 1 .. 2 : /\ tasks[i].do \in {"expr", "right"} /\ tasks[i].regset = regset
                          /\ tasks[i].code = <<>>
    BY <1>2 DEF ExprTask, Pending
  <2>4. Continue(tasks)
    BY <1>3 DEF GenBinop
  <2> HIDE DEF tasks
  <2>5. Silent(tasks) /\ Ordered(tasks)
    BY <2>2, <2>3, EmptyStraight DEF Silent, Ordered, Operands
  <2>6. Fine(tasks, <<>>, 0)
    BY <1>1, <2>2, <2>4, <2>5, ContinueFine
  <2> QED BY <2>6
<1>4. CASE GenRight
  <2> DEFINE tasks == <<ExprTask(Kid(node, 2), ConsumeReg(regset)), Pending("op", node, regset)>>
  <2>1. ConsumeReg(regset) # {} /\ ConsumeReg(regset) \in RegSets
    BY <1>1, <1>4, RegisterFacts DEF GenRight
  <2>2. /\ ExprTask(Kid(node, 2), ConsumeReg(regset)) \in GenTasks
        /\ Pending("op", node, regset) \in GenTasks
    BY <1>1, <2>1, ChildFacts, TaskTypes
  <2>3. tasks \in Seq(GenTasks) /\ DOMAIN tasks = 1 .. 2
    BY <2>2
  <2>4. /\ tasks[1].do = "expr" /\ tasks[1].regset = ConsumeReg(regset) /\ tasks[1].code = <<>>
        /\ tasks[2].do = "op" /\ tasks[2].regset = regset /\ tasks[2].code = <<>>
    BY DEF ExprTask, Pending
  <2>5. Continue(tasks)
    BY <1>4 DEF GenRight
  <2> HIDE DEF tasks
  <2>6. ConsumeReg(regset) \subseteq regset /\ Min(regset) \notin ConsumeReg(regset)
    BY DEF ConsumeReg
  <2>7. Silent(tasks)
    BY <1>2, <2>3, <2>4, EmptyStraight DEF Silent
  <2>8. ASSUME NEW j \in DOMAIN tasks, tasks[j].do = "op", NEW i \in 1 .. j - 1
        PROVE  tasks[i].do \in Operands /\ Min(tasks[j].regset) \notin tasks[i].regset
    <3>1. j = 2 /\ i = 1
      BY <2>3, <2>4, <2>8
    <3> QED BY <2>4, <2>6, <3>1 DEF Operands
  <2>9. \A i \in DOMAIN tasks : tasks[i].do \in Operands /\ tasks[i].regset \subseteq regset
    BY <1>2, <2>3, <2>4, <2>6 DEF Operands
  <2>10. Ordered(tasks)
    BY <2>8, <2>9 DEF Ordered
  <2>11. Fine(tasks, <<>>, 0)
    BY <1>1, <2>3, <2>5, <2>7, <2>10, ContinueFine
  <2> QED BY <2>11
<1> QED BY <1>3, <1>4

\* A comparison takes a label, which it places and jumps to.
LEMMA CompareFine ==
    ASSUME GenTypeOK, GenCompare
    PROVE  Fine(<<>>, Comparison, 1)
<1>1. /\ genStatus = "generating" /\ todo # <<>> /\ Head(todo).do = "op"
      /\ prog[node].op \in CompareOps /\ WellFormed(prog) /\ regset \in RegSets
      /\ Head(todo).code = <<>>
  BY CallFacts, TaskParts DEF GenCompare, AtOp, At
<1> DEFINE c1 == Cmd("cmp", Reg(right_reg), Reg(left_reg))
           c2 == Mov(Lit(1), Reg(left_reg))
           c3 == Jump(JumpOf[prog[node].op], next_label)
           c4 == Mov(Lit(0), Reg(left_reg))
           c5 == Label(next_label)
<1>2. left_reg = NextReg(regset) /\ right_reg \in Registers /\ left_reg \in Registers
  BY <1>1, CallFacts, RegisterFacts DEF left_reg, right_reg
<1>3. JumpOf[prog[node].op] \in {"je", "jg", "jge", "jl", "jle"} /\ next_label \in Nat
  BY <1>1 DEF JumpOf, CompareOps, GenTypeOK
<1>4. c1 \in Instrs /\ c2 \in Instrs /\ c3 \in Instrs /\ c4 \in Instrs /\ c5 \in Instrs
  <2>1. /\ Lit(0) \in Args /\ Lit(1) \in Args
        /\ Reg(left_reg) \in Args /\ Reg(right_reg) \in Args
    BY <1>2, ArgTypes
  <2>2. "cmp" \in Opcodes /\ JumpOf[prog[node].op] \in Jumps
    BY <1>3 DEF Opcodes, Jumps
  <2> QED BY <1>3, <2>1, <2>2, InstrTypes
<1>5. /\ ~IsLabel(c1) /\ c1.op \notin Jumps /\ c1.dst = Reg(left_reg)
      /\ ~IsLabel(c2) /\ c2.op \notin Jumps /\ c2.dst = Reg(left_reg)
      /\ ~IsLabel(c3) /\ c3.lab = next_label /\ c3.dst = NoArg
      /\ ~IsLabel(c4) /\ c4.op \notin Jumps /\ c4.dst = Reg(left_reg)
      /\ IsLabel(c5) /\ c5.op \notin Jumps /\ c5.lab = next_label /\ c5.dst = NoArg
  BY <1>3 DEF IsLabel, Cmd, Mov, Jump, Label, Instr, Jumps
<1>6. Comparison = <<c1, c2, c3, c4, c5>>
  BY DEF Comparison
<1> HIDE DEF c1, c2, c3, c4, c5
<1>7. /\ Comparison \in Seq(Instrs) /\ DOMAIN Comparison = 1 .. 5
      /\ Comparison[1] = c1 /\ Comparison[2] = c2 /\ Comparison[3] = c3
      /\ Comparison[4] = c4 /\ Comparison[5] = c5
  BY <1>4, <1>6
<1>8. \A k \in 1 .. 5 : k = 1 \/ k = 2 \/ k = 3 \/ k = 4 \/ k = 5
  OBVIOUS
<1>9. DOMAIN <<>> = {} /\ <<>> \in Seq(GenTasks)
  OBVIOUS
<1>10. Moves(<<>>, Comparison, 1)
  <2>1. /\ todo' = <<>> \o Tail(todo) /\ out' = out \o Comparison
        /\ next_label' = next_label + 1
        /\ UNCHANGED <<prog, symbolOf, slot, next_stack_offset, genStatus>>
    BY DEF GenCompare, Output, Do
  <2> QED BY <1>1, <1>7, <1>9, <2>1 DEF Moves, GenTypeOK
<1>11. \A k \in DOMAIN Comparison :
          /\ IsLabel(Comparison[k]) <=> k = 5
          /\ Comparison[k].op \in Jumps => Comparison[k].lab = next_label
          /\ Comparison[k].dst \in {Reg(left_reg), NoArg}
  BY <1>5, <1>7, <1>8
<1>12. Gentle(Comparison)
  <2>1. /\ Reg(left_reg).reg = left_reg /\ NoArg.type # "REG_ARG"
    BY DEF Reg, NoArg, Arg
  <2>2. \A k \in DOMAIN Comparison : \/ Comparison[k].dst.type # "REG_ARG"
                                     \/ Comparison[k].dst.reg = NextReg(regset)
    BY <1>2, <1>11, <2>1
  <2> QED BY <2>2 DEF Gentle
<1>13. Labelled(<<>>, Comparison, 1)
  BY <1>3, <1>5, <1>7, <1>9, <1>11 DEF Labelled
<1>14. Aimed(<<>>, Comparison)
  BY <1>5, <1>7, <1>9, <1>11 DEF Aimed, NewLabel
<1>15. Ordered(<<>>)
  BY <1>9 DEF Ordered
<1> QED BY <1>1, <1>9, <1>10, <1>12, <1>13, <1>14, <1>15 DEF Fine

\* A call that makes other calls and takes n labels for them.
LEMMA BranchFine ==
    ASSUME GenTypeOK, genStatus = "generating", todo # <<>>, Head(todo).do = "stat",
           NEW tasks, tasks \in Seq(GenTasks), NEW n \in Nat,
           Do(tasks), next_label' = next_label + n,
           UNCHANGED <<prog, symbolOf, slot, out, next_stack_offset, genStatus>>,
           \A i \in DOMAIN tasks : tasks[i].do # "op",
           Labelled(tasks, <<>>, n), Aimed(tasks, <<>>)
    PROVE  Fine(tasks, <<>>, n)
<1>1. DOMAIN <<>> = {} /\ <<>> \in Seq(Instrs) /\ "stat" \notin Operands
  BY DEF Operands
<1>2. out' = out \o <<>>
  BY ConcatEmptySeq DEF GenTypeOK
<1>3. Moves(tasks, <<>>, n)
  BY <1>1, <1>2 DEF Moves, Do, GenTypeOK
<1>4. Ordered(tasks) /\ Gentle(<<>>)
  BY <1>1 DEF Ordered, Gentle
<1>5. Head(todo).code = <<>>
  BY CallFacts, TaskParts
<1> QED BY <1>3, <1>4, <1>5 DEF Fine

\* The test of a condition.
LEMMA TestFacts ==
    ASSUME NEW r \in RegSets, NEW jump \in {"je", "jne"}, NEW l \in Nat
    PROVE  /\ Test(r, jump, l) \in GenTasks /\ Test(r, jump, l).do = "emit"
           /\ \A k \in DOMAIN Test(r, jump, l).code :
                 /\ ~IsLabel(Test(r, jump, l).code[k])
                 /\ Test(r, jump, l).code[k].op \in Jumps =>
                       Test(r, jump, l).code[k].lab = l
<1> DEFINE c1 == Cmd("cmp", Lit(0), Reg(NextReg(r)))
           c2 == Jump(jump, l)
<1>1. c1 \in Instrs /\ c2 \in Instrs
  <2>1. Lit(0) \in Args /\ Reg(NextReg(r)) \in Args
    BY RegisterFacts, ArgTypes
  <2>2. "cmp" \in Opcodes /\ jump \in Jumps
    BY DEF Opcodes, Jumps
  <2> QED BY <2>1, <2>2, InstrTypes
<1>2. ~IsLabel(c1) /\ c1.op \notin Jumps /\ ~IsLabel(c2) /\ c2.lab = l
  BY DEF IsLabel, Cmd, Jump, Instr, Jumps
<1>3. Test(r, jump, l) = Emit(<<c1, c2>>)
  BY DEF Test
<1> HIDE DEF c1, c2
<1>4. <<c1, c2>> \in Seq(Instrs)
  BY <1>1
<1>5. Test(r, jump, l) \in GenTasks
  BY <1>3, <1>4, EmitTypes
<1>6. Test(r, jump, l).code = <<c1, c2>> /\ Test(r, jump, l).do = "emit"
  BY <1>3 DEF Emit
<1>7. \A k \in DOMAIN <<c1, c2>> : k = 1 \/ k = 2
  OBVIOUS
<1> QED BY <1>2, <1>5, <1>6, <1>7

\* A condition takes a label, which stands between its branches.
LEMMA IfFine ==
    ASSUME GenTypeOK, GenIf
    PROVE  Fine(Branches, <<>>, 1)
<1> DEFINE t1   == ExprTask(Kid(node, 1), regset)
           t2   == Test(regset, "je", next_label)
           t3   == StatTask(Kid(node, 2), regset)
           t4   == Emit(<<Label(next_label)>>)
           last == [i \in 1 .. Len(Kids(node)) - 2 |-> StatTask(Kid(node, i + 2), regset)]
<1>1. /\ genStatus = "generating" /\ todo # <<>> /\ Head(todo).do = "stat"
      /\ WellFormed(prog) /\ node \in DOMAIN prog /\ regset \in RegSets
      /\ Type(node) = "IF_STAT" /\ next_label \in Nat
  BY CallFacts DEF GenIf, AtStatTask, At, GenTypeOK
<1>2. /\ Len(Kids(node)) \in {2, 3} /\ IsExpr(prog, Kid(node, 1))
      /\ \A i \in 2 .. Len(Kids(node)) : IsStat(prog, Kid(node, i)) /\ Kid(node, i) \in DOMAIN prog
      /\ Kid(node, 1) \in DOMAIN prog
  BY <1>1, ChildFacts
<1>3. t1 \in GenTasks /\ t2 \in GenTasks /\ t3 \in GenTasks /\ t4 \in GenTasks
  <2>1. t1 \in GenTasks /\ t3 \in GenTasks
    BY <1>1, <1>2, TaskTypes
  <2>2. t2 \in GenTasks
    BY <1>1, TestFacts
  <2>3. <<Label(next_label)>> \in Seq(Instrs)
    BY <1>1, InstrTypes
  <2> QED BY <2>1, <2>2, <2>3, EmitTypes
<1>4. /\ last \in Seq(GenTasks)
      /\ \A i \in DOMAIN last : last[i].do = "stat" /\ last[i].code = <<>>
  <2>1. \A i \in 1 .. Len(Kids(node)) - 2 : StatTask(Kid(node, i + 2), regset) \in GenTasks
    BY <1>1, <1>2, TaskTypes
  <2>2. Len(Kids(node)) - 2 \in Nat
    BY <1>2
  <2>3. last \in [1 .. Len(Kids(node)) - 2 -> GenTasks]
    BY <2>1
  <2>4. \A m \in Nat : [1 .. m -> GenTasks] \subseteq Seq(GenTasks)
    OBVIOUS
  <2>5. last \in Seq(GenTasks)
    BY <2>2, <2>3, <2>4, Zenon
  <2> QED BY <2>5 DEF StatTask, Pending
<1>5. /\ t1.do = "expr" /\ t1.code = <<>> /\ t3.do = "stat" /\ t3.code = <<>>
      /\ t4.do = "emit" /\ t4.code = <<Label(next_label)>>
  BY DEF ExprTask, StatTask, Pending, Emit
<1>6. /\ t2.do = "emit"
      /\ \A k \in DOMAIN t2.code : /\ ~IsLabel(t2.code[k])
                                   /\ t2.code[k].op \in Jumps => t2.code[k].lab = next_label
  BY <1>1, TestFacts
<1>7. /\ DOMAIN t4.code = {1} /\ IsLabel(t4.code[1]) /\ t4.code[1].lab = next_label
      /\ t4.code[1].op \notin Jumps
  BY <1>5 DEF IsLabel, Label, Instr, Jumps
<1>8. Branches = <<t1, t2, t3, t4>> \o last
  BY DEF Branches
<1> HIDE DEF t1, t2, t3, t4, last
<1> DEFINE four == <<t1, t2, t3, t4>>
<1>9. /\ four \in Seq(GenTasks) /\ DOMAIN four = 1 .. 4
      /\ four[1] = t1 /\ four[2] = t2 /\ four[3] = t3 /\ four[4] = t4
  BY <1>3
<1> HIDE DEF four
<1>10. /\ Branches \in Seq(GenTasks)
       /\ \A i \in DOMAIN Branches :
             \/ i \in DOMAIN four /\ Branches[i] = four[i]
             \/ i \notin DOMAIN four /\ \E j \in DOMAIN last : Branches[i] = last[j]
       /\ \A i \in DOMAIN four : i \in DOMAIN Branches /\ Branches[i] = four[i]
  BY <1>4, <1>8, <1>9, ConcatPlaces DEF four
<1>11. \A i \in DOMAIN Branches :
         \/ i = 1 /\ Branches[i] = t1
         \/ i = 2 /\ Branches[i] = t2
         \/ i = 3 /\ Branches[i] = t3
         \/ i = 4 /\ Branches[i] = t4
         \/ \E j \in DOMAIN last : Branches[i] = last[j]
  <2>1. \A i \in 1 .. 4 : i = 1 \/ i = 2 \/ i = 3 \/ i = 4
    OBVIOUS
  <2> QED BY <1>9, <1>10, <2>1
<1>12. DOMAIN <<>> = {}
  OBVIOUS
<1>13. \A i \in DOMAIN Branches :
         /\ Branches[i].do # "op"
         /\ \A k \in DOMAIN Branches[i].code :
               /\ IsLabel(Branches[i].code[k]) =>
                     i = 4 /\ k = 1 /\ Branches[i].code[k].lab = next_label
               /\ Branches[i].code[k].op \in Jumps => Branches[i].code[k].lab = next_label
  BY <1>4, <1>5, <1>6, <1>7, <1>11, <1>12
<1>14. Labelled(Branches, <<>>, 1)
  BY <1>1, <1>12, <1>13 DEF Labelled
<1>15. Aimed(Branches, <<>>)
  <2>1. 4 \in DOMAIN Branches /\ Branches[4] = t4
    BY <1>9, <1>10
  <2>2. NewLabel(Branches, <<>>, next_label)
    BY <1>7, <2>1 DEF NewLabel
  <2> QED BY <1>12, <1>13, <2>2 DEF Aimed
<1>16. /\ Do(Branches) /\ next_label' = next_label + 1
       /\ UNCHANGED <<prog, symbolOf, slot, out, next_stack_offset, genStatus>>
  BY DEF GenIf
<1> QED BY <1>1, <1>10, <1>13, <1>14, <1>15, <1>16, BranchFine

\* The calls and instructions of a loop.
LoopTasks(first, again, cond) ==
    first \o <<Emit(<<Jump("jmp", next_label), Label(next_label + 1)>>)>> \o again
    \o <<Emit(<<Label(next_label)>>), ExprTask(cond, regset),
         Test(regset, "jne", next_label + 1)>>

\* Where a and b stand: once each, among first, again, c and d.
StandOnce(u, first, again, a, b, c, d) ==
    \E i, j \in DOMAIN u :
        /\ i # j /\ u[i] = a /\ u[j] = b
        /\ \A k \in DOMAIN u \ {i, j} :
              \/ u[k] = c \/ u[k] = d
              \/ \E l \in DOMAIN first : u[k] = first[l]
              \/ \E l \in DOMAIN again : u[k] = again[l]

\* In a loop the calls that place its two labels do.
LEMMA LoopPlaces ==
    ASSUME NEW S, NEW first \in Seq(S), NEW again \in Seq(S),
           NEW a \in S, NEW b \in S, NEW c \in S, NEW d \in S, NEW u
    PROVE  u = first \o <<a>> \o again \o <<b, c, d>> =>
             u \in Seq(S) /\ StandOnce(u, first, again, a, b, c, d)
<1> DEFINE one == <<a>>
           end == <<b, c, d>>
           Other(k) == \/ u[k] = c \/ u[k] = d
                       \/ \E l \in DOMAIN first : u[k] = first[l]
                       \/ \E l \in DOMAIN again : u[k] = again[l]
<1>0. one \in Seq(S) /\ end \in Seq(S)
  OBVIOUS
<1>1. /\ DOMAIN one = {1} /\ one[1] = a
      /\ DOMAIN end = 1 .. 3 /\ end[1] = b /\ end[2] = c /\ end[3] = d
  OBVIOUS
<1>2. ASSUME u = first \o <<a>> \o again \o <<b, c, d>>
      PROVE  u \in Seq(S) /\ StandOnce(u, first, again, a, b, c, d)
  <2>1. PICK v, w : v = first \o one /\ w = v \o again /\ u = w \o end
    BY <1>2
  <2> HIDE DEF one, end, Other
  <2>2. v = first \o one
    BY <2>1
  <2>3. w = v \o again
    BY <2>1
  <2>4. u = w \o end
    BY <2>1
  <2>5. /\ v \in Seq(S) /\ Len(first) \in Nat /\ DOMAIN v = 1 .. Len(v)
        /\ \A k \in DOMAIN v :
              \/ k \in DOMAIN first /\ v[k] = first[k]
              \/ k - Len(first) \in DOMAIN one /\ v[k] = one[k - Len(first)]
        /\ \A k \in DOMAIN one : k + Len(first) \in DOMAIN v /\ v[k + Len(first)] = one[k]
    BY <1>0, <2>2, ConcatPlaces
  <2>6. /\ w \in Seq(S) /\ Len(v) \in Nat
        /\ \A k \in DOMAIN w :
              \/ k \in DOMAIN v /\ w[k] = v[k]
              \/ k - Len(v) \in DOMAIN again /\ w[k] = again[k - Len(v)]
        /\ \A k \in DOMAIN v : k \in DOMAIN w /\ w[k] = v[k]
    BY <2>3, <2>5, ConcatPlaces
  <2>7. /\ u \in Seq(S) /\ Len(w) \in Nat
        /\ DOMAIN u = 1 .. Len(u) /\ DOMAIN w = 1 .. Len(w)
        /\ \A k \in DOMAIN u :
              \/ k \in DOMAIN w /\ u[k] = w[k]
              \/ k - Len(w) \in DOMAIN end /\ u[k] = end[k - Len(w)]
        /\ \A k \in DOMAIN w : k \in DOMAIN u /\ u[k] = w[k]
        /\ \A k \in DOMAIN end : k + Len(w) \in DOMAIN u /\ u[k + Len(w)] = end[k]
    BY <1>0, <2>4, <2>6, ConcatPlaces
  <2>8. PICK i \in DOMAIN v :
          /\ v[i] = a
          /\ \A k \in DOMAIN v : k # i => \E l \in DOMAIN first : v[k] = first[l]
    <3>1. 1 + Len(first) \in DOMAIN v /\ v[1 + Len(first)] = a
      BY <1>1, <2>5
    <3>2. \A k \in DOMAIN v : k - Len(first) \in DOMAIN one => k = 1 + Len(first)
      BY <1>1, <2>5
    <3> QED BY <2>5, <3>1, <3>2
  <2>9. PICK j \in DOMAIN u : j = 1 + Len(w) /\ u[j] = b /\ j \notin DOMAIN w
    <3>1. 1 + Len(w) \in DOMAIN u /\ u[1 + Len(w)] = b
      BY <1>1, <2>7
    <3> QED BY <2>7, <3>1
  <2>10. ASSUME NEW k \in DOMAIN u, k # i, k # j
         PROVE  Other(k)
    <3>1. CASE k \in DOMAIN w /\ u[k] = w[k]
      <4>1. \/ k \in DOMAIN v /\ w[k] = v[k]
            \/ \E l \in DOMAIN again : w[k] = again[l]
        BY <2>6, <3>1
      <4> QED BY <2>8, <2>10, <3>1, <4>1 DEF Other
    <3>2. CASE k - Len(w) \in DOMAIN end /\ u[k] = end[k - Len(w)]
      <4>1. k - Len(w) = 2 \/ k - Len(w) = 3
        BY <1>1, <2>7, <2>9, <2>10, <3>2
      <4> QED BY <1>1, <3>2, <4>1 DEF Other
    <3> QED BY <2>7, <3>1, <3>2
  <2>11. i \in DOMAIN u /\ u[i] = a /\ i # j
    BY <2>6, <2>7, <2>8, <2>9
  <2>12. \A k \in DOMAIN u \ {i, j} : Other(k)
    BY <2>10
  <2> QED BY <2>7, <2>9, <2>11, <2>12 DEF StandOnce, Other
<1> QED BY <1>2

\* A loop takes two labels, one for its condition and one for its body.
LEMMA LoopFine ==
    ASSUME GenTypeOK, genStatus = "generating", todo # <<>>, Head(todo).do = "stat",
           NEW first \in Seq(GenTasks), NEW again \in Seq(GenTasks),
           NEW cond \in DOMAIN prog, IsExpr(prog, cond), Loop(first, again, cond),
           \A i \in DOMAIN first : first[i].do # "op" /\ first[i].code = <<>>,
           \A i \in DOMAIN again : again[i].do # "op" /\ again[i].code = <<>>
    PROVE  Fine(LoopTasks(first, again, cond), <<>>, 2)
<1> DEFINE ca == <<Jump("jmp", next_label), Label(next_label + 1)>>
           cb == <<Label(next_label)>>
           a == Emit(ca)
           b == Emit(cb)
           c == ExprTask(cond, regset)
           d == Test(regset, "jne", next_label + 1)
           tasks == LoopTasks(first, again, cond)
<1>1. next_label \in Nat /\ next_label + 1 \in Nat /\ regset \in RegSets
  BY CallFacts DEF GenTypeOK
<1>2. ca \in Seq(Instrs) /\ cb \in Seq(Instrs)
  <2>1. /\ Jump("jmp", next_label) \in Instrs
        /\ Label(next_label) \in Instrs /\ Label(next_label + 1) \in Instrs
    BY <1>1, InstrTypes DEF Jumps
  <2> QED BY <2>1
<1>3. a \in GenTasks /\ b \in GenTasks /\ c \in GenTasks /\ d \in GenTasks
  BY <1>1, <1>2, EmitTypes, TaskTypes, TestFacts
<1>4. /\ a.do = "emit" /\ a.code = ca /\ b.do = "emit" /\ b.code = cb
      /\ c.do = "expr" /\ c.code = <<>>
  BY DEF Emit, ExprTask, Pending
<1>5. /\ DOMAIN ca = {1, 2} /\ ~IsLabel(ca[1]) /\ ca[1].lab = next_label
      /\ IsLabel(ca[2]) /\ ca[2].op \notin Jumps /\ ca[2].lab = next_label + 1
      /\ DOMAIN cb = {1} /\ IsLabel(cb[1]) /\ cb[1].op \notin Jumps /\ cb[1].lab = next_label
  BY DEF IsLabel, Jump, Label, Instr, Jumps
<1>6. /\ d.do = "emit"
      /\ \A k \in DOMAIN d.code :
            /\ ~IsLabel(d.code[k])
            /\ d.code[k].op \in Jumps => d.code[k].lab = next_label + 1
  BY <1>1, TestFacts
<1>7. tasks = first \o <<a>> \o again \o <<b, c, d>>
  BY DEF LoopTasks
<1> HIDE DEF ca, cb, a, b, c, d, tasks
<1>8. tasks \in Seq(GenTasks) /\ StandOnce(tasks, first, again, a, b, c, d)
  <2> HIDE DEF GenTasks
  <2> QED BY <1>3, <1>7, LoopPlaces
<1>9. PICK p \in DOMAIN tasks, q \in DOMAIN tasks :
        /\ p # q /\ tasks[p] = a /\ tasks[q] = b
        /\ \A k \in DOMAIN tasks \ {p, q} :
              \/ tasks[k] = c \/ tasks[k] = d
              \/ \E l \in DOMAIN first : tasks[k] = first[l]
              \/ \E l \in DOMAIN again : tasks[k] = again[l]
  BY <1>8 DEF StandOnce
<1>10. DOMAIN <<>> = {}
  OBVIOUS
<1>11. \A i \in DOMAIN tasks :
         /\ tasks[i].do # "op"
         /\ \A k \in DOMAIN tasks[i].code :
               /\ IsLabel(tasks[i].code[k]) =>
                     \/ i = p /\ k = 2 /\ tasks[i].code[k].lab = next_label + 1
                     \/ i = q /\ k = 1 /\ tasks[i].code[k].lab = next_label
               /\ tasks[i].code[k].op \in Jumps =>
                     tasks[i].code[k].lab \in {next_label, next_label + 1}
  BY <1>4, <1>5, <1>6, <1>9, <1>10
<1>12. Labelled(tasks, <<>>, 2)
  BY <1>1, <1>10, <1>11 DEF Labelled
<1>13. Aimed(tasks, <<>>)
  <2>1. NewLabel(tasks, <<>>, next_label) /\ NewLabel(tasks, <<>>, next_label + 1)
    BY <1>4, <1>5, <1>9 DEF NewLabel
  <2> QED BY <1>10, <1>11, <2>1 DEF Aimed
<1>14. /\ Do(tasks) /\ next_label' = next_label + 2
       /\ UNCHANGED <<prog, symbolOf, slot, out, next_stack_offset, genStatus>>
  BY DEF Loop, LoopTasks, tasks
<1>15. Fine(tasks, <<>>, 2)
  BY <1>8, <1>11, <1>12, <1>13, <1>14, BranchFine
<1> QED BY <1>15 DEF tasks

\* Both kinds of loop.
LEMMA LoopsFine ==
    ASSUME GenTypeOK, GenWhile \/ GenFor
    PROVE  \E tasks, code, n : Fine(tasks, code, n)
<1>1. /\ genStatus = "generating" /\ todo # <<>> /\ Head(todo).do = "stat"
      /\ WellFormed(prog) /\ node \in DOMAIN prog /\ regset \in RegSets
  BY CallFacts DEF GenWhile, GenFor, AtStatTask, At
<1>2. CASE GenWhile
  <2> DEFINE s == StatTask(Kid(node, 2), regset)
  <2>1. Type(node) = "WHILE_STAT" /\ Loop(<<>>, <<s>>, Kid(node, 1))
    BY <1>2 DEF GenWhile, AtStatTask
  <2>2. s \in GenTasks /\ Kid(node, 1) \in DOMAIN prog /\ IsExpr(prog, Kid(node, 1))
    BY <1>1, <2>1, ChildFacts, TaskTypes
  <2>3. s.do = "stat" /\ s.code = <<>>
    BY DEF StatTask, Pending
  <2> HIDE DEF s
  <2>4. /\ <<s>> \in Seq(GenTasks) /\ \A i \in DOMAIN <<s>> : <<s>>[i] = s
        /\ <<>> \in Seq(GenTasks) /\ DOMAIN <<>> = {}
    BY <2>2
  <2>5. Fine(LoopTasks(<<>>, <<s>>, Kid(node, 1)), <<>>, 2)
    BY <1>1, <2>1, <2>2, <2>3, <2>4, LoopFine
  <2> QED BY <2>5
<1>3. CASE GenFor
  <2> DEFINE e == ExprTask(Kid(node, 1), regset)
             s == StatTask(Kid(node, 4), regset)
             t == ExprTask(Kid(node, 3), regset)
  <2>1. Type(node) = "FOR_STAT" /\ Loop(<<e>>, <<s, t>>, Kid(node, 2))
    BY <1>3 DEF GenFor, AtStatTask
  <2>2. /\ e \in GenTasks /\ s \in GenTasks /\ t \in GenTasks
        /\ Kid(node, 2) \in DOMAIN prog /\ IsExpr(prog, Kid(node, 2))
    <3>1. /\ \A i \in 1 .. 4 : Kid(node, i) \in DOMAIN prog
          /\ \A i \in 1 .. 3 : IsExpr(prog, Kid(node, i))
          /\ IsStat(prog, Kid(node, 4))
      BY <1>1, <2>1, ChildFacts
    <3>2. /\ Kid(node, 1) \in DOMAIN prog /\ Kid(node, 2) \in DOMAIN prog
          /\ Kid(node, 3) \in DOMAIN prog /\ Kid(node, 4) \in DOMAIN prog
          /\ IsExpr(prog, Kid(node, 1)) /\ IsExpr(prog, Kid(node, 2))
          /\ IsExpr(prog, Kid(node, 3))
      BY <3>1
    <3> QED BY <1>1, <3>1, <3>2, TaskTypes
  <2>3. /\ e.do = "expr" /\ e.code = <<>> /\ s.do = "stat" /\ s.code = <<>>
        /\ t.do = "expr" /\ t.code = <<>>
    BY DEF ExprTask, StatTask, Pending
  <2> HIDE DEF e, s, t
  <2>4. /\ <<e>> \in Seq(GenTasks) /\ \A i \in DOMAIN <<e>> : <<e>>[i] = e
        /\ <<s, t>> \in Seq(GenTasks) /\ \A i \in DOMAIN <<s, t>> : <<s, t>>[i] \in {s, t}
    BY <2>2
  <2>5. Fine(LoopTasks(<<e>>, <<s, t>>, Kid(node, 2)), <<>>, 2)
    BY <1>1, <2>1, <2>2, <2>3, <2>4, LoopFine
  <2> QED BY <2>5
<1> QED BY <1>2, <1>3

-----------------------------------------------------------------------------
(* The inductive invariant. *)

GenInv ==
    /\ GenTypeOK /\ RegisterDiscipline /\ LabelInv /\ JumpInv
    /\ genStatus = "done" => todo = <<>>

\* Nothing that a step prints writes a register that waits: LeftKept as a predicate.
LeftKeptStep ==
    \A k \in Len(out) + 1 .. Len(out') : \A i \in DOMAIN todo' :
        todo'[i].do = "op" =>
           out'[k].op = "pop" \/ out'[k].dst # Reg(NextReg(todo'[i].regset))

\* The invariant holds at the start.
LEMMA InvInit ==
    ASSUME WellFormed(prog), symbolOf \in [DOMAIN prog -> Addr \cup {NULL}], GenInit
    PROVE  GenInv
<1> DEFINE t == StatTask(1, initial_regset)
<1>1. DOMAIN <<>> = {} /\ <<>> \in Seq(Instrs)
  OBVIOUS
<1>2. WellFormed(prog) /\ symbolOf \in [DOMAIN prog -> Addr \cup {NULL}]
  OBVIOUS
<1>3. t \in GenTasks
  <2>1. 1 \in DOMAIN prog /\ IsStat(prog, 1)
    BY <1>2 DEF WellFormed, IsStat, StatTypes
  <2> QED BY <2>1, RegisterFacts, TaskTypes
<1>4. t.do = "stat" /\ t.code = <<>>
  BY DEF StatTask, Pending
<1>5. /\ todo = <<t>> /\ out = <<>> /\ slot \in [Addr -> Nat]
      /\ next_label = 0 /\ next_stack_offset = 8 /\ genStatus = "generating"
  BY DEF GenInit
<1> HIDE DEF t
<1>6. todo \in Seq(GenTasks) /\ DOMAIN todo = {1} /\ todo[1] = t
  BY <1>3, <1>5
<1>7. GenTypeOK
  BY <1>1, <1>2, <1>5, <1>6 DEF GenTypeOK
<1>8. RegisterDiscipline
  BY <1>4, <1>6 DEF RegisterDiscipline
<1>9. DOMAIN out = {} /\ \A i, k : ~AwaitingPrint(i, k)
  BY <1>1, <1>4, <1>5, <1>6 DEF AwaitingPrint
<1>10. LabelInv /\ JumpInv
  BY <1>9 DEF LabelInv, LabelsUnique, JumpInv
<1> QED BY <1>5, <1>7, <1>8, <1>10 DEF GenInv

\* A fine step keeps it and disturbs no register that waits.
LEMMA FineKeepsInv ==
    ASSUME GenInv, NEW tasks, NEW code, NEW n, Fine(tasks, code, n)
    PROVE  GenInv' /\ LeftKeptStep
<1>1. /\ GenTypeOK /\ RegisterDiscipline /\ LabelInv /\ JumpInv
      /\ Moves(tasks, code, n) /\ Head(todo).code = <<>> /\ Ordered(tasks) /\ Gentle(code)
      /\ code # <<>> => \A i \in DOMAIN tasks : tasks[i].do # "op"
      /\ Labelled(tasks, code, n) /\ Aimed(tasks, code)
  BY DEF GenInv, Fine
<1>2. GenTypeOK'
  BY <1>1, MovesKeepsTypes
<1>3. RegisterDiscipline'
  BY <1>1, OrderedKeepsDiscipline
<1>4. LabelInv'
  BY <1>1, LabelledKeepsLabels
<1>5. JumpInv'
  BY <1>1, AimedKeepsJumps
<1>6. genStatus' = "generating"
  BY <1>1 DEF Moves
<1>7. LeftKeptStep
  BY <1>1, GentleKeepsLeft DEF LeftKeptStep
<1> QED BY <1>2, <1>3, <1>4, <1>5, <1>6, <1>7 DEF GenInv

\* So does printing what was about to be printed: nothing waits on its right.
LEMMA EmitKeepsInv ==
    ASSUME GenInv, GenEmit
    PROVE  GenInv' /\ LeftKeptStep
<1> DEFINE code == Head(todo).code
<1>1. /\ GenTypeOK /\ RegisterDiscipline /\ LabelInv /\ JumpInv
      /\ genStatus = "generating" /\ todo # <<>> /\ Head(todo).do = "emit" /\ Write(code)
  BY DEF GenInv, GenEmit, At
<1>2. code \in Seq(Instrs)
  BY <1>1, CallFacts
<1> HIDE DEF code
<1>3. DOMAIN <<>> = {} /\ <<>> \in Seq(GenTasks) /\ next_label = next_label + 0
  BY <1>1 DEF GenTypeOK
<1>4. Moves(<<>>, code, 0)
  BY <1>1, <1>2, <1>3 DEF Moves, Write, Output, Do, GenTypeOK
<1>5. Ordered(<<>>) /\ Gentle(code)
  BY <1>1, <1>3 DEF Ordered, Gentle, Operands
<1>6. GenTypeOK'
  BY <1>1, <1>4, MovesKeepsTypes
<1>7. RegisterDiscipline'
  BY <1>1, <1>4, <1>5, OrderedKeepsDiscipline
<1>8. LabelInv'
  BY <1>1, <1>4, EmitKeepsLabels DEF code
<1>9. JumpInv'
  BY <1>1, <1>4, AimedKeepsJumps DEF code
<1>10. LeftKeptStep
  BY <1>1, <1>3, <1>4, <1>5, GentleKeepsLeft DEF LeftKeptStep
<1>11. genStatus' = "generating"
  BY <1>4 DEF Moves
<1> QED BY <1>6, <1>7, <1>8, <1>9, <1>10, <1>11 DEF GenInv

\* The text after the program has neither labels nor jumps.
LEMMA GenFinishKeepsInv ==
    ASSUME GenInv, GenFinish
    PROVE  GenInv' /\ LeftKeptStep
<1>1. /\ todo = <<>> /\ out' = out \o Epilogue /\ genStatus' = "done"
      /\ UNCHANGED <<prog, symbolOf, slot, todo, next_label, next_stack_offset>>
      /\ GenTypeOK /\ LabelInv /\ JumpInv
  BY DEF GenInv, GenFinish
<1>2. DOMAIN todo = {} /\ DOMAIN todo' = {}
  <2>1. DOMAIN <<>> = {}
    OBVIOUS
  <2> QED BY <1>1, <2>1
<1>3. Straight(Epilogue)
  BY DEF Straight, Epilogue, IsLabel, Instr, Call, Ret, Cmd, Jumps
<1>4. /\ out' \in Seq(Instrs)
      /\ \A a \in DOMAIN out' : \/ a \in DOMAIN out /\ out'[a] = out[a]
                                \/ \E k \in DOMAIN Epilogue : out'[a] = Epilogue[k]
      /\ \A a \in DOMAIN out : a \in DOMAIN out' /\ out'[a] = out[a]
  <2>1. out \in Seq(Instrs) /\ Epilogue \in Seq(Instrs) /\ out' = out \o Epilogue
    BY <1>1, InstrTypes DEF GenTypeOK
  <2>2. /\ out' \in Seq(Instrs)
        /\ \A a \in DOMAIN out' :
              \/ a \in DOMAIN out /\ out'[a] = out[a]
              \/ a - Len(out) \in DOMAIN Epilogue /\ out'[a] = Epilogue[a - Len(out)]
        /\ \A a \in DOMAIN out : a \in DOMAIN out' /\ out'[a] = out[a]
    BY <2>1, ConcatPlaces
  <2> QED BY <2>2
<1>5. \A a \in DOMAIN out' : IsLabel(out'[a]) \/ out'[a].op \in Jumps =>
        a \in DOMAIN out /\ out'[a] = out[a]
  BY <1>3, <1>4 DEF Straight
<1>6. GenTypeOK'
  <2>1. GenTasks' = GenTasks
    BY <1>1 DEF GenTasks, Type
  <2> QED BY <1>1, <1>4, <2>1 DEF GenTypeOK
<1>7. RegisterDiscipline' /\ LeftKeptStep
  BY <1>2 DEF RegisterDiscipline, LeftKeptStep
<1>8. \A i, k : ~AwaitingPrint(i, k) /\ ~AwaitingPrint(i, k)'
  BY <1>2 DEF AwaitingPrint
<1>9. LabelInv'
  <2>1. LabelsUnique'
    BY <1>1, <1>5 DEF LabelInv, LabelsUnique, IsLabel
  <2>2. \A a \in DOMAIN out' : IsLabel(out'[a]) => out'[a].lab \in 0 .. next_label' - 1
    BY <1>1, <1>5 DEF LabelInv
  <2> QED BY <1>8, <2>1, <2>2 DEF LabelInv, IsLabel
<1>10. JumpInv'
  <2>1. ASSUME NEW a \in DOMAIN out', out'[a].op \in Jumps
        PROVE  \E b \in DOMAIN out' : IsLabel(out'[b]) /\ out'[b].lab = out'[a].lab
    <3>1. a \in DOMAIN out /\ out'[a] = out[a]
      BY <1>5, <2>1
    <3>2. HasLabel(out[a].lab)
      BY <1>1, <2>1, <3>1 DEF JumpInv
    <3>3. PICK b \in DOMAIN out : IsLabel(out[b]) /\ out[b].lab = out[a].lab
      BY <1>8, <3>2 DEF HasLabel
    <3> QED BY <1>4, <3>1, <3>3
  <2> QED BY <1>8, <2>1 DEF JumpInv, HasLabel, IsLabel
<1> QED BY <1>1, <1>6, <1>7, <1>9, <1>10 DEF GenInv

\* Stopping, and having stopped, print nothing.
LEMMA GenStopKeepsInv ==
    ASSUME GenInv, OutOfRegisters \/ NoSymbol \/ GenStopped \/ UNCHANGED genVars
    PROVE  GenInv' /\ LeftKeptStep
<1>1. /\ UNCHANGED <<prog, symbolOf, slot, todo, out, next_label, next_stack_offset>>
      /\ genStatus' = genStatus \/ genStatus' = "aborted"
      /\ GenTypeOK /\ RegisterDiscipline /\ LabelInv /\ JumpInv
  BY DEF GenInv, OutOfRegisters, NoSymbol, GenStopped, genVars
<1>2. GenTypeOK'
  <2>1. GenTasks' = GenTasks
    BY <1>1 DEF GenTasks, Type
  <2> QED BY <1>1, <2>1 DEF GenTypeOK
<1>3. RegisterDiscipline'
  BY <1>1 DEF RegisterDiscipline
<1>4. LabelInv'
  BY <1>1 DEF LabelInv, LabelsUnique, IsLabel, AwaitingPrint
<1>5. JumpInv'
  BY <1>1 DEF JumpInv, HasLabel, IsLabel, AwaitingPrint
<1>6. LeftKeptStep
  <2>1. Len(out) \in Nat /\ Len(out') = Len(out)
    BY <1>1 DEF GenTypeOK
  <2> QED BY <2>1 DEF LeftKeptStep
<1>7. genStatus' = "done" => todo' = <<>>
  BY <1>1 DEF GenInv
<1> QED BY <1>2, <1>3, <1>4, <1>5, <1>6, <1>7 DEF GenInv

\* Every step keeps the invariant.
LEMMA InvNext == GenInv /\ [GenNext]_genVars => GenInv' /\ LeftKeptStep
<1> SUFFICES ASSUME GenInv, [GenNext]_genVars
             PROVE  GenInv' /\ LeftKeptStep
  OBVIOUS
<1>0. GenTypeOK
  BY DEF GenInv
<1>1. CASE GenReturn
  BY <1>0, <1>1, ReturnFine, FineKeepsInv
<1>2. CASE GenIf
  BY <1>0, <1>2, IfFine, FineKeepsInv
<1>3. CASE GenWhile \/ GenFor
  BY <1>0, <1>3, LoopsFine, FineKeepsInv
<1>4. CASE GenBlock \/ GenFunc \/ GenVar \/ GenExprStat \/ GenSkip
  BY <1>0, <1>4, StatementsFine, FineKeepsInv
<1>5. CASE GenIntLit \/ GenVarRef \/ GenFuncCall \/ GenArith \/ GenAssign
  BY <1>0, <1>5, PlainActionsFine, FineKeepsInv
<1>6. CASE GenBinop \/ GenRight
  BY <1>0, <1>6, OperandsFine, FineKeepsInv
<1>7. CASE GenCompare
  BY <1>0, <1>7, CompareFine, FineKeepsInv
<1>8. CASE GenEmit
  BY <1>8, EmitKeepsInv
<1>9. CASE GenFinish
  BY <1>9, GenFinishKeepsInv
<1>10. CASE OutOfRegisters \/ NoSymbol \/ GenStopped \/ UNCHANGED genVars
  BY <1>10, GenStopKeepsInv
<1> QED BY <1>1, <1>2, <1>3, <1>4, <1>5, <1>6, <1>7, <1>8, <1>9, <1>10 DEF GenNext, Generate

\* The invariant holds in every run of the generator.
LEMMA InvAlways == GenSpec => []GenInv
<1>1. GenStart => GenInv
  BY InvInit, ProgramsAssumption, LinksAssumption DEF GenStart
<1> QED BY <1>1, InvNext, PTL DEF GenSpec

-----------------------------------------------------------------------------
(* The theorems. *)

\* Every pending call has a node of its kind and a register for its result, and
\* what is printed is made of the instructions and registers there are.
THEOREM TypesHold == GenSpec => []GenTypeOK
<1>1. GenInv => GenTypeOK
  BY DEF GenInv
<1> QED BY <1>1, InvAlways, PTL

\* The calls before an operation keep off the register of its left operand.
THEOREM DisciplineHolds == GenSpec => []RegisterDiscipline
<1>1. GenInv => RegisterDiscipline
  BY DEF GenInv
<1> QED BY <1>1, InvAlways, PTL

\* So nothing that is printed for a right operand overwrites the left one,
\* however many registers there are and however deep the expression is.
THEOREM LeftOperandsKept == GenSpec => LeftKept
<1>1. GenInv /\ [GenNext]_genVars => [LeftKeptStep]_genVars
  BY InvNext
<1>2. [][LeftKeptStep]_genVars => LeftKept
  BY PTL DEF LeftKept, LeftKeptStep
<1> QED BY <1>1, <1>2, InvAlways, PTL DEF GenSpec

\* No label is placed twice, in any program.
THEOREM LabelsPlacedOnce == GenSpec => []LabelsUnique
<1>1. GenInv => LabelsUnique
  BY DEF GenInv, LabelInv
<1> QED BY <1>1, InvAlways, PTL

\* Every jump of a finished program has its label.
THEOREM JumpsHaveLabels == GenSpec => []JumpsResolve
<1>1. GenInv => JumpsResolve
  <2> SUFFICES ASSUME GenInv, genStatus = "done", NEW i \in DOMAIN out, out[i].op \in Jumps
               PROVE  \E j \in DOMAIN out : out[j].op = "label" /\ out[j].lab = out[i].lab
    BY DEF JumpsResolve
  <2>1. DOMAIN todo = {}
    <3>1. DOMAIN <<>> = {}
      OBVIOUS
    <3> QED BY <3>1 DEF GenInv
  <2>2. HasLabel(out[i].lab)
    BY DEF GenInv, JumpInv
  <2> QED BY <2>1, <2>2 DEF HasLabel, AwaitingPrint, IsLabel
<1> QED BY <1>1, InvAlways, PTL

-----------------------------------------------------------------------------
(* The number of registers an expression takes. *)

\* The equation that Need is defined by has a solution.
LEMMA NeedExists ==
    ASSUME NEW p, WellFormed(p)
    PROVE  \E need : need = [n \in DOMAIN p |->
              IF p[n].type = "BIN_OP" THEN Max({need[p[n].kids[1]], 1 + need[p[n].kids[2]]})
                                      ELSE 1]
<1> DEFINE N == Len(p)
           Of(need, n) == IF p[n].type = "BIN_OP"
                          THEN Max({need[p[n].kids[1]], 1 + need[p[n].kids[2]]}) ELSE 1
           Solves(need, k) == /\ need = [n \in 1 .. N |-> need[n]]
                              /\ \A n \in k .. N : need[n] = Of(need, n)
           S == {k \in 1 .. N + 1 : \E need : Solves(need, k)}
<1>1. N \in Nat \ {0} /\ DOMAIN p = 1 .. N
  BY TreeFacts
<1>2. N + 1 \in S
  <2>1. Solves([n \in 1 .. N |-> 0], N + 1)
    BY <1>1
  <2> QED BY <1>1, <2>1
<1>3. ASSUME NEW k \in 1 .. N, k + 1 \in S
      PROVE  k \in S
  <2>1. PICK need : Solves(need, k + 1)
    BY <1>3
  <2> DEFINE next == [n \in 1 .. N |-> IF n = k THEN Of(need, k) ELSE need[n]]
  <2>2. /\ next = [n \in 1 .. N |-> next[n]] /\ next[k] = Of(need, k)
        /\ \A n \in k + 1 .. N : next[n] = need[n]
    <3> HIDE DEF Of
    <3> QED BY <1>1, <2>1
  <2>3. ASSUME NEW n \in k .. N
        PROVE  Of(next, n) = Of(need, n)
    <3>1. n \in DOMAIN p /\ n >= k
      BY <1>1
    <3>2. CASE p[n].type = "BIN_OP"
      <4>1. /\ 1 \in DOMAIN p[n].kids /\ 2 \in DOMAIN p[n].kids
        <5>1. Len(p[n].kids) = 2
          BY <3>1, <3>2 DEF WellFormed, ShapeOK
        <5> QED BY <3>1, <5>1, TreeFacts
      <4>2. p[n].kids[1] \in k + 1 .. N /\ p[n].kids[2] \in k + 1 .. N
        <5>1. PICK a \in 1 .. N, b \in 1 .. N :
                a = p[n].kids[1] /\ a > n /\ b = p[n].kids[2] /\ b > n
          BY <1>1, <3>1, <4>1, TreeFacts
        <5> QED BY <1>1, <3>1, <5>1
      <4>3. next[p[n].kids[1]] = need[p[n].kids[1]] /\ next[p[n].kids[2]] = need[p[n].kids[2]]
        <5> HIDE DEF next, N
        <5> QED BY <2>2, <4>2
      <4> HIDE DEF next, N
      <4> QED BY <3>2, <4>3
    <3> QED BY <3>2
  <2>4. \A n \in k .. N : next[n] = Of(next, n)
    <3>1. ASSUME NEW n \in k .. N
          PROVE  next[n] = Of(need, n)
      <4>1. n = k \/ n \in k + 1 .. N
        BY <1>1
      <4> HIDE DEF next, Of
      <4> QED BY <2>1, <2>2, <4>1
    <3> HIDE DEF next, Of
    <3> QED BY <2>3, <3>1
  <2>5. Solves(next, k)
    <3> HIDE DEF next, Of
    <3> QED BY <2>2, <2>4
  <2>6. k \in 1 .. N + 1
    BY <1>1
  <2> HIDE DEF next, Solves
  <2> QED BY <2>5, <2>6
<1>4. 1 \in S
  <2>1. 1 .. N + 1 \subseteq S
    <3>1. \A k \in 1 .. N + 1 : k + 1 \in 1 .. N + 1 /\ k + 1 \in S => k \in S
      <4> HIDE DEF S
      <4> QED BY <1>1, <1>3
    <3>2. N + 1 \in Nat
      BY <1>1
    <3> HIDE DEF S
    <3> QED BY <1>2, <3>1, <3>2, Downward
  <2>2. 1 \in 1 .. N + 1
    BY <1>1
  <2> HIDE DEF S
  <2> QED BY <2>1, <2>2
<1>5. PICK need : Solves(need, 1)
  BY <1>4
<1>6. need = [n \in DOMAIN p |-> Of(need, n)]
  <2> HIDE DEF Of
  <2> QED BY <1>1, <1>5
<1> QED BY <1>6

\* So Need solves it.
LEMMA NeedDef ==
    ASSUME NEW p, WellFormed(p), NEW n \in DOMAIN p
    PROVE  Need(p)[n] = IF p[n].type = "BIN_OP"
                        THEN Max({Need(p)[p[n].kids[1]], 1 + Need(p)[p[n].kids[2]]}) ELSE 1
<1> DEFINE Is(need) == need = [m \in DOMAIN p |->
              IF p[m].type = "BIN_OP" THEN Max({need[p[m].kids[1]], 1 + need[p[m].kids[2]]})
                                      ELSE 1]
<1>1. \E need : Is(need)
  BY NeedExists
<1>2. Need(p) = CHOOSE need : Is(need)
  BY DEF Need
<1>3. Is(Need(p))
  <2> HIDE DEF Is
  <2> QED BY <1>1, <1>2
<1> QED BY <1>3

\* The larger one of two numbers.
LEMMA MaxOfTwo ==
    ASSUME NEW i \in Nat \ {0}, NEW j \in Nat \ {0}
    PROVE  Max({i, j}) \in {i, j} /\ Max({i, j}) >= i /\ Max({i, j}) >= j
<1>1. {i, j} \in SUBSET (1 .. i + j) /\ {i, j} # {} /\ i + j \in Nat
  OBVIOUS
<1> QED BY <1>1, MaxProperties

\* The operands of an operation.
LEMMA BinopKids ==
    ASSUME NEW p, WellFormed(p), NEW n \in DOMAIN p, p[n].type = "BIN_OP"
    PROVE  /\ DOMAIN p[n].kids = 1 .. 2
           /\ \A i \in 1 .. 2 : p[n].kids[i] \in DOMAIN p /\ p[n].kids[i] > n
                                /\ IsExpr(p, p[n].kids[i])
<1>1. Len(p[n].kids) = 2 /\ IsExpr(p, p[n].kids[1]) /\ IsExpr(p, p[n].kids[2])
  BY DEF WellFormed, ShapeOK
<1>2. DOMAIN p[n].kids = 1 .. 2
  BY <1>1, TreeFacts
<1>3. \A i \in 1 .. 2 : i = 1 \/ i = 2
  OBVIOUS
<1> QED BY <1>1, <1>2, <1>3, TreeFacts

\* Every node takes a register at least.
LEMMA NeedBounds ==
    ASSUME NEW p, WellFormed(p)
    PROVE  \A n \in DOMAIN p : Need(p)[n] \in Nat \ {0}
<1> DEFINE N == Len(p)
           S == {k \in 1 .. N : \A n \in k .. N : Need(p)[n] \in Nat \ {0}}
<1>1. N \in Nat \ {0} /\ DOMAIN p = 1 .. N
  BY TreeFacts
<1>2. ASSUME NEW n \in 1 .. N, \A m \in n + 1 .. N : Need(p)[m] \in Nat \ {0}
      PROVE  Need(p)[n] \in Nat \ {0}
  <2>1. CASE p[n].type = "BIN_OP"
    <3>1. PICK a \in 1 .. N, b \in 1 .. N :
            a = p[n].kids[1] /\ a > n /\ b = p[n].kids[2] /\ b > n
      <4>1. 1 \in 1 .. 2 /\ 2 \in 1 .. 2
        OBVIOUS
      <4> QED BY <1>1, <2>1, <4>1, BinopKids
    <3>2. a \in n + 1 .. N /\ b \in n + 1 .. N
      BY <1>1, <3>1
    <3>3. Need(p)[a] \in Nat \ {0} /\ Need(p)[b] \in Nat \ {0}
      BY <1>2, <3>2
    <3>4. 1 + Need(p)[b] \in Nat \ {0}
      BY <3>3
    <3>5. Need(p)[n] = Max({Need(p)[a], 1 + Need(p)[b]})
      BY <1>1, <2>1, <3>1, NeedDef
    <3> QED BY <3>3, <3>4, <3>5, MaxOfTwo
  <2>2. CASE p[n].type # "BIN_OP"
    <3>1. Need(p)[n] = 1
      BY <1>1, <2>2, NeedDef
    <3> QED BY <3>1
  <2> QED BY <2>1, <2>2
<1>3. N \in S
  <2>1. \A m \in N + 1 .. N : FALSE
    BY <1>1
  <2>2. Need(p)[N] \in Nat \ {0}
    BY <1>1, <1>2, <2>1
  <2> HIDE DEF N
  <2>3. \A n \in N .. N : n = N
    BY <1>1
  <2> QED BY <1>1, <2>2, <2>3
<1>4. ASSUME NEW k \in 1 .. N, k + 1 \in 1 .. N, k + 1 \in S
      PROVE  k \in S
  <2>1. Need(p)[k] \in Nat \ {0}
    BY <1>2, <1>4
  <2>2. \A n \in k .. N : n = k \/ n \in k + 1 .. N
    BY <1>1
  <2> HIDE DEF N
  <2> QED BY <1>4, <2>1, <2>2
<1>5. 1 .. N \subseteq S
  <2> HIDE DEF S, N
  <2> QED BY <1>1, <1>3, <1>4, Downward
<1>6. 1 \in S
  <2> HIDE DEF S
  <2> QED BY <1>1, <1>5
<1> QED BY <1>1, <1>6

\* An operation takes what its left operand takes, and one more than its right one.
LEMMA NeedOfBinop ==
    ASSUME NEW p, WellFormed(p), NEW n \in DOMAIN p, p[n].type = "BIN_OP"
    PROVE  /\ Need(p)[n] >= Need(p)[p[n].kids[1]]
           /\ Need(p)[n] >= 1 + Need(p)[p[n].kids[2]]
           /\ Need(p)[n] \in {Need(p)[p[n].kids[1]], 1 + Need(p)[p[n].kids[2]]}
<1>1. PICK a \in DOMAIN p, b \in DOMAIN p : a = p[n].kids[1] /\ b = p[n].kids[2]
  <2>1. 1 \in 1 .. 2 /\ 2 \in 1 .. 2
    OBVIOUS
  <2> QED BY <2>1, BinopKids
<1>2. Need(p)[a] \in Nat \ {0} /\ Need(p)[b] \in Nat \ {0}
  BY NeedBounds
<1>3. 1 + Need(p)[b] \in Nat \ {0}
  BY <1>2
<1>4. Need(p)[n] = Max({Need(p)[a], 1 + Need(p)[b]})
  BY <1>1, NeedDef
<1> QED BY <1>1, <1>2, <1>3, <1>4, MaxOfTwo

\* The numbers of registers in a register set.
LEMMA RegisterCounts ==
    /\ Cardinality(initial_regset) = register_count
    /\ \A r \in RegSets : /\ Cardinality(r) \in 1 .. register_count
                          /\ IsFiniteSet(r)
                          /\ Cardinality(ConsumeReg(r)) = Cardinality(r) - 1
                          /\ ConsumeReg(r) = {} <=> Cardinality(r) = 1
<1>1. register_count \in Nat \ {0}
  BY RegisterFacts
<1>2. /\ IsFiniteSet(initial_regset) /\ Cardinality(initial_regset) = register_count
  BY <1>1, FS_Interval DEF initial_regset
<1>3. ASSUME NEW r \in RegSets
      PROVE  /\ Cardinality(r) \in 1 .. register_count
             /\ IsFiniteSet(r)
             /\ Cardinality(ConsumeReg(r)) = Cardinality(r) - 1
             /\ ConsumeReg(r) = {} <=> Cardinality(r) = 1
  <2>1. r \subseteq initial_regset /\ r # {}
    BY DEF RegSets
  <2>2. IsFiniteSet(r) /\ Cardinality(r) <= register_count
    BY <1>2, <2>1, FS_Subset
  <2>3. Cardinality(r) \in Nat /\ Cardinality(r) # 0
    BY <2>1, <2>2, FS_CardinalityType, FS_EmptySet
  <2>4. Min(r) \in r
    BY RegisterFacts
  <2>5. IsFiniteSet(ConsumeReg(r)) /\ Cardinality(ConsumeReg(r)) = Cardinality(r) - 1
    BY <2>2, <2>4, FS_RemoveElement DEF ConsumeReg
  <2>6. ConsumeReg(r) = {} <=> Cardinality(ConsumeReg(r)) = 0
    BY <2>5, FS_EmptySet
  <2> QED BY <1>1, <2>2, <2>3, <2>5, <2>6
<1> QED BY <1>2, <1>3

-----------------------------------------------------------------------------
(* What the generator comes to, and with how many registers. *)

VarDecl(n) == Type(n) = "DECL_STAT" /\ ~prog[n].is_func

\* An expression in which so many registers are taken where r is left for n.
Deep(n, r) ==
    \E m \in Generated : /\ IsExpr(prog, m)
                         /\ Need(prog)[m] >= Need(prog)[n] + register_count - Cardinality(r)

\* What holds of a pending call: statements get all registers, and the registers
\* that an operand does not get are in use in the expression it is part of.
Good(t) ==
    /\ t.do \in {"stat", "expr", "right"} => t.node \in Generated
    /\ t.do = "stat" => t.regset = initial_regset
    /\ t.do \in {"expr", "right"} => Deep(t.node, t.regset)

GoodCalls == \A i \in DOMAIN todo : Good(todo[i])

\* A list has an element.
In(t, list) == \E i \in DOMAIN list : list[i] = t

\* The call for node n with the registers r has been made or is waiting.
Given(calls, n, r) ==
    \/ <<n, r>> \in calls
    \/ In(StatTask(n, r), todo)
    \/ In(ExprTask(n, r), todo)

\* The symbol that the generator looks at is there.
Linked(n) == Type(n) \in {"DECL_STAT", "VAR_REF"} => symbolOf[n] # NULL

\* What comes of the call for node n.
Follows(calls, n, r) ==
    /\ Linked(n)
    /\ IsStat(prog, n) /\ ~VarDecl(n) =>
          \A i \in DOMAIN Kids(n) : Given(calls, Kid(n, i), initial_regset)
    /\ Type(n) = "BIN_OP" =>
          /\ Given(calls, Kid(n, 1), r)
          /\ \/ In(Pending("right", n, r), todo)
             \/ ConsumeReg(r) # {} /\ Given(calls, Kid(n, 2), ConsumeReg(r))

\* These calls have been made, and all that comes of them has been or waits.
Made(calls) ==
    /\ calls \subseteq (DOMAIN prog) \X RegSets
    /\ Given(calls, 1, initial_regset)
    /\ \A n \in DOMAIN prog : \A r \in RegSets : <<n, r>> \in calls => Follows(calls, n, r)

GivesUpInv ==
    /\ WellFormed(prog) /\ Preorder(prog)
    /\ GoodCalls
    /\ genStatus = "aborted" => TooDeep \/ Unresolved
    /\ genStatus # "aborted" => \E calls : Made(calls)

-----------------------------------------------------------------------------
(* Steps. *)

\* Calls of generate_stat, of generate_expr, and of the rest of a binary operation.
IsCall(t) == t.do \in {"stat", "expr", "right"}

\* A call that comes of the current one is for a child, or for the right operand.
Below(t) ==
    IsCall(t) => /\ IsCall(Head(todo))
                 /\ \/ \E c \in DOMAIN Kids(node) : t.node = Kid(node, c)
                    \/ Head(todo).do = "expr" /\ t.do = "right" /\ t.node = node

\* A call that the current one may make.
Fit(t) == Good(t) /\ Below(t)

\* What is called before a statement stands before it in the program.
Sorted(list) ==
    \A i, j \in DOMAIN list :
        (i < j /\ IsCall(list[i]) /\ list[j].do = "stat") => list[i].node < list[j].node

\* The calls `tasks' are what comes of the current one.
Serves(tasks) ==
    /\ \A i \in DOMAIN tasks : Fit(tasks[i])
    /\ Sorted(tasks)
    /\ Head(todo).do \in {"stat", "expr"} => Linked(node)
    /\ Head(todo).do = "stat" /\ ~VarDecl(node) =>
          \A i \in DOMAIN Kids(node) : \/ In(StatTask(Kid(node, i), regset), tasks)
                                       \/ In(ExprTask(Kid(node, i), regset), tasks)
    /\ Head(todo).do = "expr" /\ Type(node) = "BIN_OP" =>
          /\ In(ExprTask(Kid(node, 1), regset), tasks)
          /\ In(Pending("right", node, regset), tasks)
    /\ Head(todo).do = "right" =>
          /\ ConsumeReg(regset) # {}
          /\ In(ExprTask(Kid(node, 2), ConsumeReg(regset)), tasks)

\* The kinds of calls are different.
LEMMA TaskKinds ==
    ASSUME NEW do, NEW n, NEW r
    PROVE  /\ Pending(do, n, r).do = do /\ Pending(do, n, r).node = n /\ Pending(do, n, r).regset = r
           /\ StatTask(n, r).do = "stat" /\ StatTask(n, r).node = n /\ StatTask(n, r).regset = r
           /\ ExprTask(n, r).do = "expr" /\ ExprTask(n, r).node = n /\ ExprTask(n, r).regset = r
BY DEF Pending, StatTask, ExprTask

\* Such a step leads on.
LEMMA ServesMade ==
    ASSUME GenTypeOK, todo # <<>>, GoodCalls, NEW calls, Made(calls),
           NEW tasks \in Seq(GenTasks), todo' = tasks \o Tail(todo), Serves(tasks),
           UNCHANGED <<prog, symbolOf>>
    PROVE  GoodCalls' /\ \E c : Made(c)'
<1>1. /\ \A i \in DOMAIN todo' : \/ i \in DOMAIN tasks /\ todo'[i] = tasks[i]
                                 \/ /\ i - Len(tasks) + 1 \in DOMAIN todo
                                    /\ todo'[i] = todo[i - Len(tasks) + 1]
      /\ \A i \in DOMAIN tasks : i \in DOMAIN todo' /\ todo'[i] = tasks[i]
      /\ \A i \in DOMAIN todo : i > 1 =>
            i - 1 + Len(tasks) \in DOMAIN todo' /\ todo'[i - 1 + Len(tasks)] = todo[i]
      /\ DOMAIN todo = 1 .. Len(todo) /\ Len(todo) \in Nat /\ Head(todo) = todo[1]
  <2>1. todo \in Seq(GenTasks)
    BY DEF GenTypeOK
  <2> HIDE DEF GenTasks
  <2> QED BY <2>1, ReplaceHead
<1>2. \A t : In(t, todo) => t = Head(todo) \/ In(t, todo')
  <2>1. ASSUME NEW i \in DOMAIN todo
        PROVE  todo[i] = Head(todo) \/ In(todo[i], todo')
    <3>1. i = 1 \/ i > 1
      BY <1>1
    <3> QED BY <1>1, <3>1 DEF In
  <2> QED BY <2>1 DEF In
<1>3. \A t : In(t, tasks) => In(t, todo')
  BY <1>1 DEF In
<1>4. GoodCalls'
  <2>1. \A t : Good(t)' <=> Good(t)
    BY DEF Good, Deep, Generated, Ignored, Type
  <2>2. \A i \in DOMAIN todo' : Good(todo'[i])
    BY <1>1 DEF GoodCalls, Serves, Fit
  <2> QED BY <2>1, <2>2 DEF GoodCalls
<1>5. /\ WellFormed(prog) /\ node \in DOMAIN prog /\ regset \in RegSets
      /\ Head(todo).do = "stat" => IsStat(prog, node)
      /\ Head(todo).do = "expr" => IsExpr(prog, node)
      /\ Head(todo) = Pending(Head(todo).do, node, regset) \/ Head(todo).do = "emit"
  <2>1. Head(todo) = Pending(Head(todo).do, node, regset) \/ Head(todo).do = "emit"
    <3>1. Head(todo) \in GenTasks
      BY CallFacts
    <3> QED BY <3>1 DEF GenTasks, Pending, node, regset
  <2> QED BY <2>1, CallFacts
<1>0. PICK next : next = IF Head(todo).do \in {"stat", "expr"}
                         THEN calls \cup {<<node, regset>>} ELSE calls
  OBVIOUS
<1>6. ASSUME NEW n, NEW r, Given(calls, n, r)
      PROVE  Given(next, n, r)'
  <2>1. CASE <<n, r>> \in calls
    BY <1>0, <2>1 DEF Given
  <2>2. CASE In(StatTask(n, r), todo)
    <3>1. CASE In(StatTask(n, r), todo')
      BY <3>1 DEF Given, StatTask, Pending
    <3>2. CASE StatTask(n, r) = Head(todo)
      <4>1. Head(todo).do = "stat" /\ n = node /\ r = regset
        BY <3>2 DEF node, regset, StatTask, Pending
      <4>2. <<n, r>> \in next
        BY <1>0, <4>1
      <4> QED BY <4>2 DEF Given
    <3> QED BY <1>2, <2>2, <3>1, <3>2
  <2>3. CASE In(ExprTask(n, r), todo)
    <3>1. CASE In(ExprTask(n, r), todo')
      BY <3>1 DEF Given, ExprTask, Pending
    <3>2. CASE ExprTask(n, r) = Head(todo)
      <4>1. Head(todo).do = "expr" /\ n = node /\ r = regset
        BY <3>2 DEF node, regset, ExprTask, Pending
      <4>2. <<n, r>> \in next
        BY <1>0, <4>1
      <4> QED BY <4>2 DEF Given
    <3> QED BY <1>2, <2>3, <3>1, <3>2
  <2> QED BY <1>6, <2>1, <2>2, <2>3 DEF Given
<1>7. ASSUME NEW n, NEW r, In(StatTask(n, r), tasks) \/ In(ExprTask(n, r), tasks)
      PROVE  Given(next, n, r)'
  BY <1>3, <1>7 DEF Given, StatTask, ExprTask, Pending
<1>8. next \subseteq (DOMAIN prog) \X RegSets
  BY <1>0, <1>5 DEF Made
<1>9. Given(next, 1, initial_regset)'
  <2>1. Given(calls, 1, initial_regset)
    BY DEF Made
  <2>2. (initial_regset)' = initial_regset
    BY DEF initial_regset, register_count
  <2> QED BY <1>6, <2>1, <2>2
<1>10. ASSUME NEW n \in DOMAIN prog, NEW r \in RegSets, <<n, r>> \in calls
       PROVE  Follows(next, n, r)'
  <2>1. Follows(calls, n, r)
    BY <1>10 DEF Made
  <2>2. Linked(n)'
    BY <2>1 DEF Follows, Linked, Type
  <2>3. (IsStat(prog, n) /\ ~VarDecl(n) =>
          \A i \in DOMAIN Kids(n) : Given(next, Kid(n, i), initial_regset))'
    <3>1. IsStat(prog, n) /\ ~VarDecl(n) =>
            \A i \in DOMAIN Kids(n) : Given(calls, Kid(n, i), initial_regset)
      BY <2>1 DEF Follows
    <3>2. /\ (IsStat(prog, n) /\ ~VarDecl(n))' <=> IsStat(prog, n) /\ ~VarDecl(n)
          /\ Kids(n)' = Kids(n) /\ \A i : Kid(n, i)' = Kid(n, i)
          /\ (initial_regset)' = initial_regset
      BY DEF VarDecl, Type, Kids, Kid, IsStat, initial_regset, register_count
    <3>3. IsStat(prog, n) /\ ~VarDecl(n) =>
            \A i \in DOMAIN Kids(n) : \A m : m = Kid(n, i) => Given(next, m, initial_regset)'
      BY <1>6, <3>1
    <3> QED BY <3>2, <3>3 DEF Given, StatTask, ExprTask, Pending
  <2>4. (Type(n) = "BIN_OP" =>
          /\ Given(next, Kid(n, 1), r)
          /\ \/ In(Pending("right", n, r), todo)
             \/ ConsumeReg(r) # {} /\ Given(next, Kid(n, 2), ConsumeReg(r)))'
    <3> SUFFICES ASSUME Type(n) = "BIN_OP"
                 PROVE  /\ Given(next, Kid(n, 1), r)'
                        /\ \/ In(Pending("right", n, r), todo')
                           \/ ConsumeReg(r) # {} /\ Given(next, Kid(n, 2), ConsumeReg(r))'
      BY DEF Type, Pending, ConsumeReg
    <3>1. /\ Given(calls, Kid(n, 1), r)
          /\ \/ In(Pending("right", n, r), todo)
             \/ ConsumeReg(r) # {} /\ Given(calls, Kid(n, 2), ConsumeReg(r))
      BY <2>1 DEF Follows
    <3>2. \A m, s : Given(calls, m, s) => Given(next, m, s)'
      BY <1>6
    <3>3. \A i : Kid(n, i)' = Kid(n, i)
      BY DEF Kid
    <3>4. \A m, s : (m = Kid(n, 1) \/ m = Kid(n, 2)) /\ Given(calls, m, s) =>
             /\ m = Kid(n, 1) => Given(next, Kid(n, 1), s)'
             /\ m = Kid(n, 2) => Given(next, Kid(n, 2), s)'
      BY <3>2, <3>3 DEF Given, StatTask, ExprTask, Pending
    <3>5. (ConsumeReg(r))' = ConsumeReg(r)
      BY DEF ConsumeReg
    <3>6. CASE Pending("right", n, r) = Head(todo)
      <4>1. Head(todo).do = "right" /\ node = n /\ regset = r
        BY <3>6, TaskKinds DEF node, regset
      <4>2. ConsumeReg(r) # {} /\ In(ExprTask(Kid(n, 2), ConsumeReg(r)), tasks)
        BY <4>1 DEF Serves
      <4>3. \A m, s : m = Kid(n, 2) /\ s = ConsumeReg(r) => Given(next, m, s)'
        BY <1>7, <4>2
      <4>4. Given(next, Kid(n, 2), ConsumeReg(r))'
        BY <3>3, <3>5, <4>3 DEF Given, StatTask, ExprTask, Pending
      <4> QED BY <3>1, <3>4, <4>2, <4>4
    <3>7. CASE Pending("right", n, r) # Head(todo)
      <4>1. In(Pending("right", n, r), todo) => In(Pending("right", n, r), todo')
        BY <1>2, <3>7
      <4>2. ConsumeReg(r) # {} /\ Given(calls, Kid(n, 2), ConsumeReg(r)) =>
              Given(next, Kid(n, 2), ConsumeReg(r))'
        <5>1. \A s : s = ConsumeReg(r) /\ Given(calls, Kid(n, 2), s) =>
                Given(next, Kid(n, 2), s)'
          BY <3>4
        <5> QED BY <3>5, <5>1 DEF Given, StatTask, ExprTask, Pending
      <4> QED BY <3>1, <3>4, <4>1, <4>2
    <3> QED BY <3>6, <3>7
  <2> QED BY <2>2, <2>3, <2>4 DEF Follows
<1>11. ASSUME Head(todo).do \in {"stat", "expr"}, NEW n, n = node, NEW r, r = regset
       PROVE  Follows(next, n, r)'
  <2>7. Linked(n)
    BY <1>11 DEF Serves
  <2>8. \A m, s : In(StatTask(m, s), tasks) \/ In(ExprTask(m, s), tasks) => Given(next, m, s)'
    BY <1>7
  <2>1. Linked(n)'
    BY <2>7 DEF Linked, Type
  <2>2. /\ Kids(n)' = Kids(n) /\ \A i : Kid(n, i)' = Kid(n, i)
        /\ (initial_regset)' = initial_regset
        /\ (IsStat(prog, n) /\ ~VarDecl(n))' <=> IsStat(prog, n) /\ ~VarDecl(n)
        /\ Type(n)' = Type(n)
    BY DEF VarDecl, Type, Kids, Kid, IsStat, initial_regset, register_count
  <2>3. IsStat(prog, n) /\ ~VarDecl(n) =>
          \A i \in DOMAIN Kids(n) : \A c : c = Kid(n, i) => Given(next, c, initial_regset)'
    <3> SUFFICES ASSUME IsStat(prog, n), ~VarDecl(n), NEW i \in DOMAIN Kids(n)
                 PROVE  \A c : c = Kid(n, i) => Given(next, c, initial_regset)'
      OBVIOUS
    <3>1. Head(todo).do = "stat" /\ r = initial_regset
      <4>1. Head(todo).do = "stat"
        BY <1>5, <1>11 DEF IsStat, IsExpr, StatTypes, ExprTypes
      <4>2. 1 \in DOMAIN todo /\ Good(todo[1])
        <5>1. todo # <<>> /\ todo \in Seq(GenTasks)
          BY DEF GenTypeOK
        <5>2. 1 \in DOMAIN todo
          BY <5>1, EmptySeq
        <5> QED BY <5>2 DEF GoodCalls
      <4> QED BY <1>1, <1>11, <4>1, <4>2 DEF Good, regset
    <3>2. \/ In(StatTask(Kid(n, i), r), tasks)
          \/ In(ExprTask(Kid(n, i), r), tasks)
      BY <1>11, <3>1 DEF Serves
    <3> QED BY <2>8, <3>1, <3>2
  <2>4. Type(n) = "BIN_OP" =>
          /\ \A c : c = Kid(n, 1) => Given(next, c, r)'
          /\ In(Pending("right", n, r), todo')
    <3> SUFFICES ASSUME Type(n) = "BIN_OP"
                 PROVE  /\ \A c : c = Kid(n, 1) => Given(next, c, r)'
                        /\ In(Pending("right", n, r), todo')
      OBVIOUS
    <3>1. Head(todo).do = "expr"
      BY <1>5, <1>11 DEF IsStat, StatTypes, Type
    <3>2. In(ExprTask(Kid(n, 1), r), tasks) /\ In(Pending("right", n, r), tasks)
      BY <1>11, <3>1 DEF Serves
    <3> QED BY <1>3, <2>8, <3>2
  <2>5. (IsStat(prog, n) /\ ~VarDecl(n) =>
          \A i \in DOMAIN Kids(n) : Given(next, Kid(n, i), initial_regset))'
    BY <2>2, <2>3 DEF Given, StatTask, ExprTask, Pending
  <2>6. (Type(n) = "BIN_OP" =>
          /\ Given(next, Kid(n, 1), r)
          /\ \/ In(Pending("right", n, r), todo)
             \/ ConsumeReg(r) # {} /\ Given(next, Kid(n, 2), ConsumeReg(r)))'
    BY <2>2, <2>4 DEF Given, StatTask, ExprTask, Pending
  <2> QED BY <2>1, <2>5, <2>6 DEF Follows
<1>12. Made(next)'
  <2>1. \A n \in DOMAIN prog : \A r \in RegSets : <<n, r>> \in next => Follows(next, n, r)'
    BY <1>0, <1>10, <1>11
  <2>2. (DOMAIN prog)' = DOMAIN prog /\ RegSets' = RegSets
    BY DEF RegSets, initial_regset, register_count
  <2> QED BY <1>8, <1>9, <2>1, <2>2 DEF Made
<1> QED BY <1>4, <1>12

\* A child of a node the generator comes to is one it comes to, but for the initial
\* value of a variable.
LEMMA KidGenerated ==
    ASSUME WellFormed(prog), Preorder(prog), NEW n \in Generated, ~VarDecl(n),
           NEW i \in DOMAIN Kids(n)
    PROVE  Kid(n, i) \in Generated
<1>1. n \in DOMAIN prog /\ ~Ignored(n)
  BY DEF Generated
<1>2. Kid(n, i) \in DOMAIN prog
  BY <1>1, ChildFacts
<1>3. ASSUME NEW d \in DOMAIN prog, VarDecl(d), d < Kid(n, i), Kid(n, i) <= LastOf(prog)[d]
      PROVE  FALSE
  <2>1. d <= n /\ n <= LastOf(prog)[d]
    BY <1>1, <1>3, AboveKid DEF Kid, Kids
  <2>2. d < n
    <3>1. d # n
      BY <1>3
    <3>2. DOMAIN prog = 1 .. Len(prog) /\ Len(prog) \in Nat
      BY TreeFacts
    <3> QED BY <1>1, <2>1, <3>1, <3>2
  <2> QED BY <1>1, <1>3, <2>1, <2>2 DEF Ignored, VarDecl
<1> QED BY <1>2, <1>3 DEF Generated, Ignored, VarDecl

\* The calls for the children of a statement are good ones.
LEMMA GoodKids ==
    ASSUME GenTypeOK, Preorder(prog), GoodCalls, At("stat"), ~VarDecl(node)
    PROVE  /\ regset = initial_regset
           /\ \A i \in DOMAIN Kids(node) :
                 /\ IsStat(prog, Kid(node, i)) => Good(StatTask(Kid(node, i), regset))
                 /\ IsExpr(prog, Kid(node, i)) => Good(ExprTask(Kid(node, i), regset))
<1>1. /\ WellFormed(prog) /\ node \in Generated /\ regset = initial_regset
      /\ 1 \in DOMAIN todo
  <2>1. 1 \in DOMAIN todo /\ Head(todo) = todo[1]
    <3>1. todo # <<>> /\ todo \in Seq(GenTasks)
      BY DEF GenTypeOK, At
    <3> QED BY <3>1, EmptySeq
  <2>2. Good(Head(todo)) /\ Head(todo).do = "stat"
    BY <2>1 DEF GoodCalls, At
  <2> QED BY <2>1, <2>2 DEF Good, node, regset, GenTypeOK
<1>2. ASSUME NEW i \in DOMAIN Kids(node)
      PROVE  /\ IsStat(prog, Kid(node, i)) => Good(StatTask(Kid(node, i), regset))
             /\ IsExpr(prog, Kid(node, i)) => Good(ExprTask(Kid(node, i), regset))
  <2>1. PICK kid \in Generated : kid = Kid(node, i)
    BY <1>1, KidGenerated
  <2>2. IsExpr(prog, kid) => Deep(kid, initial_regset)
    <3>1. Need(prog)[kid] \in Nat
      BY <1>1, <2>1, NeedBounds DEF Generated
    <3>2. register_count \in Nat /\ Cardinality(initial_regset) = register_count
      BY RegisterFacts, RegisterCounts
    <3>3. Need(prog)[kid] >= Need(prog)[kid] + register_count - Cardinality(initial_regset)
      BY <3>1, <3>2
    <3> QED BY <2>1, <3>3 DEF Deep
  <2> QED BY <1>1, <2>1, <2>2, TaskKinds DEF Good
<1> QED BY <1>1, <1>2

\* Code that waits to be printed is no call.
LEMMA EmitFit == \A code : Fit(Emit(code))
BY DEF Fit, Good, Below, IsCall, Emit

\* A list without statements is in order, and so is one with a single element.
LEMMA ShortSorted ==
    ASSUME NEW S, NEW u \in Seq(S),
           (\A j \in DOMAIN u : u[j].do # "stat") \/ \A i, j \in DOMAIN u : i = j
    PROVE  Sorted(u)
<1>1. DOMAIN u = 1 .. Len(u) /\ Len(u) \in Nat
  BY LenProperties
<1> QED BY <1>1 DEF Sorted

\* Two lists in order, one after the other.
LEMMA ConcatSorted ==
    ASSUME NEW S, NEW u \in Seq(S), NEW v \in Seq(S), NEW w, w = u \o v,
           Sorted(u), Sorted(v),
           \A i \in DOMAIN u, j \in DOMAIN v :
              IsCall(u[i]) /\ v[j].do = "stat" => u[i].node < v[j].node
    PROVE  Sorted(w)
<1>1. /\ DOMAIN w = 1 .. Len(w) /\ Len(u) \in Nat /\ Len(w) \in Nat
      /\ DOMAIN u = 1 .. Len(u) /\ DOMAIN v = 1 .. Len(v) /\ Len(v) \in Nat
      /\ \A k \in DOMAIN w :
            \/ k \in DOMAIN u /\ w[k] = u[k]
            \/ k - Len(u) \in DOMAIN v /\ w[k] = v[k - Len(u)]
  <2>1. w \in Seq(S)
    BY ConcatPlaces
  <2> QED BY <2>1, ConcatPlaces, LenProperties
<1>2. ASSUME NEW i \in DOMAIN w, NEW j \in DOMAIN w, i < j, IsCall(w[i]), w[j].do = "stat"
      PROVE  w[i].node < w[j].node
  <2>1. CASE j \in DOMAIN u /\ w[j] = u[j]
    <3>1. i \in DOMAIN u /\ i - Len(u) \notin DOMAIN v
      BY <1>1, <1>2, <2>1
    <3> QED BY <1>1, <1>2, <2>1, <3>1 DEF Sorted
  <2>2. CASE j - Len(u) \in DOMAIN v /\ w[j] = v[j - Len(u)]
    <3>1. CASE i \in DOMAIN u /\ w[i] = u[i]
      BY <1>2, <2>2, <3>1
    <3>2. CASE i - Len(u) \in DOMAIN v /\ w[i] = v[i - Len(u)]
      <4>1. i - Len(u) < j - Len(u)
        BY <1>1, <1>2
      <4> QED BY <1>2, <2>2, <3>2, <4>1 DEF Sorted
    <3> QED BY <1>1, <3>1, <3>2
  <2> QED BY <1>1, <2>1, <2>2
<1> QED BY <1>2 DEF Sorted

\* A step that makes the calls that come of the current one.
Step(tasks) ==
    /\ genStatus = "generating" /\ todo # <<>>
    /\ tasks \in Seq(GenTasks) /\ todo' = tasks \o Tail(todo)
    /\ Serves(tasks)
    /\ UNCHANGED <<prog, symbolOf, genStatus>>

\* What is printed without further calls.
LEMMA PlainServe ==
    ASSUME GenTypeOK, GoodCalls,
           \/ GenIntLit \/ GenVarRef \/ GenFuncCall \/ GenArith \/ GenAssign \/ GenCompare
           \/ GenEmit \/ GenVar
    PROVE  Step(<<>>)
<1>1. /\ genStatus = "generating" /\ todo # <<>> /\ todo' = <<>> \o Tail(todo)
      /\ UNCHANGED <<prog, symbolOf, genStatus>>
      /\ \/ Head(todo).do = "expr" /\ Type(node) # "BIN_OP" /\ Linked(node)
         \/ Head(todo).do \in {"op", "emit"}
         \/ Head(todo).do = "stat" /\ VarDecl(node) /\ Linked(node)
  BY DEF GenIntLit, GenVarRef, GenFuncCall, GenArith, GenAssign, GenCompare, GenEmit, GenVar,
         AtExprTask, AtOp, AtStatTask, At, Write, Output, Do, Linked, VarDecl
<1>2. DOMAIN <<>> = {} /\ <<>> \in Seq(GenTasks)
  OBVIOUS
<1> QED BY <1>1, <1>2 DEF Step, Serves, Sorted

\* The operands.
LEMMA OperandsServe ==
    ASSUME GenTypeOK, GoodCalls, GenBinop \/ GenRight, Preorder(prog)
    PROVE  \E tasks : Step(tasks)
<1>1. /\ genStatus = "generating" /\ todo # <<>> /\ Head(todo).do \in {"expr", "right"}
      /\ WellFormed(prog) /\ node \in DOMAIN prog /\ regset \in RegSets
      /\ Type(node) = "BIN_OP" /\ UNCHANGED <<prog, symbolOf, genStatus>>
  BY CallFacts DEF GenBinop, GenRight, AtExprTask, At, Continue
<1>2. \A i \in 1 .. 2 : i = 1 \/ i = 2
  OBVIOUS
<1>3. node \in Generated /\ Deep(node, regset)
  <2>1. 1 \in DOMAIN todo /\ Head(todo) = todo[1]
    <3>1. todo # <<>> /\ todo \in Seq(GenTasks)
      BY <1>1 DEF GenTypeOK
    <3> QED BY <3>1, EmptySeq
  <2> QED BY <1>1, <2>1 DEF GoodCalls, Good, node, regset
<1>4. PICK m \in Generated : /\ IsExpr(prog, m)
                             /\ Need(prog)[m] >= Need(prog)[node] + register_count - Cardinality(regset)
  BY <1>3 DEF Deep
<1>5. PICK a \in Generated, b \in Generated :
        /\ a = Kid(node, 1) /\ b = Kid(node, 2) /\ IsExpr(prog, a) /\ IsExpr(prog, b)
        /\ 1 \in DOMAIN Kids(node) /\ 2 \in DOMAIN Kids(node)
        /\ Need(prog)[node] >= Need(prog)[a] /\ Need(prog)[node] >= 1 + Need(prog)[b]
  <2>1. 1 \in DOMAIN Kids(node) /\ 2 \in DOMAIN Kids(node)
        /\ IsExpr(prog, Kid(node, 1)) /\ IsExpr(prog, Kid(node, 2))
    BY <1>1, <1>2, BinopKids DEF Type, Kids, Kid
  <2>2. Kid(node, 1) \in Generated /\ Kid(node, 2) \in Generated
    BY <1>1, <1>3, <2>1, KidGenerated DEF VarDecl
  <2>3. Need(prog)[node] >= Need(prog)[Kid(node, 1)] /\ Need(prog)[node] >= 1 + Need(prog)[Kid(node, 2)]
    BY <1>1, NeedOfBinop DEF Type, Kid
  <2> QED BY <2>1, <2>2, <2>3
<1>6. /\ Need(prog)[m] \in Nat /\ Need(prog)[node] \in Nat /\ Need(prog)[a] \in Nat
      /\ Need(prog)[b] \in Nat /\ register_count \in Nat /\ Cardinality(regset) \in Nat
      /\ Cardinality(ConsumeReg(regset)) = Cardinality(regset) - 1
  <2>1. Cardinality(regset) \in 1 .. register_count /\ register_count \in Nat
        /\ Cardinality(ConsumeReg(regset)) = Cardinality(regset) - 1
    BY <1>1, RegisterFacts, RegisterCounts
  <2> QED BY <1>1, <1>4, <1>5, <2>1, NeedBounds DEF Generated
<1>7. Deep(a, regset) /\ Deep(b, ConsumeReg(regset))
  <2>1. Need(prog)[m] >= Need(prog)[a] + register_count - Cardinality(regset)
    BY <1>4, <1>5, <1>6
  <2>2. Need(prog)[m] >= Need(prog)[b] + register_count - Cardinality(ConsumeReg(regset))
    BY <1>4, <1>5, <1>6
  <2> QED BY <1>4, <2>1, <2>2 DEF Deep
<1>8. CASE GenBinop
  <2> DEFINE s == ExprTask(a, regset)
             t == Pending("right", node, regset)
             tasks == <<s, t>>
  <2>1. s \in GenTasks /\ t \in GenTasks
    BY <1>1, <1>5, TaskTypes DEF Generated
  <2>3. Head(todo).do = "expr" /\ Do(tasks)
    BY <1>5, <1>8 DEF GenBinop, AtExprTask, At, Continue
  <2>2. /\ Fit(s) /\ Fit(t) /\ s.do # "stat" /\ t.do # "stat"
    <3>1. Good(s) /\ Good(t)
      BY <1>3, <1>5, <1>7, TaskKinds DEF Good
    <3> QED BY <1>5, <2>3, <3>1, TaskKinds DEF Fit, Below, IsCall
  <2>4. s = ExprTask(Kid(node, 1), regset) /\ t = Pending("right", node, regset)
    BY <1>5
  <2> HIDE DEF s, t
  <2>5. /\ tasks \in Seq(GenTasks) /\ In(s, tasks) /\ In(t, tasks)
        /\ \A i \in DOMAIN tasks : Fit(tasks[i]) /\ tasks[i].do # "stat"
    <3>1. DOMAIN tasks = 1 .. 2 /\ tasks[1] = s /\ tasks[2] = t /\ tasks \in Seq(GenTasks)
      BY <2>1
    <3> HIDE DEF tasks
    <3> QED BY <1>2, <2>2, <3>1 DEF In
  <2> HIDE DEF tasks
  <2>6. Linked(node) /\ Sorted(tasks)
    BY <1>1, <2>5, ShortSorted DEF Linked
  <2> QED BY <1>1, <2>3, <2>4, <2>5, <2>6 DEF Step, Serves, Do
<1>9. CASE GenRight
  <2> DEFINE s == ExprTask(b, ConsumeReg(regset))
             t == Pending("op", node, regset)
             tasks == <<s, t>>
  <2>0. ConsumeReg(regset) # {} /\ ConsumeReg(regset) \in RegSets
    BY <1>1, <1>9, RegisterFacts DEF GenRight
  <2>1. s \in GenTasks /\ t \in GenTasks
    BY <1>1, <1>5, <2>0, TaskTypes DEF Generated
  <2>2. /\ Fit(s) /\ Fit(t) /\ s.do # "stat" /\ t.do # "stat"
    <3>1. Good(s) /\ Good(t)
      BY <1>3, <1>5, <1>7, TaskKinds DEF Good
    <3> QED BY <1>1, <1>5, <3>1, TaskKinds DEF Fit, Below, IsCall
  <2>3. Head(todo).do = "right" /\ Do(tasks)
    BY <1>5, <1>9 DEF GenRight, At, Continue
  <2>4. s = ExprTask(Kid(node, 2), ConsumeReg(regset))
    BY <1>5
  <2> HIDE DEF s, t
  <2>5. /\ tasks \in Seq(GenTasks) /\ In(s, tasks)
        /\ \A i \in DOMAIN tasks : Fit(tasks[i]) /\ tasks[i].do # "stat"
    <3>1. DOMAIN tasks = 1 .. 2 /\ tasks[1] = s /\ tasks[2] = t /\ tasks \in Seq(GenTasks)
      BY <2>1
    <3> HIDE DEF tasks
    <3> QED BY <1>2, <2>2, <3>1 DEF In
  <2> HIDE DEF tasks
  <2>6. Sorted(tasks)
    BY <2>5, ShortSorted
  <2> QED BY <1>1, <2>0, <2>3, <2>4, <2>5, <2>6 DEF Step, Serves, Do
<1> QED BY <1>8, <1>9

\* What a statement is that is about to be generated.
LEMMA StatementFacts ==
    ASSUME GenTypeOK, Preorder(prog), GoodCalls, At("stat"), ~VarDecl(node)
    PROVE  /\ todo # <<>> /\ todo \in Seq(GenTasks) /\ genStatus = "generating"
           /\ Head(todo).do = "stat"
           /\ WellFormed(prog) /\ node \in DOMAIN prog /\ regset \in RegSets
           /\ Len(Kids(node)) \in Nat /\ DOMAIN Kids(node) = 1 .. Len(Kids(node))
           /\ \A i \in DOMAIN Kids(node) :
                 /\ IsStat(prog, Kid(node, i)) =>
                       StatTask(Kid(node, i), regset) \in GenTasks /\ Fit(StatTask(Kid(node, i), regset))
                 /\ IsExpr(prog, Kid(node, i)) =>
                       ExprTask(Kid(node, i), regset) \in GenTasks /\ Fit(ExprTask(Kid(node, i), regset))
<1>1. /\ todo # <<>> /\ todo \in Seq(GenTasks) /\ genStatus = "generating"
      /\ Head(todo).do = "stat" /\ WellFormed(prog) /\ node \in DOMAIN prog /\ regset \in RegSets
  BY CallFacts DEF At, GenTypeOK
<1>2. /\ Len(Kids(node)) \in Nat /\ DOMAIN Kids(node) = 1 .. Len(Kids(node))
      /\ \A i \in DOMAIN Kids(node) : Kid(node, i) \in DOMAIN prog
  BY <1>1, ChildFacts
<1>3. ASSUME NEW i \in DOMAIN Kids(node)
      PROVE  Below(StatTask(Kid(node, i), regset)) /\ Below(ExprTask(Kid(node, i), regset))
  BY <1>1, TaskKinds DEF Below, IsCall
<1> QED BY <1>1, <1>2, <1>3, GoodKids, TaskTypes DEF Fit

\* The children of a statement stand in the order of the program.
LEMMA KidsRise ==
    ASSUME WellFormed(prog), Preorder(prog), node \in DOMAIN prog
    PROVE  \A i, j \in DOMAIN Kids(node) : i < j => Kid(node, i) < Kid(node, j)
<1>1. \A i \in DOMAIN Kids(node) : Kid(node, i) \in DOMAIN prog
  BY ChildFacts
<1>2. \A i, j \in DOMAIN Kids(node) : i < j => LastOf(prog)[Kid(node, i)] < Kid(node, j)
  BY KidsFollow DEF Kids, Kid
<1>3. \A n \in DOMAIN prog : /\ LastOf(prog)[n] \in n .. Len(prog)
                              /\ n \in Nat /\ Len(prog) \in Nat
  BY LastBounds, TreeFacts
<1> QED BY <1>1, <1>2, <1>3

\* A statement all of whose children are called for.
LEMMA StatementStep ==
    ASSUME GenTypeOK, Preorder(prog), GoodCalls, At("stat"), ~VarDecl(node), Linked(node),
           NEW tasks \in Seq(GenTasks), Do(tasks), UNCHANGED <<prog, symbolOf, genStatus>>,
           \A i \in DOMAIN tasks : Fit(tasks[i]), Sorted(tasks),
           \A i \in DOMAIN Kids(node) : \/ In(StatTask(Kid(node, i), regset), tasks)
                                        \/ In(ExprTask(Kid(node, i), regset), tasks)
    PROVE  Step(tasks)
BY DEF Step, Serves, At, Do

\* The statements in a block or a function.
LEMMA BlocksServe ==
    ASSUME GenTypeOK, GoodCalls, Preorder(prog), GenBlock \/ GenFunc
    PROVE  \E tasks : Step(tasks)
<1> DEFINE all == [i \in DOMAIN Kids(node) |-> StatTask(Kid(node, i), regset)]
<1>1. /\ At("stat") /\ ~VarDecl(node) /\ Linked(node) /\ Do(all)
      /\ UNCHANGED <<prog, symbolOf, genStatus>>
      /\ Type(node) = "BLOCK_STAT" \/ (Type(node) = "DECL_STAT" /\ prog[node].is_func)
  BY DEF GenBlock, GenFunc, AtStatTask, VarDecl, Linked, Continue
<1>2. \A i \in DOMAIN Kids(node) : IsStat(prog, Kid(node, i))
  BY <1>1, StatementFacts, ChildFacts
<1>3. \A i \in DOMAIN Kids(node) :
        StatTask(Kid(node, i), regset) \in GenTasks /\ Fit(StatTask(Kid(node, i), regset))
  BY <1>1, <1>2, StatementFacts
<1>4. all \in Seq(GenTasks)
  <2>1. Len(Kids(node)) \in Nat /\ DOMAIN Kids(node) = 1 .. Len(Kids(node))
    BY <1>1, StatementFacts
  <2>2. all \in [1 .. Len(Kids(node)) -> GenTasks]
    BY <1>3, <2>1
  <2> QED BY <2>1, <2>2
<1>5. /\ \A i \in DOMAIN all : Fit(all[i])
      /\ \A i \in DOMAIN Kids(node) : In(StatTask(Kid(node, i), regset), all)
  BY <1>3 DEF In
<1>6. Sorted(all)
  <2>2. \A i, j \in DOMAIN Kids(node) : i < j => Kid(node, i) < Kid(node, j)
    BY <1>1, StatementFacts, KidsRise
  <2>3. \A i \in DOMAIN all : i \in DOMAIN Kids(node) /\ all[i].node = Kid(node, i)
    BY TaskKinds
  <2> HIDE DEF all
  <2> QED BY <2>2, <2>3 DEF Sorted
<1> HIDE DEF all
<1> QED BY <1>1, <1>4, <1>5, <1>6, StatementStep

\* The statements with one expression, and the empty one.
LEMMA SimpleServe ==
    ASSUME GenTypeOK, GoodCalls, Preorder(prog), GenReturn \/ GenExprStat \/ GenSkip
    PROVE  \E tasks : Step(tasks)
<1>1. /\ At("stat") /\ ~VarDecl(node) /\ Linked(node)
      /\ UNCHANGED <<prog, symbolOf, genStatus>>
  BY DEF GenReturn, GenExprStat, GenSkip, AtStatTask, VarDecl, Linked, Continue
<1> DEFINE s == ExprTask(Kid(node, 1), regset)
<1>2. ASSUME Type(node) \in {"RETURN_STAT", "EXPR_STAT"}
      PROVE  /\ DOMAIN Kids(node) = {1} /\ s \in GenTasks /\ Fit(s) /\ s.do # "stat"
  <2>1. Len(Kids(node)) = 1 /\ IsExpr(prog, Kid(node, 1))
    <3>1. WellFormed(prog) /\ node \in DOMAIN prog
      BY <1>1, StatementFacts
    <3> QED BY <1>2, <3>1 DEF WellFormed, ShapeOK, Type, Kids, Kid
  <2>2. DOMAIN Kids(node) = 1 .. 1
    BY <1>1, <2>1, StatementFacts
  <2>3. DOMAIN Kids(node) = {1}
    BY <2>2
  <2>4. 1 \in DOMAIN Kids(node)
    BY <2>3
  <2> QED BY <1>1, <2>1, <2>3, <2>4, StatementFacts, TaskKinds
<1>3. CASE GenReturn
  <2> DEFINE mov  == Mov(Reg(NextReg(regset)), Reg("rax"))
             code == <<mov, Ret>>
             t    == Emit(code)
             tasks == <<s, t>>
  <2>1. Do(tasks) /\ Type(node) \in {"RETURN_STAT", "EXPR_STAT"}
    BY <1>3 DEF GenReturn, AtStatTask, Continue
  <2>2. mov \in Instrs
    BY <1>1, StatementFacts, RegisterFacts, ArgTypes, InstrTypes DEF Registers
  <2> HIDE DEF mov
  <2>3. code \in Seq(Instrs)
    BY <2>2, InstrTypes
  <2> HIDE DEF code
  <2>4. t \in GenTasks /\ Fit(t) /\ t.do # "stat"
    BY <2>3, EmitTypes, EmitFit DEF Emit
  <2>5. s \in GenTasks /\ Fit(s) /\ s.do # "stat" /\ DOMAIN Kids(node) = {1} /\ s = ExprTask(Kid(node, 1), regset)
    BY <1>2, <2>1
  <2> HIDE DEF s, t
  <2>6. /\ tasks \in Seq(GenTasks) /\ DOMAIN tasks = {1, 2} /\ tasks[1] = s /\ tasks[2] = t
    BY <2>4, <2>5
  <2> HIDE DEF tasks
  <2>7. /\ \A i \in DOMAIN tasks : Fit(tasks[i]) /\ tasks[i].do # "stat"
        /\ \A i \in DOMAIN Kids(node) : In(ExprTask(Kid(node, i), regset), tasks)
    BY <2>4, <2>5, <2>6 DEF In
  <2>8. Sorted(tasks)
    BY <2>6, <2>7, ShortSorted
  <2> QED BY <1>1, <2>1, <2>6, <2>7, <2>8, StatementStep
<1>4. CASE GenExprStat
  <2> DEFINE tasks == <<s>>
  <2>1. Do(tasks) /\ Type(node) \in {"RETURN_STAT", "EXPR_STAT"}
    BY <1>4 DEF GenExprStat, AtStatTask, Continue
  <2>5. s \in GenTasks /\ Fit(s) /\ s.do # "stat" /\ DOMAIN Kids(node) = {1} /\ s = ExprTask(Kid(node, 1), regset)
    BY <1>2, <2>1
  <2> HIDE DEF s
  <2>6. /\ tasks \in Seq(GenTasks) /\ DOMAIN tasks = {1} /\ tasks[1] = s
    BY <2>5
  <2> HIDE DEF tasks
  <2>7. /\ \A i \in DOMAIN tasks : Fit(tasks[i]) /\ tasks[i].do # "stat"
        /\ \A i \in DOMAIN Kids(node) : In(ExprTask(Kid(node, i), regset), tasks)
    BY <2>5, <2>6 DEF In
  <2>8. Sorted(tasks)
    BY <2>6, <2>7, ShortSorted
  <2> QED BY <1>1, <2>1, <2>6, <2>7, <2>8, StatementStep
<1>5. CASE GenSkip
  <2>1. Do(<<>>) /\ Type(node) = "SKIP_STAT"
    BY <1>5 DEF GenSkip, AtStatTask, Continue
  <2>2. Kids(node) = <<>>
    <3>1. WellFormed(prog) /\ node \in DOMAIN prog
      BY <1>1, StatementFacts
    <3> QED BY <2>1, <3>1 DEF WellFormed, ShapeOK, Type, Kids
  <2>3. DOMAIN <<>> = {} /\ <<>> \in Seq(GenTasks)
    OBVIOUS
  <2>4. DOMAIN Kids(node) = {}
    BY <2>2, <2>3
  <2> QED BY <1>1, <2>1, <2>3, <2>4, StatementStep DEF Sorted
<1> QED BY <1>3, <1>4, <1>5

\* A condition and its branches.
LEMMA IfServes ==
    ASSUME GenTypeOK, GoodCalls, Preorder(prog), GenIf
    PROVE  \E tasks : Step(tasks)
<1> DEFINE t1   == ExprTask(Kid(node, 1), regset)
           t2   == Test(regset, "je", next_label)
           t3   == StatTask(Kid(node, 2), regset)
           t4   == Emit(<<Label(next_label)>>)
           last == [i \in 1 .. Len(Kids(node)) - 2 |-> StatTask(Kid(node, i + 2), regset)]
           four == <<t1, t2, t3, t4>>
<1>1. /\ At("stat") /\ ~VarDecl(node) /\ Linked(node) /\ Type(node) = "IF_STAT"
      /\ Do(Branches) /\ UNCHANGED <<prog, symbolOf, genStatus>>
  BY DEF GenIf, AtStatTask, VarDecl, Linked
<1>2. /\ Len(Kids(node)) \in {2, 3} /\ DOMAIN Kids(node) = 1 .. Len(Kids(node))
      /\ IsExpr(prog, Kid(node, 1))
      /\ \A i \in 2 .. Len(Kids(node)) : IsStat(prog, Kid(node, i))
  BY <1>1, StatementFacts, ChildFacts
<1>3. Branches \in Seq(GenTasks)
  BY IfFine DEF Fine, Moves
<1>4. Branches = four \o last
  BY DEF Branches
<1>5. Fit(t1) /\ t1 \in GenTasks
  <2>1. 1 \in DOMAIN Kids(node)
    BY <1>2
  <2> QED BY <1>1, <1>2, <2>1, StatementFacts
<1>6. \A i \in 2 .. Len(Kids(node)) :
        Fit(StatTask(Kid(node, i), regset)) /\ StatTask(Kid(node, i), regset) \in GenTasks
  <2>1. \A i \in 2 .. Len(Kids(node)) : i \in DOMAIN Kids(node)
    BY <1>2
  <2> QED BY <1>1, <1>2, <2>1, StatementFacts
<1>7. Fit(t3) /\ t3 \in GenTasks
  <2>1. 2 \in 2 .. Len(Kids(node))
    BY <1>2
  <2> QED BY <1>6, <2>1
<1>8. Fit(t2) /\ Fit(t4) /\ t2 \in GenTasks /\ t4 \in GenTasks
  <2>1. next_label \in Nat /\ regset \in RegSets
    BY <1>1, StatementFacts DEF GenTypeOK
  <2>2. <<Label(next_label)>> \in Seq(Instrs)
    BY <2>1, InstrTypes
  <2> QED BY <2>1, <2>2, EmitTypes, TestFacts, EmitFit DEF Test
<1>18. /\ t1.do # "stat" /\ t1.node = Kid(node, 1) /\ t3.node = Kid(node, 2)
       /\ ~IsCall(t2) /\ t2.do # "stat" /\ t4.do # "stat" /\ ~IsCall(t4)
  BY TaskKinds DEF Test, Emit, IsCall
<1>9. /\ last \in Seq(GenTasks) /\ \A i \in DOMAIN last : Fit(last[i])
      /\ DOMAIN last = 1 .. Len(Kids(node)) - 2
      /\ \A i \in DOMAIN last : last[i] = StatTask(Kid(node, i + 2), regset)
  <2>1. \A i \in 1 .. Len(Kids(node)) - 2 : i + 2 \in 2 .. Len(Kids(node))
    BY <1>2
  <2>2. \A i \in 1 .. Len(Kids(node)) - 2 : StatTask(Kid(node, i + 2), regset) \in GenTasks
                                            /\ Fit(StatTask(Kid(node, i + 2), regset))
    BY <1>6, <2>1
  <2>3. Len(Kids(node)) - 2 \in Nat
    BY <1>2
  <2>4. last \in [1 .. Len(Kids(node)) - 2 -> GenTasks]
    BY <2>2
  <2>5. \A m \in Nat : [1 .. m -> GenTasks] \subseteq Seq(GenTasks)
    OBVIOUS
  <2>6. last \in Seq(GenTasks)
    BY <2>3, <2>4, <2>5, Zenon
  <2> QED BY <2>2, <2>6
<1>10. t1 = ExprTask(Kid(node, 1), regset) /\ t3 = StatTask(Kid(node, 2), regset)
  OBVIOUS
<1> HIDE DEF t1, t2, t3, t4, last
<1>11. /\ four \in Seq(GenTasks) /\ DOMAIN four = 1 .. 4 /\ Len(four) = 4
       /\ four[1] = t1 /\ four[2] = t2 /\ four[3] = t3 /\ four[4] = t4
  BY <1>5, <1>7, <1>8
<1>12. \A i \in 1 .. 4 : i = 1 \/ i = 2 \/ i = 3 \/ i = 4
  OBVIOUS
<1>13. \A i \in DOMAIN four : Fit(four[i])
  BY <1>5, <1>7, <1>8, <1>11, <1>12
<1> HIDE DEF four
<1>14. /\ \A i \in DOMAIN Branches :
             \/ i \in DOMAIN four /\ Branches[i] = four[i]
             \/ i - 4 \in DOMAIN last /\ Branches[i] = last[i - 4]
       /\ \A i \in DOMAIN four : i \in DOMAIN Branches /\ Branches[i] = four[i]
       /\ \A i \in DOMAIN last : i + 4 \in DOMAIN Branches /\ Branches[i + 4] = last[i]
  <2> HIDE DEF GenTasks
  <2>1. /\ \A i \in DOMAIN Branches :
              \/ i \in DOMAIN four /\ Branches[i] = four[i]
              \/ i - Len(four) \in DOMAIN last /\ Branches[i] = last[i - Len(four)]
        /\ \A i \in DOMAIN four : i \in DOMAIN Branches /\ Branches[i] = four[i]
        /\ \A i \in DOMAIN last : /\ i + Len(four) \in DOMAIN Branches
                                  /\ Branches[i + Len(four)] = last[i]
    <3>1. last \in Seq(GenTasks) /\ four \in Seq(GenTasks)
      BY <1>9, <1>11
    <3> QED BY <1>4, <3>1, ConcatPlaces
  <2> QED BY <1>11, <2>1
<1>15. \A i \in DOMAIN Branches : Fit(Branches[i])
  BY <1>9, <1>13, <1>14
<1>16. /\ In(t1, Branches) /\ In(t3, Branches)
       /\ \A i \in DOMAIN last : In(last[i], Branches)
  <2>1. 1 \in DOMAIN four /\ 3 \in DOMAIN four
    BY <1>11
  <2> QED BY <1>11, <1>14, <2>1 DEF In
<1>17. \A i \in DOMAIN Kids(node) : \/ In(StatTask(Kid(node, i), regset), Branches)
                                    \/ In(ExprTask(Kid(node, i), regset), Branches)
  <2> SUFFICES ASSUME NEW i \in DOMAIN Kids(node)
               PROVE  \/ In(StatTask(Kid(node, i), regset), Branches)
                      \/ In(ExprTask(Kid(node, i), regset), Branches)
    OBVIOUS
  <2>1. i = 1 \/ i = 2 \/ (i = 3 /\ 1 \in DOMAIN last)
    BY <1>2, <1>9
  <2>2. CASE i = 3 /\ 1 \in DOMAIN last
    <3>1. last[1] = StatTask(Kid(node, 3), regset)
      BY <1>9, <2>2
    <3> QED BY <1>16, <2>2, <3>1
  <2> QED BY <1>10, <1>16, <2>1, <2>2
<1>19. /\ \A i, j \in DOMAIN Kids(node) : i < j => Kid(node, i) < Kid(node, j)
  BY <1>1, StatementFacts, KidsRise
<1>20. Sorted(Branches)
  <2>1. /\ \A i, j \in DOMAIN last : i = j
        /\ \A i \in DOMAIN last : i = 1 /\ last[i].node = Kid(node, 3) /\ 3 \in DOMAIN Kids(node)
    <3>1. \A i \in DOMAIN last : i = 1 /\ 3 \in DOMAIN Kids(node)
      BY <1>2, <1>9
    <3> QED BY <1>9, <3>1, TaskKinds
  <2>2. Sorted(last)
    BY <1>9, <2>1, ShortSorted
  <2>3. 1 \in DOMAIN Kids(node) /\ 2 \in DOMAIN Kids(node)
    BY <1>2
  <2>4. \A i \in DOMAIN four : IsCall(four[i]) =>
           \/ i = 1 /\ four[i].node = Kid(node, 1)
           \/ i = 3 /\ four[i].node = Kid(node, 2)
    BY <1>11, <1>12, <1>18
  <2>5. \A i \in DOMAIN four : four[i].do = "stat" => i = 3
    BY <1>11, <1>12, <1>18
  <2>6. Sorted(four)
    <3>1. Kid(node, 1) < Kid(node, 2)
      BY <1>19, <2>3
    <3> QED BY <1>11, <1>18, <2>4, <2>5, <3>1 DEF Sorted
  <2>7. \A i \in DOMAIN four, j \in DOMAIN last :
           IsCall(four[i]) /\ last[j].do = "stat" => four[i].node < last[j].node
    BY <1>19, <2>1, <2>3, <2>4
  <2> QED BY <1>4, <1>9, <1>11, <2>2, <2>6, <2>7, ConcatSorted
<1> QED BY <1>1, <1>3, <1>15, <1>17, <1>20, StatementStep

\* What stands in a loop.
LEMMA LoopHolds ==
    ASSUME NEW S, NEW first \in Seq(S), NEW again \in Seq(S),
           NEW a \in S, NEW b \in S, NEW c \in S, NEW d \in S, NEW u
    PROVE  u = first \o <<a>> \o again \o <<b, c, d>> =>
             In(c, u) /\ \A t : In(t, first) \/ In(t, again) => In(t, u)
<1>0. SUFFICES ASSUME u = first \o <<a>> \o again \o <<b, c, d>>
             PROVE  In(c, u) /\ \A t : In(t, first) \/ In(t, again) => In(t, u)
  OBVIOUS
<1> DEFINE one == <<a>>
           end == <<b, c, d>>
<1>1. PICK v, w : v = first \o one /\ w = v \o again /\ u = w \o end
  BY <1>0
<1>2. one \in Seq(S) /\ end \in Seq(S) /\ 2 \in DOMAIN end /\ end[2] = c
  OBVIOUS
<1> HIDE DEF one, end
<1>3. /\ v \in Seq(S)
      /\ \A k \in DOMAIN first : k \in DOMAIN v /\ v[k] = first[k]
  <2>1. v = first \o one
    BY <1>1
  <2> QED BY <1>2, <2>1, ConcatPlaces
<1>4. /\ w \in Seq(S)
      /\ \A k \in DOMAIN v : k \in DOMAIN w /\ w[k] = v[k]
      /\ \A k \in DOMAIN again : k + Len(v) \in DOMAIN w /\ w[k + Len(v)] = again[k]
  <2>1. w = v \o again
    BY <1>1
  <2> QED BY <1>3, <2>1, ConcatPlaces
<1>5. /\ \A k \in DOMAIN w : k \in DOMAIN u /\ u[k] = w[k]
      /\ \A k \in DOMAIN end : k + Len(w) \in DOMAIN u /\ u[k + Len(w)] = end[k]
  <2>1. u = w \o end /\ w \in Seq(S) /\ end \in Seq(S)
    BY <1>1, <1>2, <1>4
  <2> QED BY <2>1, ConcatPlaces
<1>6. In(c, u)
  BY <1>2, <1>5 DEF In
<1>7. \A t : In(t, first) => In(t, u)
  BY <1>3, <1>4, <1>5 DEF In
<1>8. \A t : In(t, again) => In(t, u)
  BY <1>4, <1>5 DEF In
<1> QED BY <1>6, <1>7, <1>8

\* A loop with good calls before and after the label of its body.
LEMMA LoopStep ==
    ASSUME GenTypeOK, Preorder(prog), GoodCalls, At("stat"), ~VarDecl(node), Linked(node),
           NEW first \in Seq(GenTasks), NEW again \in Seq(GenTasks),
           NEW cond \in DOMAIN prog, IsExpr(prog, cond), Loop(first, again, cond),
           Fit(ExprTask(cond, regset)),
           \A i \in DOMAIN first : Fit(first[i]) /\ first[i].do # "stat",
           \A i \in DOMAIN again : Fit(again[i]), Sorted(again),
           \A i \in DOMAIN first, j \in DOMAIN again :
              again[j].do = "stat" => first[i].node < again[j].node,
           \A i \in DOMAIN Kids(node) :
              \/ Kid(node, i) = cond
              \/ In(StatTask(Kid(node, i), regset), again)
              \/ In(ExprTask(Kid(node, i), regset), first)
              \/ In(ExprTask(Kid(node, i), regset), again)
    PROVE  \E tasks : Step(tasks)
<1> DEFINE a == Emit(<<Jump("jmp", next_label), Label(next_label + 1)>>)
           b == Emit(<<Label(next_label)>>)
           c == ExprTask(cond, regset)
           d == Test(regset, "jne", next_label + 1)
           tasks == LoopTasks(first, again, cond)
<1>1. next_label \in Nat /\ next_label + 1 \in Nat /\ regset \in RegSets
  BY StatementFacts DEF GenTypeOK
<1>2. /\ a \in GenTasks /\ b \in GenTasks /\ c \in GenTasks /\ d \in GenTasks
  <2>1. /\ Jump("jmp", next_label) \in Instrs
        /\ Label(next_label) \in Instrs /\ Label(next_label + 1) \in Instrs
    BY <1>1, InstrTypes DEF Jumps
  <2>2. /\ <<Jump("jmp", next_label), Label(next_label + 1)>> \in Seq(Instrs)
        /\ <<Label(next_label)>> \in Seq(Instrs)
    BY <2>1
  <2> QED BY <1>1, <2>2, EmitTypes, TaskTypes, TestFacts
<1>3. Fit(a) /\ Fit(b) /\ Fit(c) /\ Fit(d)
  BY EmitFit DEF Test
<1>4. tasks = first \o <<a>> \o again \o <<b, c, d>>
  BY DEF LoopTasks
<1>5. Do(tasks) /\ UNCHANGED <<prog, symbolOf, genStatus>>
  BY DEF Loop, LoopTasks
<1>6. /\ c = ExprTask(cond, regset) /\ ~IsCall(a) /\ a.do # "stat" /\ b.do # "stat"
      /\ c.do # "stat" /\ d.do # "stat"
  BY TaskKinds DEF IsCall, Emit, Test
<1> HIDE DEF a, b, c, d, tasks
<1>7. tasks \in Seq(GenTasks) /\ StandOnce(tasks, first, again, a, b, c, d)
  <2> HIDE DEF GenTasks
  <2> QED BY <1>2, <1>4, LoopPlaces
<1>8. \A i \in DOMAIN tasks : Fit(tasks[i])
  <2>1. PICK p, q : /\ tasks[p] = a /\ tasks[q] = b
                    /\ \A k \in DOMAIN tasks \ {p, q} :
                          \/ tasks[k] = c \/ tasks[k] = d
                          \/ \E l \in DOMAIN first : tasks[k] = first[l]
                          \/ \E l \in DOMAIN again : tasks[k] = again[l]
    BY <1>7 DEF StandOnce
  <2> QED BY <1>3, <2>1
<1>9. In(c, tasks) /\ \A t : In(t, first) \/ In(t, again) => In(t, tasks)
  <2> HIDE DEF GenTasks
  <2>1. tasks = first \o <<a>> \o again \o <<b, c, d>> =>
          In(c, tasks) /\ \A t : In(t, first) \/ In(t, again) => In(t, tasks)
    BY <1>2, LoopHolds, Zenon
  <2> QED BY <1>4, <2>1, Zenon
<1>10. \A i \in DOMAIN Kids(node) : \/ In(StatTask(Kid(node, i), regset), tasks)
                                    \/ In(ExprTask(Kid(node, i), regset), tasks)
  BY <1>6, <1>9
<1>11. Sorted(tasks)
  <2> DEFINE one == <<a>>
             end == <<b, c, d>>
  <2> HIDE DEF GenTasks
  <2>1. PICK v, w : v = first \o one /\ w = v \o again /\ tasks = w \o end
    BY <1>4
  <2>2. /\ one \in Seq(GenTasks) /\ end \in Seq(GenTasks)
        /\ \A i \in DOMAIN one : one[i] = a
        /\ \A i \in DOMAIN end : end[i] \in {b, c, d}
    BY <1>2
  <2> HIDE DEF one, end
  <2>3. Sorted(one) /\ Sorted(end) /\ Sorted(first)
    BY <1>6, <2>2, ShortSorted
  <2>4. /\ v \in Seq(GenTasks) /\ Sorted(v)
        /\ \A i \in DOMAIN v : v[i] = a \/ \E k \in DOMAIN first : v[i] = first[k]
    <3>1. v = first \o one
      BY <2>1
    <3>2. /\ v \in Seq(GenTasks)
          /\ \A i \in DOMAIN v :
                \/ i \in DOMAIN first /\ v[i] = first[i]
                \/ i - Len(first) \in DOMAIN one /\ v[i] = one[i - Len(first)]
      BY <2>2, <3>1, ConcatPlaces
    <3>3. Sorted(v)
      <4>1. \A i \in DOMAIN first, j \in DOMAIN one :
               IsCall(first[i]) /\ one[j].do = "stat" => first[i].node < one[j].node
        BY <1>6, <2>2
      <4> QED BY <2>2, <2>3, <3>1, <4>1, ConcatSorted
    <3>4. \A i \in DOMAIN v : v[i] = a \/ \E k \in DOMAIN first : v[i] = first[k]
      BY <2>2, <3>2
    <3> QED BY <3>2, <3>3, <3>4
  <2>5. w \in Seq(GenTasks) /\ Sorted(w)
    <3>1. w = v \o again
      BY <2>1
    <3>2. w \in Seq(GenTasks)
      BY <2>4, <3>1, ConcatPlaces
    <3>3. \A i \in DOMAIN v, j \in DOMAIN again :
             IsCall(v[i]) /\ again[j].do = "stat" => v[i].node < again[j].node
      BY <1>6, <2>4
    <3> QED BY <2>4, <3>1, <3>2, <3>3, ConcatSorted
  <2>6. \A i \in DOMAIN w, j \in DOMAIN end :
           IsCall(w[i]) /\ end[j].do = "stat" => w[i].node < end[j].node
    <3>1. \A j \in DOMAIN end : end[j].do # "stat"
      BY <1>6, <2>2
    <3> QED BY <3>1
  <2>7. tasks = w \o end
    BY <2>1
  <2> QED BY <2>2, <2>3, <2>5, <2>6, <2>7, ConcatSorted
<1> QED BY <1>5, <1>7, <1>8, <1>10, <1>11, StatementStep

\* Both kinds of loop.
LEMMA LoopsServe ==
    ASSUME GenTypeOK, GoodCalls, Preorder(prog), GenWhile \/ GenFor
    PROVE  \E tasks : Step(tasks)
<1>1. At("stat") /\ ~VarDecl(node) /\ Linked(node)
  BY DEF GenWhile, GenFor, AtStatTask, VarDecl, Linked
<1>2. CASE GenWhile
  <2> DEFINE s == StatTask(Kid(node, 2), regset)
  <2>1. Type(node) = "WHILE_STAT" /\ Loop(<<>>, <<s>>, Kid(node, 1))
    BY <1>2 DEF GenWhile, AtStatTask
  <2>2. /\ DOMAIN Kids(node) = 1 .. 2 /\ IsExpr(prog, Kid(node, 1)) /\ IsStat(prog, Kid(node, 2))
        /\ Kid(node, 1) \in DOMAIN prog
    <3>1. WellFormed(prog) /\ node \in DOMAIN prog
      BY <1>1, StatementFacts
    <3>2. Len(Kids(node)) = 2 /\ IsExpr(prog, Kid(node, 1)) /\ IsStat(prog, Kid(node, 2))
      BY <2>1, <3>1 DEF WellFormed, ShapeOK, Type, Kids, Kid
    <3> QED BY <1>1, <2>1, <3>1, <3>2, ChildFacts
  <2>3. \A i \in 1 .. 2 : i = 1 \/ i = 2
    OBVIOUS
  <2>4. 1 \in DOMAIN Kids(node) /\ 2 \in DOMAIN Kids(node)
    BY <2>2
  <2>5. s \in GenTasks /\ Fit(s) /\ Fit(ExprTask(Kid(node, 1), regset))
    BY <1>1, <2>2, <2>4, StatementFacts
  <2>6. s = StatTask(Kid(node, 2), regset)
    OBVIOUS
  <2> HIDE DEF s
  <2>7. /\ <<s>> \in Seq(GenTasks) /\ In(s, <<s>>)
        /\ \A i \in DOMAIN <<s>> : <<s>>[i] = s
        /\ <<>> \in Seq(GenTasks) /\ DOMAIN <<>> = {}
    BY <2>5 DEF In
  <2>9. Sorted(<<s>>)
    <3>1. \A i, j \in DOMAIN <<s>> : i = j
      OBVIOUS
    <3> QED BY <2>7, <3>1, ShortSorted
  <2>8. \A i \in DOMAIN Kids(node) :
           Kid(node, i) = Kid(node, 1) \/ In(StatTask(Kid(node, i), regset), <<s>>)
    BY <2>2, <2>3, <2>6, <2>7
  <2> QED BY <1>1, <2>1, <2>2, <2>5, <2>7, <2>8, <2>9, LoopStep
<1>3. CASE GenFor
  <2> DEFINE e == ExprTask(Kid(node, 1), regset)
             s == StatTask(Kid(node, 4), regset)
             t == ExprTask(Kid(node, 3), regset)
  <2>1. Type(node) = "FOR_STAT" /\ Loop(<<e>>, <<s, t>>, Kid(node, 2))
    BY <1>3 DEF GenFor, AtStatTask
  <2>2. /\ DOMAIN Kids(node) = 1 .. 4 /\ IsExpr(prog, Kid(node, 1)) /\ IsExpr(prog, Kid(node, 2))
        /\ IsExpr(prog, Kid(node, 3)) /\ IsStat(prog, Kid(node, 4))
        /\ \A i \in 1 .. 4 : Kid(node, i) \in DOMAIN prog
    <3>1. WellFormed(prog) /\ node \in DOMAIN prog
      BY <1>1, StatementFacts
    <3>2. /\ Len(Kids(node)) = 4 /\ IsExpr(prog, Kid(node, 1)) /\ IsExpr(prog, Kid(node, 2))
          /\ IsExpr(prog, Kid(node, 3)) /\ IsStat(prog, Kid(node, 4))
      BY <2>1, <3>1 DEF WellFormed, ShapeOK, Type, Kids, Kid
    <3>3. DOMAIN Kids(node) = 1 .. 4
      BY <1>1, <3>2, StatementFacts
    <3> QED BY <3>1, <3>2, <3>3, ChildFacts
  <2>3. \A i \in 1 .. 4 : i = 1 \/ i = 2 \/ i = 3 \/ i = 4
    OBVIOUS
  <2>4. {1, 2, 3, 4} \subseteq 1 .. 4
    OBVIOUS
  <2>5. /\ e \in GenTasks /\ Fit(e) /\ s \in GenTasks /\ Fit(s) /\ t \in GenTasks /\ Fit(t)
        /\ Fit(ExprTask(Kid(node, 2), regset)) /\ Kid(node, 2) \in DOMAIN prog
    BY <1>1, <2>2, <2>4, StatementFacts
  <2>6. /\ e = ExprTask(Kid(node, 1), regset) /\ s = StatTask(Kid(node, 4), regset)
        /\ t = ExprTask(Kid(node, 3), regset)
        /\ e.do # "stat" /\ t.do # "stat" /\ e.node = Kid(node, 1) /\ s.node = Kid(node, 4)
    BY TaskKinds
  <2>12. Kid(node, 1) < Kid(node, 4)
    <3>1. \A i, j \in DOMAIN Kids(node) : i < j => Kid(node, i) < Kid(node, j)
      BY <1>1, StatementFacts, KidsRise
    <3> QED BY <2>2, <2>4, <3>1
  <2> HIDE DEF e, s, t
  <2>7. /\ <<e>> \in Seq(GenTasks) /\ In(e, <<e>>)
        /\ \A i \in DOMAIN <<e>> : <<e>>[i] = e
    BY <2>5 DEF In
  <2>8. /\ <<s, t>> \in Seq(GenTasks) /\ In(s, <<s, t>>) /\ In(t, <<s, t>>)
        /\ \A i \in DOMAIN <<s, t>> : <<s, t>>[i] \in {s, t}
        /\ Sorted(<<s, t>>)
    <3>1. /\ <<s, t>> \in Seq(GenTasks) /\ DOMAIN <<s, t>> = {1, 2}
          /\ <<s, t>>[1] = s /\ <<s, t>>[2] = t
      BY <2>5
    <3>2. Sorted(<<s, t>>)
      <4>1. \A i, j \in {1, 2} : i < j => i = 1 /\ j = 2
        OBVIOUS
      <4> QED BY <2>6, <3>1, <4>1 DEF Sorted
    <3> QED BY <3>1, <3>2 DEF In
  <2>9. \A i \in DOMAIN Kids(node) :
           \/ Kid(node, i) = Kid(node, 2)
           \/ In(StatTask(Kid(node, i), regset), <<s, t>>)
           \/ In(ExprTask(Kid(node, i), regset), <<e>>)
           \/ In(ExprTask(Kid(node, i), regset), <<s, t>>)
    BY <2>2, <2>3, <2>6, <2>7, <2>8
  <2>10. /\ \A i \in DOMAIN <<e>> : Fit(<<e>>[i]) /\ <<e>>[i].do # "stat"
         /\ \A i \in DOMAIN <<s, t>> : Fit(<<s, t>>[i])
    BY <2>5, <2>6, <2>7, <2>8
  <2>11. \A i \in DOMAIN <<e>>, j \in DOMAIN <<s, t>> :
            <<s, t>>[j].do = "stat" => <<e>>[i].node < <<s, t>>[j].node
    BY <2>6, <2>7, <2>8, <2>12
  <2> QED BY <1>1, <2>1, <2>2, <2>5, <2>7, <2>8, <2>9, <2>10, <2>11, LoopStep
<1> QED BY <1>2, <1>3

\* Giving up is right: too many registers are in use, or a symbol is missing.
LEMMA GivingUp ==
    ASSUME GenTypeOK, GoodCalls, OutOfRegisters \/ NoSymbol
    PROVE  TooDeep \/ Unresolved
<1>1. /\ todo # <<>> /\ WellFormed(prog) /\ node \in DOMAIN prog /\ regset \in RegSets
      /\ Head(todo).do = "right" => Type(node) = "BIN_OP"
  BY CallFacts DEF OutOfRegisters, NoSymbol, AtStatTask, AtExprTask, At
<1>2. Good(Head(todo))
  <2>1. 1 \in DOMAIN todo /\ Head(todo) = todo[1]
    <3>1. todo # <<>> /\ todo \in Seq(GenTasks)
      BY <1>1 DEF GenTypeOK
    <3> QED BY <3>1, EmptySeq
  <2> QED BY <2>1 DEF GoodCalls
<1>3. CASE NoSymbol
  <2>1. /\ Head(todo).do \in {"stat", "expr"} /\ Type(node) \in {"DECL_STAT", "VAR_REF"}
        /\ symbolOf[node] = NULL
    BY <1>3 DEF NoSymbol, AtStatTask, AtExprTask, At
  <2>2. node \in Generated
    BY <1>2, <2>1 DEF Good, node
  <2> QED BY <2>1, <2>2 DEF Unresolved
<1>4. CASE OutOfRegisters
  <2>1. Head(todo).do = "right" /\ ConsumeReg(regset) = {}
    BY <1>4 DEF OutOfRegisters, At
  <2>2. Deep(node, regset)
    BY <1>2, <2>1 DEF Good, node, regset
  <2>3. PICK m \in Generated : /\ IsExpr(prog, m)
                               /\ Need(prog)[m] >= Need(prog)[node] + register_count - Cardinality(regset)
    BY <2>2 DEF Deep
  <2>4. Cardinality(regset) = 1 /\ register_count \in Nat
    BY <1>1, <2>1, RegisterCounts, RegisterFacts
  <2>5. Need(prog)[node] >= 2 /\ Need(prog)[node] \in Nat
    <3>1. PICK b \in DOMAIN prog : b = prog[node].kids[2]
      <4>1. 2 \in 1 .. 2
        OBVIOUS
      <4> QED BY <1>1, <2>1, <4>1, BinopKids DEF Type
    <3>2. Need(prog)[b] \in Nat \ {0} /\ Need(prog)[node] \in Nat
      BY <1>1, NeedBounds
    <3>3. Need(prog)[node] >= 1 + Need(prog)[b]
      BY <1>1, <2>1, <3>1, NeedOfBinop DEF Type
    <3> QED BY <3>2, <3>3
  <2>6. Need(prog)[m] \in Nat
    BY <1>1, NeedBounds DEF Generated
  <2>7. Need(prog)[m] > register_count
    BY <2>3, <2>4, <2>5, <2>6
  <2> QED BY <2>3, <2>7 DEF TooDeep
<1> QED BY <1>3, <1>4

\* When nothing waits, the generator has come to every node it is to come to.
LEMMA AllMade ==
    ASSUME WellFormed(prog), Preorder(prog), todo = <<>>, NEW calls, Made(calls),
           \A n \in DOMAIN prog : \A r \in RegSets :
              <<n, r>> \in calls /\ Type(n) # "BIN_OP" /\ IsExpr(prog, n) => Kids(n) = <<>>
    PROVE  \A n \in Generated : \E r \in RegSets : <<n, r>> \in calls
<1> DEFINE left == {n \in Generated : \A r \in RegSets : <<n, r>> \notin calls}
<1>1. DOMAIN prog = 1 .. Len(prog) /\ Len(prog) \in Nat \ {0}
  BY TreeFacts
<1>2. \A n, r : Given(calls, n, r) => <<n, r>> \in calls
  <2>1. DOMAIN <<>> = {}
    OBVIOUS
  <2> QED BY <2>1 DEF Given, In
<1>3. \A r : ~In(r, todo)
  <2>1. DOMAIN <<>> = {}
    OBVIOUS
  <2> QED BY <2>1 DEF In
<1>4. initial_regset \in RegSets /\ \A r \in RegSets : ConsumeReg(r) # {} => ConsumeReg(r) \in RegSets
  BY RegisterFacts
<1>5. left = {}
  <2> SUFFICES ASSUME left # {}
               PROVE  FALSE
    OBVIOUS
  <2>1. left \in SUBSET Nat
    BY <1>1 DEF Generated
  <2>2. PICK n \in left : \A m \in left : n <= m
    <3> HIDE DEF left
    <3> QED BY <2>1, MinProperties
  <2>3. n \in Generated /\ n \in DOMAIN prog /\ \A r \in RegSets : <<n, r>> \notin calls
    BY <2>2 DEF Generated
  <2>4. n # 1
    <3>1. <<1, initial_regset>> \in calls
      BY <1>2 DEF Made
    <3> QED BY <1>4, <2>3, <3>1
  <2>5. PICK m \in DOMAIN prog : \E i \in DOMAIN prog[m].kids : prog[m].kids[i] = n
    BY <2>3, <2>4, ParentKnown
  <2>6. PICK i \in DOMAIN Kids(m) : Kid(m, i) = n
    BY <2>5 DEF Kids, Kid
  <2>7. m < n
    BY <2>6, TreeFacts DEF Kids, Kid
  <2>8. ~VarDecl(m) /\ m \in Generated
    <3>1. ASSUME NEW d \in DOMAIN prog, VarDecl(d), d <= m, m <= LastOf(prog)[d]
          PROVE  FALSE
      <4>1. d < n /\ n <= LastOf(prog)[d]
        BY <2>6, <3>1, AboveKid DEF Kid, Kids
      <4> QED BY <2>3, <3>1, <4>1 DEF Generated, Ignored, VarDecl
    <3>2. m <= LastOf(prog)[m] /\ m <= m
      BY <1>1, LastBounds
    <3>3. ~VarDecl(m)
      BY <3>1, <3>2
    <3>4. \A d \in DOMAIN prog : d < m => d <= m
      BY <1>1
    <3> QED BY <3>1, <3>3, <3>4 DEF Generated, Ignored, VarDecl
  <2>9. m \notin left
    <3>1. m \in Nat /\ n \in Nat
      BY <1>1, <2>3
    <3> HIDE DEF left
    <3> QED BY <2>2, <2>7, <3>1
  <2>10. PICK r \in RegSets : <<m, r>> \in calls
    BY <2>8, <2>9
  <2>11. Follows(calls, m, r)
    BY <2>10 DEF Made
  <2>12. CASE IsStat(prog, m)
    <3>1. <<n, initial_regset>> \in calls
      BY <1>2, <2>6, <2>8, <2>11, <2>12 DEF Follows
    <3> QED BY <1>4, <2>3, <3>1
  <2>13. CASE Type(m) = "BIN_OP"
    <3>1. i = 1 \/ i = 2
      <4>1. DOMAIN Kids(m) = 1 .. 2
        BY <2>13, BinopKids DEF Kids, Type
      <4> QED BY <4>1
    <3>2. /\ <<Kid(m, 1), r>> \in calls
          /\ ConsumeReg(r) # {} /\ <<Kid(m, 2), ConsumeReg(r)>> \in calls
      BY <1>2, <1>3, <2>11, <2>13 DEF Follows
    <3> QED BY <1>4, <2>3, <2>6, <2>10, <3>1, <3>2
  <2>14. IsStat(prog, m) \/ IsExpr(prog, m)
    BY TreeFacts DEF Node, IsStat, IsExpr
  <2>15. Kids(m) # <<>>
    <3>1. DOMAIN <<>> = {}
      OBVIOUS
    <3> QED BY <2>6, <3>1
  <2> QED BY <2>10, <2>12, <2>13, <2>14, <2>15
<1> QED BY <1>5

\* And there were registers enough for all expressions.
LEMMA EnoughRegisters ==
    ASSUME WellFormed(prog), todo = <<>>, NEW calls, Made(calls)
    PROVE  \A n \in DOMAIN prog : \A r \in RegSets :
              <<n, r>> \in calls /\ IsExpr(prog, n) => Need(prog)[n] <= Cardinality(r)
<1> DEFINE bad == {n \in DOMAIN prog : \E r \in RegSets :
                     /\ <<n, r>> \in calls /\ IsExpr(prog, n)
                     /\ ~(Need(prog)[n] <= Cardinality(r))}
<1>1. DOMAIN prog = 1 .. Len(prog) /\ Len(prog) \in Nat \ {0}
  BY TreeFacts
<1>2. \A n, r : Given(calls, n, r) => <<n, r>> \in calls
  <2>1. DOMAIN <<>> = {}
    OBVIOUS
  <2> QED BY <2>1 DEF Given, In
<1>3. \A r : ~In(r, todo)
  <2>1. DOMAIN <<>> = {}
    OBVIOUS
  <2> QED BY <2>1 DEF In
<1>4. bad = {}
  <2> SUFFICES ASSUME bad # {}
               PROVE  FALSE
    OBVIOUS
  <2>1. PICK n \in bad : \A m \in bad : n >= m
    <3>1. bad \in SUBSET (1 .. Len(prog)) /\ Len(prog) \in Nat
      BY <1>1
    <3> HIDE DEF bad
    <3> QED BY <3>1, MaxProperties
  <2>2. PICK r \in RegSets : /\ <<n, r>> \in calls /\ IsExpr(prog, n)
                             /\ ~(Need(prog)[n] <= Cardinality(r))
    BY <2>1
  <2>3. n \in DOMAIN prog /\ n \in Nat
    BY <1>1, <2>1
  <2>4. Cardinality(r) \in Nat \ {0}
    <3>1. Cardinality(r) \in 1 .. register_count /\ register_count \in Nat
      BY RegisterCounts, RegisterFacts
    <3> QED BY <3>1
  <2>5. CASE Type(n) # "BIN_OP"
    <3>1. Need(prog)[n] = 1
      BY <2>3, <2>5, NeedDef DEF Type
    <3> QED BY <2>2, <2>4, <3>1
  <2>6. CASE Type(n) = "BIN_OP"
    <3>1. PICK a \in DOMAIN prog, b \in DOMAIN prog :
            /\ a = Kid(n, 1) /\ b = Kid(n, 2) /\ a > n /\ b > n
            /\ IsExpr(prog, a) /\ IsExpr(prog, b)
            /\ Need(prog)[n] \in {Need(prog)[a], 1 + Need(prog)[b]}
      <4>1. 1 \in 1 .. 2 /\ 2 \in 1 .. 2
        OBVIOUS
      <4>2. /\ prog[n].kids[1] \in DOMAIN prog /\ prog[n].kids[1] > n
            /\ IsExpr(prog, prog[n].kids[1])
            /\ prog[n].kids[2] \in DOMAIN prog /\ prog[n].kids[2] > n
            /\ IsExpr(prog, prog[n].kids[2])
        BY <2>3, <2>6, <4>1, BinopKids DEF Type
      <4>3. Need(prog)[n] \in {Need(prog)[prog[n].kids[1]], 1 + Need(prog)[prog[n].kids[2]]}
        BY <2>3, <2>6, NeedOfBinop DEF Type
      <4> QED BY <4>2, <4>3 DEF Kid
    <3>2. Follows(calls, n, r)
      BY <2>2, <2>3 DEF Made
    <3>3. /\ <<a, r>> \in calls
          /\ ConsumeReg(r) # {} /\ <<b, ConsumeReg(r)>> \in calls
      BY <1>2, <1>3, <2>6, <3>1, <3>2 DEF Follows
    <3>4. a \notin bad /\ b \notin bad
      <4>1. a \in Nat /\ b \in Nat
        BY <1>1
      <4> HIDE DEF bad
      <4> QED BY <2>1, <2>3, <3>1, <4>1
    <3>5. ConsumeReg(r) \in RegSets /\ Cardinality(ConsumeReg(r)) = Cardinality(r) - 1
      BY <3>3, RegisterFacts, RegisterCounts
    <3>6. Need(prog)[a] <= Cardinality(r) /\ Need(prog)[b] <= Cardinality(r) - 1
      BY <3>1, <3>3, <3>4, <3>5
    <3>7. Need(prog)[a] \in Nat /\ Need(prog)[b] \in Nat
      BY NeedBounds
    <3> QED BY <2>2, <2>4, <3>1, <3>6, <3>7
  <2> QED BY <2>5, <2>6
<1> QED BY <1>4

\* Going on to the end is right as well.
LEMMA GoingOn ==
    ASSUME WellFormed(prog), Preorder(prog), todo = <<>>, NEW calls, Made(calls)
    PROVE  ~TooDeep /\ ~Unresolved
<1>1. \A n \in DOMAIN prog : Type(n) # "BIN_OP" /\ IsExpr(prog, n) => Kids(n) = <<>>
  BY DEF WellFormed, ShapeOK, Type, Kids, IsExpr, ExprTypes
<1>2. \A n \in Generated : \E r \in RegSets : <<n, r>> \in calls
  BY <1>1, AllMade
<1>3. ~Unresolved
  <2>1. ASSUME NEW n \in Generated, Type(n) \in {"DECL_STAT", "VAR_REF"}
        PROVE  symbolOf[n] # NULL
    <3>1. PICK r \in RegSets : <<n, r>> \in calls
      BY <1>2
    <3>2. Follows(calls, n, r)
      BY <3>1 DEF Made, Generated
    <3> QED BY <2>1, <3>2 DEF Follows, Linked
  <2> QED BY <2>1 DEF Unresolved
<1>4. ~TooDeep
  <2>1. ASSUME NEW n \in Generated, IsExpr(prog, n)
        PROVE  ~(Need(prog)[n] > register_count)
    <3>1. PICK r \in RegSets : <<n, r>> \in calls
      BY <1>2
    <3>2. n \in DOMAIN prog
      BY DEF Generated
    <3>3. Need(prog)[n] <= Cardinality(r) /\ Need(prog)[n] \in Nat
      BY <2>1, <3>1, <3>2, EnoughRegisters, NeedBounds
    <3>4. Cardinality(r) \in 1 .. register_count /\ register_count \in Nat
      BY RegisterCounts, RegisterFacts
    <3> QED BY <3>3, <3>4
  <2> QED BY <2>1 DEF TooDeep
<1> QED BY <1>3, <1>4

\* The invariant of giving up holds when the generator starts.
LEMMA InitGivesUp ==
    ASSUME WellFormed(prog), Preorder(prog), GenInit
    PROVE  GivesUpInv
<1> DEFINE t == StatTask(1, initial_regset)
<1>1. todo = <<t>> /\ genStatus = "generating"
  BY DEF GenInit
<1>2. t.do = "stat" /\ t.node = 1 /\ t.regset = initial_regset
  BY TaskKinds
<1>3. 1 \in Generated
  <2>1. DOMAIN prog = 1 .. Len(prog) /\ Len(prog) \in Nat \ {0}
    BY TreeFacts
  <2>2. 1 \in DOMAIN prog /\ \A d \in DOMAIN prog : ~(d < 1)
    BY <2>1
  <2> QED BY <2>2 DEF Generated, Ignored
<1>4. t = StatTask(1, initial_regset)
  OBVIOUS
<1> HIDE DEF t
<1>5. DOMAIN todo = {1} /\ todo[1] = t
  BY <1>1
<1>6. GoodCalls
  BY <1>2, <1>3, <1>5 DEF GoodCalls, Good
<1>7. Made({})
  BY <1>4, <1>5 DEF Made, Given, In
<1> QED BY <1>1, <1>6, <1>7 DEF GivesUpInv

\* The steps that make calls keep it.
LEMMA StepGivesUp ==
    ASSUME GenTypeOK, GivesUpInv, NEW tasks, Step(tasks)
    PROVE  GivesUpInv'
<1>1. /\ genStatus = "generating" /\ todo # <<>> /\ tasks \in Seq(GenTasks)
      /\ todo' = tasks \o Tail(todo) /\ Serves(tasks) /\ UNCHANGED <<prog, symbolOf>>
      /\ genStatus' = "generating"
  BY DEF Step
<1>2. PICK calls : Made(calls)
  BY <1>1 DEF GivesUpInv
<1>3. GoodCalls' /\ \E c : Made(c)'
  BY <1>1, <1>2, ServesMade DEF GivesUpInv
<1>4. WellFormed(prog)' /\ Preorder(prog)'
  BY <1>1 DEF GivesUpInv
<1> QED BY <1>1, <1>3, <1>4 DEF GivesUpInv

\* Every step makes calls of this kind, or gives up, or stops.
LEMMA EveryStep ==
    ASSUME GenTypeOK, GivesUpInv, Generate
    PROVE  \/ \E tasks : Step(tasks)
           \/ OutOfRegisters \/ NoSymbol \/ GenFinish
<1>1. GoodCalls /\ Preorder(prog)
  BY DEF GivesUpInv
<1> QED BY <1>1, SimpleServe, IfServes, LoopsServe, BlocksServe, PlainServe, OperandsServe
        DEF Generate

\* Every step does.
LEMMA NextGivesUp ==
    ASSUME GenTypeOK, GivesUpInv, [GenNext]_genVars
    PROVE  GivesUpInv'
<1>0. GoodCalls /\ Preorder(prog) /\ WellFormed(prog)
  BY DEF GivesUpInv
<1>1. CASE \E tasks : Step(tasks)
  BY <1>1, StepGivesUp
<1>2. CASE OutOfRegisters \/ NoSymbol
  <2>1. /\ UNCHANGED <<prog, symbolOf, todo>> /\ genStatus' = "aborted"
    BY <1>2 DEF OutOfRegisters, NoSymbol
  <2>2. TooDeep \/ Unresolved
    BY <1>0, <1>2, GivingUp
  <2>3. GoodCalls'
    BY <1>0, <2>1 DEF GoodCalls, Good, Deep, Generated, Ignored, Type
  <2>4. TooDeep' \/ Unresolved'
    BY <2>1, <2>2 DEF TooDeep, Unresolved, Generated, Ignored, Type
  <2> QED BY <1>0, <2>1, <2>3, <2>4 DEF GivesUpInv
<1>3. CASE GenFinish \/ GenStopped \/ UNCHANGED genVars
  <2>1. /\ UNCHANGED <<prog, symbolOf, todo>>
        /\ genStatus' = genStatus \/ (genStatus = "generating" /\ genStatus' = "done")
    BY <1>3 DEF GenFinish, GenStopped, genVars
  <2>2. GoodCalls'
    BY <1>0, <2>1 DEF GoodCalls, Good, Deep, Generated, Ignored, Type
  <2>3. (TooDeep \/ Unresolved)' <=> (TooDeep \/ Unresolved)
    BY <2>1 DEF TooDeep, Unresolved, Generated, Ignored, Type
  <2>4. \A c : Made(c) => Made(c)'
    BY <2>1 DEF Made, Given, Follows, Linked, VarDecl, In, StatTask, ExprTask, Pending, Type,
                Kids, Kid, IsStat, ConsumeReg, RegSets, initial_regset, register_count
  <2> QED BY <1>0, <2>1, <2>2, <2>3, <2>4 DEF GivesUpInv
<1> QED BY <1>1, <1>2, <1>3, EveryStep DEF GenNext

\* The invariants tell when the generator gives up.
LEMMA GivesUpFollows == GenInv /\ GivesUpInv => GivesUpOnlyIfNeeded
<1> SUFFICES ASSUME GenInv, GivesUpInv
             PROVE  GivesUpOnlyIfNeeded
  OBVIOUS
<1>1. ASSUME genStatus = "done"
      PROVE  ~TooDeep /\ ~Unresolved
  <2>1. todo = <<>>
    BY <1>1 DEF GenInv
  <2>2. PICK calls : Made(calls)
    BY <1>1 DEF GivesUpInv
  <2> QED BY <2>1, <2>2, GoingOn DEF GivesUpInv
<1> QED BY <1>1 DEF GivesUpInv, GivesUpOnlyIfNeeded

\* The generator gives up exactly on the programs it cannot do.
THEOREM GivesUpRightly == GenSpec => []GivesUpOnlyIfNeeded
<1>1. GenStart => GivesUpInv
  BY InitGivesUp, ProgramsAssumption, PreorderAssumption DEF GenStart
<1>2. GenInv /\ GivesUpInv /\ [GenNext]_genVars => GivesUpInv'
  BY NextGivesUp DEF GenInv
<1> QED BY <1>1, <1>2, InvAlways, GivesUpFollows, PTL DEF GenSpec
=============================================================================
