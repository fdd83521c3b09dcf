-------------------------------- MODULE Gen --------------------------------
(***************************************************************************)
(* The code generator (gen.c).  generate_statement and generate_expression *)
(* walk the AST and print instructions; their recursion is unfolded into   *)
(* the list `todo' of the calls still to be made, each with its register   *)
(* set, and of the instructions to print in between.                       *)
(***************************************************************************)
EXTENDS AstState, FiniteSetsExt

CONSTANTS
    RegisterNames,  \* register_names, in the order they are handed out
    SymbolMaps(_)   \* the ways the symbols of a program may have been linked

ASSUME RegisterAssumption ==
    /\ RegisterNames \in Seq(STRING \ {"rax", "rdx", "rsp"}) /\ RegisterNames # <<>>
    /\ \A i, j \in DOMAIN RegisterNames : RegisterNames[i] = RegisterNames[j] => i = j

ASSUME LinksAssumption ==
    \A p \in Programs : \A links \in SymbolMaps(p) :
        links \in [DOMAIN p -> Addr \cup {NULL}]

VARIABLES
    slot,               \* stack_offset of the symbol at each address
    todo,               \* calls to make and instructions to print, in order
    out,                \* the instructions printed
    next_label,
    next_stack_offset,
    genStatus           \* "generating", "done" or "aborted" (assert)

genVars == <<prog, symbolOf, slot, todo, out, next_label, next_stack_offset, genStatus>>

-----------------------------------------------------------------------------
(* Register sets: the numbers of the registers that are available. *)

register_count == Len(RegisterNames)
initial_regset == 1 .. register_count

NextReg(regset)    == RegisterNames[Min(regset)]
\* Mutated form of ConsumeReg: the register stays available.
ConsumeNothing(regset) == regset
ConsumeReg(regset) == regset \ {Min(regset)}

-----------------------------------------------------------------------------
(* Instructions, in the AT&T order: source, then destination. *)

Arg(type, reg, val) == [type |-> type, reg |-> reg, val |-> val]
Lit(val)            == Arg("LIT_ARG", NULL, val)
Reg(reg)            == Arg("REG_ARG", reg, 0)
Mem(reg, offset)    == Arg("MEM_ARG", reg, offset)
NoArg               == Arg("NO_ARG", NULL, 0)

Instr(op, src, dst, lab, name) ==
    [op |-> op, src |-> src, dst |-> dst, lab |-> lab, name |-> name]

Cmd(op, src, dst) == Instr(op, src, dst, NULL, NULL)
Mov(src, dst)     == Cmd("mov", src, dst)
Jump(op, l)       == Instr(op, NoArg, NoArg, l, NULL)
Label(l)          == Instr("label", NoArg, NoArg, l, NULL)
Func(name)        == Instr("func", NoArg, NoArg, NULL, name)
Call(name)        == Instr("call", NoArg, NoArg, NULL, name)
Ret               == Cmd("ret", NoArg, NoArg)

\* The text after the program: the entry point of the executable.
Epilogue == <<Instr("entry", NoArg, NoArg, NULL, NULL), Call("main"), Ret>>

SaveRegisters ==
    [i \in 1 .. register_count |-> Cmd("push", Reg(RegisterNames[i]), NoArg)]

\* Mutated form of LoadRegisters: popped in the order they were pushed.
LoadInOrder ==
    [i \in 1 .. register_count |-> Cmd("pop", NoArg, Reg(RegisterNames[i]))]

LoadRegisters ==
    [i \in 1 .. register_count |->
        Cmd("pop", NoArg, Reg(RegisterNames[register_count + 1 - i]))]

Idiv(src, dst) ==
    <<Mov(Reg(dst), Reg("rax")), Mov(Lit(0), Reg("rdx")),
      Cmd("idivq", Reg(src), NoArg), Mov(Reg("rax"), Reg(dst))>>

JumpOf == [EQ |-> "je", GT |-> "jg", GTE |-> "jge", LT |-> "jl", LTE |-> "jle"]

\* The instruction of each arithmetic operator.
Arith(op, src, dst) ==
    CASE op = "ADD"  -> <<Cmd("add", Reg(src), Reg(dst))>>
      [] op = "SUBS" -> <<Cmd("sub", Reg(src), Reg(dst))>>
      [] op = "MUL"  -> <<Cmd("imul", Reg(src), Reg(dst))>>
      [] op = "DIV"  -> <<Mov(Lit(0), Reg("rdx"))>> \o Idiv(src, dst)

-----------------------------------------------------------------------------
\* A pending call or print: `stat' and `expr' generate a node, `right' comes
\* after the left operand and `op' after the right one, `emit' prints.
Pending(do, n, regset) == [do |-> do, node |-> n, regset |-> regset, code |-> <<>>]
Emit(code)          == [do |-> "emit", node |-> 1, regset |-> {1}, code |-> code]

StatTask(n, regset) == Pending("stat", n, regset)
ExprTask(n, regset) == Pending("expr", n, regset)

GenInit ==
    /\ slot = [a \in Addr |-> 0]
    /\ todo = <<StatTask(1, initial_regset)>>
    /\ out = <<>>
    /\ next_label = 0
    /\ next_stack_offset = 8
    /\ genStatus = "generating"

At(do) == genStatus = "generating" /\ todo # <<>> /\ Head(todo).do = do

node   == Head(todo).node
regset == Head(todo).regset

AtStatTask(type) == At("stat") /\ Type(node) = type
AtExprTask(type) == At("expr") /\ Type(node) = type
AtOp(ops)    == At("op") /\ prog[node].op \in ops

\* The current call makes those calls, then returns.
Do(tasks) == todo' = tasks \o Tail(todo)

Output(code) == out' = out \o code /\ Do(<<>>)

\* Nothing else happens.
Continue(tasks) ==
    Do(tasks) /\ UNCHANGED <<prog, symbolOf, slot, out, next_label, next_stack_offset, genStatus>>

Write(code) ==
    Output(code) /\ UNCHANGED <<prog, symbolOf, slot, next_label, next_stack_offset, genStatus>>

-----------------------------------------------------------------------------
(* generate_statement *)

GenReturn ==
    /\ AtStatTask("RETURN_STAT")
    /\ Continue(<<ExprTask(Kid(node, 1), regset),
                  Emit(<<Mov(Reg(NextReg(regset)), Reg("rax")), Ret>>)>>)

\* Test the condition in the next register and jump.
Test(regset_, jump, l) == Emit(<<Cmd("cmp", Lit(0), Reg(NextReg(regset_))), Jump(jump, l)>>)

\* The label stands between the branches, with no jump over the second.
Branches ==
    <<ExprTask(Kid(node, 1), regset), Test(regset, "je", next_label),
      StatTask(Kid(node, 2), regset), Emit(<<Label(next_label)>>)>>
    \o [i \in 1 .. Len(Kids(node)) - 2 |-> StatTask(Kid(node, i + 2), regset)]

\* Mutated form of GenIf: the label is not taken from the counter.
GenIfSameLabel == AtStatTask("IF_STAT") /\ Continue(Branches)

GenIf ==
    /\ AtStatTask("IF_STAT")
    /\ Do(Branches)
    /\ next_label' = next_label + 1
    /\ UNCHANGED <<prog, symbolOf, slot, out, next_stack_offset, genStatus>>

\* Mutated form of Loop: the condition label is left out.
LoopNoLabel(first, again, cond) ==
    /\ Do(first \o <<Emit(<<Jump("jmp", next_label), Label(next_label + 1)>>)>> \o again
             \o <<ExprTask(cond, regset), Test(regset, "jne", next_label + 1)>>)
    /\ next_label' = next_label + 2
    /\ UNCHANGED <<prog, symbolOf, slot, out, next_stack_offset, genStatus>>

\* The condition stands at the end, behind the label next_label, and the body at
\* the label after it.
Loop(first, again, cond) ==
    /\ Do(first \o <<Emit(<<Jump("jmp", next_label), Label(next_label + 1)>>)>> \o again
             \o <<Emit(<<Label(next_label)>>), ExprTask(cond, regset),
                  Test(regset, "jne", next_label + 1)>>)
    /\ next_label' = next_label + 2
    /\ UNCHANGED <<prog, symbolOf, slot, out, next_stack_offset, genStatus>>

GenWhile ==
    /\ AtStatTask("WHILE_STAT")
    /\ Loop(<<>>, <<StatTask(Kid(node, 2), regset)>>, Kid(node, 1))

\* Mutated form of GenFor: the iteration expression is left out.
GenForNoIter ==
    /\ AtStatTask("FOR_STAT")
    /\ Loop(<<ExprTask(Kid(node, 1), regset)>>, <<StatTask(Kid(node, 4), regset)>>, Kid(node, 2))

GenFor ==
    /\ AtStatTask("FOR_STAT")
    /\ Loop(<<ExprTask(Kid(node, 1), regset)>>,
            <<StatTask(Kid(node, 4), regset), ExprTask(Kid(node, 3), regset)>>, Kid(node, 2))

GenBlock ==
    /\ AtStatTask("BLOCK_STAT")
    /\ Continue([i \in DOMAIN Kids(node) |-> StatTask(Kid(node, i), regset)])

\* The code of a function stands where its declaration stands.
GenFunc ==
    /\ AtStatTask("DECL_STAT") /\ prog[node].is_func /\ symbolOf[node] # NULL
    /\ Do([i \in DOMAIN Kids(node) |-> StatTask(Kid(node, i), regset)])
    /\ out' = Append(out, Func(prog[node].name))
    /\ UNCHANGED <<prog, symbolOf, slot, next_label, next_stack_offset, genStatus>>

\* Mutated form of GenVar: the next variable gets the same place.
GenVarInPlace ==
    /\ AtStatTask("DECL_STAT") /\ ~prog[node].is_func /\ symbolOf[node] # NULL
    /\ slot' = [slot EXCEPT ![symbolOf[node]] = next_stack_offset]
    /\ Do(<<>>)
    /\ UNCHANGED <<prog, symbolOf, out, next_label, next_stack_offset, genStatus>>

\* A variable gets its place; its initial value is not looked at.
GenVar ==
    /\ AtStatTask("DECL_STAT") /\ ~prog[node].is_func /\ symbolOf[node] # NULL
    /\ slot' = [slot EXCEPT ![symbolOf[node]] = next_stack_offset]
    /\ next_stack_offset' = next_stack_offset + 8
    /\ Do(<<>>)
    /\ UNCHANGED <<prog, symbolOf, out, next_label, genStatus>>

GenExprStat ==
    /\ AtStatTask("EXPR_STAT")
    /\ Continue(<<ExprTask(Kid(node, 1), regset)>>)

\* Mutated form of GenSkip: the block does not advance past the statement.
GenSkipForever ==
    /\ AtStatTask("SKIP_STAT")
    /\ UNCHANGED genVars

GenSkip ==
    /\ AtStatTask("SKIP_STAT")
    /\ Continue(<<>>)

-----------------------------------------------------------------------------
(* generate_expression: the result goes to the next register of the set. *)

\* The flag the parser sets on the left side of an assignment.
Assigned(n) ==
    \E m \in DOMAIN prog : Type(m) = "BIN_OP" /\ prog[m].op = "ASSIGN" /\ Kid(m, 1) = n

GenIntLit ==
    /\ AtExprTask("INT_LIT")
    /\ Write(<<Mov(Lit(prog[node].ival), Reg(NextReg(regset)))>>)

\* An assigned variable leaves its address, any other its value.
GenVarRef ==
    /\ AtExprTask("VAR_REF") /\ symbolOf[node] # NULL
    /\ LET dst == NextReg(regset)
           offset == -slot[symbolOf[node]]
       IN  Write(IF Assigned(node)
                 THEN <<Mov(Lit(offset), Reg(dst)), Cmd("add", Reg("rsp"), Reg(dst))>>
                 ELSE <<Mov(Mem("rsp", offset), Reg(dst))>>)

GenFuncCall ==
    /\ AtExprTask("FUNC_CALL")
    /\ Write(SaveRegisters \o <<Call(prog[node].name)>> \o LoadRegisters
             \o <<Mov(Reg("rax"), Reg(NextReg(regset)))>>)

GenBinop ==
    /\ AtExprTask("BIN_OP")
    /\ Continue(<<ExprTask(Kid(node, 1), regset), Pending("right", node, regset)>>)

\* Mutated form of GenRight: the assertion of next_reg_number is dropped.
GenRightUnchecked ==
    /\ At("right")
    /\ Continue(<<ExprTask(Kid(node, 2), ConsumeReg(regset)), Pending("op", node, regset)>>)

\* The left result stays in its register while the right operand is computed.
GenRight ==
    /\ At("right") /\ ConsumeReg(regset) # {}
    /\ Continue(<<ExprTask(Kid(node, 2), ConsumeReg(regset)), Pending("op", node, regset)>>)

\* The assertion of next_reg_number: no register is left for the right operand.
OutOfRegisters ==
    /\ At("right") /\ ConsumeReg(regset) = {}
    /\ genStatus' = "aborted"
    /\ UNCHANGED <<prog, symbolOf, slot, todo, out, next_label, next_stack_offset>>

\* The assertions on the symbol of a declaration or a variable.
NoSymbol ==
    /\ AtStatTask("DECL_STAT") \/ AtExprTask("VAR_REF")
    /\ symbolOf[node] = NULL
    /\ genStatus' = "aborted"
    /\ UNCHANGED <<prog, symbolOf, slot, todo, out, next_label, next_stack_offset>>

left_reg  == NextReg(regset)
right_reg == NextReg(ConsumeReg(regset))

GenArith ==
    /\ AtOp(ArithOps)
    /\ Write(Arith(prog[node].op, right_reg, left_reg))

GenAssign ==
    /\ AtOp({"ASSIGN"})
    /\ Write(<<Mov(Reg(right_reg), Mem(left_reg, 0))>>)

\* Mutated form of Comparison: the operands of cmp are swapped.
ComparisonSwapped ==
    <<Cmd("cmp", Reg(left_reg), Reg(right_reg)), Mov(Lit(1), Reg(left_reg)),
      Jump(JumpOf[prog[node].op], next_label), Mov(Lit(0), Reg(left_reg)), Label(next_label)>>

Comparison ==
    <<Cmd("cmp", Reg(right_reg), Reg(left_reg)), Mov(Lit(1), Reg(left_reg)),
      Jump(JumpOf[prog[node].op], next_label), Mov(Lit(0), Reg(left_reg)), Label(next_label)>>

GenCompare ==
    /\ AtOp(CompareOps)
    /\ Output(Comparison)
    /\ next_label' = next_label + 1
    /\ UNCHANGED <<prog, symbolOf, slot, next_stack_offset, genStatus>>

GenEmit ==
    /\ At("emit")
    /\ Write(Head(todo).code)

GenFinish ==
    /\ genStatus = "generating" /\ todo = <<>>
    /\ out' = out \o Epilogue
    /\ genStatus' = "done"
    /\ UNCHANGED <<prog, symbolOf, slot, todo, next_label, next_stack_offset>>

Generate ==
    \/ GenReturn \/ GenIf \/ GenWhile \/ GenFor \/ GenBlock \/ GenFunc \/ GenVar
    \/ GenExprStat \/ GenSkip
    \/ GenIntLit \/ GenVarRef \/ GenFuncCall \/ GenBinop \/ GenRight \/ OutOfRegisters
    \/ NoSymbol \/ GenArith \/ GenAssign \/ GenCompare \/ GenEmit \/ GenFinish

GenStopped == genStatus # "generating" /\ UNCHANGED genVars

GenNext == Generate \/ GenStopped

\* The trees that get here have been through the semantic checker: a prototype
\* has stopped it.  Here the symbols are arbitrary, and may even be missing.
GenStart ==
    /\ prog \in Programs
    /\ \A n \in DOMAIN prog : prog[n].is_func => Kids(n) # <<>>
    /\ symbolOf \in SymbolMaps(prog)
    /\ GenInit

GenSpec == GenStart /\ [][GenNext]_genVars

\* The generator runs until it has nothing left to do.
GenFairSpec == GenSpec /\ WF_genVars(Generate)

-----------------------------------------------------------------------------
(* Properties. *)

Registers == {RegisterNames[i] : i \in DOMAIN RegisterNames} \cup {"rax", "rdx", "rsp"}
Args == [type : {"LIT_ARG", "REG_ARG", "MEM_ARG", "NO_ARG"},
         reg : Registers \cup {NULL}, val : Int]
Jumps == {"jmp", "je", "jne", "jg", "jge", "jl", "jle"}
Opcodes == {"mov", "add", "sub", "imul", "idivq", "cmp", "push", "pop",
            "call", "ret", "func", "entry", "label"} \cup Jumps
Instrs == [op : Opcodes, src : Args, dst : Args, lab : Nat \cup {NULL},
           name : Names \cup {NULL, "main"}]

\* A call is never made with an empty register set, and the register of the
\* right operand is there when the operation is printed.
RegSets == (SUBSET initial_regset) \ {{}}

GenTasks ==
    [do : {"stat"}, node : {n \in DOMAIN prog : IsStat(prog, n)}, regset : RegSets,
     code : {<<>>}]
    \cup [do : {"expr"}, node : {n \in DOMAIN prog : IsExpr(prog, n)}, regset : RegSets,
          code : {<<>>}]
    \cup [do : {"right"}, node : {n \in DOMAIN prog : Type(n) = "BIN_OP"}, regset : RegSets,
          code : {<<>>}]
    \cup [do : {"op"}, node : {n \in DOMAIN prog : Type(n) = "BIN_OP"},
          regset : {r \in RegSets : ConsumeReg(r) # {}}, code : {<<>>}]
    \cup [do : {"emit"}, node : {1}, regset : {{1}}, code : Seq(Instrs)]

\* What generate_statement and generate_expression work on: every pending call has
\* a node of the kind it needs and a register to put its result in, and what is
\* printed is made of the instructions and registers there are.
GenTypeOK ==
    /\ WellFormed(prog)
    /\ symbolOf \in [DOMAIN prog -> Addr \cup {NULL}]
    /\ slot \in [Addr -> Nat]
    /\ todo \in Seq(GenTasks)
    /\ out \in Seq(Instrs)
    /\ next_label \in Nat /\ next_stack_offset \in Nat
    /\ genStatus \in {"generating", "done", "aborted"}

\* While a left operand waits in its register for the operation, nothing that
\* is printed for the right operand writes that register: a call saves and
\* restores it.
LeftKept ==
    [][\A k \in Len(out) + 1 .. Len(out') : \A i \in DOMAIN todo' :
          todo'[i].do = "op" =>
             out'[k].op = "pop" \/ out'[k].dst # Reg(NextReg(todo'[i].regset))]_genVars

\* The reason for LeftKept: the calls that come before an operation work with
\* sets that leave the register of its left operand out.
RegisterDiscipline ==
    \A j \in DOMAIN todo : todo[j].do = "op" =>
        \A i \in 1 .. j - 1 : /\ todo[i].do \in {"expr", "right", "op"}
                              /\ Min(todo[j].regset) \notin todo[i].regset

\* No label is placed twice, across all statements and functions.
LabelsUnique ==
    \A i, j \in DOMAIN out :
        out[i].op = "label" /\ out[j].op = "label" /\ out[i].lab = out[j].lab => i = j

\* Every jump has its label somewhere in the finished program.
JumpsResolve ==
    genStatus = "done" =>
        \A i \in DOMAIN out : out[i].op \in Jumps =>
            \E j \in DOMAIN out : out[j].op = "label" /\ out[j].lab = out[i].lab

\* The number of registers an expression takes.
Need(p) ==
    LET need[n \in DOMAIN p] ==
          IF p[n].type = "BIN_OP" THEN Max({need[p[n].kids[1]], 1 + need[p[n].kids[2]]})
                                  ELSE 1
    IN  need

\* The generator does not look at the initial value of a variable (GenVar).
Ignored(n) ==
    \E d \in DOMAIN prog : /\ Type(d) = "DECL_STAT" /\ ~prog[d].is_func
                          /\ d < n /\ n <= LastOf(prog)[d]

Generated == {n \in DOMAIN prog : ~Ignored(n)}

TooDeep == \E n \in Generated : IsExpr(prog, n) /\ Need(prog)[n] > register_count

Unresolved ==
    \E n \in Generated : Type(n) \in {"DECL_STAT", "VAR_REF"} /\ symbolOf[n] = NULL

\* The generator gives up exactly on the programs in which it comes to an expression
\* that takes more registers than there are, or to a missing symbol.
GivesUpOnlyIfNeeded ==
    /\ genStatus = "aborted" => TooDeep \/ Unresolved
    /\ genStatus = "done" => ~TooDeep /\ ~Unresolved

\* Generation ends for every program.
GenTerminates == <>(genStatus # "generating")
=============================================================================
