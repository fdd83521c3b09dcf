------------------------------ MODULE Machine ------------------------------
(***************************************************************************)
(* The part of an x86-64 processor, after the assembler and the linker,    *)
(* that the instructions printed by gen.c use.  It is not part of paola:   *)
(* it gives the output a meaning.  Words are signed, of WordBits bits; an  *)
(* address is a word, and the stack grows down from 0.                     *)
(***************************************************************************)
EXTENDS Integers, Sequences, TLC

CONSTANTS
    WordBits,       \* width of a register, 64 in the real machine
    StackBytes,     \* size of the stack
    Garbage,        \* what memory and registers hold before they are written
    RegisterNames

VARIABLES
    text,       \* the instructions, see Gen
    pc, reg, mem,
    compared,   \* the operands of the last cmp: what the flags stand for
    power       \* "off", "on", "halted" or "trapped"

Wrap(v) ==
    LET u == v % 2 ^ WordBits
    IN  IF u >= 2 ^ (WordBits - 1) THEN u - 2 ^ WordBits ELSE u

Unsigned(v) == v % 2 ^ WordBits

\* Division that truncates towards zero.
Quotient(a, b) ==
    IF (a < 0) = (b < 0) THEN (IF a < 0 THEN -a ELSE a) \div (IF b < 0 THEN -b ELSE b)
    ELSE -((IF a < 0 THEN -a ELSE a) \div (IF b < 0 THEN -b ELSE b))

Read(address) == IF address \in DOMAIN mem THEN mem[address] ELSE Garbage

AddressOf(arg) == Wrap(reg[arg.reg] + arg.val)

Value(arg) ==
    CASE arg.type = "LIT_ARG" -> Wrap(arg.val)
      [] arg.type = "REG_ARG" -> reg[arg.reg]
      [] arg.type = "MEM_ARG" -> Read(AddressOf(arg))

Store(address, v) == mem' = (address :> v) @@ mem

Write(arg, v) ==
    \/ arg.type = "REG_ARG" /\ reg' = [reg EXCEPT ![arg.reg] = v] /\ UNCHANGED mem
    \/ arg.type = "MEM_ARG" /\ Store(AddressOf(arg), v) /\ UNCHANGED reg

Positions(op, lab, name) ==
    {i \in DOMAIN text : text[i].op = op /\ text[i].lab = lab /\ text[i].name = name}

TheOnly(S) == CHOOSE i \in S : TRUE

\* The assembler and the linker find every name that is called, once.
Linkable(null) ==
    \A i \in DOMAIN text : text[i].op = "call" =>
        \E j \in DOMAIN text : Positions("func", null, text[i].name) = {j}

-----------------------------------------------------------------------------
Off ==
    /\ pc = 0
    /\ reg = [r \in {RegisterNames[i] : i \in DOMAIN RegisterNames}
                        \cup {"rax", "rdx", "rsp"} |-> IF r = "rsp" THEN -8 ELSE Garbage]
    /\ mem = (-8 :> 0)          \* the return address of the entry point
    /\ compared = <<0, 0>>
    /\ power = "off"

PowerOn(null) ==
    /\ power = "off"
    /\ pc' = TheOnly(Positions("entry", null, null))
    /\ power' = "on"
    /\ UNCHANGED <<reg, mem, compared>>

\* The next instruction is one of those, and there is stack left.
At(ops) ==
    /\ power = "on" /\ pc \in DOMAIN text /\ reg["rsp"] >= -StackBytes
    /\ text[pc].op \in ops

Src == text[pc].src
Dst == text[pc].dst

Advance == pc' = pc + 1

Mark ==
    /\ At({"label", "func", "entry"}) /\ Advance
    /\ UNCHANGED <<reg, mem, compared, power>>

Move ==
    /\ At({"mov"}) /\ Write(Dst, Value(Src)) /\ Advance
    /\ UNCHANGED <<compared, power>>

Compute ==
    /\ At({"add", "sub", "imul"})
    /\ Write(Dst, Wrap(CASE text[pc].op = "add"  -> Value(Dst) + Value(Src)
                         [] text[pc].op = "sub"  -> Value(Dst) - Value(Src)
                         [] text[pc].op = "imul" -> Value(Dst) * Value(Src)))
    /\ Advance
    /\ UNCHANGED <<compared, power>>

\* idivq divides the double word in rdx and rax.
Dividend == reg["rdx"] * 2 ^ WordBits + Unsigned(reg["rax"])

Divisible ==
    /\ Value(Src) # 0
    /\ LET q == Quotient(Dividend, Value(Src)) IN q = Wrap(q)

Divide ==
    /\ At({"idivq"}) /\ Divisible
    /\ LET q == Quotient(Dividend, Value(Src))
       IN  reg' = [reg EXCEPT !["rax"] = q, !["rdx"] = Wrap(Dividend - q * Value(Src))]
    /\ Advance
    /\ UNCHANGED <<mem, compared, power>>

Compare ==
    /\ At({"cmp"}) /\ compared' = <<Value(Dst), Value(Src)>> /\ Advance
    /\ UNCHANGED <<reg, mem, power>>

Taken(op) ==
    LET l == compared[1]
        r == compared[2]
    IN  CASE op = "jmp" -> TRUE
          [] op = "je"  -> l = r
          [] op = "jne" -> l # r
          [] op = "jg"  -> l > r
          [] op = "jge" -> l >= r
          [] op = "jl"  -> l < r
          [] op = "jle" -> l <= r

Branch(null) ==
    /\ At({"jmp", "je", "jne", "jg", "jge", "jl", "jle"})
    /\ pc' = IF Taken(text[pc].op) THEN TheOnly(Positions("label", text[pc].lab, null))
                                   ELSE pc + 1
    /\ UNCHANGED <<reg, mem, compared, power>>

PushWord(v) ==
    /\ Store(Wrap(reg["rsp"] - 8), v)
    /\ reg' = [reg EXCEPT !["rsp"] = Wrap(@ - 8)]

Push ==
    /\ At({"push"}) /\ PushWord(Value(Src)) /\ Advance
    /\ UNCHANGED <<compared, power>>

Pop ==
    /\ At({"pop"})
    /\ reg' = [reg EXCEPT ![Dst.reg] = Read(reg["rsp"]), !["rsp"] = Wrap(@ + 8)]
    /\ Advance
    /\ UNCHANGED <<mem, compared, power>>

CallFunction(null) ==
    /\ At({"call"}) /\ PushWord(pc + 1)
    /\ pc' = TheOnly(Positions("func", null, text[pc].name))
    /\ UNCHANGED <<compared, power>>

Return ==
    /\ At({"ret"})
    /\ pc' = Read(reg["rsp"])
    /\ reg' = [reg EXCEPT !["rsp"] = Wrap(@ + 8)]
    /\ power' = IF pc' = 0 THEN "halted" ELSE power
    /\ UNCHANGED <<mem, compared>>

\* A division that does not fit, a jump out of the program, or no stack left.
Trap ==
    /\ power = "on"
    /\ \/ pc \notin DOMAIN text
       \/ reg["rsp"] < -StackBytes
       \/ At({"idivq"}) /\ ~Divisible
    /\ power' = "trapped"
    /\ UNCHANGED <<pc, reg, mem, compared>>

Step(null) ==
    Mark \/ Move \/ Compute \/ Divide \/ Compare \/ Branch(null) \/ Push \/ Pop
    \/ CallFunction(null) \/ Return \/ Trap
=============================================================================
