------------------------------- MODULE System -------------------------------
(***************************************************************************)
(* From a tree to an exit status: the compiler, and the machine that runs  *)
(* what it printed.                                                        *)
(***************************************************************************)
EXTENDS Compiler

CONSTANTS WordBits, StackBytes, Garbage, Fuel   \* see Machine and CSem

VARIABLES pc, reg, mem, compared, power

M == INSTANCE Machine WITH text <- out
C == INSTANCE CSem WITH Limit <- 2 ^ (WordBits - 1)

machine == <<pc, reg, mem, compared, power>>

systemVars == <<compilerVars, machine>>

SystemInit == CompilerInit /\ M!Off

Compiling == Compile /\ UNCHANGED machine

Starting ==
    /\ phase = "OK" /\ M!Linkable(NULL) /\ M!PowerOn(NULL)
    /\ UNCHANGED compilerVars

Running == phase = "OK" /\ M!Step(NULL) /\ UNCHANGED compilerVars

Work == Compiling \/ Starting \/ Running

Idle ==
    /\ \/ phase \in {"SEM_ERR", "killed"}
       \/ phase = "OK" /\ power = "off" /\ ~M!Linkable(NULL)
       \/ power \in {"halted", "trapped"}
    /\ UNCHANGED systemVars

SystemNext == Work \/ Idle

SystemSpec == SystemInit /\ [][SystemNext]_systemVars

\* The back end alone: the trees come with their symbols, some of which may be missing,
\* and the semantic checker has come to its end.
BackInit ==
    /\ GenStart
    /\ scopes = <<>> /\ symbols = [a \in Addr |-> Blank]
    /\ frames = <<>> /\ exprs = <<>> /\ result = NoResults(prog)
    /\ errors = 0 /\ status = "done"
    /\ phase = "gen" /\ M!Off

\* Compiler and processor go on until there is nothing left to do.
BackFairSpec == BackInit /\ [][SystemNext]_systemVars /\ WF_systemVars(Work)

-----------------------------------------------------------------------------
(* Properties. *)

\* "C -> x86-64 compiler": the executable returns what the program means in C.
MeaningPreserved ==
    (power \in {"halted", "trapped"} /\ C!Defined(prog)) =>
        power = "halted" /\ reg["rax"] = C!Meaning(prog)

\* Running ends for a program that ends in C.
MeaningReached ==
    (phase = "OK" /\ C!Defined(prog)) ~> (power = "halted")
=============================================================================
