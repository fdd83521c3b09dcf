------------------------------- MODULE Paola -------------------------------
(***************************************************************************)
(* The whole program: main (paola.c) with its options (utils.c), the       *)
(* lexer, the parser and the rest of the compiler, and the messages they   *)
(* leave (errors.c).                                                       *)
(***************************************************************************)
EXTENDS Lexemes, Parser, Compiler

CONSTANTS
    Calls,                  \* the calls under study: [argv, text]
    Dashed,                 \* the strings that begin with a -
    Readable, Writable      \* the files that can be opened for reading, writing

VARIABLES
    argv, options,
    messages,       \* errors.c: the messages so far, by their kind
    printed         \* what print_messages has printed

\* What is in the files; and an argument is never missing among the others.
ASSUME CallsAssumption ==
    \A call \in Calls : IsText(call.text) /\ call.argv \in Seq(STRING \ {NULL})

\* The characters of an argument are not modelled; the options all begin with a -.
ASSUME DashedAssumption ==
    /\ {"-o", "--print-ast", "--print-tokens"} \subseteq Dashed
    /\ Dashed \subseteq STRING

front == <<argv, options, lexVars, parserVars>>
main  == <<phase, messages, printed>>
back  == <<prog, scopes, symbols, symbolOf, frames, exprs, result, status,
           slot, todo, out, next_label, next_stack_offset, genStatus>>

paolaVars == <<front, main, back>>

-----------------------------------------------------------------------------
(* parse_options *)

NoOptions == [input |-> NULL, output |-> "out.s", print_ast |-> FALSE, named |-> FALSE]

\* An argument; `named' says that the one before has been -o.  What begins with a -
\* is never the input: an option that is not known is passed over, and
\* --print-tokens changes nothing but what is printed.
Argument(opt, arg) ==
    IF opt.named THEN [opt EXCEPT !.output = arg, !.named = FALSE]
    ELSE CASE arg \notin Dashed    -> [opt EXCEPT !.input = arg]
           [] arg = "-o"           -> [opt EXCEPT !.named = TRUE]
           [] arg = "--print-ast"  -> [opt EXCEPT !.print_ast = TRUE]
           [] OTHER                -> opt

\* The options after each of the arguments.
parse_options ==
    LET after[n \in 0 .. Len(argv)] ==
          IF n = 0 THEN NoOptions ELSE Argument(after[n - 1], argv[n])
    IN  after[Len(argv)]

PaolaInit ==
    /\ \E call \in Calls : argv = call.argv /\ text = call.text
    /\ options = NoOptions
    /\ LexInit
    /\ tokens = <<>> /\ ParserInit
    /\ prog = <<>> /\ SemInit /\ GenInit
    /\ phase = "options"
    /\ messages = <<>> /\ printed = <<>>

-----------------------------------------------------------------------------
(* main *)

\* errors.c: error and warning count, and leave a message.
Copies(n, kind) == [i \in 1 .. n |-> kind]

Report == messages' = messages \o Copies(warnings' - warnings, "Warning")
                               \o Copies(errors' - errors, "Error")

Goto(p) == phase' = p /\ UNCHANGED printed
Exit(p) == phase' = p /\ printed' = messages     \* print_messages

\* Without a name nothing is opened; a file that cannot be opened is read all the
\* same, through a null pointer.
ParseOptions ==
    /\ phase = "options"
    /\ options' = parse_options
    /\ Goto(IF options'.input = NULL THEN "OTHER_ERR"
            ELSE IF options'.input \in Readable THEN "lexer" ELSE "killed")
    /\ UNCHANGED <<argv, lexVars, parserVars, back>>

Tokenize ==
    /\ phase = "lexer" /\ LexStep
    /\ Goto(phase)
    /\ UNCHANGED <<argv, options, parserVars, back>>

\* The lexer reports warnings only: if_errors_exit(LEXER_ERR) never exits.
StartParser ==
    /\ phase = "lexer" /\ Deliver
    /\ tokens' = Delivered
    /\ Goto("parser")
    /\ UNCHANGED <<argv, options, next, pending, built, errors, parseStatus, back>>

Parsing ==
    /\ phase = "parser" /\ ParseStep
    /\ Goto(phase)
    /\ UNCHANGED <<argv, options, lexVars, back>>

\* if_errors_exit(PARSE_ERR), or no memory is left.
ParseErrors ==
    /\ phase = "parser"
    /\ \/ parseStatus = "done" /\ errors > 0 /\ Exit("PARSE_ERR")
       \/ parseStatus = "killed" /\ Goto("killed")
    /\ UNCHANGED <<front, back>>

\* print_stat_ast goes down to function bodies, and into a missing one.
Printable(t) ==
    LET through[n \in DOMAIN t] ==
          /\ t[n].is_func => t[n].kids # <<>>
          /\ (t[n].is_func \/ t[n].type \in {"BLOCK_STAT", "IF_STAT"}) =>
                \A i \in DOMAIN t[n].kids : through[t[n].kids[i]]
    IN  through[1]

HandOver ==
    IF options.print_ast /\ ~Printable(built[1])
    THEN Goto("killed") /\ UNCHANGED back
    ELSE /\ Goto("semcheck")
         /\ prog' = built[1]
         /\ symbolOf' = NoSymbols(prog') /\ result' = NoResults(prog')
         /\ UNCHANGED <<scopes, symbols, frames, exprs, status,
                        slot, todo, out, next_label, next_stack_offset, genStatus>>

\* Mutated form of StartSemcheck: the errors are not looked at.
StartSemcheckAnyway ==
    /\ phase = "parser" /\ parseStatus = "done" /\ HandOver
    /\ UNCHANGED front

StartSemcheck ==
    /\ phase = "parser" /\ parseStatus = "done" /\ errors = 0 /\ HandOver
    /\ UNCHANGED front

Compiling ==
    /\ Semcheck \/ GenerateCode \/ Killed
    /\ UNCHANGED <<argv, options, lexVars, tokens, next, pending, built, parseStatus, printed>>

\* An output file that cannot be opened is written to all the same.
OpenOutput ==
    IF options.output \in Writable
    THEN StartGen /\ UNCHANGED <<front, printed>>
    ELSE /\ phase = "semcheck" /\ status = "done" /\ errors = 0
         /\ Goto("killed")
         /\ UNCHANGED <<front, back>>

\* Mutated form of Finishing: nothing is printed when all went well.
FinishingQuietly ==
    /\ SemErrors \/ Succeed
    /\ printed' = IF phase' = "OK" THEN printed ELSE messages
    /\ UNCHANGED front

Finishing ==
    /\ SemErrors \/ Succeed
    /\ printed' = messages
    /\ UNCHANGED front

Work ==
    /\ \/ ParseOptions \/ Tokenize \/ StartParser \/ Parsing \/ ParseErrors
       \/ StartSemcheck \/ Compiling \/ OpenOutput \/ Finishing
    /\ Report

MainEnded == Ended \/ phase \in {"OTHER_ERR", "PARSE_ERR"} \/ mode = "overrun"

PaolaNext == Work \/ (MainEnded /\ UNCHANGED paolaVars)

PaolaSpec == PaolaInit /\ [][PaolaNext]_paolaVars

\* A sequential program keeps running as long as it has a step to take.
PaolaFairSpec == PaolaSpec /\ WF_paolaVars(Work)

-----------------------------------------------------------------------------
(* Properties. *)

\* What the semantic checker and the code generator take for granted of a tree
\* that comes without errors: its nodes have the children their kind needs.
TreeOK == phase = "parser" => Handed

\* Every warning and every error is printed when main ends by itself, whatever
\* the phase in which it was reported: an unknown character also for a program
\* that compiles.  When the process is killed, nothing of it is seen.
Reported ==
    LET count(kind) == Cardinality({i \in DOMAIN printed : printed[i] = kind})
    IN  /\ phase \in {"OK", "PARSE_ERR", "SEM_ERR"} =>
              /\ count("Warning") = Len(Odd(Lexemes))
              /\ count("Error") = errors
              /\ phase = "OK" <=> errors = 0
        /\ phase \notin {"OK", "PARSE_ERR", "SEM_ERR"} => printed = <<>>

\* The compiler ends for every text in which all comments do.
PaolaEnds == <>(MainEnded \/ Endless)

\* "Takes a file pointer, and returns the series of tokens in that file."
Tokenizes == <>(mode \in {"returned", "overrun"} \/ phase = "killed")
=============================================================================
