------------------------------ MODULE Compiler ------------------------------
(***************************************************************************)
(* The compiler behind its parser (paola.c): the semantic checker, then,   *)
(* if it reported nothing, the code generator on the same tree, whose      *)
(* symbols have been freed by then.                                        *)
(***************************************************************************)
EXTENDS SemCheck, Gen

VARIABLE
    phase       \* "semcheck", "gen", or how the process ended: "OK" (exit code
                \* 0), "SEM_ERR" (exit code 4) or "killed" (by a signal)

genOnly == <<slot, todo, out, next_label, next_stack_offset, genStatus>>

semOnly == <<scopes, symbols, frames, exprs, result, errors, status>>

compilerVars == <<semVars, genOnly, phase>>

CompilerInit == Init /\ GenInit /\ phase = "semcheck"

Semcheck ==
    /\ phase = "semcheck" /\ Check
    /\ UNCHANGED <<genOnly, phase>>

\* if_errors_exit(SEM_ERR)
SemErrors ==
    /\ phase = "semcheck" /\ status = "done" /\ errors > 0
    /\ phase' = "SEM_ERR"
    /\ UNCHANGED <<semVars, genOnly>>

\* Mutated form of StartGen: the errors are not looked at.
StartGenAnyway ==
    /\ phase = "semcheck" /\ status = "done"
    /\ phase' = "gen"
    /\ UNCHANGED <<semVars, genOnly>>

StartGen ==
    /\ phase = "semcheck" /\ status = "done" /\ errors = 0
    /\ phase' = "gen"
    /\ UNCHANGED <<semVars, genOnly>>

GenerateCode ==
    /\ phase = "gen" /\ Generate
    /\ UNCHANGED <<semOnly, phase>>

\* The generator reports no errors of its own for the trees it is given.
Succeed ==
    /\ phase = "gen" /\ genStatus = "done"
    /\ phase' = "OK"
    /\ UNCHANGED <<semVars, genOnly>>

\* An assertion or a fault ends the process.
Killed ==
    /\ \/ phase = "semcheck" /\ status \in {"aborted", "crashed"}
       \/ phase = "gen" /\ genStatus = "aborted"
    /\ phase' = "killed"
    /\ UNCHANGED <<semVars, genOnly>>

Compile == Semcheck \/ SemErrors \/ StartGen \/ GenerateCode \/ Succeed \/ Killed

Ended == phase \in {"OK", "SEM_ERR", "killed"}

CompilerNext == Compile \/ (Ended /\ UNCHANGED compilerVars)

CompilerSpec == CompilerInit /\ [][CompilerNext]_compilerVars

-----------------------------------------------------------------------------
(* Properties. *)

HasPrototype == \E n \in DOMAIN prog : prog[n].is_func /\ Kids(n) = <<>>

\* The exit status tells whether the program is correct: 0 for a correct one, 4
\* for an incorrect one; only a prototype or an expression that needs too many
\* registers gets the process killed.
ExitStatus ==
    /\ phase = "OK" => WellScoped(prog) /\ ~TooDeep
    /\ phase = "SEM_ERR" => ~WellScoped(prog)
    /\ phase = "killed" => HasPrototype \/ TooDeep

\* The generator follows symbol pointers into memory that was freed when the
\* scopes were closed, and possibly handed out again for other symbols.  It finds
\* there the place of the right variable all the same: the one that the
\* declaration the name refers to got.
Variables == {d \in DeclIds : ~prog[d].is_func}

PlaceOf(d) == 8 * Cardinality({e \in Variables : e <= d})

OwnPlace ==
    (phase = "gen" /\ AtExprTask("VAR_REF")) =>
        \A d \in Declarations(prog, prog[node].name, node) \cap Variables :
            slot[symbolOf[node]] = PlaceOf(d)
=============================================================================
