------------------------------ MODULE SemCheck ------------------------------
(***************************************************************************)
(* The semantic checker (semcheck.c).  The recursion of semcheck_stat and  *)
(* semcheck_expr over the AST is unfolded into steps: `frames' holds, for  *)
(* every function whose body is being checked, the statements still to be  *)
(* checked, and `exprs' the calls pending inside the current statement.    *)
(* One step is one call of semcheck_stat or semcheck_expr, or what such a  *)
(* call does after its children have returned.                             *)
(***************************************************************************)
EXTENDS SymTable, ScopeRules, AstState, Errors

VARIABLES
    frames,     \* per open scope: the function being checked, statements to do
    exprs,      \* calls pending in the current statement
    result,     \* the datatype semcheck_expr returned for each expression
    status      \* "checking", "done", "aborted" (assert) or "crashed" (null pointer)

semVars == <<scopes, symbols, prog, symbolOf, frames, exprs, result, errors, status>>

-----------------------------------------------------------------------------
ExprIds == {n \in DOMAIN prog : prog[n].type \in ExprTypes}
StatIds == {n \in DOMAIN prog : prog[n].type \in StatTypes}
DeclIds == {n \in DOMAIN prog : prog[n].type = "DECL_STAT"}

\* A pending call: `expr' checks an expression, `binop' resumes after both
\* operands, `use' compares the result with INT_DT, `declare' inserts the
\* symbol of a declaration.
Task(do, n) == [do |-> do, node |-> n]

Tasks == [do : {"expr", "use"}, node : ExprIds]
         \cup [do : {"binop"}, node : {n \in ExprIds : Type(n) = "BIN_OP"}]
         \cup [do : {"declare"}, node : DeclIds]

Checked(e) == <<Task("expr", e), Task("use", e)>>

Frame(decl, todo) == [decl |-> decl, todo |-> todo]

\* What semcheck_stat and semcheck_expr work on: every pending call has a node of
\* the tree of the kind it needs, every statement to do is one, and every pointer
\* in the tree is null or was returned by malloc.
TypeOK ==
    /\ SymTypeOK
    /\ WellFormed(prog)
    /\ symbolOf \in [DOMAIN prog -> Addr \cup {NULL}]
    /\ frames \in Seq([decl : DeclIds \cup {NULL}, todo : Seq(StatIds)])
    /\ exprs \in Seq(Tasks)
    /\ result \in [DOMAIN prog -> Datatypes]
    /\ errors \in Nat
    /\ status \in {"checking", "done", "aborted", "crashed"}

\* What the parser leaves in the nodes of a tree, and what is returned for none.
NoSymbols(p) == [n \in DOMAIN p |-> NULL]
NoResults(p) == [n \in DOMAIN p |-> "INVALID_DT"]

SemInit ==
    /\ scopes = <<<<>>>>                      \* init_semcheck, open_scope("global")
    /\ symbols = [a \in Addr |-> Blank]
    /\ symbolOf = NoSymbols(prog)
    /\ frames = <<Frame(NULL, <<1>>)>>
    /\ exprs = <<>>
    /\ result = NoResults(prog)
    /\ status = "checking"

Init == prog \in Programs /\ errors = 0 /\ SemInit

-----------------------------------------------------------------------------
(* semcheck_stat: one action per kind of statement. *)

Todo == frames[Len(frames)].todo
Stat == Head(Todo)

AtStat(type) ==
    /\ status = "checking" /\ exprs = <<>> /\ Todo # <<>>
    /\ Type(Stat) = type

\* Leave the current statement, after doing `tasks' and then `stats'.
Schedule(tasks, stats) ==
    /\ exprs' = tasks
    /\ frames' = [frames EXCEPT ![Len(frames)] = Frame(@.decl, stats \o Tail(@.todo))]

CheckReturn ==
    /\ AtStat("RETURN_STAT")
    /\ Schedule(Checked(Kid(Stat, 1)), <<>>)
    /\ UNCHANGED <<scopes, symbols, prog, symbolOf, result, errors, status>>

CheckIf ==
    /\ AtStat("IF_STAT")
    /\ Schedule(Checked(Kid(Stat, 1)), Tail(Kids(Stat)))
    /\ UNCHANGED <<scopes, symbols, prog, symbolOf, result, errors, status>>

CheckWhile ==
    /\ AtStat("WHILE_STAT")
    /\ Schedule(Checked(Kid(Stat, 1)), <<Kid(Stat, 2)>>)
    /\ UNCHANGED <<scopes, symbols, prog, symbolOf, result, errors, status>>

\* Mutated form of CheckFor: the iteration expression is forgotten.
CheckForNoIter ==
    /\ AtStat("FOR_STAT")
    /\ Schedule(Checked(Kid(Stat, 2)) \o <<Task("expr", Kid(Stat, 1))>>,
                <<Kid(Stat, 4)>>)
    /\ UNCHANGED <<scopes, symbols, prog, symbolOf, result, errors, status>>

CheckFor ==
    /\ AtStat("FOR_STAT")
    /\ Schedule(Checked(Kid(Stat, 2)) \o
                    <<Task("expr", Kid(Stat, 1)), Task("expr", Kid(Stat, 3))>>,
                <<Kid(Stat, 4)>>)
    /\ UNCHANGED <<scopes, symbols, prog, symbolOf, result, errors, status>>

CheckBlock ==
    /\ AtStat("BLOCK_STAT")
    /\ Schedule(<<>>, Kids(Stat))
    /\ UNCHANGED <<scopes, symbols, prog, symbolOf, result, errors, status>>

CheckExprStat ==
    /\ AtStat("EXPR_STAT")
    /\ Schedule(<<Task("expr", Kid(Stat, 1))>>, <<>>)
    /\ UNCHANGED <<scopes, symbols, prog, symbolOf, result, errors, status>>

\* Mutated form of CheckSkip: the block does not advance past the statement.
CheckSkipForever ==
    /\ AtStat("SKIP_STAT")
    /\ UNCHANGED semVars

CheckSkip ==
    /\ AtStat("SKIP_STAT")
    /\ Schedule(<<>>, <<>>)
    /\ UNCHANGED <<scopes, symbols, prog, symbolOf, result, errors, status>>

\* Mutated form of Fresh: the current scope only, as the error message
\* "already defined in this scope" may suggest.
FreshInCurrentScope(n) == FindInScope(CurrentScope, prog[n].name) = NULL

\* Mutated form of Fresh: the outermost scope only.
FreshInOutermost(n) == FindInScope(scopes[1], prog[n].name) = NULL

\* A declaration goes on only when its name is found in no open scope.
Fresh(n) == Find(prog[n].name) = NULL

Redeclare ==
    /\ AtStat("DECL_STAT") /\ ~Fresh(Stat)
    /\ Schedule(<<>>, <<>>)
    /\ errors' = errors + 1
    /\ UNCHANGED <<scopes, symbols, prog, symbolOf, result, status>>

\* Mutated form of CheckVarDecl: the variable is declared before its value.
DeclareBeforeValue ==
    /\ AtStat("DECL_STAT") /\ Fresh(Stat) /\ ~prog[Stat].is_func
    /\ Schedule(<<Task("declare", Stat)>>
                    \o (IF Kids(Stat) = <<>> THEN <<>> ELSE Checked(Kid(Stat, 1))),
                <<>>)
    /\ UNCHANGED <<scopes, symbols, prog, symbolOf, result, errors, status>>

CheckVarDecl ==
    /\ AtStat("DECL_STAT") /\ Fresh(Stat) /\ ~prog[Stat].is_func
    /\ Schedule((IF Kids(Stat) = <<>> THEN <<>> ELSE Checked(Kid(Stat, 1)))
                    \o <<Task("declare", Stat)>>,
                <<>>)
    /\ UNCHANGED <<scopes, symbols, prog, symbolOf, result, errors, status>>

EnterFunction ==
    /\ AtStat("DECL_STAT") /\ Fresh(Stat) /\ prog[Stat].is_func
    /\ Kids(Stat) # <<>>
    /\ errors' = IF Type(Kid(Stat, 1)) # "BLOCK_STAT" THEN errors + 1 ELSE errors
    /\ OpenScope
    /\ frames' = Append([frames EXCEPT ![Len(frames)] = Frame(@.decl, Tail(@.todo))],
                        Frame(Stat, <<Kid(Stat, 1)>>))
    /\ UNCHANGED <<prog, symbolOf, exprs, result, status>>

\* func_body of a prototype was never assigned: in fresh memory it is null, and
\* reading its type faults.
PrototypeCrash ==
    /\ AtStat("DECL_STAT") /\ Fresh(Stat) /\ prog[Stat].is_func
    /\ Kids(Stat) = <<>>
    /\ status' = "crashed"
    /\ UNCHANGED <<scopes, symbols, prog, symbolOf, frames, exprs, result, errors>>

\* The body is done: close its scope and go on with the function's own symbol.
LeaveFunction ==
    /\ status = "checking" /\ exprs = <<>> /\ Todo = <<>> /\ Len(frames) > 1
    /\ CloseScope
    /\ exprs' = <<Task("declare", frames[Len(frames)].decl)>>
    /\ frames' = SubSeq(frames, 1, Len(frames) - 1)
    /\ UNCHANGED <<prog, symbolOf, result, errors, status>>

Finish ==
    /\ status = "checking" /\ exprs = <<>> /\ Todo = <<>> /\ Len(frames) = 1
    /\ CloseScope
    /\ frames' = <<>>
    /\ status' = "done"
    /\ UNCHANGED <<prog, symbolOf, exprs, result, errors>>

\* create_symtable_entry and symtable_insert, whose assertion may fail.
Declare ==
    /\ status = "checking" /\ exprs # <<>> /\ Head(exprs).do = "declare"
    /\ LET n == Head(exprs).node
           name == prog[n].name
       IN  \E a \in Addr :
              /\ CreateEntry(a, name, "INT_DT")
              /\ symbolOf' = [symbolOf EXCEPT ![n] = a]
              /\ IF InsertAllowed(name)
                 THEN Insert(a) /\ UNCHANGED status
                 ELSE status' = "aborted" /\ UNCHANGED scopes
    /\ exprs' = Tail(exprs)
    /\ UNCHANGED <<prog, frames, result, errors>>

-----------------------------------------------------------------------------
(* semcheck_expr and semcheck_binop. *)

AtExpr(type) ==
    /\ status = "checking" /\ exprs # <<>> /\ Head(exprs).do = "expr"
    /\ Type(Head(exprs).node) = type

AtResume(ops) ==
    /\ status = "checking" /\ exprs # <<>> /\ Head(exprs).do = "binop"
    /\ prog[Head(exprs).node].op \in ops

\* What type_error adds to the error count: nothing for an invalid datatype,
\* whose cause has been reported already.
TypeError(expected, actual) ==
    IF expected = actual \/ "INVALID_DT" \in {expected, actual} THEN 0 ELSE 1

Return(datatype) ==
    /\ result' = [result EXCEPT ![Head(exprs).node] = datatype]
    /\ exprs' = Tail(exprs)

CheckIntLit ==
    /\ AtExpr("INT_LIT")
    /\ Return("INT_DT")
    /\ UNCHANGED <<scopes, symbols, prog, symbolOf, frames, errors, status>>

CheckName ==
    /\ AtExpr("VAR_REF") \/ AtExpr("FUNC_CALL")
    /\ LET n == Head(exprs).node
           symbol == Find(prog[n].name)
       IN  IF symbol = NULL
           THEN /\ errors' = errors + 1
                /\ Return("INVALID_DT")
                /\ UNCHANGED symbolOf
           ELSE /\ symbolOf' = [symbolOf EXCEPT ![n] = symbol]
                /\ Return(symbols[symbol].datatype)
                /\ UNCHANGED errors
    /\ UNCHANGED <<scopes, symbols, prog, frames, status>>

IsConst(e) == Type(e) # "VAR_REF"

\* An assignment to anything but a variable is reported and not looked into.
AssignConst ==
    /\ AtExpr("BIN_OP")
    /\ LET n == Head(exprs).node
       IN  prog[n].op = "ASSIGN" /\ IsConst(Kid(n, 1))
    /\ errors' = errors + 1
    /\ Return("INVALID_DT")
    /\ UNCHANGED <<scopes, symbols, prog, symbolOf, frames, status>>

\* Mutated form of CheckOperands: the right operand is not visited.
CheckLeftOperand ==
    /\ AtExpr("BIN_OP")
    /\ LET n == Head(exprs).node
       IN  /\ prog[n].op = "ASSIGN" => ~IsConst(Kid(n, 1))
           /\ exprs' = <<Task("expr", Kid(n, 1)), Task("binop", n)>> \o Tail(exprs)
    /\ UNCHANGED <<scopes, symbols, prog, symbolOf, frames, result, errors, status>>

CheckOperands ==
    /\ AtExpr("BIN_OP")
    /\ LET n == Head(exprs).node
       IN  /\ prog[n].op = "ASSIGN" => ~IsConst(Kid(n, 1))
           /\ exprs' = <<Task("expr", Kid(n, 1)), Task("expr", Kid(n, 2)),
                         Task("binop", n)>> \o Tail(exprs)
    /\ UNCHANGED <<scopes, symbols, prog, symbolOf, frames, result, errors, status>>

LeftType  == result[Kid(Head(exprs).node, 1)]
RightType == result[Kid(Head(exprs).node, 2)]

FinishArith ==
    /\ AtResume(ArithOps)
    /\ errors' = errors + IF LeftType # "INT_DT" THEN TypeError("INT_DT", LeftType)
                                                 ELSE TypeError("INT_DT", RightType)
    /\ Return(IF LeftType = "INT_DT" /\ RightType = "INT_DT" THEN "INT_DT"
                                                             ELSE "INVALID_DT")
    /\ UNCHANGED <<scopes, symbols, prog, symbolOf, frames, status>>

FinishAssign ==
    /\ AtResume({"ASSIGN"})
    /\ errors' = errors + TypeError(LeftType, RightType)
    /\ Return(LeftType)
    /\ UNCHANGED <<scopes, symbols, prog, symbolOf, frames, status>>

FinishCompare ==
    /\ AtResume(CompareOps)
    /\ errors' = errors + TypeError(LeftType, RightType)
    /\ Return("INT_DT")
    /\ UNCHANGED <<scopes, symbols, prog, symbolOf, frames, status>>

\* The statement's own comparison of an expression's type with INT_DT.
CheckUse ==
    /\ status = "checking" /\ exprs # <<>> /\ Head(exprs).do = "use"
    /\ errors' = errors + TypeError("INT_DT", result[Head(exprs).node])
    /\ exprs' = Tail(exprs)
    /\ UNCHANGED <<scopes, symbols, prog, symbolOf, frames, result, status>>

-----------------------------------------------------------------------------
Check ==
    \/ CheckReturn \/ CheckIf \/ CheckWhile \/ CheckFor \/ CheckBlock
    \/ CheckExprStat \/ CheckSkip
    \/ Redeclare \/ CheckVarDecl \/ EnterFunction \/ PrototypeCrash
    \/ LeaveFunction \/ Finish \/ Declare
    \/ CheckIntLit \/ CheckName \/ AssignConst \/ CheckOperands
    \/ FinishArith \/ FinishAssign \/ FinishCompare \/ CheckUse

\* The process has ended (or returned to main): nothing moves any more.
Stopped == status # "checking" /\ UNCHANGED semVars

Next == Check \/ Stopped

Spec == Init /\ [][Next]_semVars

\* A sequential program keeps running as long as it has a step to take.
FairSpec == Spec /\ WF_semVars(Check)

-----------------------------------------------------------------------------
(* Properties. *)

\* Every function being checked has its scope, and a name that is about to be
\* declared, after its value or its body, still stands in no scope that will be
\* open then: nothing inside the value or the body can declare it there.
StackDiscipline ==
    /\ Len(frames) = Len(scopes)
    /\ status = "checking" => frames # <<>>
    /\ \A k \in 2 .. Len(frames) :
          frames[k].decl \in DeclIds /\ AbsentIn(prog[frames[k].decl].name, k - 1)
    /\ \A i \in DOMAIN exprs : exprs[i].do = "declare" =>
          i = Len(exprs) /\ AbsentIn(prog[exprs[i].node].name, Len(scopes))

\* The inductive invariant.
IInv == TypeOK /\ SymInv /\ StackDiscipline

\* The assertion in symtable_insert never fails: semcheck_stat looks the name up
\* before it checks the value or the body, and nothing in between can declare it.
NeverAborted == status # "aborted"

\* A function body that is not a block is reported, not run into.
NeverCrashes == status # "crashed"

\* semcheck reports an error exactly for the programs that break the scoping
\* rules: no rule is missed and no correct program is rejected.
VerdictCorrect == status = "done" => (errors = 0 <=> WellScoped(prog))

\* What generate_statement and generate_var_ref assert later: after a check
\* without errors every declaration and every name has its symbol.
AllResolved ==
    (status = "done" /\ errors = 0) =>
        \A n \in DOMAIN prog :
            Type(n) \in {"VAR_REF", "FUNC_CALL", "DECL_STAT"} => symbolOf[n] # NULL

\* The table with its lists and its reused memory implements a stack of sets
\* without shadowing.
Abstract == INSTANCE Scoping WITH
    open <- [k \in DOMAIN scopes |-> {symbols[a].name : a \in InScope(scopes[k])}]

ImplementsScoping == Abstract!Spec

\* Checking ends for every program.
Terminates == <>(status # "checking")
=============================================================================
