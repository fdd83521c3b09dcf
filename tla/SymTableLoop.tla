---------------------------- MODULE SymTableLoop ----------------------------
(***************************************************************************)
(* SymTableClient with the loop of empty_scope step by step: it frees a    *)
(* symbol, and then reads the link inside the symbol it has just freed to  *)
(* get to the next one (symtable.c:80-83).  It gets there because free()   *)
(* writes into the first 16 bytes of a chunk only, where name and datatype *)
(* are, scope_elem stands behind them, and nothing is allocated before the *)
(* link is read.                                                           *)
(***************************************************************************)
EXTENDS SymTableClient

VARIABLES
    link,       \* scope_elem.next of the symbol at each address, NULL for the tail
    closing     \* symtable_close_scope: what it does next, its scope and empty_scope's e

loopVars == <<clientVars, link, closing>>

\* The element of a list behind its i-th one, or the tail.
NextIn(list, i) == IF i = Len(list) THEN NULL ELSE list[i + 1]

Emptier(step, scope, e) == [step |-> step, scope |-> scope, e |-> e]
NotClosing == Emptier("none", <<>>, NULL)

LoopInit == ClientInit /\ link = [a \in Addr |-> NULL] /\ closing = NotClosing

-----------------------------------------------------------------------------
LoopOpen ==
    /\ closing = NotClosing /\ ClientOpen
    /\ UNCHANGED <<link, closing>>

\* list_push_back of a symbol: the last one of the list is linked to it.
LinkBack(a) ==
    link' = IF CurrentScope = <<>> THEN [link EXCEPT ![a] = NULL]
            ELSE [link EXCEPT ![CurrentScope[Len(CurrentScope)]] = a, ![a] = NULL]

LoopInsert(name) ==
    /\ closing = NotClosing
    /\ scopes # <<>> /\ InsertAllowed(name)
    /\ \E a \in Addr : CreateEntry(a, name, "INT_DT") /\ Insert(a) /\ LinkBack(a)
    /\ UNCHANGED <<lookups, closing>>

\* Mutated form of PopScope: the loop starts behind the first symbol.
PopScopeSkipping ==
    /\ closing = NotClosing /\ scopes # <<>>
    /\ scopes' = SubSeq(scopes, 1, Len(scopes) - 1)
    /\ closing' = Emptier("free", CurrentScope,
                          IF CurrentScope = <<>> THEN NULL ELSE NextIn(CurrentScope, 1))
    /\ UNCHANGED <<symbols, lookups, link>>

\* symtable_close_scope takes the scope off the table; e = list_begin of its symbols.
PopScope ==
    /\ closing = NotClosing /\ scopes # <<>>
    /\ scopes' = SubSeq(scopes, 1, Len(scopes) - 1)
    /\ closing' = Emptier("free", CurrentScope, NextIn(CurrentScope, 0))
    /\ UNCHANGED <<symbols, lookups, link>>

\* Mutated form of FreeSymbol: scope_elem is where free() writes.
FreeSymbolClobbering ==
    /\ closing.step = "free" /\ closing.e # NULL
    /\ symbols' = [symbols EXCEPT ![closing.e] = Blank]
    /\ link' = [link EXCEPT ![closing.e] = NULL]
    /\ closing' = [closing EXCEPT !.step = "next"]
    /\ UNCHANGED <<scopes, lookups>>

\* free(symbol), which leaves its link as it is.
FreeSymbol ==
    /\ closing.step = "free" /\ closing.e # NULL
    /\ symbols' = [symbols EXCEPT ![closing.e] = Blank]
    /\ closing' = [closing EXCEPT !.step = "next"]
    /\ UNCHANGED <<scopes, lookups, link>>

\* e = list_next(e), from the memory that has been freed.
NextSymbol ==
    /\ closing.step = "next"
    /\ closing' = [closing EXCEPT !.step = "free", !.e = link[closing.e]]
    /\ UNCHANGED <<clientVars, link>>

\* e is the tail: the loop ends, and the scope is freed.
FreeScope ==
    /\ closing.step = "free" /\ closing.e = NULL
    /\ closing' = NotClosing
    /\ lookups' = SubSeq(lookups, 1, Len(lookups) - 1)
    /\ UNCHANGED <<scopes, symbols, link>>

LoopNext ==
    \/ LoopOpen
    \/ \E name \in Names : LoopInsert(name)
    \/ PopScope \/ FreeSymbol \/ NextSymbol \/ FreeScope

LoopSpec == LoopInit /\ [][LoopNext]_loopVars

-----------------------------------------------------------------------------
(* Properties. *)

\* Types of the table, of the links and of what empty_scope holds in its hands.
LoopTypeOK ==
    /\ ClientTypeOK
    /\ link \in [Addr -> Addr \cup {NULL}]
    /\ closing \in [step : {"none", "free", "next"}, scope : Seq(Addr), e : Addr \cup {NULL}]

\* The table as it is for SymTableClient, where a scope is closed in one step: its
\* symbols are gone at once, and nobody looks anything up before it is.
SymbolsLeft == [a \in Addr |-> IF a \in InScope(closing.scope) THEN Blank ELSE symbols[a]]
LookupsLeft == IF closing = NotClosing THEN lookups ELSE SubSeq(lookups, 1, Len(lookups) - 1)

AtOnce == INSTANCE SymTableClient WITH symbols <- SymbolsLeft, lookups <- LookupsLeft

\* empty_scope has freed the first n symbols of its scope and no other, e is at the
\* last of them or behind it, and it will not free any symbol twice.
Emptying ==
    \E n \in 0 .. Len(closing.scope) :
        /\ \A i \in DOMAIN closing.scope : symbols[closing.scope[i]] = Blank <=> i <= n
        /\ closing.step = "free" => closing.e = NextIn(closing.scope, n)
        /\ closing.step = "next" => n > 0 /\ closing.e = closing.scope[n]

\* A symbol in an open scope is allocated and stands nowhere else, and none is lost: all
\* others are free, but those that empty_scope is still to get to.  It does get to
\* them, although the links that lead there are in memory it has freed.
LoopOwned == AtOnce!MemoryOwned /\ Emptying

\* With its loop symtable_close_scope does what SymTable says in one step (CloseScope),
\* which is how the semantic checker is modelled.
ClosesAtOnce == AtOnce!ClientSpec

\* Not a property of the code: the symbol whose link is read is allocated.
ReadsLiveMemory == closing.step = "next" => symbols[closing.e] # Blank
=============================================================================
