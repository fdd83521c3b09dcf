------------------------------ MODULE SymTable ------------------------------
(***************************************************************************)
(* The symbol table (symtable.c): a stack of scopes, each a list of        *)
(* symbols.  A scope owns the memory of its symbols and frees it when it   *)
(* is closed, while AST nodes keep pointers to it; an address that was     *)
(* freed may be handed out again by the next malloc.                       *)
(***************************************************************************)
EXTENDS Ast, FiniteSetsExt

VARIABLES
    scopes,     \* symtable: the open scopes, outermost first
    symbols     \* the symbol stored at each address, Blank when it is free

Symbol == [name : Names, datatype : Datatypes]
Blank  == [name |-> NULL, datatype |-> "INVALID_DT"]

SymTypeOK ==
    /\ scopes \in Seq(Seq(Addr))
    /\ symbols \in [Addr -> Symbol \cup {Blank}]

SymInit == scopes = <<>> /\ symbols = [a \in Addr |-> Blank]

-----------------------------------------------------------------------------
CurrentScope == scopes[Len(scopes)]

InScope(scope) == {scope[i] : i \in DOMAIN scope}

\* symtable_find_in_scope: the first symbol of the list with that name.
FindInScope(scope, needle) ==
    LET hits == {i \in DOMAIN scope : symbols[scope[i]].name = needle}
    IN  IF hits = {} THEN NULL ELSE scope[Min(hits)]

\* symtable_find: the scopes are searched from the first element of the list,
\* which is the outermost scope.
Find(needle) ==
    LET hits == {k \in DOMAIN scopes : FindInScope(scopes[k], needle) # NULL}
    IN  IF hits = {} THEN NULL ELSE FindInScope(scopes[Min(hits)], needle)

\* What the comment above symtable_find says it returns.
FindInnermost(needle) ==
    LET hits == {k \in DOMAIN scopes : FindInScope(scopes[k], needle) # NULL}
    IN  IF hits = {} THEN NULL ELSE FindInScope(scopes[Max(hits)], needle)

OpenScope ==
    /\ scopes' = Append(scopes, <<>>)
    /\ UNCHANGED symbols

\* Mutated form of CloseScope: empty_scope is forgotten.
CloseScopeLeaking ==
    /\ scopes' = SubSeq(scopes, 1, Len(scopes) - 1)
    /\ UNCHANGED symbols

\* The scope is popped, and every symbol of it freed.  empty_scope frees them one by
\* one, and reads the way to the next in the one it has just freed: SymTableLoop has
\* that loop, and shows that it comes to this step (ClosesAtOnce).
CloseScope ==
    /\ scopes' = SubSeq(scopes, 1, Len(scopes) - 1)
    /\ symbols' = [a \in Addr |-> IF a \in InScope(CurrentScope) THEN Blank
                                                                ELSE symbols[a]]

\* The assertion in symtable_insert.
InsertAllowed(name) == FindInScope(CurrentScope, name) = NULL

\* Mutated form of CreateEntry: the datatype is not stored.
CreateEntryUntyped(a, name, datatype) ==
    /\ symbols[a] = Blank
    /\ symbols' = [symbols EXCEPT ![a] = [name |-> name, datatype |-> NULL]]

\* create_symtable_entry: malloc returns any address that is not in use.
CreateEntry(a, name, datatype) ==
    /\ symbols[a] = Blank
    /\ symbols' = [symbols EXCEPT ![a] = [name |-> name, datatype |-> datatype]]

\* Mutated form of Insert: the first scope of the list instead of the last.
InsertOutermost(a) == scopes' = [scopes EXCEPT ![1] = Append(@, a)]

\* symtable_insert, once its assertion holds.
Insert(a) == scopes' = [scopes EXCEPT ![Len(scopes)] = Append(@, a)]

-----------------------------------------------------------------------------
\* No name stands at two places of the table: then the order in which the
\* scopes are searched does not matter.
UniqueNames ==
    \A k, l \in DOMAIN scopes :
        \A i \in DOMAIN scopes[k], j \in DOMAIN scopes[l] :
            symbols[scopes[k][i]].name = symbols[scopes[l][j]].name => k = l /\ i = j

\* Between two calls a scope holds allocated symbols only (a table that names freed
\* memory would hand out dangling symbols), no symbol stands at two places of the
\* table, and no symbol is lost: what is allocated stands in an open scope.  What
\* empty_scope reads while it frees them is not in here: see SymTableLoop.
MemoryOwned ==
    /\ \A k \in DOMAIN scopes : \A i \in DOMAIN scopes[k] : symbols[scopes[k][i]] # Blank
    /\ \A k, l \in DOMAIN scopes :
        \A i \in DOMAIN scopes[k], j \in DOMAIN scopes[l] :
            scopes[k][i] = scopes[l][j] => k = l /\ i = j
    /\ \A a \in Addr : symbols[a] # Blank => \E k \in DOMAIN scopes : a \in InScope(scopes[k])

SymInv == SymTypeOK /\ MemoryOwned /\ UniqueNames

\* No symbol of the n outermost scopes has that name.
AbsentIn(name, n) ==
    \A k \in DOMAIN scopes : k <= n =>
        \A i \in DOMAIN scopes[k] : symbols[scopes[k][i]].name # name

\* symtable_find may search from either end.
FindIsInnermost == \A name \in Names : Find(name) = FindInnermost(name)
=============================================================================
