--------------------------- MODULE SymTableClient ---------------------------
(***************************************************************************)
(* The symbol table used by any client that respects its interface: it     *)
(* closes and fills a scope only when one is open, and it never inserts a  *)
(* name twice in one scope (the assertion of symtable_insert).  A scope is *)
(* closed in one step; SymTableLoop has the loop that frees its symbols.   *)
(***************************************************************************)
EXTENDS SymTable

CONSTANT MaxScopes      \* bound on the nesting of scopes

VARIABLE lookups        \* history: what every name meant when a scope was opened

clientVars == <<scopes, symbols, lookups>>

Lookup == [name \in Names |-> Find(name)]

ClientInit == SymInit /\ lookups = <<>>

ClientOpen ==
    /\ Len(scopes) < MaxScopes
    /\ OpenScope
    /\ lookups' = Append(lookups, Lookup)

ClientClose ==
    /\ scopes # <<>>
    /\ CloseScope
    /\ lookups' = SubSeq(lookups, 1, Len(lookups) - 1)

ClientInsert(name) ==
    /\ scopes # <<>>
    /\ InsertAllowed(name)
    /\ \E a \in Addr : CreateEntry(a, name, "INT_DT") /\ Insert(a)
    /\ UNCHANGED lookups

ClientNext ==
    \/ ClientOpen
    \/ ClientClose
    \/ \E name \in Names : ClientInsert(name)

ClientSpec == ClientInit /\ [][ClientNext]_clientVars

-----------------------------------------------------------------------------
\* Types of the table (one state each for symtable.c's list and its symbols).
ClientTypeOK == SymTypeOK /\ lookups \in Seq([Names -> Addr \cup {NULL}])

\* symtable_close_scope undoes everything that happened since the matching
\* symtable_open_scope: every name means again what it meant then.
CloseRestores ==
    [][Len(lookups') < Len(lookups) =>
          [name \in Names |-> Find(name)]' = lookups[Len(lookups)]]_clientVars
=============================================================================
