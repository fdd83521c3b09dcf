--------------------------- MODULE SemCheckProofs ---------------------------
(***************************************************************************)
(* Theorems about the symbol table and the semantic checker, for every set *)
(* of programs, names and addresses: what the operations of the table do,  *)
(* also for any client that respects its assertion; the invariant of the   *)
(* check; that the table, with its lists, pointers and reused memory,      *)
(* implements Scoping, a stack of sets of names; and what the check        *)
(* decides, that it leaves out no node and that its verdict is right.      *)
(***************************************************************************)
EXTENDS SemCheck, SymTableLoop, AstProofs

-----------------------------------------------------------------------------
(* What the lookups return. *)

\* symtable_find_in_scope returns null exactly when no symbol of the scope has
\* the name, and else a symbol of the scope with that name.
LEMMA FindInScopeProperties ==
    ASSUME NEW scope \in Seq(Addr), NEW needle
    PROVE  /\ FindInScope(scope, needle) = NULL <=>
                 \A i \in DOMAIN scope : symbols[scope[i]].name # needle
           /\ FindInScope(scope, needle) # NULL =>
                 \E i \in DOMAIN scope : /\ FindInScope(scope, needle) = scope[i]
                                         /\ symbols[scope[i]].name = needle
<1> DEFINE hits == {i \in DOMAIN scope : symbols[scope[i]].name = needle}
<1>1. FindInScope(scope, needle) = IF hits = {} THEN NULL ELSE scope[Min(hits)]
  BY DEF FindInScope
<1>2. hits \in SUBSET Nat
  OBVIOUS
<1>3. hits # {} => Min(hits) \in hits
  <2> HIDE DEF hits
  <2> QED BY <1>2, MinProperties
<1>4. \A i \in DOMAIN scope : scope[i] # NULL
  BY AddrAssumption
<1>5. CASE hits = {}
  BY <1>1, <1>5
<1>6. CASE hits # {}
  BY <1>1, <1>3, <1>4, <1>6
<1> QED BY <1>5, <1>6

\* symtable_find returns null exactly when no symbol of the table has the name,
\* and else a symbol of the table with that name.
LEMMA FindProperties ==
    ASSUME scopes \in Seq(Seq(Addr)), NEW needle
    PROVE  /\ Find(needle) = NULL <=> AbsentIn(needle, Len(scopes))
           /\ Find(needle) # NULL =>
                 \E k \in DOMAIN scopes : \E i \in DOMAIN scopes[k] :
                    Find(needle) = scopes[k][i] /\ symbols[scopes[k][i]].name = needle
<1> DEFINE hits == {k \in DOMAIN scopes : FindInScope(scopes[k], needle) # NULL}
<1>1. Find(needle) = IF hits = {} THEN NULL ELSE FindInScope(scopes[Min(hits)], needle)
  BY DEF Find
<1>2. hits # {} => Min(hits) \in hits
  <2>1. hits \in SUBSET Nat
    OBVIOUS
  <2> HIDE DEF hits
  <2> QED BY <2>1, MinProperties
<1>3. \A k \in DOMAIN scopes :
        k \notin hits <=> \A i \in DOMAIN scopes[k] : symbols[scopes[k][i]].name # needle
  BY FindInScopeProperties
<1>4. hits = {} <=> AbsentIn(needle, Len(scopes))
  <2>1. \A k \in DOMAIN scopes : k <= Len(scopes)
    OBVIOUS
  <2> HIDE DEF hits
  <2>2. hits \subseteq DOMAIN scopes
    BY DEF hits
  <2> QED BY <1>3, <2>1, <2>2 DEF AbsentIn
<1>5. CASE hits = {}
  BY <1>1, <1>4, <1>5
<1>6. CASE hits # {}
  <2>1. Min(hits) \in DOMAIN scopes /\ FindInScope(scopes[Min(hits)], needle) # NULL
    BY <1>2, <1>6
  <2>2. Find(needle) = FindInScope(scopes[Min(hits)], needle)
    BY <1>1, <1>6
  <2>3. PICK k \in DOMAIN scopes : /\ Find(needle) = FindInScope(scopes[k], needle)
                                   /\ FindInScope(scopes[k], needle) # NULL
    BY <2>1, <2>2
  <2>4. scopes[k] \in Seq(Addr)
    OBVIOUS
  <2>5. \E i \in DOMAIN scopes[k] :
          Find(needle) = scopes[k][i] /\ symbols[scopes[k][i]].name = needle
    BY <2>3, <2>4, FindInScopeProperties
  <2>6. ~ AbsentIn(needle, Len(scopes))
    BY <1>4, <1>6
  <2> QED BY <2>3, <2>5, <2>6
<1> QED BY <1>5, <1>6

\* When every name stands at one place only, the direction of the search does
\* not matter.
LEMMA UniqueImpliesInnermost ==
    ASSUME scopes \in Seq(Seq(Addr)), UniqueNames
    PROVE  FindIsInnermost
<1> SUFFICES ASSUME NEW needle \in Names
             PROVE  Find(needle) = FindInnermost(needle)
  BY DEF FindIsInnermost
<1> DEFINE hits == {k \in DOMAIN scopes : FindInScope(scopes[k], needle) # NULL}
<1>1. CASE hits = {}
  BY <1>1 DEF Find, FindInnermost
<1>2. CASE hits # {}
  <2>1. Min(hits) \in hits /\ Max(hits) \in hits
    <3>1. hits \in SUBSET Nat /\ hits \in SUBSET (1 .. Len(scopes)) /\ Len(scopes) \in Nat
      OBVIOUS
    <3> HIDE DEF hits
    <3> QED BY <1>2, <3>1, MinProperties, MaxProperties
  <2>2. \A k, l \in hits : k = l
    <3> SUFFICES ASSUME NEW k \in hits, NEW l \in hits
                 PROVE  k = l
      OBVIOUS
    <3>1. PICK i \in DOMAIN scopes[k] : symbols[scopes[k][i]].name = needle
      BY FindInScopeProperties
    <3>2. PICK j \in DOMAIN scopes[l] : symbols[scopes[l][j]].name = needle
      BY FindInScopeProperties
    <3> QED BY <3>1, <3>2 DEF UniqueNames
  <2>3. Min(hits) = Max(hits)
    <3> HIDE DEF hits
    <3> QED BY <2>1, <2>2
  <2> QED BY <1>2, <2>3 DEF Find, FindInnermost
<1> QED BY <1>1, <1>2

-----------------------------------------------------------------------------
(* The operations keep the table well-formed. *)

\* The n outermost scopes and their symbols are what they were.
Untouched(n) ==
    /\ n <= Len(scopes) /\ n <= Len(scopes')
    /\ \A k \in 1 .. n : /\ scopes'[k] = scopes[k]
                         /\ \A i \in DOMAIN scopes[k] :
                                symbols'[scopes[k][i]] = symbols[scopes[k][i]]

\* symtable_open_scope keeps the memory of the table.
LEMMA OpenScopeKeepsOwned ==
    ASSUME SymTypeOK, MemoryOwned, OpenScope
    PROVE  /\ SymTypeOK' /\ MemoryOwned'
           /\ Len(scopes') = Len(scopes) + 1 /\ Untouched(Len(scopes))
<1> USE DEF OpenScope, SymTypeOK
<1>1. SymTypeOK'
  OBVIOUS
<1>2. /\ DOMAIN scopes' = 1 .. Len(scopes) + 1
      /\ \A k \in DOMAIN scopes : k \in DOMAIN scopes' /\ scopes'[k] = scopes[k]
      /\ \A k \in DOMAIN scopes' : DOMAIN scopes'[k] # {} =>
            k \in DOMAIN scopes /\ scopes'[k] = scopes[k]
  OBVIOUS
<1>3. MemoryOwned'
  BY <1>2 DEF MemoryOwned, InScope
<1>4. Len(scopes') = Len(scopes) + 1 /\ Untouched(Len(scopes))
  BY <1>2 DEF Untouched
<1> QED BY <1>1, <1>3, <1>4

\* symtable_close_scope keeps it: what it frees is in no other scope.
LEMMA CloseScopeKeepsOwned ==
    ASSUME SymTypeOK, MemoryOwned, scopes # <<>>, CloseScope
    PROVE  /\ SymTypeOK' /\ MemoryOwned'
           /\ Len(scopes') = Len(scopes) - 1 /\ Untouched(Len(scopes) - 1)
<1> USE DEF SymTypeOK
<1>1. Len(scopes) \in Nat \ {0}
  OBVIOUS
<1>2. /\ scopes' \in Seq(Seq(Addr))
      /\ Len(scopes') = Len(scopes) - 1
      /\ \A k \in DOMAIN scopes' : /\ k \in DOMAIN scopes /\ k # Len(scopes)
                                   /\ scopes'[k] = scopes[k]
  BY <1>1, PopProperties DEF CloseScope
<1>3. symbols' \in [Addr -> Symbol \cup {Blank}]
  BY DEF CloseScope
<1>4. \A k \in DOMAIN scopes' : \A i \in DOMAIN scopes[k] :
        /\ scopes[k][i] \notin InScope(CurrentScope)
        /\ scopes[k][i] \in Addr
        /\ symbols'[scopes[k][i]] = symbols[scopes[k][i]]
  <2> SUFFICES ASSUME NEW k \in DOMAIN scopes', NEW i \in DOMAIN scopes[k]
               PROVE  /\ scopes[k][i] \notin InScope(CurrentScope)
                      /\ scopes[k][i] \in Addr
                      /\ symbols'[scopes[k][i]] = symbols[scopes[k][i]]
    OBVIOUS
  <2>1. k \in DOMAIN scopes /\ Len(scopes) \in DOMAIN scopes /\ k # Len(scopes)
    BY <1>1, <1>2
  <2>2. scopes[k][i] \notin InScope(CurrentScope)
    BY <2>1 DEF InScope, CurrentScope, MemoryOwned
  <2>3. scopes[k][i] \in Addr
    BY <2>1
  <2> QED BY <2>2, <2>3 DEF CloseScope
<1>5. MemoryOwned'
  <2>1. \A k \in DOMAIN scopes' : \A i \in DOMAIN scopes'[k] : symbols'[scopes'[k][i]] # Blank
    BY <1>2, <1>4 DEF MemoryOwned
  <2>2. \A k, l \in DOMAIN scopes' : \A i \in DOMAIN scopes'[k], j \in DOMAIN scopes'[l] :
            scopes'[k][i] = scopes'[l][j] => k = l /\ i = j
    BY <1>2 DEF MemoryOwned
  <2>3. ASSUME NEW a \in Addr, symbols'[a] # Blank
        PROVE  \E k \in DOMAIN scopes' : a \in InScope(scopes'[k])
    <3>1. a \notin InScope(CurrentScope) /\ symbols[a] # Blank
      BY <2>3 DEF CloseScope
    <3>2. PICK k \in DOMAIN scopes : a \in InScope(scopes[k])
      BY <3>1 DEF MemoryOwned
    <3>3. k # Len(scopes)
      BY <3>1, <3>2 DEF CurrentScope
    <3>4. k \in DOMAIN scopes'
      BY <1>1, <1>2, <3>3
    <3> QED BY <1>2, <3>2, <3>4
  <2> QED BY <2>1, <2>2, <2>3 DEF MemoryOwned
<1>6. Untouched(Len(scopes) - 1)
  <2>1. PICK n \in Nat : n = Len(scopes) - 1
    BY <1>1
  <2>2. Len(scopes') = n /\ n <= Len(scopes)
    BY <1>1, <1>2, <2>1
  <2>3. DOMAIN scopes' = 1 .. n
    BY <1>2, <2>2, LenProperties
  <2>4. n <= n
    BY <2>1
  <2>5. Untouched(n)
    BY <1>2, <1>4, <2>2, <2>3, <2>4 DEF Untouched
  <2> QED BY <2>1, <2>5
<1> QED BY <1>2, <1>3, <1>5, <1>6

\* Where the symbols of the table stand after an insertion: where they stood, and the
\* new one at the end of the current scope.
Inserted(a) ==
    \A k \in DOMAIN scopes' : k \in DOMAIN scopes /\ \A i \in DOMAIN scopes'[k] :
        \/ /\ i \in DOMAIN scopes[k] /\ scopes'[k][i] = scopes[k][i]
           /\ scopes[k][i] # a /\ symbols'[scopes[k][i]] = symbols[scopes[k][i]]
        \/ k = Len(scopes) /\ i = Len(scopes[k]) + 1 /\ scopes'[k][i] = a

\* create_symtable_entry followed by symtable_insert keeps it.
LEMMA InsertKeepsOwned ==
    ASSUME SymTypeOK, MemoryOwned, scopes # <<>>, NEW a \in Addr, NEW name \in Names,
           CreateEntry(a, name, "INT_DT"), Insert(a)
    PROVE  /\ SymTypeOK' /\ MemoryOwned'
           /\ Len(scopes') = Len(scopes) /\ Untouched(Len(scopes) - 1)
           /\ symbols'[a].name = name /\ Inserted(a)
<1> USE DEF SymTypeOK
<1> DEFINE top == Len(scopes)
<1>1. top \in DOMAIN scopes /\ scopes[top] \in Seq(Addr) /\ top \in Nat \ {0}
  OBVIOUS
<1>2. /\ scopes' \in Seq(Seq(Addr)) /\ DOMAIN scopes' = DOMAIN scopes
      /\ Len(scopes') = Len(scopes)
      /\ \A k \in DOMAIN scopes : k # top => scopes'[k] = scopes[k]
      /\ scopes'[top] = Append(scopes[top], a)
  BY <1>1 DEF Insert
<1>3. /\ symbols' \in [Addr -> Symbol \cup {Blank}]
      /\ symbols'[a].name = name /\ symbols'[a] # Blank
      /\ symbols[a] = Blank
      /\ \A b \in Addr : b # a => symbols'[b] = symbols[b]
  <2>1. [name |-> name, datatype |-> "INT_DT"] \in Symbol
    BY DEF Symbol, Datatypes
  <2>2. [name |-> name, datatype |-> "INT_DT"] # Blank
    BY NoNameAssumption DEF Blank
  <2> QED BY <2>1, <2>2 DEF CreateEntry
<1>4. \A k \in DOMAIN scopes : \A i \in DOMAIN scopes[k] :
        /\ scopes[k][i] \in Addr /\ scopes[k][i] # a
        /\ symbols'[scopes[k][i]] = symbols[scopes[k][i]]
  <2>1. \A k \in DOMAIN scopes : \A i \in DOMAIN scopes[k] :
          scopes[k][i] \in Addr /\ scopes[k][i] # a
    BY <1>3 DEF MemoryOwned
  <2> QED BY <1>3, <2>1
\* Every place of the new table is an old one, or the last of the top scope.
<1>5. \A k \in DOMAIN scopes' : \A i \in DOMAIN scopes'[k] :
        \/ i \in DOMAIN scopes[k] /\ scopes'[k][i] = scopes[k][i]
        \/ k = top /\ i = Len(scopes[top]) + 1 /\ scopes'[k][i] = a
  <2> SUFFICES ASSUME NEW k \in DOMAIN scopes', NEW i \in DOMAIN scopes'[k]
               PROVE  \/ i \in DOMAIN scopes[k] /\ scopes'[k][i] = scopes[k][i]
                      \/ k = top /\ i = Len(scopes[top]) + 1 /\ scopes'[k][i] = a
    OBVIOUS
  <2>1. CASE k # top
    BY <1>2, <2>1
  <2>2. CASE k = top
    <3>1. i \in DOMAIN Append(scopes[top], a)
      BY <1>2, <2>2
    <3>2. \/ i \in DOMAIN scopes[top] /\ Append(scopes[top], a)[i] = scopes[top][i]
          \/ i = Len(scopes[top]) + 1 /\ Append(scopes[top], a)[i] = a
      BY <1>1, <3>1
    <3> QED BY <1>2, <2>2, <3>2
  <2> QED BY <2>1, <2>2
<1>6. /\ \A k \in DOMAIN scopes : \A i \in DOMAIN scopes[k] :
            i \in DOMAIN scopes'[k] /\ scopes'[k][i] = scopes[k][i]
      /\ Len(scopes[top]) + 1 \in DOMAIN scopes'[top]
      /\ scopes'[top][Len(scopes[top]) + 1] = a
  <2>1. /\ \A i \in DOMAIN scopes[top] : /\ i \in DOMAIN Append(scopes[top], a)
                                         /\ Append(scopes[top], a)[i] = scopes[top][i]
        /\ Len(scopes[top]) + 1 \in DOMAIN Append(scopes[top], a)
        /\ Append(scopes[top], a)[Len(scopes[top]) + 1] = a
    BY <1>1
  <2> QED BY <1>2, <2>1
<1>7. Untouched(top - 1)
  <2>1. PICK t : t = top
    OBVIOUS
  <2>2. t \in Nat \ {0} /\ DOMAIN scopes = 1 .. t /\ Len(scopes) = t /\ Len(scopes') = t
    BY <1>1, <1>2, <2>1
  <2>3. /\ t - 1 <= t
        /\ \A k \in 1 .. t - 1 : k \in 1 .. t /\ k # t
    BY <2>2
  <2>4. Untouched(t - 1)
    BY <1>2, <1>4, <2>1, <2>2, <2>3 DEF Untouched
  <2> QED BY <2>1, <2>4
<1>8. Inserted(a)
  BY <1>2, <1>4, <1>5 DEF Inserted
<1> HIDE DEF top
<1>9. MemoryOwned'
  <2>1. ASSUME NEW k \in DOMAIN scopes', NEW i \in DOMAIN scopes'[k]
        PROVE  symbols'[scopes'[k][i]] # Blank
    <3>1. CASE i \in DOMAIN scopes[k] /\ scopes'[k][i] = scopes[k][i]
      BY <1>2, <1>4, <3>1 DEF MemoryOwned
    <3>2. CASE scopes'[k][i] = a
      BY <1>3, <3>2
    <3> QED BY <1>5, <3>1, <3>2
  <2>2. \A k, l \in DOMAIN scopes' : \A i \in DOMAIN scopes'[k], j \in DOMAIN scopes'[l] :
            scopes'[k][i] = scopes'[l][j] => k = l /\ i = j
    <3> SUFFICES ASSUME NEW k \in DOMAIN scopes', NEW i \in DOMAIN scopes'[k],
                        NEW l \in DOMAIN scopes', NEW j \in DOMAIN scopes'[l],
                        scopes'[k][i] = scopes'[l][j]
                 PROVE  k = l /\ i = j
      OBVIOUS
    <3>1. k \in DOMAIN scopes /\ l \in DOMAIN scopes
      BY <1>2
    <3>2. CASE scopes'[k][i] = a
      <4>1. k = top /\ i = Len(scopes[top]) + 1
        BY <1>4, <1>5, <3>1, <3>2
      <4>2. scopes'[l][j] = a
        BY <3>2
      <4>3. l = top /\ j = Len(scopes[top]) + 1
        BY <1>4, <1>5, <3>1, <4>2
      <4> QED BY <4>1, <4>3
    <3>3. CASE scopes'[k][i] # a
      <4>1. i \in DOMAIN scopes[k] /\ scopes'[k][i] = scopes[k][i]
        BY <1>5, <3>3
      <4>2. j \in DOMAIN scopes[l] /\ scopes'[l][j] = scopes[l][j]
        <5>1. scopes'[l][j] # a
          BY <3>3
        <5> QED BY <1>5, <5>1
      <4>3. scopes[k][i] = scopes[l][j]
        BY <4>1, <4>2
      <4>4. \A u \in DOMAIN scopes[k], v \in DOMAIN scopes[l] :
              scopes[k][u] = scopes[l][v] => k = l /\ u = v
        BY <3>1 DEF MemoryOwned
      <4> QED BY <4>1, <4>2, <4>3, <4>4
    <3> QED BY <3>2, <3>3
  <2>3. ASSUME NEW b \in Addr, symbols'[b] # Blank
        PROVE  \E k \in DOMAIN scopes' : b \in InScope(scopes'[k])
    <3>1. CASE b = a
      BY <1>1, <1>2, <1>6, <3>1 DEF InScope
    <3>2. CASE b # a
      <4>1. PICK k \in DOMAIN scopes : b \in InScope(scopes[k])
        BY <1>3, <2>3, <3>2 DEF MemoryOwned
      <4> QED BY <1>2, <1>6, <4>1 DEF InScope
    <3> QED BY <3>1, <3>2
  <2> QED BY <2>1, <2>2, <2>3 DEF MemoryOwned
<1> QED BY <1>2, <1>3, <1>7, <1>8, <1>9 DEF top

\* symtable_open_scope keeps the table well-formed.
LEMMA OpenScopeKeepsInv ==
    ASSUME SymInv, OpenScope
    PROVE  SymInv'
<1>1. /\ DOMAIN scopes' = 1 .. Len(scopes) + 1
      /\ \A k \in DOMAIN scopes' : DOMAIN scopes'[k] # {} =>
            k \in DOMAIN scopes /\ scopes'[k] = scopes[k]
  BY DEF OpenScope, SymInv, SymTypeOK
<1>2. UniqueNames'
  BY <1>1 DEF OpenScope, SymInv, UniqueNames
<1> QED BY <1>2, OpenScopeKeepsOwned DEF SymInv

\* symtable_close_scope keeps it well-formed.
LEMMA CloseScopeKeepsInv ==
    ASSUME SymInv, scopes # <<>>, CloseScope
    PROVE  /\ SymInv'
           /\ Len(scopes') = Len(scopes) - 1
           /\ \A k \in DOMAIN scopes' : /\ k \in DOMAIN scopes
                                        /\ scopes'[k] = scopes[k]
                                        /\ \A i \in DOMAIN scopes[k] :
                                              symbols'[scopes[k][i]] = symbols[scopes[k][i]]
<1>1. PICK n : n = Len(scopes) - 1
  OBVIOUS
<1>2. SymTypeOK' /\ MemoryOwned' /\ Len(scopes') = n /\ Untouched(n)
  BY <1>1, CloseScopeKeepsOwned DEF SymInv
<1>3. n \in Nat /\ Len(scopes) = n + 1 /\ DOMAIN scopes' = 1 .. n /\ DOMAIN scopes = 1 .. n + 1
  BY <1>1, <1>2 DEF SymInv, SymTypeOK
<1>4. \A k \in 1 .. n : k \in 1 .. n + 1
  BY <1>3
<1>5. \A k \in DOMAIN scopes' : /\ k \in DOMAIN scopes
                                /\ scopes'[k] = scopes[k]
                                /\ \A i \in DOMAIN scopes[k] :
                                      symbols'[scopes[k][i]] = symbols[scopes[k][i]]
  BY <1>2, <1>3, <1>4 DEF Untouched
<1>6. UniqueNames'
  BY <1>5 DEF SymInv, UniqueNames
<1> QED BY <1>1, <1>2, <1>5, <1>6 DEF SymInv

\* create_symtable_entry followed by symtable_insert of a name that is not in
\* the table.
LEMMA InsertKeepsInv ==
    ASSUME SymInv, scopes # <<>>, NEW a \in Addr, NEW name \in Names,
           AbsentIn(name, Len(scopes)),
           CreateEntry(a, name, "INT_DT"), Insert(a)
    PROVE  /\ SymInv'
           /\ Len(scopes') = Len(scopes)
           /\ \A k \in DOMAIN scopes : k < Len(scopes) =>
                 /\ scopes'[k] = scopes[k]
                 /\ \A i \in DOMAIN scopes[k] :
                        symbols'[scopes[k][i]] = symbols[scopes[k][i]]
<1>1. PICK n : n = Len(scopes) - 1
  OBVIOUS
<1>2. /\ SymTypeOK' /\ MemoryOwned' /\ Len(scopes') = Len(scopes) /\ Untouched(n)
      /\ symbols'[a].name = name /\ Inserted(a)
  BY <1>1, InsertKeepsOwned DEF SymInv
<1>3. n \in Nat /\ Len(scopes) = n + 1 /\ DOMAIN scopes = 1 .. n + 1
  BY <1>1 DEF SymInv, SymTypeOK
<1>4. \A k \in DOMAIN scopes : k <= Len(scopes) /\ (k < Len(scopes) => k \in 1 .. n)
  BY <1>3
<1>5. \A k \in DOMAIN scopes : k < Len(scopes) =>
            /\ scopes'[k] = scopes[k]
            /\ \A i \in DOMAIN scopes[k] : symbols'[scopes[k][i]] = symbols[scopes[k][i]]
  BY <1>2, <1>4 DEF Untouched
<1>6. \A k \in DOMAIN scopes : \A i \in DOMAIN scopes[k] : symbols[scopes[k][i]].name # name
  BY <1>4 DEF AbsentIn
<1>7. UniqueNames'
  <2> SUFFICES ASSUME NEW k \in DOMAIN scopes', NEW i \in DOMAIN scopes'[k],
                      NEW l \in DOMAIN scopes', NEW j \in DOMAIN scopes'[l],
                      symbols'[scopes'[k][i]].name = symbols'[scopes'[l][j]].name
               PROVE  k = l /\ i = j
    BY DEF UniqueNames
  <2>1. k \in DOMAIN scopes /\ l \in DOMAIN scopes
    BY <1>2 DEF Inserted
  <2>2. \/ /\ i \in DOMAIN scopes[k] /\ scopes'[k][i] = scopes[k][i]
           /\ symbols'[scopes[k][i]] = symbols[scopes[k][i]]
        \/ k = Len(scopes) /\ i = Len(scopes[k]) + 1 /\ scopes'[k][i] = a
    BY <1>2 DEF Inserted
  <2>3. \/ /\ j \in DOMAIN scopes[l] /\ scopes'[l][j] = scopes[l][j]
           /\ symbols'[scopes[l][j]] = symbols[scopes[l][j]]
        \/ l = Len(scopes) /\ j = Len(scopes[l]) + 1 /\ scopes'[l][j] = a
    BY <1>2 DEF Inserted
  <2>4. \A u \in DOMAIN scopes[k], v \in DOMAIN scopes[l] :
            symbols[scopes[k][u]].name = symbols[scopes[l][v]].name => k = l /\ u = v
    BY <2>1 DEF SymInv, UniqueNames
  <2> QED BY <1>2, <1>6, <2>1, <2>2, <2>3, <2>4
<1> QED BY <1>2, <1>5, <1>7 DEF SymInv

-----------------------------------------------------------------------------
(* Any client that respects the assertion: see SymTableClient. *)

\* The first symbol of the name in the k-th scope, and what symtable_find would return
\* if there were only the n outermost scopes.
First(needle, k) == FindInScope(scopes[k], needle)

FindBelow(needle, n) ==
    LET hits == {k \in 1 .. n : First(needle, k) # NULL}
    IN  IF hits = {} THEN NULL ELSE First(needle, Min(hits))

\* It is a symbol or null.
LEMMA FindBelowType ==
    ASSUME SymTypeOK, NEW needle, NEW n \in Nat, n <= Len(scopes)
    PROVE  FindBelow(needle, n) \in Addr \cup {NULL}
<1> DEFINE hits == {k \in 1 .. n : First(needle, k) # NULL}
<1>1. hits \in SUBSET Nat
  OBVIOUS
<1>2. hits # {} => Min(hits) \in hits
  <2> HIDE DEF hits
  <2> QED BY <1>1, MinProperties
<1>3. CASE hits = {}
  BY <1>3 DEF FindBelow
<1>4. CASE hits # {}
  <2>1. PICK m : m = Min(hits)
    OBVIOUS
  <2>2. m \in 1 .. n /\ First(needle, m) # NULL
    BY <1>2, <1>4, <2>1
  <2>3. scopes[m] \in Seq(Addr)
    BY <2>2 DEF SymTypeOK
  <2>4. First(needle, m) \in Addr
    BY <2>2, <2>3, FindInScopeProperties DEF First
  <2> QED BY <1>4, <2>1, <2>4 DEF FindBelow
<1> QED BY <1>3, <1>4

\* Of all scopes it is symtable_find.
LEMMA FindAll ==
    ASSUME SymTypeOK, NEW needle
    PROVE  Find(needle) = FindBelow(needle, Len(scopes))
<1>1. DOMAIN scopes = 1 .. Len(scopes)
  BY DEF SymTypeOK
<1> QED BY <1>1 DEF Find, FindBelow, First

\* A lookup in scopes that are untouched returns what it did.
LEMMA FindBelowSame ==
    ASSUME SymTypeOK, NEW n \in Nat, Untouched(n), NEW needle
    PROVE  FindBelow(needle, n)' = FindBelow(needle, n)
<1> DEFINE hits == {k \in 1 .. n : First(needle, k) # NULL}
<1>1. ASSUME NEW k \in 1 .. n
      PROVE  First(needle, k)' = First(needle, k)
  <2> DEFINE same == {i \in DOMAIN scopes[k] : symbols[scopes[k][i]].name = needle}
  <2>1. same' = same /\ scopes'[k] = scopes[k]
    BY DEF Untouched
  <2>2. First(needle, k) = IF same = {} THEN NULL ELSE scopes[k][Min(same)]
    BY DEF First, FindInScope
  <2>3. First(needle, k)' = IF same' = {} THEN NULL ELSE scopes'[k][Min(same')]
    BY DEF First, FindInScope
  <2> HIDE DEF same
  <2> QED BY <2>1, <2>2, <2>3
<1>2. FindBelow(needle, n) = IF hits = {} THEN NULL ELSE First(needle, Min(hits))
  BY DEF FindBelow
<1>3. hits' = hits
  BY <1>1
<1>4. CASE hits = {}
  BY <1>2, <1>3, <1>4 DEF FindBelow
<1>5. CASE hits # {}
  <2>1. hits \in SUBSET Nat /\ hits \subseteq 1 .. n
    OBVIOUS
  <2>2. PICK m : m = Min(hits)
    OBVIOUS
  <2>3. m \in 1 .. n
    <3> HIDE DEF hits
    <3> QED BY <1>5, <2>1, <2>2, MinProperties
  <2>4. FindBelow(needle, n)' = First(needle, m)'
    BY <1>3, <1>5, <2>2 DEF FindBelow
  <2>5. FindBelow(needle, n) = First(needle, m)
    BY <1>2, <1>5, <2>2
  <2> QED BY <1>1, <2>3, <2>4, <2>5
<1> QED BY <1>4, <1>5

Meanings(n) == [name \in Names |-> FindBelow(name, n)]

\* The meanings in scopes that are untouched stay.
LEMMA MeaningsSame ==
    ASSUME SymTypeOK, NEW n \in Nat, Untouched(n)
    PROVE  \A m \in 0 .. n : Meanings(m)' = Meanings(m)
<1> SUFFICES ASSUME NEW m \in 0 .. n
             PROVE  Meanings(m)' = Meanings(m)
  OBVIOUS
<1>1. m \in Nat /\ Untouched(m)
  <2>1. Len(scopes) \in Int
    BY DEF SymTypeOK
  <2> QED BY <2>1 DEF Untouched
<1> QED BY <1>1, FindBelowSame DEF Meanings

\* Where the allocated symbols stand: in an open scope or in the one being emptied, and
\* at one place of the open ones.
Standing ==
    /\ \A k \in DOMAIN scopes : \A i \in DOMAIN scopes[k] :
          symbols[scopes[k][i]] # Blank /\ scopes[k][i] \notin InScope(closing.scope)
    /\ \A k, l \in DOMAIN scopes : \A i \in DOMAIN scopes[k], j \in DOMAIN scopes[l] :
          scopes[k][i] = scopes[l][j] => k = l /\ i = j
    /\ \A a \in Addr : symbols[a] # Blank =>
          a \in InScope(closing.scope) \/ \E k \in DOMAIN scopes : a \in InScope(scopes[k])

\* The symbols of a list are linked one behind the other.
Chained(list) == \A i \in DOMAIN list : link[list[i]] = NextIn(list, i)

AllLinked == \A k \in DOMAIN scopes : Chained(scopes[k])

LoopTypes ==
    /\ SymTypeOK
    /\ link \in [Addr -> Addr \cup {NULL}]
    /\ closing \in [step : {"none", "free", "next"}, scope : Seq(Addr), e : Addr \cup {NULL}]

\* The inductive invariant of the memory: what empty_scope has freed, and that the
\* links it follows still lead through the scope.
EmptyingInv ==
    /\ LoopTypes /\ Standing /\ Emptying
    /\ \A i, j \in DOMAIN closing.scope : closing.scope[i] = closing.scope[j] => i = j
    /\ Chained(closing.scope) /\ AllLinked
    /\ closing.step = "none" => closing = NotClosing

\* And of the history: its k-th entry is what the names mean in the scopes below the k-th.
HistoryInv ==
    /\ lookups \in Seq([Names -> Addr \cup {NULL}])
    /\ Len(lookups) = Len(scopes) + (IF closing = NotClosing THEN 0 ELSE 1)
    /\ \A k \in DOMAIN lookups : lookups[k] = Meanings(k - 1)

\* Between two calls no scope is being emptied.
LEMMA Idle ==
    /\ NotClosing.step = "none" /\ NotClosing.scope = <<>> /\ NotClosing.e = NULL
    /\ InScope(<<>>) = {}
BY DEF NotClosing, Emptier, InScope

\* Then the table owns all memory.
LEMMA IdleOwned ==
    ASSUME closing = NotClosing
    PROVE  Standing <=> MemoryOwned
BY Idle DEF Standing, MemoryOwned

\* So it does, with the symbols being freed set aside, at any time.
LEMMA StandingOwned ==
    ASSUME LoopTypes
    PROVE  Standing <=> AtOnce!MemoryOwned
<1>1. \A a \in Addr : SymbolsLeft[a] # AtOnce!Blank
                         <=> a \notin InScope(closing.scope) /\ symbols[a] # Blank
  BY DEF SymbolsLeft, AtOnce!Blank, Blank
<1>2. \A scope : AtOnce!InScope(scope) = InScope(scope)
  BY DEF AtOnce!InScope, InScope
<1>3. \A k \in DOMAIN scopes : \A i \in DOMAIN scopes[k] : scopes[k][i] \in Addr
  BY DEF LoopTypes, SymTypeOK
<1> QED BY <1>1, <1>2, <1>3 DEF Standing, AtOnce!MemoryOwned

\* An empty table.
LEMMA LoopStarts ==
    ASSUME LoopInit
    PROVE  EmptyingInv /\ HistoryInv
<1>1. /\ scopes = <<>> /\ symbols = [a \in Addr |-> Blank] /\ lookups = <<>>
      /\ link = [a \in Addr |-> NULL] /\ closing = NotClosing
  BY DEF LoopInit, ClientInit, SymInit
<1>2. LoopTypes
  BY <1>1 DEF LoopTypes, SymTypeOK, NotClosing, Emptier
<1>3. Standing
  BY <1>1 DEF Standing
<1>4. Emptying
  BY <1>1, Idle DEF Emptying
<1>5. Chained(closing.scope) /\ closing.scope = <<>> /\ AllLinked
  BY <1>1, Idle DEF Chained, AllLinked
<1>6. EmptyingInv
  BY <1>1, <1>2, <1>3, <1>4, <1>5 DEF EmptyingInv
<1>7. HistoryInv
  BY <1>1 DEF HistoryInv
<1> QED BY <1>6, <1>7

-----------------------------------------------------------------------------
(* What each step of the client and of the loop does to the memory. *)

\* A scope is opened.
LEMMA OpenKeepsMemory ==
    ASSUME EmptyingInv, LoopOpen
    PROVE  /\ EmptyingInv' /\ closing = NotClosing /\ closing' = NotClosing
           /\ Len(scopes') = Len(scopes) + 1 /\ Untouched(Len(scopes))
<1>1. closing = NotClosing /\ OpenScope /\ link' = link /\ closing' = closing
      /\ symbols' = symbols
  BY DEF LoopOpen, ClientOpen, OpenScope
<1>2. SymTypeOK' /\ MemoryOwned' /\ Len(scopes') = Len(scopes) + 1 /\ Untouched(Len(scopes))
  BY <1>1, IdleOwned, OpenScopeKeepsOwned DEF EmptyingInv, LoopTypes
<1>3. LoopTypes'
  BY <1>1, <1>2 DEF EmptyingInv, LoopTypes
<1>4. Standing'
  BY <1>1, <1>2, Idle DEF Standing, MemoryOwned
<1>5. Emptying'
  BY <1>1 DEF EmptyingInv, Emptying
<1>6. AllLinked'
  <2>1. \A k \in DOMAIN scopes' : DOMAIN scopes'[k] # {} =>
            k \in DOMAIN scopes /\ scopes'[k] = scopes[k]
    BY <1>1 DEF EmptyingInv, LoopTypes, SymTypeOK, OpenScope
  <2> QED BY <1>1, <2>1 DEF EmptyingInv, AllLinked, Chained, NextIn
<1>7. Chained(closing.scope)'
  BY <1>1 DEF EmptyingInv, Chained
<1> QED BY <1>1, <1>2, <1>3, <1>4, <1>5, <1>6, <1>7 DEF EmptyingInv

\* A symbol is inserted: it is linked behind the last one of its scope.
LEMMA InsertKeepsMemory ==
    ASSUME EmptyingInv, NEW name \in Names, LoopInsert(name)
    PROVE  /\ EmptyingInv' /\ closing = NotClosing /\ closing' = NotClosing
           /\ Len(scopes) \in Nat \ {0}
           /\ Len(scopes') = Len(scopes) /\ Untouched(Len(scopes) - 1)
<1>1. PICK a \in Addr : CreateEntry(a, name, "INT_DT") /\ Insert(a) /\ LinkBack(a)
  BY DEF LoopInsert
<1>2. closing = NotClosing /\ closing' = closing /\ scopes # <<>>
  BY DEF LoopInsert
<1>3. SymTypeOK /\ MemoryOwned
  BY <1>2, IdleOwned DEF EmptyingInv, LoopTypes
<1>4. /\ SymTypeOK' /\ MemoryOwned' /\ Len(scopes') = Len(scopes)
      /\ Untouched(Len(scopes) - 1) /\ Inserted(a)
  BY <1>1, <1>2, <1>3, InsertKeepsOwned
<1>5. PICK top \in DOMAIN scopes : top = Len(scopes) /\ top \in Nat \ {0}
  <2>1. Len(scopes) \in DOMAIN scopes /\ Len(scopes) \in Nat \ {0}
    BY <1>2, <1>3 DEF SymTypeOK
  <2> QED BY <2>1
<1>6. PICK list \in Seq(Addr) : list = scopes[top] /\ list = CurrentScope
  BY <1>3, <1>5 DEF SymTypeOK, CurrentScope
<1>7. /\ DOMAIN scopes' = DOMAIN scopes
      /\ \A k \in DOMAIN scopes : k # top => scopes'[k] = scopes[k]
      /\ scopes'[top] = Append(list, a)
  BY <1>1, <1>3, <1>5, <1>6 DEF Insert, SymTypeOK
<1>8. \A k \in DOMAIN scopes : \A i \in DOMAIN scopes[k] : scopes[k][i] \in Addr \ {a}
  BY <1>1, <1>3 DEF SymTypeOK, MemoryOwned, CreateEntry
<1>9. link' \in [Addr -> Addr \cup {NULL}] /\ link'[a] = NULL
  BY <1>1, <1>6 DEF LinkBack, EmptyingInv, LoopTypes
<1>10. \A b \in Addr : b # a /\ (list # <<>> => b # list[Len(list)]) => link'[b] = link[b]
  BY <1>1, <1>6 DEF LinkBack, EmptyingInv, LoopTypes
<1>11. list # <<>> => link'[list[Len(list)]] = a
  <2> SUFFICES ASSUME list # <<>>
               PROVE  link'[list[Len(list)]] = a
    OBVIOUS
  <2>1. Len(list) \in DOMAIN list /\ list[Len(list)] \in Addr
    BY <1>6
  <2>2. list[Len(list)] # a
    BY <1>5, <1>6, <1>8, <2>1
  <2> QED BY <1>1, <1>6, <2>1, <2>2 DEF LinkBack, EmptyingInv, LoopTypes
<1>12. AllLinked'
  <2> SUFFICES ASSUME NEW k \in DOMAIN scopes', NEW i \in DOMAIN scopes'[k]
               PROVE  link'[scopes'[k][i]] = NextIn(scopes'[k], i)
    BY DEF AllLinked, Chained, NextIn
  <2>1. CASE k # top
    <3>1. k \in DOMAIN scopes /\ scopes'[k] = scopes[k] /\ i \in DOMAIN scopes[k]
      BY <1>7, <2>1
    <3>2. scopes[k][i] \in Addr \ {a}
      BY <1>8, <3>1
    <3>3. list # <<>> => scopes[k][i] # list[Len(list)]
      <4> SUFFICES ASSUME list # <<>>
                   PROVE  scopes[k][i] # scopes[top][Len(list)]
        BY <1>6
      <4>1. Len(list) \in DOMAIN scopes[top]
        BY <1>6
      <4> QED BY <1>3, <1>5, <2>1, <3>1, <4>1 DEF MemoryOwned
    <3>4. link[scopes[k][i]] = NextIn(scopes[k], i)
      BY <3>1 DEF EmptyingInv, AllLinked, Chained
    <3> QED BY <1>10, <3>1, <3>2, <3>3, <3>4
  <2>2. CASE k = top
    <3>1. PICK n \in Nat : n = Len(list) /\ DOMAIN list = 1 .. n
      BY <1>6
    <3>2. /\ Len(Append(list, a)) = n + 1 /\ DOMAIN Append(list, a) = 1 .. n + 1
          /\ \A j \in 1 .. n : Append(list, a)[j] = list[j]
          /\ Append(list, a)[n + 1] = a
      BY <1>6, <3>1, AppendProperties
    <3>3. scopes'[k] = Append(list, a) /\ i \in 1 .. n + 1
      BY <1>7, <2>2, <3>2
    <3>4. CASE i = n + 1
      BY <1>9, <3>2, <3>3, <3>4 DEF NextIn
    <3>5. CASE i = n
      <4>1. list # <<>> /\ n \in 1 .. n
        BY <3>1, <3>2, <3>3, <3>5
      <4> QED BY <1>11, <3>1, <3>2, <3>3, <3>5, <4>1 DEF NextIn
    <3>6. CASE i \in 1 .. n - 1
      <4>1. i \in 1 .. n /\ n \in 1 .. n /\ i # n /\ i + 1 \in 1 .. n /\ list # <<>>
        BY <3>1, <3>6
      <4>2. list[i] \in Addr /\ list[i] # a /\ list[i] # list[n]
        <5>1. \A u, v \in DOMAIN scopes[top] : scopes[top][u] = scopes[top][v] => u = v
          BY <1>3, <1>5 DEF MemoryOwned
        <5> QED BY <1>5, <1>6, <1>8, <3>1, <4>1, <5>1
      <4>3. link[list[i]] = list[i + 1]
        <5>1. link[list[i]] = NextIn(list, i)
          BY <1>5, <1>6, <3>1, <4>1 DEF EmptyingInv, AllLinked, Chained
        <5> QED BY <3>1, <4>1, <5>1 DEF NextIn
      <4>4. link'[list[i]] = list[i + 1]
        BY <1>10, <3>1, <4>2, <4>3
      <4> QED BY <3>2, <3>3, <4>1, <4>4 DEF NextIn
    <3> QED BY <3>1, <3>3, <3>4, <3>5, <3>6
  <2> QED BY <2>1, <2>2
<1>13. closing'.scope = <<>> /\ closing.scope = <<>> /\ closing'.step = "none"
  BY <1>2, Idle
<1>14. Standing' /\ LoopTypes'
  BY <1>2, <1>4, <1>9, <1>13, Idle DEF Standing, MemoryOwned, EmptyingInv, LoopTypes
<1>15. Emptying' /\ Chained(closing.scope)'
  BY <1>13 DEF Emptying, Chained
<1> QED BY <1>2, <1>4, <1>5, <1>12, <1>13, <1>14, <1>15 DEF EmptyingInv

\* A scope is taken off the table.
LEMMA PopKeepsMemory ==
    ASSUME EmptyingInv, PopScope
    PROVE  /\ EmptyingInv' /\ closing = NotClosing /\ closing' # NotClosing
           /\ Len(scopes) \in Nat \ {0}
           /\ Len(scopes') = Len(scopes) - 1 /\ Untouched(Len(scopes) - 1)
<1>1. /\ closing = NotClosing /\ scopes # <<>> /\ symbols' = symbols /\ link' = link
      /\ closing' = Emptier("free", CurrentScope, NextIn(CurrentScope, 0))
      /\ scopes' = SubSeq(scopes, 1, Len(scopes) - 1)
  BY DEF PopScope
<1>2. SymTypeOK /\ MemoryOwned
  BY <1>1, IdleOwned DEF EmptyingInv, LoopTypes
<1>3. PICK top \in DOMAIN scopes : top = Len(scopes) /\ top \in Nat \ {0}
  <2>1. Len(scopes) \in DOMAIN scopes /\ Len(scopes) \in Nat \ {0}
    BY <1>1, <1>2 DEF SymTypeOK
  <2> QED BY <2>1
<1>4. PICK list \in Seq(Addr) : list = scopes[top] /\ list = CurrentScope
  BY <1>2, <1>3 DEF SymTypeOK, CurrentScope
<1>5. /\ scopes' \in Seq(Seq(Addr)) /\ Len(scopes') = top - 1 /\ DOMAIN scopes' = 1 .. top - 1
      /\ DOMAIN scopes = 1 .. top
      /\ \A k \in DOMAIN scopes' : k \in DOMAIN scopes /\ k # top /\ scopes'[k] = scopes[k]
  BY <1>1, <1>2, <1>3, PopProperties DEF SymTypeOK
<1>6. closing'.step = "free" /\ closing'.scope = list /\ closing'.e = NextIn(list, 0)
  BY <1>1, <1>4 DEF Emptier
<1>7. closing' # NotClosing
  BY <1>6, Idle
<1>8. LoopTypes'
  <2>1. closing'.e \in Addr \cup {NULL}
    BY <1>4, <1>6 DEF NextIn
  <2>2. SymTypeOK'
    BY <1>1, <1>2, <1>5 DEF SymTypeOK
  <2>3. closing' \in [step : {"none", "free", "next"}, scope : Seq(Addr), e : Addr \cup {NULL}]
    BY <1>1, <1>4, <1>6, <2>1 DEF Emptier
  <2> QED BY <1>1, <2>2, <2>3 DEF EmptyingInv, LoopTypes
<1>9. Standing'
  <2>1. ASSUME NEW k \in DOMAIN scopes', NEW i \in DOMAIN scopes'[k]
        PROVE  symbols'[scopes'[k][i]] # Blank /\ scopes'[k][i] \notin InScope(closing'.scope)
    <3>1. k \in DOMAIN scopes /\ k # top /\ scopes'[k] = scopes[k]
      BY <1>5
    <3>2. symbols[scopes[k][i]] # Blank
      BY <1>2, <3>1 DEF MemoryOwned
    <3>3. \A j \in DOMAIN scopes[top] : scopes[k][i] # scopes[top][j]
      BY <1>2, <1>3, <3>1 DEF MemoryOwned
    <3> QED BY <1>1, <1>4, <1>6, <3>1, <3>2, <3>3 DEF InScope
  <2>2. ASSUME NEW k \in DOMAIN scopes', NEW l \in DOMAIN scopes',
               NEW i \in DOMAIN scopes'[k], NEW j \in DOMAIN scopes'[l],
               scopes'[k][i] = scopes'[l][j]
        PROVE  k = l /\ i = j
    BY <1>2, <1>5, <2>2 DEF MemoryOwned
  <2>3. ASSUME NEW a \in Addr, symbols'[a] # Blank
        PROVE  \/ a \in InScope(closing'.scope)
               \/ \E k \in DOMAIN scopes' : a \in InScope(scopes'[k])
    <3>1. PICK k \in DOMAIN scopes : a \in InScope(scopes[k])
      BY <1>1, <1>2, <2>3 DEF MemoryOwned
    <3>2. CASE k = top
      BY <1>4, <1>6, <3>1, <3>2
    <3>3. CASE k # top
      BY <1>3, <1>5, <3>1, <3>3
    <3> QED BY <3>2, <3>3
  <2> QED BY <2>1, <2>2, <2>3 DEF Standing, InScope
<1>10. Emptying'
  <2>1. 0 \in 0 .. Len(list)
    BY <1>4
  <2>2. \A i \in DOMAIN list : symbols'[list[i]] = Blank <=> i <= 0
    <3>1. \A i \in DOMAIN scopes[top] : symbols[scopes[top][i]] # Blank
      BY <1>2, <1>3 DEF MemoryOwned
    <3>2. \A i \in DOMAIN list : i > 0
      BY <1>4
    <3> QED BY <1>1, <1>4, <3>1, <3>2
  <2>3. 0 \in 0 .. Len(closing'.scope) /\ closing'.step # "next"
    BY <1>6, <2>1
  <2>4. \A i \in DOMAIN closing'.scope : symbols'[closing'.scope[i]] = Blank <=> i <= 0
    BY <1>6, <2>2
  <2>5. closing'.e = NextIn(closing'.scope, 0)
    BY <1>6
  <2> QED BY <2>3, <2>4, <2>5 DEF Emptying, NextIn
<1>11. Chained(closing.scope)' /\ AllLinked'
  <2>1. Chained(closing.scope)'
    <3>1. \A i \in DOMAIN scopes[top] : link[scopes[top][i]] = NextIn(scopes[top], i)
      BY <1>3 DEF EmptyingInv, AllLinked, Chained
    <3>2. \A i \in DOMAIN list : link[list[i]] = NextIn(list, i)
      BY <1>4, <3>1
    <3> QED BY <1>1, <1>6, <3>2 DEF Chained, NextIn
  <2>2. AllLinked'
    <3> SUFFICES ASSUME NEW k \in DOMAIN scopes', NEW i \in DOMAIN scopes'[k]
                 PROVE  link'[scopes'[k][i]] = NextIn(scopes'[k], i)
      BY DEF AllLinked, Chained, NextIn
    <3>1. k \in DOMAIN scopes /\ scopes'[k] = scopes[k]
      BY <1>5
    <3> QED BY <1>1, <3>1 DEF EmptyingInv, AllLinked, Chained
  <2> QED BY <2>1, <2>2
<1>12. \A i, j \in DOMAIN closing'.scope : closing'.scope[i] = closing'.scope[j] => i = j
  <2>1. \A i, j \in DOMAIN scopes[top] : scopes[top][i] = scopes[top][j] => i = j
    BY <1>2, <1>3 DEF MemoryOwned
  <2> QED BY <1>4, <1>6, <2>1
<1>13. Untouched(top - 1)
  BY <1>1, <1>3, <1>5 DEF Untouched
<1> QED BY <1>1, <1>3, <1>5, <1>6, <1>7, <1>8, <1>9, <1>10, <1>11, <1>12, <1>13 DEF EmptyingInv

\* A symbol is freed: it was allocated, and its link stays.
LEMMA FreeKeepsMemory ==
    ASSUME EmptyingInv, FreeSymbol
    PROVE  /\ EmptyingInv' /\ closing # NotClosing /\ closing' # NotClosing
           /\ symbols[closing.e] # Blank /\ closing.e \in InScope(closing.scope)
           /\ closing'.scope = closing.scope /\ Untouched(Len(scopes))
<1>1. /\ closing.step = "free" /\ closing.e # NULL /\ scopes' = scopes /\ link' = link
      /\ symbols' = [symbols EXCEPT ![closing.e] = Blank]
      /\ closing' = [closing EXCEPT !.step = "next"]
  BY DEF FreeSymbol
<1>2. PICK list \in Seq(Addr) : list = closing.scope
  BY DEF EmptyingInv, LoopTypes
<1>3. /\ closing'.step = "next" /\ closing'.scope = list /\ closing'.e = closing.e
      /\ closing' \in [step : {"none", "free", "next"}, scope : Seq(Addr), e : Addr \cup {NULL}]
  BY <1>1, <1>2 DEF EmptyingInv, LoopTypes
<1>4. PICK n \in 0 .. Len(list) : /\ \A i \in DOMAIN list : symbols[list[i]] = Blank <=> i <= n
                                  /\ closing.e = NextIn(list, n)
  BY <1>1, <1>2 DEF EmptyingInv, Emptying
<1>5. n + 1 \in DOMAIN list /\ n \in Nat /\ closing.e = list[n + 1] /\ closing.e \in Addr
  BY <1>1, <1>2, <1>4 DEF NextIn
<1>6. \A i, j \in DOMAIN list : list[i] = list[j] => i = j
  BY <1>2 DEF EmptyingInv
<1>7. symbols[closing.e] # Blank /\ closing.e \in InScope(closing.scope)
  BY <1>2, <1>4, <1>5 DEF InScope
<1>8. symbols \in [Addr -> Symbol \cup {Blank}] /\ scopes \in Seq(Seq(Addr))
  BY DEF EmptyingInv, LoopTypes, SymTypeOK
<1>9. /\ symbols' \in [Addr -> Symbol \cup {Blank}]
      /\ \A a \in Addr : symbols'[a] = IF a = closing.e THEN Blank ELSE symbols[a]
  BY <1>1, <1>5, <1>8
<1>10. \A k \in DOMAIN scopes : \A i \in DOMAIN scopes[k] :
          scopes[k][i] \in Addr /\ scopes[k][i] # closing.e
  BY <1>7, <1>8 DEF EmptyingInv, Standing
<1>11. LoopTypes'
  BY <1>1, <1>3, <1>8, <1>9 DEF EmptyingInv, LoopTypes, SymTypeOK
<1>12. Standing'
  BY <1>1, <1>2, <1>3, <1>9, <1>10 DEF EmptyingInv, Standing, InScope
<1>13. Emptying'
  <2>1. n + 1 \in 0 .. Len(list)
    BY <1>2, <1>5
  <2>2. ASSUME NEW i \in DOMAIN list
        PROVE  symbols'[list[i]] = Blank <=> i <= n + 1
    <3>1. list[i] \in Addr /\ i \in Nat /\ (list[i] = closing.e <=> i = n + 1)
      BY <1>2, <1>5, <1>6
    <3> QED BY <1>4, <1>5, <1>9, <3>1
  <2>3. n + 1 > 0 /\ closing'.e = list[n + 1] /\ closing'.step # "free"
    BY <1>3, <1>5
  <2> QED BY <1>3, <2>1, <2>2, <2>3 DEF Emptying
<1>14. Chained(closing.scope)' /\ AllLinked'
  BY <1>1, <1>2, <1>3 DEF EmptyingInv, AllLinked, Chained, NextIn
<1>15. closing # NotClosing /\ closing' # NotClosing
  BY <1>1, <1>3, Idle
<1>16. Untouched(Len(scopes))
  BY <1>1, <1>8, <1>9, <1>10 DEF Untouched
<1> QED BY <1>2, <1>3, <1>6, <1>7, <1>11, <1>12, <1>13, <1>14, <1>15, <1>16 DEF EmptyingInv

\* The link of the symbol that was freed leads to the next one.
LEMMA NextKeepsMemory ==
    ASSUME EmptyingInv, NextSymbol
    PROVE  /\ EmptyingInv' /\ closing # NotClosing /\ closing' # NotClosing
           /\ closing'.scope = closing.scope /\ Untouched(Len(scopes))
<1>1. /\ closing.step = "next" /\ scopes' = scopes /\ link' = link /\ symbols' = symbols
      /\ closing' = [closing EXCEPT !.step = "free", !.e = link[closing.e]]
  BY DEF NextSymbol, clientVars
<1>2. PICK list \in Seq(Addr) : list = closing.scope
  BY DEF EmptyingInv, LoopTypes
<1>3. PICK n \in 0 .. Len(list) : /\ \A i \in DOMAIN list : symbols[list[i]] = Blank <=> i <= n
                                  /\ n > 0 /\ closing.e = list[n]
  BY <1>1, <1>2 DEF EmptyingInv, Emptying
<1>4. n \in DOMAIN list /\ closing.e \in Addr
  BY <1>2, <1>3
<1>5. link[closing.e] = NextIn(list, n) /\ link[closing.e] \in Addr \cup {NULL}
  BY <1>2, <1>3, <1>4 DEF EmptyingInv, Chained, LoopTypes
<1>6. /\ closing'.step = "free" /\ closing'.scope = list /\ closing'.e = NextIn(list, n)
      /\ closing' \in [step : {"none", "free", "next"}, scope : Seq(Addr), e : Addr \cup {NULL}]
  BY <1>1, <1>2, <1>5 DEF EmptyingInv, LoopTypes
<1>7. LoopTypes'
  BY <1>1, <1>6 DEF EmptyingInv, LoopTypes, SymTypeOK
<1>8. Standing'
  BY <1>1, <1>2, <1>6 DEF EmptyingInv, Standing, InScope
<1>9. Emptying'
  BY <1>1, <1>3, <1>6 DEF Emptying, NextIn
<1>10. Chained(closing.scope)' /\ AllLinked'
  BY <1>1, <1>2, <1>6 DEF EmptyingInv, AllLinked, Chained, NextIn
<1>11. closing # NotClosing /\ closing' # NotClosing
  BY <1>1, <1>6, Idle
<1>12. Untouched(Len(scopes))
  BY <1>1 DEF Untouched, EmptyingInv, LoopTypes, SymTypeOK
<1> QED BY <1>2, <1>6, <1>7, <1>8, <1>9, <1>10, <1>11, <1>12 DEF EmptyingInv

\* The loop has come to the tail: nothing of the scope is left.
LEMMA EndKeepsMemory ==
    ASSUME EmptyingInv, FreeScope
    PROVE  /\ EmptyingInv' /\ closing # NotClosing /\ closing' = NotClosing
           /\ \A i \in DOMAIN closing.scope : symbols[closing.scope[i]] = Blank
           /\ Untouched(Len(scopes))
<1>1. /\ closing.step = "free" /\ closing.e = NULL /\ scopes' = scopes /\ link' = link
      /\ symbols' = symbols /\ closing' = NotClosing
  BY DEF FreeScope
<1>2. PICK list \in Seq(Addr) : list = closing.scope
  BY DEF EmptyingInv, LoopTypes
<1>3. PICK n \in 0 .. Len(list) : /\ \A i \in DOMAIN list : symbols[list[i]] = Blank <=> i <= n
                                  /\ closing.e = NextIn(list, n)
  BY <1>1, <1>2 DEF EmptyingInv, Emptying
<1>4. n = Len(list)
  <2> SUFFICES ASSUME n # Len(list)
               PROVE  FALSE
    OBVIOUS
  <2>1. n + 1 \in DOMAIN list
    BY <1>2, <1>3
  <2>2. list[n + 1] \in Addr
    BY <1>2, <2>1
  <2> QED BY <1>1, <1>3, <2>2, AddrAssumption DEF NextIn
<1>5. \A i \in DOMAIN list : symbols[list[i]] = Blank
  BY <1>2, <1>3, <1>4
<1>6. LoopTypes'
  BY <1>1 DEF EmptyingInv, LoopTypes, SymTypeOK, NotClosing, Emptier
<1>7. Standing'
  BY <1>1, <1>2, <1>5, Idle DEF EmptyingInv, Standing, InScope
<1>8. closing'.scope = <<>> /\ closing'.step = "none"
  BY <1>1, Idle
<1>9. Emptying' /\ Chained(closing.scope)'
  BY <1>8 DEF Emptying, Chained
<1>10. AllLinked'
  BY <1>1 DEF EmptyingInv, AllLinked, Chained, NextIn
<1>11. closing # NotClosing
  BY <1>1, Idle
<1>12. Untouched(Len(scopes))
  BY <1>1 DEF Untouched, EmptyingInv, LoopTypes, SymTypeOK
<1> QED BY <1>1, <1>2, <1>5, <1>6, <1>7, <1>8, <1>9, <1>10, <1>11, <1>12 DEF EmptyingInv

-----------------------------------------------------------------------------
(* The history of the lookups. *)

\* What a name means is what symtable_find returns for it.
LEMMA LookupMeanings ==
    ASSUME SymTypeOK
    PROVE  /\ Lookup = Meanings(Len(scopes))
           /\ Lookup \in [Names -> Addr \cup {NULL}]
<1>1. Lookup = Meanings(Len(scopes))
  BY FindAll DEF Lookup, Meanings
<1>2. Len(scopes) \in Nat /\ Len(scopes) <= Len(scopes)
  BY DEF SymTypeOK
<1>3. \A name \in Names : FindBelow(name, Len(scopes)) \in Addr \cup {NULL}
  BY <1>2, FindBelowType
<1> QED BY <1>1, <1>3 DEF Meanings

\* It stays what it is with the table.
LEMMA LookupSame ==
    ASSUME scopes' = scopes, symbols' = symbols
    PROVE  Lookup' = Lookup
BY DEF Lookup, Find, FindInScope

\* The history stays true as long as the scopes it speaks of are untouched.
LEMMA HistoryStands ==
    ASSUME SymTypeOK, HistoryInv, NEW n \in Nat, Untouched(n), Len(lookups) <= n + 1
    PROVE  \A k \in DOMAIN lookups : lookups[k] = Meanings(k - 1)'
<1> SUFFICES ASSUME NEW k \in DOMAIN lookups
             PROVE  lookups[k] = Meanings(k - 1)'
  OBVIOUS
<1>1. k - 1 \in 0 .. n
  BY DEF HistoryInv
<1>2. Meanings(k - 1)' = Meanings(k - 1)
  BY <1>1, MeaningsSame
<1> QED BY <1>2 DEF HistoryInv

\* When a scope is opened the meanings of that moment are added to it.
LEMMA OpenKeepsHistory ==
    ASSUME EmptyingInv, HistoryInv, LoopOpen
    PROVE  HistoryInv' /\ Len(lookups') = Len(lookups) + 1
<1>1. PICK n \in Nat : n = Len(scopes)
  BY DEF EmptyingInv, LoopTypes, SymTypeOK
<1>2. SymTypeOK /\ Untouched(n) /\ closing = NotClosing /\ closing' = NotClosing
      /\ Len(scopes') = n + 1
  BY <1>1, OpenKeepsMemory DEF EmptyingInv, LoopTypes
<1>3. PICK new \in [Names -> Addr \cup {NULL}] : new = Meanings(n) /\ new = Lookup
  BY <1>1, <1>2, LookupMeanings
<1>4. lookups' = Append(lookups, new)
  BY <1>3 DEF LoopOpen, ClientOpen
<1>5. lookups \in Seq([Names -> Addr \cup {NULL}]) /\ Len(lookups) = n
  BY <1>1, <1>2 DEF HistoryInv
<1>6. /\ lookups' \in Seq([Names -> Addr \cup {NULL}]) /\ Len(lookups') = n + 1
      /\ \A k \in 1 .. n : k \in DOMAIN lookups /\ lookups'[k] = lookups[k]
      /\ lookups'[n + 1] = new /\ DOMAIN lookups' = 1 .. n + 1
  BY <1>4, <1>5
<1>7. \A k \in DOMAIN lookups : lookups[k] = Meanings(k - 1)'
  BY <1>2, <1>5, HistoryStands
<1>8. new = Meanings(n)'
  <2>1. n \in 0 .. n
    OBVIOUS
  <2>2. Meanings(n)' = Meanings(n)
    BY <1>2, <2>1, MeaningsSame
  <2> QED BY <1>3, <2>2
<1>9. ASSUME NEW k \in 1 .. n + 1
      PROVE  lookups'[k] = Meanings(k - 1)'
  <2>1. CASE k \in 1 .. n
    BY <1>6, <1>7, <2>1
  <2>2. CASE k = n + 1
    <3>1. k - 1 = n
      BY <2>2
    <3> QED BY <1>6, <1>8, <2>2, <3>1
  <2> QED BY <2>1, <2>2
<1> QED BY <1>2, <1>5, <1>6, <1>9 DEF HistoryInv

\* Nothing else the client does, and no step of the loop but its end, adds to it.
LEMMA OthersKeepHistory ==
    ASSUME EmptyingInv, HistoryInv,
           \/ \E name \in Names : LoopInsert(name)
           \/ PopScope \/ FreeSymbol \/ NextSymbol
    PROVE  HistoryInv' /\ lookups' = lookups
<1>1. SymTypeOK /\ Len(scopes) \in Nat /\ Len(lookups) \in Nat
  BY DEF EmptyingInv, LoopTypes, SymTypeOK, HistoryInv
<1>2. lookups' = lookups
  BY DEF LoopInsert, PopScope, FreeSymbol, NextSymbol, clientVars
<1>3. /\ Len(lookups) = Len(scopes') + (IF closing' = NotClosing THEN 0 ELSE 1)
      /\ \E n \in Nat : Untouched(n) /\ Len(lookups) <= n + 1
  <2>1. CASE \E name \in Names : LoopInsert(name)
    <3>1. /\ closing = NotClosing /\ closing' = NotClosing /\ Len(scopes) \in Nat \ {0}
          /\ Len(scopes') = Len(scopes) /\ Untouched(Len(scopes) - 1)
      BY <2>1, InsertKeepsMemory
    <3>2. Len(lookups) = Len(scopes)
      BY <1>1, <3>1 DEF HistoryInv
    <3>3. PICK n \in Nat : n = Len(scopes) - 1
      BY <3>1
    <3> QED BY <3>1, <3>2, <3>3
  <2>2. CASE PopScope
    <3>1. /\ closing = NotClosing /\ closing' # NotClosing /\ Len(scopes) \in Nat \ {0}
          /\ Len(scopes') = Len(scopes) - 1 /\ Untouched(Len(scopes) - 1)
      BY <2>2, PopKeepsMemory
    <3>2. Len(lookups) = Len(scopes)
      BY <1>1, <3>1 DEF HistoryInv
    <3>3. PICK n \in Nat : n = Len(scopes) - 1
      BY <3>1
    <3> QED BY <3>1, <3>2, <3>3
  <2>3. CASE FreeSymbol \/ NextSymbol
    <3>1. closing # NotClosing /\ closing' # NotClosing /\ Untouched(Len(scopes))
      BY <2>3, FreeKeepsMemory, NextKeepsMemory
    <3>2. scopes' = scopes
      BY <2>3 DEF FreeSymbol, NextSymbol, clientVars
    <3>3. Len(lookups) = Len(scopes) + 1
      BY <3>1 DEF HistoryInv
    <3> QED BY <1>1, <3>1, <3>2, <3>3
  <2> QED BY <2>1, <2>2, <2>3
<1>4. \A k \in DOMAIN lookups : lookups[k] = Meanings(k - 1)'
  BY <1>1, <1>3, HistoryStands
<1> QED BY <1>2, <1>3, <1>4 DEF HistoryInv

\* When a scope has been closed its entry goes, and the names mean again what it says.
LEMMA EndKeepsHistory ==
    ASSUME EmptyingInv, HistoryInv, FreeScope
    PROVE  HistoryInv' /\ [name \in Names |-> Find(name)]' = lookups[Len(lookups)]
<1>1. PICK n \in Nat : n = Len(scopes)
  BY DEF EmptyingInv, LoopTypes, SymTypeOK
<1>2. SymTypeOK /\ SymTypeOK' /\ Untouched(n) /\ closing # NotClosing /\ closing' = NotClosing
  BY <1>1, EndKeepsMemory DEF EmptyingInv, LoopTypes
<1>3. scopes' = scopes /\ lookups' = SubSeq(lookups, 1, Len(lookups) - 1)
  BY DEF FreeScope
<1>4. lookups \in Seq([Names -> Addr \cup {NULL}]) /\ Len(lookups) = n + 1
  BY <1>1, <1>2 DEF HistoryInv
<1>5. /\ lookups' \in Seq([Names -> Addr \cup {NULL}]) /\ Len(lookups') = n
      /\ \A k \in DOMAIN lookups' : k \in DOMAIN lookups /\ lookups'[k] = lookups[k]
  BY <1>3, <1>4, PopProperties
<1>6. \A k \in DOMAIN lookups : lookups[k] = Meanings(k - 1)'
  BY <1>2, <1>4, HistoryStands
<1>7. lookups[n + 1] = Meanings(n)'
  <2>1. n + 1 \in DOMAIN lookups /\ (n + 1) - 1 = n
    BY <1>4
  <2> QED BY <1>6, <2>1
<1>8. Lookup' = Meanings(n)'
  <2>1. n \in 0 .. n /\ symbols' = symbols
    BY DEF FreeScope
  <2>2. Meanings(n)' = Meanings(n)
    BY <1>2, <2>1, MeaningsSame
  <2>3. Lookup = Meanings(n)
    BY <1>1, <1>2, LookupMeanings
  <2>4. Lookup' = Lookup
    BY <1>3, <2>1, LookupSame
  <2> QED BY <2>2, <2>3, <2>4
<1>9. [name \in Names |-> Find(name)]' = lookups[Len(lookups)]
  BY <1>4, <1>7, <1>8 DEF Lookup
<1>10. HistoryInv'
  BY <1>1, <1>2, <1>3, <1>5, <1>6 DEF HistoryInv
<1> QED BY <1>9, <1>10

\* A step in which nothing happens.
LEMMA StutterKeeps ==
    ASSUME EmptyingInv, HistoryInv, UNCHANGED loopVars
    PROVE  EmptyingInv' /\ HistoryInv'
<1>1. /\ scopes' = scopes /\ symbols' = symbols /\ lookups' = lookups
      /\ link' = link /\ closing' = closing
  BY DEF loopVars, clientVars
<1>2. EmptyingInv'
  BY <1>1 DEF EmptyingInv, LoopTypes, SymTypeOK, Standing, Emptying, AllLinked, Chained, NextIn
<1>3. HistoryInv'
  <2>1. PICK n \in Nat : n = Len(scopes)
    BY DEF EmptyingInv, LoopTypes, SymTypeOK
  <2>2. SymTypeOK /\ Untouched(n) /\ Len(lookups) <= n + 1
    BY <1>1, <2>1 DEF EmptyingInv, LoopTypes, Untouched, HistoryInv
  <2>3. \A k \in DOMAIN lookups : lookups[k] = Meanings(k - 1)'
    BY <2>2, HistoryStands
  <2> QED BY <1>1, <2>3 DEF HistoryInv
<1> QED BY <1>2, <1>3

\* The memory is well-formed and the history true, whatever the client does.
LEMMA LoopInvHolds == LoopSpec => [](EmptyingInv /\ HistoryInv)
<1>1. LoopInit => EmptyingInv /\ HistoryInv
  BY LoopStarts
<1>2. EmptyingInv /\ HistoryInv /\ [LoopNext]_loopVars => EmptyingInv' /\ HistoryInv'
  <2> SUFFICES ASSUME EmptyingInv, HistoryInv, [LoopNext]_loopVars
               PROVE  EmptyingInv' /\ HistoryInv'
    OBVIOUS
  <2>1. CASE LoopOpen
    BY <2>1, OpenKeepsMemory, OpenKeepsHistory
  <2>2. CASE \E name \in Names : LoopInsert(name)
    BY <2>2, InsertKeepsMemory, OthersKeepHistory
  <2>3. CASE PopScope
    BY <2>3, PopKeepsMemory, OthersKeepHistory
  <2>4. CASE FreeSymbol
    BY <2>4, FreeKeepsMemory, OthersKeepHistory
  <2>5. CASE NextSymbol
    BY <2>5, NextKeepsMemory, OthersKeepHistory
  <2>6. CASE FreeScope
    BY <2>6, EndKeepsMemory, EndKeepsHistory
  <2>7. CASE UNCHANGED loopVars
    BY <2>7, StutterKeeps
  <2> QED BY <2>1, <2>2, <2>3, <2>4, <2>5, <2>6, <2>7 DEF LoopNext
<1> QED BY <1>1, <1>2, PTL DEF LoopSpec

-----------------------------------------------------------------------------
(* What holds of the symbol table for every client. *)

\* Types of the table, of the links and of what the loop holds in its hands
\* (symtable.c), for every set of addresses.
THEOREM ClientTypes == LoopSpec => []LoopTypeOK
<1>1. EmptyingInv /\ HistoryInv => LoopTypeOK
  BY DEF EmptyingInv, LoopTypes, HistoryInv, LoopTypeOK, ClientTypeOK
<1> QED BY <1>1, LoopInvHolds, PTL

\* Whatever the client does: a symbol that can be looked up is allocated and stands at
\* one place, and none is lost.  empty_scope frees every symbol of its scope, each
\* once, although it follows links in memory it has freed.
THEOREM ClientMemory == LoopSpec => []LoopOwned
<1>1. EmptyingInv => LoopOwned
  BY StandingOwned DEF EmptyingInv, LoopOwned
<1> QED BY <1>1, LoopInvHolds, PTL

\* When symtable_close_scope is done every name means again what it meant when the scope
\* was opened, whatever was inserted in it, and in the scopes within it.
THEOREM ClosingRestores == LoopSpec => CloseRestores
<1>1. EmptyingInv /\ HistoryInv /\ [LoopNext]_loopVars =>
        [Len(lookups') < Len(lookups) =>
            [name \in Names |-> Find(name)]' = lookups[Len(lookups)]]_clientVars
  <2> SUFFICES ASSUME EmptyingInv, HistoryInv, [LoopNext]_loopVars,
                      Len(lookups') < Len(lookups)
               PROVE  [name \in Names |-> Find(name)]' = lookups[Len(lookups)]
    OBVIOUS
  <2>1. Len(lookups) \in Nat
    BY DEF HistoryInv
  <2>2. CASE LoopOpen
    BY <2>1, <2>2, OpenKeepsHistory
  <2>3. CASE (\E name \in Names : LoopInsert(name)) \/ PopScope \/ FreeSymbol \/ NextSymbol
    BY <2>1, <2>3, OthersKeepHistory
  <2>4. CASE FreeScope
    BY <2>4, EndKeepsHistory
  <2>5. CASE UNCHANGED loopVars
    BY <2>1, <2>5 DEF loopVars, clientVars
  <2> QED BY <2>2, <2>3, <2>4, <2>5 DEF LoopNext
<1> QED BY <1>1, LoopInvHolds, PTL DEF LoopSpec, CloseRestores

-----------------------------------------------------------------------------
(* The loop of empty_scope implements closing a scope in one step. *)

\* What symtable_find_in_scope and symtable_find return depends on the symbols only.
LEMMA FindAtOnce ==
    ASSUME SymbolsLeft = symbols, NEW needle
    PROVE  /\ \A scope : AtOnce!FindInScope(scope, needle) = FindInScope(scope, needle)
           /\ AtOnce!Find(needle) = Find(needle)
<1>1. ASSUME NEW scope
      PROVE  AtOnce!FindInScope(scope, needle) = FindInScope(scope, needle)
  <2> DEFINE hits == {i \in DOMAIN scope : symbols[scope[i]].name = needle}
  <2> DEFINE left == {i \in DOMAIN scope : SymbolsLeft[scope[i]].name = needle}
  <2>1. hits = left
    OBVIOUS
  <2>2. AtOnce!FindInScope(scope, needle) = IF left = {} THEN NULL ELSE scope[Min(left)]
    BY DEF AtOnce!FindInScope, AtOnce!Min, Min
  <2>3. FindInScope(scope, needle) = IF hits = {} THEN NULL ELSE scope[Min(hits)]
    BY DEF FindInScope
  <2> HIDE DEF hits, left
  <2> QED BY <2>1, <2>2, <2>3
<1>2. AtOnce!Find(needle) = Find(needle)
  <2> DEFINE hits == {k \in DOMAIN scopes : FindInScope(scopes[k], needle) # NULL}
  <2> DEFINE left == {k \in DOMAIN scopes : AtOnce!FindInScope(scopes[k], needle) # NULL}
  <2>1. hits = left
    BY <1>1
  <2>2. AtOnce!Find(needle) = IF left = {} THEN NULL
                              ELSE AtOnce!FindInScope(scopes[Min(left)], needle)
    BY DEF AtOnce!Find, AtOnce!Min, Min
  <2>3. Find(needle) = IF hits = {} THEN NULL ELSE FindInScope(scopes[Min(hits)], needle)
    BY DEF Find
  <2> HIDE DEF hits, left
  <2> QED BY <1>1, <2>1, <2>2, <2>3
<1> QED BY <1>1, <1>2

\* Between two calls the abstract table is the table.
LEMMA IdleLeft ==
    ASSUME LoopTypes, closing = NotClosing
    PROVE  SymbolsLeft = symbols /\ LookupsLeft = lookups
<1>1. InScope(closing.scope) = {}
  BY Idle
<1>2. symbols = [a \in Addr |-> symbols[a]]
  BY DEF LoopTypes, SymTypeOK
<1> QED BY <1>1, <1>2 DEF SymbolsLeft, LookupsLeft

\* Both start with an empty table.
LEMMA StartsAtOnce ==
    ASSUME LoopInit
    PROVE  AtOnce!ClientInit
<1>1. SymbolsLeft = symbols /\ LookupsLeft = lookups
  BY LoopStarts, IdleLeft DEF LoopInit, EmptyingInv
<1> QED BY <1>1 DEF LoopInit, ClientInit, SymInit, Blank,
                    AtOnce!ClientInit, AtOnce!SymInit, AtOnce!Blank

\* symtable_open_scope is the same for both.
LEMMA OpensAtOnce ==
    ASSUME EmptyingInv, LoopOpen
    PROVE  AtOnce!ClientOpen
<1>1. LoopTypes /\ LoopTypes' /\ closing = NotClosing /\ closing' = NotClosing
  BY OpenKeepsMemory DEF EmptyingInv
<1>2. SymbolsLeft = symbols /\ LookupsLeft = lookups
  BY <1>1, IdleLeft
<1>3. SymbolsLeft' = symbols' /\ LookupsLeft' = lookups'
  <2>1. symbols' = symbols /\ InScope(closing.scope)' = {}
    BY <1>1, Idle DEF LoopOpen, ClientOpen, OpenScope, InScope
  <2> QED BY <1>1, <2>1 DEF SymbolsLeft, LookupsLeft, LoopTypes, SymTypeOK
<1>4. AtOnce!Lookup = Lookup
  BY <1>2, FindAtOnce DEF Lookup, AtOnce!Lookup
<1> QED BY <1>2, <1>3, <1>4
        DEF LoopOpen, ClientOpen, OpenScope, AtOnce!ClientOpen, AtOnce!OpenScope

\* And so is symtable_insert.
LEMMA InsertsAtOnce ==
    ASSUME EmptyingInv, NEW name \in Names, LoopInsert(name)
    PROVE  AtOnce!ClientInsert(name)
<1>1. LoopTypes /\ LoopTypes' /\ closing = NotClosing /\ closing' = NotClosing
  BY InsertKeepsMemory DEF EmptyingInv
<1>2. SymbolsLeft = symbols /\ LookupsLeft = lookups
  BY <1>1, IdleLeft
<1>3. SymbolsLeft' = symbols' /\ LookupsLeft' = lookups'
  <2>1. InScope(closing'.scope) = {} /\ symbols' = [a \in Addr |-> symbols'[a]]
    BY <1>1, Idle DEF LoopTypes, SymTypeOK
  <2> QED BY <1>1, <2>1 DEF SymbolsLeft, LookupsLeft
<1>4. AtOnce!InsertAllowed(name)
  BY <1>2, FindAtOnce
     DEF LoopInsert, InsertAllowed, CurrentScope, AtOnce!InsertAllowed, AtOnce!CurrentScope
<1> QED BY <1>2, <1>3, <1>4
        DEF LoopInsert, CreateEntry, Insert, Blank,
            AtOnce!ClientInsert, AtOnce!CreateEntry, AtOnce!Insert, AtOnce!Blank

\* Once the scope is off the table nobody finds its symbols: it is closed.
LEMMA ClosesWithPop ==
    ASSUME EmptyingInv, HistoryInv, PopScope
    PROVE  AtOnce!ClientClose
<1>1. /\ closing = NotClosing /\ closing' # NotClosing /\ LoopTypes
      /\ scopes # <<>> /\ scopes' = SubSeq(scopes, 1, Len(scopes) - 1)
      /\ symbols' = symbols /\ lookups' = lookups
  BY PopKeepsMemory DEF EmptyingInv, PopScope
<1>2. SymbolsLeft = symbols /\ LookupsLeft = lookups
  BY <1>1, IdleLeft
<1>3. LookupsLeft' = SubSeq(LookupsLeft, 1, Len(LookupsLeft) - 1)
  BY <1>1, <1>2 DEF LookupsLeft
<1>4. closing'.scope = CurrentScope
  BY DEF PopScope, Emptier
<1>5. SymbolsLeft' = [a \in Addr |-> IF a \in InScope(CurrentScope) THEN Blank
                                                                     ELSE symbols[a]]
  BY <1>1, <1>4 DEF SymbolsLeft, InScope
<1> QED BY <1>1, <1>2, <1>3, <1>5
        DEF AtOnce!ClientClose, AtOnce!CloseScope, AtOnce!CurrentScope, AtOnce!InScope,
            AtOnce!Blank, CurrentScope, InScope, Blank

\* What the loop does afterwards is not seen.
LEMMA EmptiesUnseen ==
    ASSUME EmptyingInv, HistoryInv, FreeSymbol \/ NextSymbol \/ FreeScope
    PROVE  UNCHANGED AtOnce!clientVars
<1>1. scopes' = scopes
  BY DEF FreeSymbol, NextSymbol, FreeScope, clientVars
<1>2. symbols \in [Addr -> Symbol \cup {Blank}]
  BY DEF EmptyingInv, LoopTypes, SymTypeOK
<1>3. SymbolsLeft' = SymbolsLeft
  <2>1. CASE FreeSymbol
    <3>1. closing.e \in InScope(closing.scope) /\ closing'.scope = closing.scope
      BY <2>1, FreeKeepsMemory
    <3>2. \A a \in Addr : a # closing.e => symbols'[a] = symbols[a]
      BY <1>2, <2>1 DEF FreeSymbol
    <3> QED BY <3>1, <3>2 DEF SymbolsLeft, InScope
  <2>2. CASE NextSymbol
    <3>1. closing'.scope = closing.scope /\ symbols' = symbols
      BY <2>2, NextKeepsMemory DEF NextSymbol, clientVars
    <3> QED BY <3>1 DEF SymbolsLeft, InScope
  <2>3. CASE FreeScope
    <3>1. \A i \in DOMAIN closing.scope : symbols[closing.scope[i]] = Blank
      BY <2>3, EndKeepsMemory
    <3>2. symbols' = symbols /\ InScope(closing'.scope) = {}
      BY <2>3, Idle DEF FreeScope
    <3>3. \A a \in Addr : a \in InScope(closing.scope) => symbols[a] = Blank
      BY <3>1 DEF InScope
    <3> QED BY <3>2, <3>3 DEF SymbolsLeft, InScope
  <2> QED BY <2>1, <2>2, <2>3
<1>4. LookupsLeft' = LookupsLeft
  <2>1. CASE FreeSymbol \/ NextSymbol
    <3>1. closing # NotClosing /\ closing' # NotClosing
      BY <2>1, FreeKeepsMemory, NextKeepsMemory
    <3>2. lookups' = lookups
      BY <2>1, OthersKeepHistory
    <3> QED BY <3>1, <3>2 DEF LookupsLeft
  <2>2. CASE FreeScope
    <3>1. closing # NotClosing /\ closing' = NotClosing
      BY <2>2, EndKeepsMemory
    <3> QED BY <2>2, <3>1 DEF FreeScope, LookupsLeft
  <2> QED BY <2>1, <2>2
<1> QED BY <1>1, <1>3, <1>4 DEF AtOnce!clientVars

\* Freeing the symbols one by one, and finding the next in memory just freed, comes for
\* every client to what SymTable says of symtable_close_scope: the scope and all its
\* symbols are gone in one step.
THEOREM LoopClosesAtOnce == LoopSpec => ClosesAtOnce
<1>1. LoopInit => AtOnce!ClientInit
  BY StartsAtOnce
<1>2. EmptyingInv /\ HistoryInv /\ [LoopNext]_loopVars =>
        [AtOnce!ClientNext]_(AtOnce!clientVars)
  <2> SUFFICES ASSUME EmptyingInv, HistoryInv, [LoopNext]_loopVars
               PROVE  AtOnce!ClientNext \/ UNCHANGED AtOnce!clientVars
    OBVIOUS
  <2>1. CASE LoopOpen
    BY <2>1, OpensAtOnce DEF AtOnce!ClientNext
  <2>2. CASE \E name \in Names : LoopInsert(name)
    BY <2>2, InsertsAtOnce DEF AtOnce!ClientNext
  <2>3. CASE PopScope
    BY <2>3, ClosesWithPop DEF AtOnce!ClientNext
  <2>4. CASE FreeSymbol \/ NextSymbol \/ FreeScope
    BY <2>4, EmptiesUnseen
  <2>5. CASE UNCHANGED loopVars
    BY <2>5 DEF loopVars, clientVars, AtOnce!clientVars, SymbolsLeft, LookupsLeft, InScope
  <2> QED BY <2>1, <2>2, <2>3, <2>4, <2>5 DEF LoopNext
<1> QED BY <1>1, <1>2, LoopInvHolds, PTL DEF LoopSpec, ClosesAtOnce, AtOnce!ClientSpec

-----------------------------------------------------------------------------
(* The AST gives every child the kind its parent expects. *)

\* The children of a node are nodes of the kind its parent needs.
LEMMA KidTypes ==
    ASSUME WellFormed(prog), NEW n \in DOMAIN prog
    PROVE  /\ Kids(n) \in Seq(DOMAIN prog)
           /\ Type(n) \in {"RETURN_STAT", "EXPR_STAT"} => Kid(n, 1) \in ExprIds
           /\ Type(n) = "IF_STAT" => Kid(n, 1) \in ExprIds /\ Tail(Kids(n)) \in Seq(StatIds)
           /\ Type(n) = "WHILE_STAT" => Kid(n, 1) \in ExprIds /\ Kid(n, 2) \in StatIds
           /\ Type(n) = "FOR_STAT" => /\ Kid(n, 1) \in ExprIds /\ Kid(n, 2) \in ExprIds
                                      /\ Kid(n, 3) \in ExprIds /\ Kid(n, 4) \in StatIds
           /\ Type(n) = "BLOCK_STAT" => Kids(n) \in Seq(StatIds)
           /\ Type(n) = "DECL_STAT" /\ Kids(n) # <<>> =>
                 IF prog[n].is_func THEN Kid(n, 1) \in StatIds ELSE Kid(n, 1) \in ExprIds
           /\ Type(n) = "BIN_OP" => Kid(n, 1) \in ExprIds /\ Kid(n, 2) \in ExprIds
           /\ Type(n) \in {"VAR_REF", "FUNC_CALL", "DECL_STAT"} => prog[n].name \in Names
<1>1. Kids(n) \in Seq(Nat \ {0}) /\ \A i \in DOMAIN Kids(n) : Kid(n, i) \in DOMAIN prog
  <2>1. prog[n] \in Node
    BY DEF WellFormed
  <2> QED BY <2>1 DEF WellFormed, Node, Kids, Kid
<1>2. Kids(n) \in Seq(DOMAIN prog)
  BY <1>1, SeqRetype DEF Kids, Kid
<1>3. /\ Len(Kids(n)) \in Nat /\ DOMAIN Kids(n) = 1 .. Len(Kids(n))
      /\ \A i \in 1 .. Len(Kids(n)) : Kids(n)[i] = Kid(n, i) /\ Kid(n, i) \in DOMAIN prog
  BY <1>1 DEF Kids, Kid
<1>4. ShapeOK(prog, n)
  BY DEF WellFormed
<1>5. /\ \A m \in DOMAIN prog : IsExpr(prog, m) => m \in ExprIds
      /\ \A m \in DOMAIN prog : IsStat(prog, m) => m \in StatIds
  BY DEF IsExpr, IsStat, ExprIds, StatIds
<1>6. Type(n) \in {"RETURN_STAT", "EXPR_STAT"} => Kid(n, 1) \in ExprIds
  BY <1>3, <1>4, <1>5 DEF ShapeOK, Type, Kids, Kid
<1>7. ASSUME Type(n) = "IF_STAT"
      PROVE  Kid(n, 1) \in ExprIds /\ Tail(Kids(n)) \in Seq(StatIds)
  <2>1. Len(Kids(n)) \in {2, 3} /\ IsExpr(prog, Kid(n, 1))
        /\ \A i \in 2 .. Len(Kids(n)) : IsStat(prog, Kid(n, i))
    BY <1>4, <1>7 DEF ShapeOK, Type, Kids, Kid
  <2>2. Kid(n, 1) \in ExprIds
    BY <1>3, <1>5, <2>1
  <2>3. Kids(n) # <<>>
    BY <2>1
  <2>4. /\ Tail(Kids(n)) \in Seq(DOMAIN prog)
        /\ Len(Tail(Kids(n))) = Len(Kids(n)) - 1
        /\ \A i \in 1 .. Len(Tail(Kids(n))) : Tail(Kids(n))[i] = Kids(n)[i + 1]
    BY <1>2, <2>3, HeadTailProperties
  <2>5. \A i \in 2 .. Len(Kids(n)) : Kids(n)[i] \in StatIds
    BY <1>3, <1>5, <2>1
  <2>6. \A i \in DOMAIN Tail(Kids(n)) : Tail(Kids(n))[i] \in StatIds
    BY <1>3, <2>4, <2>5
  <2> QED BY <2>2, <2>4, <2>6, SeqRetype
<1>8. Type(n) = "WHILE_STAT" => Kid(n, 1) \in ExprIds /\ Kid(n, 2) \in StatIds
  BY <1>3, <1>4, <1>5 DEF ShapeOK, Type, Kids, Kid
<1>9. Type(n) = "FOR_STAT" => /\ Kid(n, 1) \in ExprIds /\ Kid(n, 2) \in ExprIds
                              /\ Kid(n, 3) \in ExprIds /\ Kid(n, 4) \in StatIds
  BY <1>3, <1>4, <1>5 DEF ShapeOK, Type, Kids, Kid
<1>10. Type(n) = "BLOCK_STAT" => Kids(n) \in Seq(StatIds)
  <2>1. Type(n) = "BLOCK_STAT" => \A i \in DOMAIN Kids(n) : Kids(n)[i] \in StatIds
    BY <1>3, <1>4, <1>5 DEF ShapeOK, Type, Kids, Kid
  <2> QED BY <1>2, <2>1, SeqRetype
<1>11. Type(n) = "DECL_STAT" /\ Kids(n) # <<>> =>
          IF prog[n].is_func THEN Kid(n, 1) \in StatIds ELSE Kid(n, 1) \in ExprIds
  <2>1. Kids(n) # <<>> => 1 \in DOMAIN Kids(n)
    BY <1>1
  <2> QED BY <1>3, <1>4, <1>5, <2>1 DEF ShapeOK, Type, Kids, Kid
<1>12. Type(n) = "BIN_OP" => Kid(n, 1) \in ExprIds /\ Kid(n, 2) \in ExprIds
  BY <1>3, <1>4, <1>5 DEF ShapeOK, Type, Kids, Kid
<1>13. Type(n) \in {"VAR_REF", "FUNC_CALL", "DECL_STAT"} => prog[n].name \in Names
  BY <1>4 DEF ShapeOK, Type
<1> QED BY <1>2, <1>6, <1>7, <1>8, <1>9, <1>10, <1>11, <1>12, <1>13

-----------------------------------------------------------------------------
(* The inductive invariant through one step.  Two lemmas cover the actions *)
(* that only move the lists of pending work.                               *)

FrameType == [decl : DeclIds \cup {NULL}, todo : Seq(StatIds)]

\* The calls that check an expression and compare its type are calls to make.
LEMMA CheckedTasks ==
    ASSUME NEW e \in ExprIds
    PROVE  /\ Checked(e) \in Seq(Tasks) /\ Len(Checked(e)) = 2
           /\ \A i \in DOMAIN Checked(e) : Checked(e)[i].do # "declare"
<1>1. Task("expr", e) \in Tasks /\ Task("use", e) \in Tasks
  BY DEF Tasks, Task
<1> QED BY <1>1 DEF Checked, Task

\* A statement is replaced by calls to make and by the statements inside it.
LEMMA ScheduleKeepsInv ==
    ASSUME IInv, status = "checking", exprs = <<>>, Todo # <<>>,
           NEW tasks \in Seq(Tasks), NEW stats \in Seq(StatIds),
           \A i \in DOMAIN tasks : tasks[i].do = "declare" =>
              i = Len(tasks) /\ AbsentIn(prog[tasks[i].node].name, Len(scopes)),
           Schedule(tasks, stats),
           UNCHANGED <<scopes, symbols, prog, symbolOf, result, status>>,
           errors' \in Nat
    PROVE  IInv'
<1>1. frames \in Seq(FrameType) /\ frames # <<>> /\ Len(frames) \in DOMAIN frames
  BY DEF IInv, TypeOK, StackDiscipline, FrameType
<1>2. /\ Tail(Todo) \in Seq(StatIds) /\ stats \o Tail(Todo) \in Seq(StatIds)
  <2>1. Todo \in Seq(StatIds)
    <3>1. frames[Len(frames)] \in FrameType
      BY <1>1
    <3> QED BY <3>1 DEF Todo, FrameType
  <2>2. Tail(Todo) \in Seq(StatIds)
    BY <2>1, HeadTailProperties
  <2> QED BY <2>2, ConcatProperties
<1>3. frames' = [frames EXCEPT ![Len(frames)] =
                    [decl |-> frames[Len(frames)].decl, todo |-> stats \o Tail(Todo)]]
  BY DEF Schedule, Todo, Frame
<1>4. /\ frames' \in Seq(FrameType) /\ Len(frames') = Len(frames)
      /\ \A k \in DOMAIN frames : frames'[k].decl = frames[k].decl
  <2> DEFINE new == [decl |-> frames[Len(frames)].decl, todo |-> stats \o Tail(Todo)]
  <2>1. frames[Len(frames)] \in FrameType
    BY <1>1
  <2>2. new \in FrameType /\ new.decl = frames[Len(frames)].decl
    BY <1>2, <2>1 DEF FrameType
  <2>3. frames' = [frames EXCEPT ![Len(frames)] = new]
    BY <1>3
  <2> HIDE DEF new
  <2> QED BY <1>1, <2>2, <2>3, ExceptSeq
<1>5. FrameType' = FrameType /\ Tasks' = Tasks /\ DeclIds' = DeclIds
  BY DEF FrameType, Tasks, DeclIds, StatIds, ExprIds, Type
<1>6. TypeOK'
  BY <1>4, <1>5 DEF IInv, TypeOK, SymTypeOK, Schedule, FrameType
<1>7. SymInv'
  BY DEF IInv, SymInv, SymTypeOK, MemoryOwned, UniqueNames, InScope
<1>8. StackDiscipline'
  <2>1. /\ Len(frames') = Len(scopes') /\ frames' # <<>>
        /\ \A k \in 2 .. Len(frames') : k \in DOMAIN frames
    BY <1>1, <1>4 DEF IInv, StackDiscipline
  <2>2. \A k \in 2 .. Len(frames') :
          frames'[k].decl \in DeclIds' /\ AbsentIn(prog[frames[k].decl].name, k - 1)'
    BY <1>4, <1>5, <2>1 DEF IInv, StackDiscipline, AbsentIn
  <2>3. \A i \in DOMAIN exprs' : exprs'[i].do = "declare" =>
          i = Len(exprs') /\ AbsentIn(prog[exprs[i].node].name, Len(scopes))'
    BY <1>5 DEF Schedule, AbsentIn
  <2> QED BY <2>1, <2>2, <2>3 DEF StackDiscipline
<1> QED BY <1>6, <1>7, <1>8 DEF IInv

\* The case without calls.
LEMMA ScheduleNoTasksKeepsInv ==
    ASSUME IInv, status = "checking", exprs = <<>>, Todo # <<>>,
           NEW stats \in Seq(StatIds), Schedule(<<>>, stats),
           UNCHANGED <<scopes, symbols, prog, symbolOf, result, status>>,
           errors' \in Nat
    PROVE  IInv'
<1> DEFINE none == <<>>
<1>1. none \in Seq(Tasks) /\ Schedule(none, stats)
  OBVIOUS
<1>2. \A i \in DOMAIN none : none[i].do = "declare" =>
        i = Len(none) /\ AbsentIn(prog[none[i].node].name, Len(scopes))
  <2>1. DOMAIN none = {}
    OBVIOUS
  <2> QED BY <2>1
<1> HIDE DEF none
<1> QED BY <1>1, <1>2, ScheduleKeepsInv

\* A pending call that is no declaration is replaced by the calls it makes.
LEMMA ExprStepKeepsInv ==
    ASSUME IInv, status = "checking", exprs # <<>>, Head(exprs).do # "declare",
           NEW tasks \in Seq(Tasks),
           \A i \in DOMAIN tasks : tasks[i].do # "declare",
           exprs' = tasks \o Tail(exprs),
           symbolOf' \in [DOMAIN prog -> Addr \cup {NULL}],
           result' \in [DOMAIN prog -> Datatypes],
           errors' \in Nat,
           UNCHANGED <<scopes, symbols, prog, frames, status>>
    PROVE  IInv'
<1>1. exprs \in Seq(Tasks) /\ Len(exprs) \in Nat \ {0}
  BY EmptySeq DEF IInv, TypeOK
<1>2. /\ Tail(exprs) \in Seq(Tasks) /\ Len(Tail(exprs)) = Len(exprs) - 1
      /\ \A i \in 1 .. Len(Tail(exprs)) : Tail(exprs)[i] = exprs[i + 1]
  BY <1>1, HeadTailProperties
<1>3. /\ exprs' \in Seq(Tasks) /\ Len(exprs') = Len(tasks) + Len(exprs) - 1
      /\ \A i \in 1 .. Len(exprs') :
            exprs'[i] = IF i <= Len(tasks) THEN tasks[i] ELSE Tail(exprs)[i - Len(tasks)]
  <2>1. /\ tasks \o Tail(exprs) \in Seq(Tasks)
        /\ Len(tasks \o Tail(exprs)) = Len(tasks) + Len(Tail(exprs))
        /\ \A i \in 1 .. Len(tasks) + Len(Tail(exprs)) : (tasks \o Tail(exprs))[i] =
              IF i <= Len(tasks) THEN tasks[i] ELSE Tail(exprs)[i - Len(tasks)]
    BY <1>2, ConcatProperties
  <2>2. Len(tasks) \in Nat
    BY LenProperties
  <2> QED BY <1>1, <1>2, <2>1, <2>2
<1>4. FrameType' = FrameType /\ Tasks' = Tasks /\ DeclIds' = DeclIds
  BY DEF FrameType, Tasks, DeclIds, StatIds, ExprIds, Type
<1>5. TypeOK'
  BY <1>3, <1>4 DEF IInv, TypeOK, SymTypeOK, FrameType
<1>6. SymInv'
  BY DEF IInv, SymInv, SymTypeOK, MemoryOwned, UniqueNames, InScope
<1>7. StackDiscipline'
  <2>1. ASSUME NEW i \in DOMAIN exprs', exprs'[i].do = "declare"
        PROVE  i = Len(exprs') /\ AbsentIn(prog[exprs'[i].node].name, Len(scopes))
    <3>1. i \in 1 .. Len(exprs') /\ Len(tasks) \in Nat /\ DOMAIN tasks = 1 .. Len(tasks)
      BY <1>3, LenProperties
    <3>2. ~ (i <= Len(tasks))
      BY <1>3, <2>1, <3>1
    <3>3. /\ i - Len(tasks) \in 1 .. Len(Tail(exprs))
          /\ exprs'[i] = exprs[i - Len(tasks) + 1]
      BY <1>1, <1>2, <1>3, <3>1, <3>2
    <3>4. i - Len(tasks) + 1 \in DOMAIN exprs
      BY <1>1, <1>2, <3>1, <3>3
    <3>5. /\ i - Len(tasks) + 1 = Len(exprs)
          /\ AbsentIn(prog[exprs[i - Len(tasks) + 1].node].name, Len(scopes))
      BY <2>1, <3>3, <3>4 DEF IInv, StackDiscipline
    <3> QED BY <1>1, <1>3, <3>1, <3>3, <3>5
  <2> QED BY <1>4, <2>1 DEF IInv, StackDiscipline, AbsentIn
<1> QED BY <1>5, <1>6, <1>7 DEF IInv

-----------------------------------------------------------------------------
(* The statements. *)

\* The statement about to be checked.
LEMMA StatFacts ==
    ASSUME IInv, NEW type, AtStat(type)
    PROVE  /\ status = "checking" /\ exprs = <<>> /\ Todo # <<>>
           /\ Stat \in DOMAIN prog /\ Type(Stat) = type
           /\ WellFormed(prog) /\ errors \in Nat
<1>1. Len(frames) \in DOMAIN frames /\ frames \in Seq(FrameType)
  BY DEF IInv, TypeOK, StackDiscipline, AtStat, FrameType
<1>2. Todo \in Seq(StatIds)
  <2>1. frames[Len(frames)] \in FrameType
    BY <1>1
  <2> QED BY <2>1 DEF FrameType, Todo
<1>3. Stat \in StatIds
  BY <1>2, HeadTailProperties DEF AtStat, Stat
<1> QED BY <1>3 DEF IInv, TypeOK, AtStat, StatIds

\* Fresh is a lookup in all scopes.
LEMMA FreshIsAbsent ==
    ASSUME IInv, NEW n, Fresh(n)
    PROVE  AbsentIn(prog[n].name, Len(scopes))
BY FindProperties DEF Fresh, IInv, TypeOK, SymTypeOK

\* The statements that neither open nor close a scope keep the invariant.
LEMMA StatementsKeepInv ==
    ASSUME IInv,
           \/ CheckReturn \/ CheckIf \/ CheckWhile \/ CheckFor \/ CheckBlock
           \/ CheckExprStat \/ CheckSkip \/ Redeclare \/ CheckVarDecl
    PROVE  IInv'
<1>0. <<>> \in Seq(Tasks) /\ <<>> \in Seq(StatIds)
  OBVIOUS
<1>1. CASE CheckReturn
  <2>1. Kid(Stat, 1) \in ExprIds
    BY <1>1, StatFacts, KidTypes DEF CheckReturn
  <2> QED BY <1>0, <1>1, <2>1, StatFacts, CheckedTasks, ScheduleKeepsInv DEF CheckReturn
<1>2. CASE CheckIf
  <2>1. Kid(Stat, 1) \in ExprIds /\ Tail(Kids(Stat)) \in Seq(StatIds)
    BY <1>2, StatFacts, KidTypes DEF CheckIf
  <2> QED BY <1>2, <2>1, StatFacts, CheckedTasks, ScheduleKeepsInv DEF CheckIf
<1>3. CASE CheckWhile
  <2>1. Kid(Stat, 1) \in ExprIds /\ <<Kid(Stat, 2)>> \in Seq(StatIds)
    BY <1>3, StatFacts, KidTypes DEF CheckWhile
  <2> QED BY <1>3, <2>1, StatFacts, CheckedTasks, ScheduleKeepsInv DEF CheckWhile
<1>4. CASE CheckFor
  <2>1. /\ Kid(Stat, 1) \in ExprIds /\ Kid(Stat, 2) \in ExprIds /\ Kid(Stat, 3) \in ExprIds
        /\ <<Kid(Stat, 4)>> \in Seq(StatIds)
    BY <1>4, StatFacts, KidTypes DEF CheckFor
  <2> DEFINE more == <<Task("expr", Kid(Stat, 1)), Task("expr", Kid(Stat, 3))>>
  <2>2. more \in Seq(Tasks) /\ \A i \in DOMAIN more : more[i].do # "declare"
    BY <2>1 DEF Tasks, Task
  <2>3. /\ Checked(Kid(Stat, 2)) \in Seq(Tasks)
        /\ \A i \in DOMAIN Checked(Kid(Stat, 2)) : Checked(Kid(Stat, 2))[i].do # "declare"
    BY <2>1, CheckedTasks
  <2>4. Schedule(Checked(Kid(Stat, 2)) \o more, <<Kid(Stat, 4)>>)
    BY <1>4 DEF CheckFor
  <2> HIDE DEF more
  <2>5. /\ Checked(Kid(Stat, 2)) \o more \in Seq(Tasks)
        /\ \A i \in DOMAIN (Checked(Kid(Stat, 2)) \o more) :
              (Checked(Kid(Stat, 2)) \o more)[i].do # "declare"
    BY <2>2, <2>3, ConcatProperties, LenProperties
  <2> QED BY <1>4, <2>1, <2>4, <2>5, StatFacts, ScheduleKeepsInv DEF CheckFor
<1>5. CASE CheckBlock
  <2>1. Kids(Stat) \in Seq(StatIds)
    BY <1>5, StatFacts, KidTypes DEF CheckBlock
  <2> QED BY <1>0, <1>5, <2>1, StatFacts, ScheduleNoTasksKeepsInv DEF CheckBlock
<1>6. CASE CheckExprStat
  <2>1. Kid(Stat, 1) \in ExprIds
    BY <1>6, StatFacts, KidTypes DEF CheckExprStat
  <2> DEFINE tasks == <<Task("expr", Kid(Stat, 1))>>
  <2>2. tasks \in Seq(Tasks) /\ \A i \in DOMAIN tasks : tasks[i].do # "declare"
    BY <2>1 DEF Tasks, Task
  <2>3. Schedule(tasks, <<>>)
    BY <1>6 DEF CheckExprStat
  <2> HIDE DEF tasks
  <2> QED BY <1>0, <1>6, <2>2, <2>3, StatFacts, ScheduleKeepsInv DEF CheckExprStat
<1>7. CASE CheckSkip
  BY <1>0, <1>7, StatFacts, ScheduleNoTasksKeepsInv DEF CheckSkip
<1>8. CASE Redeclare
  <2>1. errors' \in Nat
    BY <1>8, StatFacts DEF Redeclare
  <2> QED BY <1>0, <1>8, <2>1, StatFacts, ScheduleNoTasksKeepsInv DEF Redeclare
<1>9. CASE CheckVarDecl
  <2> DEFINE value == IF Kids(Stat) = <<>> THEN <<>> ELSE Checked(Kid(Stat, 1))
             decl == Task("declare", Stat)
  <2>1. value \in Seq(Tasks) /\ \A i \in DOMAIN value : value[i].do # "declare"
    BY <1>9, StatFacts, KidTypes, CheckedTasks DEF CheckVarDecl
  <2>2. decl \in Tasks /\ decl.node = Stat
    BY <1>9, StatFacts DEF CheckVarDecl, Tasks, Task, DeclIds, Type
  <2>3. AbsentIn(prog[Stat].name, Len(scopes))
    BY <1>9, FreshIsAbsent DEF CheckVarDecl
  <2>4. Schedule(value \o <<decl>>, <<>>)
    BY <1>9 DEF CheckVarDecl
  <2> HIDE DEF value, decl
  <2>5. /\ value \o <<decl>> \in Seq(Tasks) /\ Len(value) \in Nat
        /\ Len(value \o <<decl>>) = Len(value) + 1
        /\ \A i \in 1 .. Len(value) + 1 :
              (value \o <<decl>>)[i] = IF i <= Len(value) THEN value[i] ELSE <<decl>>[i - Len(value)]
    <3>1. <<decl>> \in Seq(Tasks) /\ Len(<<decl>>) = 1
      BY <2>2
    <3> QED BY <2>1, <3>1, ConcatProperties, LenProperties
  <2>6. ASSUME NEW i \in DOMAIN (value \o <<decl>>), (value \o <<decl>>)[i].do = "declare"
        PROVE  i = Len(value \o <<decl>>) /\ (value \o <<decl>>)[i] = decl
    <3>1. i \in 1 .. Len(value) + 1
      BY <2>5, <2>6, LenProperties
    <3>2. ~ (i <= Len(value))
      BY <2>1, <2>5, <2>6, <3>1, LenProperties
    <3>3. i = Len(value) + 1
      BY <2>5, <3>1, <3>2
    <3> QED BY <2>5, <3>3
  <2> QED BY <1>0, <1>9, <2>2, <2>3, <2>4, <2>5, <2>6, StatFacts, ScheduleKeepsInv
          DEF CheckVarDecl
<1> QED BY <1>1, <1>2, <1>3, <1>4, <1>5, <1>6, <1>7, <1>8, <1>9

-----------------------------------------------------------------------------
(* The expressions. *)

\* The call about to be made.
LEMMA HeadFacts ==
    ASSUME IInv, exprs # <<>>
    PROVE  /\ Head(exprs) \in Tasks
           /\ Head(exprs).node \in DOMAIN prog
           /\ Tail(exprs) \in Seq(Tasks) /\ <<>> \o Tail(exprs) = Tail(exprs)
           /\ WellFormed(prog) /\ errors \in Nat
           /\ symbolOf \in [DOMAIN prog -> Addr \cup {NULL}]
           /\ result \in [DOMAIN prog -> Datatypes]
<1>1. Head(exprs) \in Tasks /\ Tail(exprs) \in Seq(Tasks)
  BY HeadTailProperties DEF IInv, TypeOK
<1>2. Head(exprs).node \in DOMAIN prog
  BY <1>1 DEF Tasks, ExprIds, DeclIds
<1>3. <<>> \o Tail(exprs) = Tail(exprs)
  BY <1>1, ConcatEmptySeq
<1> QED BY <1>1, <1>2, <1>3 DEF IInv, TypeOK

\* A call that returns: only the results, the symbols of the nodes and the
\* error count change.
LEMMA PopKeepsInv ==
    ASSUME IInv, status = "checking", exprs # <<>>, Head(exprs).do # "declare",
           exprs' = Tail(exprs),
           symbolOf' \in [DOMAIN prog -> Addr \cup {NULL}],
           result' \in [DOMAIN prog -> Datatypes],
           errors' \in Nat,
           UNCHANGED <<scopes, symbols, prog, frames, status>>
    PROVE  IInv'
<1> DEFINE none == <<>>
<1>1. none \in Seq(Tasks) /\ \A i \in DOMAIN none : none[i].do # "declare"
  <2>1. DOMAIN none = {}
    OBVIOUS
  <2> QED BY <2>1
<1>2. exprs' = none \o Tail(exprs)
  BY HeadFacts
<1> HIDE DEF none
<1> QED BY <1>1, <1>2, ExprStepKeepsInv

\* What semcheck_expr does when it returns keeps the types of the results.
LEMMA ReturnType ==
    ASSUME IInv, exprs # <<>>, NEW datatype \in Datatypes, Return(datatype)
    PROVE  result' \in [DOMAIN prog -> Datatypes] /\ exprs' = Tail(exprs)
BY HeadFacts DEF Return

\* The operands' results are datatypes.
LEMMA OperandTypes ==
    ASSUME IInv, exprs # <<>>, Head(exprs).do = "binop"
    PROVE  LeftType \in Datatypes /\ RightType \in Datatypes
<1>1. Head(exprs).node \in ExprIds /\ Type(Head(exprs).node) = "BIN_OP"
  BY HeadFacts DEF Tasks
<1>2. Kid(Head(exprs).node, 1) \in DOMAIN prog /\ Kid(Head(exprs).node, 2) \in DOMAIN prog
  BY <1>1, HeadFacts, KidTypes DEF ExprIds
<1> QED BY <1>2, HeadFacts DEF LeftType, RightType

\* type_error adds a natural number to the error count.
LEMMA TypeErrorIsNat == \A expected, actual : TypeError(expected, actual) \in Nat
BY DEF TypeError

\* semcheck_expr and semcheck_binop keep the invariant.
LEMMA ExpressionsKeepInv ==
    ASSUME IInv,
           \/ CheckIntLit \/ CheckName \/ AssignConst \/ CheckOperands
           \/ FinishArith \/ FinishAssign \/ FinishCompare \/ CheckUse
    PROVE  IInv'
<1> USE DEF AtExpr, AtResume
<1>0. "INT_DT" \in Datatypes /\ "INVALID_DT" \in Datatypes
  BY DEF Datatypes
<1>1. CASE CheckIntLit
  BY <1>0, <1>1, HeadFacts, ReturnType, PopKeepsInv DEF CheckIntLit
<1>2. CASE CheckName
  <2> DEFINE n == Head(exprs).node
             symbol == Find(prog[n].name)
  <2>1. status = "checking" /\ exprs # <<>> /\ Head(exprs).do = "expr"
    BY <1>2 DEF CheckName
  <2>2. CASE symbol = NULL
    <3>1. /\ errors' = errors + 1 /\ Return("INVALID_DT") /\ UNCHANGED symbolOf
          /\ UNCHANGED <<scopes, symbols, prog, frames, status>>
      BY <1>2, <2>2 DEF CheckName
    <3> QED BY <1>0, <2>1, <3>1, HeadFacts, ReturnType, PopKeepsInv
  <2>3. CASE symbol # NULL
    <3>1. /\ symbolOf' = [symbolOf EXCEPT ![n] = symbol]
          /\ Return(symbols[symbol].datatype) /\ UNCHANGED errors
          /\ UNCHANGED <<scopes, symbols, prog, frames, status>>
      BY <1>2, <2>3 DEF CheckName
    <3>2. scopes \in Seq(Seq(Addr)) /\ symbols \in [Addr -> Symbol \cup {Blank}]
      BY DEF IInv, SymInv, SymTypeOK
    <3>3. PICK k \in DOMAIN scopes : \E i \in DOMAIN scopes[k] : symbol = scopes[k][i]
      BY <2>3, <3>2, FindProperties
    <3>4. symbol \in Addr
      BY <3>2, <3>3
    <3>5. symbols[symbol].datatype \in Datatypes
      <4>1. symbols[symbol] \in Symbol \cup {Blank}
        BY <3>2, <3>4
      <4> QED BY <1>0, <4>1 DEF Symbol, Blank
    <3>6. symbolOf' \in [DOMAIN prog -> Addr \cup {NULL}]
      BY <2>1, <3>1, <3>4, HeadFacts
    <3> HIDE DEF symbol
    <3> QED BY <2>1, <3>1, <3>5, <3>6, HeadFacts, ReturnType, PopKeepsInv
  <2> QED BY <2>2, <2>3
<1>3. CASE AssignConst
  BY <1>0, <1>3, HeadFacts, ReturnType, PopKeepsInv DEF AssignConst
<1>4. CASE CheckOperands
  <2> DEFINE n == Head(exprs).node
             tasks == <<Task("expr", Kid(n, 1)), Task("expr", Kid(n, 2)), Task("binop", n)>>
  <2>1. /\ status = "checking" /\ exprs # <<>> /\ Head(exprs).do = "expr"
        /\ Type(n) = "BIN_OP" /\ exprs' = tasks \o Tail(exprs)
        /\ UNCHANGED <<scopes, symbols, prog, symbolOf, frames, result, errors, status>>
    BY <1>4 DEF CheckOperands
  <2>2. n \in DOMAIN prog /\ n \in ExprIds
    BY <2>1, HeadFacts DEF Tasks
  <2>3. Kid(n, 1) \in ExprIds /\ Kid(n, 2) \in ExprIds
    BY <2>1, <2>2, HeadFacts, KidTypes
  <2>4. /\ Task("expr", Kid(n, 1)) \in Tasks /\ Task("expr", Kid(n, 2)) \in Tasks
        /\ Task("binop", n) \in Tasks
    BY <2>1, <2>2, <2>3 DEF Tasks, Task
  <2>5. tasks \in Seq(Tasks) /\ \A i \in DOMAIN tasks : tasks[i].do # "declare"
    <3>1. /\ Task("expr", Kid(n, 1)).do # "declare" /\ Task("expr", Kid(n, 2)).do # "declare"
          /\ Task("binop", n).do # "declare"
      BY DEF Task
    <3> QED BY <2>4, <3>1
  <2> HIDE DEF tasks
  <2> QED BY <2>1, <2>5, HeadFacts, ExprStepKeepsInv
<1>5. CASE FinishArith
  <2>1. status = "checking" /\ exprs # <<>> /\ Head(exprs).do = "binop"
    BY <1>5 DEF FinishArith
  <2>2. errors' \in Nat
    BY <1>5, <2>1, HeadFacts, TypeErrorIsNat DEF FinishArith
  <2>3. result' \in [DOMAIN prog -> Datatypes] /\ exprs' = Tail(exprs)
    BY <1>0, <1>5, <2>1, ReturnType DEF FinishArith
  <2> QED BY <1>5, <2>1, <2>2, <2>3, HeadFacts, PopKeepsInv DEF FinishArith
<1>6. CASE FinishAssign
  <2>1. status = "checking" /\ exprs # <<>> /\ Head(exprs).do = "binop"
    BY <1>6 DEF FinishAssign
  <2>2. errors' \in Nat
    BY <1>6, <2>1, HeadFacts, TypeErrorIsNat DEF FinishAssign
  <2>3. result' \in [DOMAIN prog -> Datatypes] /\ exprs' = Tail(exprs)
    BY <1>6, <2>1, OperandTypes, ReturnType DEF FinishAssign
  <2> QED BY <1>6, <2>1, <2>2, <2>3, HeadFacts, PopKeepsInv DEF FinishAssign
<1>7. CASE FinishCompare
  <2>1. status = "checking" /\ exprs # <<>> /\ Head(exprs).do = "binop"
    BY <1>7 DEF FinishCompare
  <2>2. errors' \in Nat
    BY <1>7, <2>1, HeadFacts, TypeErrorIsNat DEF FinishCompare
  <2>3. result' \in [DOMAIN prog -> Datatypes] /\ exprs' = Tail(exprs)
    BY <1>0, <1>7, <2>1, ReturnType DEF FinishCompare
  <2> QED BY <1>7, <2>1, <2>2, <2>3, HeadFacts, PopKeepsInv DEF FinishCompare
<1>8. CASE CheckUse
  <2>1. errors' \in Nat
    BY <1>8, HeadFacts, TypeErrorIsNat DEF CheckUse
  <2> QED BY <1>8, <2>1, HeadFacts, PopKeepsInv DEF CheckUse
<1> QED BY <1>1, <1>2, <1>3, <1>4, <1>5, <1>6, <1>7, <1>8

-----------------------------------------------------------------------------
(* Functions, declarations, and the end of the check. *)

\* Frames and scopes are stacks of the same height.
LEMMA FrameFacts ==
    ASSUME IInv
    PROVE  /\ frames \in Seq(FrameType) /\ scopes \in Seq(Seq(Addr))
           /\ Len(frames) \in Nat /\ Len(frames) = Len(scopes)
           /\ DOMAIN frames = 1 .. Len(frames) /\ DOMAIN scopes = 1 .. Len(scopes)
           /\ prog \in Seq(Node)
BY LenProperties DEF IInv, TypeOK, SymTypeOK, StackDiscipline, FrameType, WellFormed

\* These sets depend on the tree alone.
LEMMA ConstantTypes ==
    ASSUME prog' = prog
    PROVE  FrameType' = FrameType /\ Tasks' = Tasks /\ DeclIds' = DeclIds
BY DEF FrameType, Tasks, DeclIds, StatIds, ExprIds, Type

\* A name stays absent from the n outermost scopes as long as these gain no
\* symbol.
LEMMA AbsentKept ==
    ASSUME NEW name, NEW n, AbsentIn(name, n),
           \A k \in DOMAIN scopes' : k <= n =>
              /\ k \in DOMAIN scopes
              /\ \A i \in DOMAIN scopes'[k] :
                    /\ i \in DOMAIN scopes[k]
                    /\ symbols'[scopes'[k][i]].name = symbols[scopes[k][i]].name
    PROVE  \A k \in DOMAIN scopes' : k <= n =>
              \A i \in DOMAIN scopes'[k] : symbols'[scopes'[k][i]].name # name
BY DEF AbsentIn

\* StackDiscipline after a step, with the primes on the variables.
LEMMA StackDisciplineStep ==
    ASSUME Len(frames') = Len(scopes'),
           status' = "checking" => frames' # <<>>,
           \A k \in 2 .. Len(frames') :
              /\ frames'[k].decl \in DeclIds'
              /\ \A j \in DOMAIN scopes' : j <= k - 1 =>
                    \A i \in DOMAIN scopes'[j] :
                        symbols'[scopes'[j][i]].name # prog'[frames'[k].decl].name,
           \A m \in DOMAIN exprs' : exprs'[m].do = "declare" =>
              /\ m = Len(exprs')
              /\ \A j \in DOMAIN scopes' : j <= Len(scopes') =>
                    \A i \in DOMAIN scopes'[j] :
                        symbols'[scopes'[j][i]].name # prog'[exprs'[m].node].name
    PROVE  StackDiscipline'
BY DEF StackDiscipline, AbsentIn

\* EnterFunction: the declaration waits below the new scope, where its name is absent.
LEMMA EnterFunctionKeepsInv ==
    ASSUME IInv, EnterFunction
    PROVE  IInv'
<1> DEFINE top == Len(frames)
           new == [decl |-> Stat, todo |-> <<Kid(Stat, 1)>>]
           rest == [decl |-> frames[top].decl, todo |-> Tail(Todo)]
<1>1. /\ AtStat("DECL_STAT") /\ Fresh(Stat) /\ Kids(Stat) # <<>> /\ prog[Stat].is_func
      /\ errors' \in Nat /\ OpenScope
      /\ frames' = Append([frames EXCEPT ![top] = rest], new)
      /\ UNCHANGED <<prog, symbolOf, exprs, result, status>>
  BY StatFacts DEF EnterFunction, Frame, Todo
<1>2. /\ Stat \in DeclIds /\ Kid(Stat, 1) \in StatIds
      /\ AbsentIn(prog[Stat].name, Len(scopes))
  BY <1>1, StatFacts, KidTypes, FreshIsAbsent DEF DeclIds, Type
<1>3. new \in FrameType
  BY <1>2 DEF FrameType
<1>4. top \in DOMAIN frames /\ frames[top] \in FrameType
  BY <1>1, StatFacts, FrameFacts DEF IInv, StackDiscipline
<1>5. rest \in FrameType /\ rest.decl = frames[top].decl
  <2>1. Todo \in Seq(StatIds) /\ frames[top].decl \in DeclIds \cup {NULL}
    BY <1>4 DEF FrameType, Todo
  <2>2. Tail(Todo) \in Seq(StatIds)
    BY <1>1, <2>1, StatFacts, HeadTailProperties
  <2> QED BY <2>1, <2>2 DEF FrameType
<1>6. /\ frames' \in Seq(FrameType) /\ Len(frames') = Len(frames) + 1
      /\ \A k \in DOMAIN frames : frames'[k].decl = frames[k].decl
      /\ frames'[Len(frames) + 1].decl = Stat
  <2> DEFINE mid == [frames EXCEPT ![top] = rest]
  <2>1. /\ mid \in Seq(FrameType) /\ Len(mid) = Len(frames)
        /\ \A k \in DOMAIN frames : mid[k].decl = frames[k].decl
    <3> HIDE DEF rest
    <3> QED BY <1>4, <1>5, FrameFacts, ExceptSeq
  <2>2. frames' = Append(mid, new)
    BY <1>1
  <2>3. new.decl = Stat
    OBVIOUS
  <2> HIDE DEF mid, new
  <2> QED BY <1>3, <2>1, <2>2, <2>3, FrameFacts, AppendProperties
<1> HIDE DEF new, rest, top
<1>7. SymInv'
  BY <1>1, OpenScopeKeepsInv DEF IInv
<1>8. TypeOK'
  BY <1>1, <1>6, <1>7, ConstantTypes DEF IInv, TypeOK, SymInv, SymTypeOK, FrameType
<1>9. StackDiscipline'
  <2>1. /\ scopes' \in Seq(Seq(Addr)) /\ Len(scopes') = Len(scopes) + 1
        /\ DOMAIN scopes' = 1 .. Len(scopes) + 1
        /\ \A k \in DOMAIN scopes : scopes'[k] = scopes[k]
        /\ symbols' = symbols
    BY <1>1, FrameFacts DEF OpenScope
  <2>2. \A k \in DOMAIN scopes' : k <= Len(scopes) =>
          /\ k \in DOMAIN scopes
          /\ \A i \in DOMAIN scopes'[k] :
                /\ i \in DOMAIN scopes[k]
                /\ symbols'[scopes'[k][i]].name = symbols[scopes[k][i]].name
    BY <2>1, FrameFacts
  <2>3. ASSUME NEW k \in 2 .. Len(frames')
        PROVE  /\ frames'[k].decl \in DeclIds'
               /\ \A j \in DOMAIN scopes' : j <= k - 1 =>
                     \A i \in DOMAIN scopes'[j] :
                        symbols'[scopes'[j][i]].name # prog'[frames'[k].decl].name
    <3>0. /\ k \in Int /\ k - 1 <= Len(scopes)
          /\ \A j \in DOMAIN scopes' : j <= k - 1 => j <= Len(scopes)
      BY <1>6, <2>1, FrameFacts
    <3>1. CASE k = Len(frames) + 1
      <4>1. frames'[k].decl = Stat /\ k - 1 = Len(scopes)
        BY <1>6, <3>1, FrameFacts
      <4>2. PICK name : name = prog[Stat].name
        OBVIOUS
      <4>3. AbsentIn(name, k - 1)
        BY <1>2, <4>1, <4>2
      <4>4. \A j \in DOMAIN scopes' : j <= k - 1 =>
              \A i \in DOMAIN scopes'[j] : symbols'[scopes'[j][i]].name # name
        BY <2>2, <3>0, <4>3, AbsentKept
      <4> QED BY <1>1, <1>2, <4>1, <4>2, <4>4, ConstantTypes
    <3>2. CASE k # Len(frames) + 1
      <4>1. k \in 2 .. Len(frames) /\ frames'[k].decl = frames[k].decl
        <5>1. k \in 2 .. Len(frames)
          <6>1. k \in 2 .. Len(frames) + 1 /\ Len(frames) \in Nat
            BY <1>6, FrameFacts
          <6> QED BY <3>2, <6>1
        <5>2. k \in DOMAIN frames
          BY <5>1, FrameFacts
        <5> QED BY <1>6, <5>1, <5>2
      <4>2. PICK name : name = prog[frames[k].decl].name
        OBVIOUS
      <4>3. frames[k].decl \in DeclIds /\ AbsentIn(name, k - 1)
        BY <4>1, <4>2 DEF IInv, StackDiscipline
      <4>4. \A j \in DOMAIN scopes' : j <= k - 1 =>
              \A i \in DOMAIN scopes'[j] : symbols'[scopes'[j][i]].name # name
        BY <2>2, <3>0, <4>3, AbsentKept
      <4> QED BY <1>1, <4>1, <4>2, <4>3, <4>4, ConstantTypes
    <3> QED BY <3>1, <3>2
  <2>4. exprs' = <<>>
    BY <1>1, StatFacts
  <2>5. frames' # <<>> /\ Len(frames') = Len(scopes')
    BY <1>6, <2>1, FrameFacts
  <2> QED BY <2>3, <2>4, <2>5, StackDisciplineStep
<1> QED BY <1>7, <1>8, <1>9 DEF IInv

\* LeaveFunction: the name of the function is absent from the scopes that remain.
LEMMA LeaveFunctionKeepsInv ==
    ASSUME IInv, LeaveFunction
    PROVE  IInv'
<1> DEFINE top == Len(frames)
           n == frames[top].decl
<1>1. /\ status = "checking" /\ Len(frames) > 1 /\ CloseScope
      /\ exprs' = <<Task("declare", n)>> /\ frames' = SubSeq(frames, 1, top - 1)
      /\ UNCHANGED <<prog, symbolOf, result, errors, status>>
  BY DEF LeaveFunction
<1>2. top \in 2 .. Len(frames) /\ frames # <<>> /\ scopes # <<>>
  BY <1>1, FrameFacts
<1>3. n \in DeclIds /\ AbsentIn(prog[n].name, top - 1)
  BY <1>2 DEF IInv, StackDiscipline
<1>4. /\ frames' \in Seq(FrameType) /\ Len(frames') = top - 1
      /\ \A k \in 1 .. top - 1 : frames'[k] = frames[k]
  BY <1>1, <1>2, FrameFacts, PopProperties
<1>5. /\ SymInv' /\ Len(scopes') = Len(scopes) - 1
      /\ \A k \in DOMAIN scopes' : /\ k \in DOMAIN scopes /\ scopes'[k] = scopes[k]
                                   /\ \A i \in DOMAIN scopes[k] :
                                        symbols'[scopes[k][i]] = symbols[scopes[k][i]]
  BY <1>1, <1>2, CloseScopeKeepsInv DEF IInv
<1>6. TypeOK'
  <2>1. Task("declare", n) \in Tasks
    BY <1>3 DEF Task, Tasks
  <2>2. exprs' \in Seq(Tasks')
    BY <1>1, <2>1, ConstantTypes
  <2> QED BY <1>1, <1>4, <1>5, <2>2, ConstantTypes
          DEF IInv, TypeOK, SymInv, SymTypeOK, FrameType
<1>7. StackDiscipline'
  <2>1. Len(frames') = Len(scopes') /\ frames' # <<>>
    <3>1. Len(frames') = Len(frames) - 1 /\ Len(frames) - 1 # 0
      <4>1. Len(frames) \in Nat /\ Len(frames) > 1
        BY <1>1, FrameFacts
      <4> QED BY <1>4, <4>1
    <3>2. Len(frames') = Len(scopes')
      BY <1>5, <3>1, FrameFacts
    <3> QED BY <3>1, <3>2
  <2>2. \A k \in DOMAIN scopes' :
          /\ k \in DOMAIN scopes
          /\ k <= Len(scopes')
          /\ \A i \in DOMAIN scopes'[k] :
                /\ i \in DOMAIN scopes[k]
                /\ symbols'[scopes'[k][i]].name = symbols[scopes[k][i]].name
    BY <1>5 DEF SymInv, SymTypeOK
  <2>3. ASSUME NEW k \in 2 .. Len(frames')
        PROVE  /\ frames'[k].decl \in DeclIds'
               /\ \A j \in DOMAIN scopes' : j <= k - 1 =>
                     \A i \in DOMAIN scopes'[j] :
                        symbols'[scopes'[j][i]].name # prog'[frames'[k].decl].name
    <3>1. k \in 2 .. Len(frames) /\ frames'[k] = frames[k]
      BY <1>2, <1>4, FrameFacts
    <3>2. PICK name : name = prog[frames[k].decl].name
      OBVIOUS
    <3>3. frames[k].decl \in DeclIds /\ AbsentIn(name, k - 1)
      BY <3>1, <3>2 DEF IInv, StackDiscipline
    <3>4. \A j \in DOMAIN scopes' : j <= k - 1 =>
            \A i \in DOMAIN scopes'[j] : symbols'[scopes'[j][i]].name # name
      BY <2>2, <3>3, AbsentKept
    <3> QED BY <1>1, <3>1, <3>2, <3>3, <3>4, ConstantTypes
  <2>4. ASSUME NEW m \in DOMAIN exprs'
        PROVE  /\ m = Len(exprs')
               /\ \A j \in DOMAIN scopes' : j <= Len(scopes') =>
                     \A i \in DOMAIN scopes'[j] :
                        symbols'[scopes'[j][i]].name # prog'[exprs'[m].node].name
    <3>1. m = Len(exprs') /\ exprs'[m].node = n
      BY <1>1 DEF Task
    <3>2. PICK name : name = prog[n].name
      OBVIOUS
    <3>3. PICK below : below = top - 1
      OBVIOUS
    <3>4. AbsentIn(name, below) /\ below = Len(scopes')
      BY <1>3, <1>5, <3>2, <3>3, FrameFacts
    <3> HIDE DEF n, top
    <3>5. \A j \in DOMAIN scopes' : j <= below =>
            \A i \in DOMAIN scopes'[j] : symbols'[scopes'[j][i]].name # name
      BY <2>2, <3>4, AbsentKept
    <3> QED BY <1>1, <3>1, <3>2, <3>4, <3>5
  <2> QED BY <2>1, <2>3, <2>4, StackDisciplineStep
<1> QED BY <1>5, <1>6, <1>7 DEF IInv

\* Finish: the global scope is closed and no frame is left.
LEMMA FinishKeepsInv ==
    ASSUME IInv, Finish
    PROVE  IInv'
<1>1. /\ status = "checking" /\ exprs = <<>> /\ Len(frames) = 1 /\ CloseScope
      /\ frames' = <<>> /\ status' = "done"
      /\ UNCHANGED <<prog, symbolOf, exprs, result, errors>>
  BY DEF Finish
<1>2. scopes # <<>> /\ Len(scopes) = 1
  BY <1>1, FrameFacts
<1>3. SymInv' /\ Len(scopes') = 0
  BY <1>1, <1>2, CloseScopeKeepsInv DEF IInv
<1>4. TypeOK'
  BY <1>1, <1>3, ConstantTypes DEF IInv, TypeOK, SymInv, SymTypeOK, FrameType
<1>5. StackDiscipline'
  <2>1. Len(frames') = 0
    BY <1>1
  <2> QED BY <1>1, <1>3, <2>1, StackDisciplineStep
<1> QED BY <1>3, <1>4, <1>5 DEF IInv

\* The assertion in symtable_insert holds where semcheck_stat calls it.
LEMMA DeclareAllowed ==
    ASSUME IInv, status = "checking", exprs # <<>>, Head(exprs).do = "declare"
    PROVE  LET n == Head(exprs).node
           IN  /\ n \in DeclIds /\ prog[n].name \in Names /\ Len(exprs) = 1
               /\ scopes # <<>> /\ CurrentScope \in Seq(Addr)
               /\ AbsentIn(prog[n].name, Len(scopes))
               /\ InsertAllowed(prog[n].name)
<1> DEFINE n == Head(exprs).node
<1>1. exprs \in Seq(Tasks) /\ 1 \in DOMAIN exprs /\ Head(exprs) = exprs[1]
  BY EmptySeq DEF IInv, TypeOK
<1>2. Len(exprs) = 1 /\ AbsentIn(prog[n].name, Len(scopes))
  BY <1>1 DEF IInv, StackDiscipline
<1>3. n \in DeclIds /\ prog[n].name \in Names
  <2>1. Head(exprs) \in Tasks
    BY <1>1
  <2>2. n \in DeclIds
    BY <2>1 DEF Tasks
  <2> QED BY <2>2 DEF IInv, TypeOK, DeclIds, WellFormed, ShapeOK
<1>4. scopes # <<>> /\ Len(scopes) \in DOMAIN scopes /\ Len(scopes) \in Nat
  <2>1. frames # <<>> /\ frames \in Seq(FrameType)
    BY FrameFacts DEF IInv, StackDiscipline
  <2> QED BY <2>1, FrameFacts
<1>5. CurrentScope \in Seq(Addr)
  BY <1>4, FrameFacts DEF CurrentScope
<1>6. PICK name \in Names : name = prog[n].name
  BY <1>3
<1>7. \A i \in DOMAIN CurrentScope : symbols[CurrentScope[i]].name # name
  BY <1>2, <1>4, <1>6 DEF AbsentIn, CurrentScope
<1> HIDE DEF n
<1>8. InsertAllowed(prog[n].name)
  <2>1. FindInScope(CurrentScope, name) = NULL
    BY <1>5, <1>7, FindInScopeProperties DEF IInv, TypeOK, SymTypeOK
  <2> QED BY <1>6, <2>1 DEF InsertAllowed
<1> QED BY <1>2, <1>3, <1>4, <1>5, <1>8 DEF n

\* The declared name was absent from every open scope, so the table stays free
\* of duplicates; the scopes below the top one are not touched.
LEMMA DeclareKeepsInv ==
    ASSUME IInv, Declare
    PROVE  IInv'
<1>1. /\ status = "checking" /\ exprs # <<>> /\ Head(exprs).do = "declare"
      /\ exprs' = Tail(exprs)
      /\ UNCHANGED <<prog, frames, result, errors>>
  BY DEF Declare
<1>2. PICK n : n = Head(exprs).node
  OBVIOUS
<1>3. PICK name : name = prog[n].name
  OBVIOUS
<1>4. /\ n \in DeclIds /\ name \in Names /\ Len(exprs) = 1 /\ scopes # <<>>
      /\ AbsentIn(name, Len(scopes)) /\ InsertAllowed(name)
  BY <1>1, <1>2, <1>3, DeclareAllowed
<1>5. PICK a \in Addr :
        /\ CreateEntry(a, name, "INT_DT") /\ Insert(a)
        /\ symbolOf' = [symbolOf EXCEPT ![n] = a] /\ UNCHANGED status
  BY <1>2, <1>3, <1>4 DEF Declare
<1>6. /\ SymInv' /\ Len(scopes') = Len(scopes)
      /\ \A k \in DOMAIN scopes : k < Len(scopes) =>
            /\ scopes'[k] = scopes[k]
            /\ \A i \in DOMAIN scopes[k] :
                   symbols'[scopes[k][i]] = symbols[scopes[k][i]]
  BY <1>4, <1>5, InsertKeepsInv DEF IInv
<1>7. exprs' = <<>> /\ DOMAIN exprs' = {}
  <2>1. exprs \in Seq(Tasks)
    BY DEF IInv, TypeOK
  <2>2. Tail(exprs) \in Seq(Tasks) /\ Len(Tail(exprs)) = 0
    BY <1>1, <1>4, <2>1, HeadTailProperties
  <2> QED BY <1>1, <2>2, EmptySeq
<1>8. symbolOf' \in [DOMAIN prog -> Addr \cup {NULL}]
  BY <1>5 DEF IInv, TypeOK
<1>9. TypeOK'
  <2>1. exprs' \in Seq(Tasks')
    BY <1>7
  <2> QED BY <1>1, <1>5, <1>6, <1>8, <2>1, ConstantTypes
          DEF IInv, TypeOK, SymInv, SymTypeOK, FrameType
<1>10. StackDiscipline'
  <2>1. /\ Len(frames') = Len(scopes') /\ frames' # <<>>
        /\ DOMAIN scopes' = DOMAIN scopes /\ DOMAIN scopes = 1 .. Len(scopes)
        /\ Len(scopes) \in Nat /\ Len(frames) = Len(scopes)
    <3>1. frames # <<>>
      BY <1>1 DEF IInv, StackDiscipline
    <3>2. scopes' \in Seq(Seq(Addr))
      BY <1>6 DEF SymInv, SymTypeOK
    <3> QED BY <1>1, <1>6, <3>1, <3>2, FrameFacts
  <2>2. ASSUME NEW k \in 2 .. Len(frames')
        PROVE  /\ frames'[k].decl \in DeclIds'
               /\ \A j \in DOMAIN scopes' : j <= k - 1 =>
                     \A i \in DOMAIN scopes'[j] :
                        symbols'[scopes'[j][i]].name # prog'[frames'[k].decl].name
    <3>1. k \in 2 .. Len(frames)
      BY <1>1
    <3>2. PICK needle : needle = prog[frames[k].decl].name
      OBVIOUS
    <3>3. frames[k].decl \in DeclIds /\ AbsentIn(needle, k - 1)
      BY <3>1, <3>2 DEF IInv, StackDiscipline
    <3>4. \A j \in DOMAIN scopes' : j <= k - 1 => j \in DOMAIN scopes /\ j < Len(scopes)
      BY <2>1, <3>1
    <3>5. \A j \in DOMAIN scopes' : j <= k - 1 =>
            \A i \in DOMAIN scopes'[j] : symbols'[scopes'[j][i]].name # needle
      BY <1>6, <3>3, <3>4, AbsentKept
    <3> QED BY <1>1, <3>2, <3>3, <3>5, ConstantTypes
  <2> QED BY <1>7, <2>1, <2>2, StackDisciplineStep
<1> QED BY <1>6, <1>9, <1>10 DEF IInv

\* A step that at most stops the check.
LEMMA StopKeepsInv ==
    ASSUME IInv,
           UNCHANGED <<scopes, symbols, prog, symbolOf, frames, exprs, result, errors>>,
           status' \in {status, "crashed"}
    PROVE  IInv'
<1>1. TypeOK'
  BY ConstantTypes DEF IInv, TypeOK, SymTypeOK, FrameType
<1>2. SymInv'
  BY DEF IInv, SymInv, SymTypeOK, MemoryOwned, UniqueNames, InScope
<1>3. StackDiscipline'
  <2>1. \A k \in 2 .. Len(frames') :
          frames'[k].decl \in DeclIds' /\ AbsentIn(prog[frames[k].decl].name, k - 1)'
    BY ConstantTypes DEF IInv, StackDiscipline, AbsentIn
  <2>2. \A i \in DOMAIN exprs' : exprs'[i].do = "declare" =>
          i = Len(exprs') /\ AbsentIn(prog[exprs[i].node].name, Len(scopes))'
    BY DEF IInv, StackDiscipline, AbsentIn
  <2> QED BY <2>1, <2>2 DEF IInv, StackDiscipline
<1> QED BY <1>1, <1>2, <1>3 DEF IInv

-----------------------------------------------------------------------------
(* The invariant of the specification. *)

\* The checker is called, for a tree that the parser has accepted.
Called == WellFormed(prog) /\ Preorder(prog) /\ errors = 0 /\ SemInit

LEMMA InitCalled == Init => Called
BY ProgramsAssumption, PreorderAssumption DEF Init, Called

\* The invariant holds when it is called.
LEMMA CalledIInv ==
    ASSUME Called
    PROVE  IInv
<1>1. WellFormed(prog)
  BY DEF Called
<1>2. 1 \in StatIds
  BY <1>1 DEF WellFormed, StatIds, StatTypes
<1>3. frames \in Seq(FrameType) /\ Len(frames) = 1
  <2>1. Frame(NULL, <<1>>) \in FrameType
    BY <1>2 DEF FrameType, Frame
  <2> QED BY <2>1 DEF Called, SemInit, NoSymbols, NoResults
<1>4. scopes = <<<<>>>> /\ scopes \in Seq(Seq(Addr)) /\ DOMAIN scopes = {1} /\ DOMAIN scopes[1] = {}
  BY DEF Called, SemInit, NoSymbols, NoResults
<1>5. TypeOK
  BY <1>1, <1>3, <1>4 DEF Called, SemInit, NoSymbols, NoResults, TypeOK, SymTypeOK, FrameType, Datatypes
<1>6. SymInv
  BY <1>4, <1>5 DEF Called, SemInit, NoSymbols, NoResults, TypeOK, SymInv, MemoryOwned, UniqueNames, InScope
<1>7. StackDiscipline
  BY <1>3, <1>4 DEF Called, SemInit, NoSymbols, NoResults, StackDiscipline
<1> QED BY <1>5, <1>6, <1>7 DEF IInv

LEMMA InitIInv == Init => IInv
BY InitCalled, CalledIInv

\* Every step keeps the invariant.
LEMMA NextIInv == IInv /\ [Next]_semVars => IInv'
<1> SUFFICES ASSUME IInv, [Next]_semVars PROVE IInv'
  OBVIOUS
<1>1. CASE Check
  BY <1>1, StatementsKeepInv, ExpressionsKeepInv, EnterFunctionKeepsInv, StopKeepsInv,
     LeaveFunctionKeepsInv, FinishKeepsInv, DeclareKeepsInv DEF Check, PrototypeCrash
<1>2. CASE Stopped
  BY <1>2, StopKeepsInv DEF Stopped, semVars
<1>3. CASE UNCHANGED semVars
  BY <1>3, StopKeepsInv DEF semVars
<1> QED BY <1>1, <1>2, <1>3 DEF Next

\* The variables keep their types, for every program and every memory.
THEOREM TypeCorrect == Spec => []TypeOK
<1>1. IInv => TypeOK
  BY DEF IInv
<1> QED BY <1>1, InitIInv, NextIInv, PTL DEF Spec

\* No name is ever visible twice: a name in the table of an inner scope stands
\* in no outer one (semcheck_stat looks in all the scopes before it declares).
THEOREM NoShadowing == Spec => []UniqueNames
<1>1. IInv => UniqueNames
  BY DEF IInv, SymInv
<1> QED BY <1>1, InitIInv, NextIInv, PTL DEF Spec

\* Every pointer in the table is to a live symbol, no symbol is in two places,
\* and none is lost: what symtable_close_scope frees is exactly what leaves.
THEOREM MemorySafe == Spec => []MemoryOwned
<1>1. IInv => MemoryOwned
  BY DEF IInv, SymInv
<1> QED BY <1>1, InitIInv, NextIInv, PTL DEF Spec

\* symtable_find, which walks the scopes from the outermost, returns what its
\* comment promises: the symbol of the innermost scope that has the name.
THEOREM SearchOrderIrrelevant == Spec => []FindIsInnermost
<1>1. IInv => FindIsInnermost
  BY UniqueImpliesInnermost DEF IInv, SymInv, SymTypeOK
<1> QED BY <1>1, InitIInv, NextIInv, PTL DEF Spec

\* A name waiting to be declared stands in no scope that will then be open.
THEOREM NamesStayFree == Spec => []StackDiscipline
<1>1. IInv => StackDiscipline
  BY DEF IInv
<1> QED BY <1>1, InitIInv, NextIInv, PTL DEF Spec

\* No step makes the assertion of symtable_insert fail.
LEMMA NextNotAborted ==
    ASSUME IInv, NeverAborted, [Next]_semVars
    PROVE  NeverAborted'
<1>1. CASE Declare
  BY <1>1, DeclareAllowed DEF Declare, NeverAborted
<1>2. CASE ~Declare
  BY <1>2 DEF Next, Check, Stopped, semVars, NeverAborted,
     CheckReturn, CheckIf, CheckWhile, CheckFor, CheckBlock, CheckExprStat, CheckSkip,
     Redeclare, CheckVarDecl, EnterFunction, PrototypeCrash, LeaveFunction, Finish,
     CheckIntLit, CheckName, AssignConst, CheckOperands, FinishArith, FinishAssign,
     FinishCompare, CheckUse
<1> QED BY <1>1, <1>2

\* The assertion of symtable_insert never fails.
THEOREM AssertionHolds == Spec => []NeverAborted
<1>1. Init => NeverAborted
  BY DEF Init, SemInit, NoSymbols, NoResults, NeverAborted
<1>2. IInv /\ NeverAborted /\ [Next]_semVars => NeverAborted'
  BY NextNotAborted
<1> QED BY <1>1, <1>2, InitIInv, NextIInv, PTL DEF Spec

-----------------------------------------------------------------------------
(* The table implements Scoping. *)

\* The refinement mapping: the names declared in each open scope.
NamesIn(scope) == {symbols[a].name : a \in InScope(scope)}
Open == [k \in DOMAIN scopes |-> NamesIn(scopes[k])]

\* The mapping yields a stack of sets as high as the list of scopes.
OpenOK ==
    /\ Open \in Seq(SUBSET (Names \cup {NULL})) /\ Len(Open) = Len(scopes)
    /\ Len(scopes) \in Nat /\ DOMAIN scopes = 1 .. Len(scopes)
    /\ \A k \in DOMAIN scopes : Open[k] = NamesIn(scopes[k])

\* It does so in every state of the table.
LEMMA OpenFacts == SymTypeOK => OpenOK
<1> SUFFICES ASSUME SymTypeOK PROVE OpenOK
  OBVIOUS
<1> DEFINE Sets == SUBSET (Names \cup {NULL})
<1>1. Len(scopes) \in Nat /\ DOMAIN scopes = 1 .. Len(scopes)
  BY DEF SymTypeOK
<1>2. \A k \in DOMAIN scopes : NamesIn(scopes[k]) \in Sets
  <2> SUFFICES ASSUME NEW k \in DOMAIN scopes, NEW i \in DOMAIN scopes[k]
               PROVE  symbols[scopes[k][i]].name \in Names \cup {NULL}
    BY DEF NamesIn, InScope
  <2>1. symbols[scopes[k][i]] \in Symbol \cup {Blank}
    BY DEF SymTypeOK
  <2> QED BY <2>1 DEF Symbol, Blank
<1> HIDE DEF Sets
<1>3. Open \in [1 .. Len(scopes) -> Sets]
  BY <1>1, <1>2 DEF Open
<1>4. Open \in Seq(Sets) /\ Len(Open) = Len(scopes)
  BY <1>1, <1>3
<1> QED BY <1>1, <1>4 DEF Open, OpenOK, Sets

\* The same after a step.
LEMMA OpenFactsNext == SymTypeOK' => OpenOK'
BY OpenFacts, PTL

\* A step that leaves the table alone does not show.
LEMMA StutterMapped == UNCHANGED <<scopes, symbols>> => UNCHANGED Open
BY DEF Open, NamesIn, InScope

\* A scope that keeps its list and its symbols keeps its names.
LEMMA NamesKept ==
    ASSUME NEW k, scopes'[k] = scopes[k],
           \A i \in DOMAIN scopes[k] : symbols'[scopes[k][i]] = symbols[scopes[k][i]]
    PROVE  NamesIn(scopes[k])' = NamesIn(scopes[k])
<1>1. InScope(scopes'[k]) = InScope(scopes[k])
  BY DEF InScope
<1>2. \A a \in InScope(scopes[k]) : symbols'[a] = symbols[a]
  BY DEF InScope
<1>3. NamesIn(scopes[k])' = {symbols'[a].name : a \in InScope(scopes[k])}
  BY <1>1 DEF NamesIn
<1> QED BY <1>2, <1>3 DEF NamesIn

\* symtable_open_scope enters an empty scope.
LEMMA OpenMapped ==
    ASSUME SymInv, SymInv', scopes # <<>>, OpenScope
    PROVE  Abstract!Enter
<1>1. /\ Len(scopes') = Len(scopes) + 1 /\ scopes'[Len(scopes) + 1] = <<>>
      /\ \A k \in DOMAIN scopes : scopes'[k] = scopes[k]
      /\ symbols' = symbols
  BY DEF OpenScope, SymInv, SymTypeOK
<1>2. OpenOK /\ OpenOK'
  BY OpenFacts, OpenFactsNext DEF SymInv
<1>3. /\ \A k \in DOMAIN scopes : Open'[k] = Open[k]
      /\ Open'[Len(scopes) + 1] = {}
  <2>1. \A k \in DOMAIN scopes : NamesIn(scopes[k])' = NamesIn(scopes[k])
    BY <1>1, NamesKept
  <2>2. Len(scopes) + 1 \in DOMAIN scopes' /\ \A k \in DOMAIN scopes : k \in DOMAIN scopes'
    BY <1>1, <1>2 DEF OpenOK
  <2>3. \A k \in DOMAIN scopes : Open'[k] = Open[k]
    BY <1>2, <2>1, <2>2 DEF OpenOK
  <2>4. PICK new : new = Len(scopes) + 1
    OBVIOUS
  <2>5. Open'[new] = {symbols'[a].name : a \in InScope(scopes'[new])}
    BY <1>2, <2>2, <2>4 DEF OpenOK, NamesIn
  <2>6. InScope(scopes'[new]) = {}
    BY <1>1, <2>4 DEF InScope
  <2> QED BY <2>3, <2>4, <2>5, <2>6
<1>4. /\ Append(Open, {}) \in Seq(SUBSET (Names \cup {NULL}))
      /\ Len(Append(Open, {})) = Len(scopes) + 1
      /\ \A k \in DOMAIN scopes : Append(Open, {})[k] = Open[k]
      /\ Append(Open, {})[Len(scopes) + 1] = {}
  BY <1>2, AppendProperties DEF OpenOK
<1>5. Open' = Append(Open, {})
  BY <1>1, <1>2, <1>3, <1>4, SeqEqual DEF OpenOK
<1>6. Open # <<>>
  BY <1>2 DEF OpenOK, SymInv, SymTypeOK
<1> QED BY <1>5, <1>6 DEF Abstract!Enter, Open, NamesIn

\* symtable_close_scope leaves the innermost scope.
LEMMA CloseMapped ==
    ASSUME SymInv, scopes # <<>>, CloseScope
    PROVE  Abstract!Leave
<1>1. /\ SymInv' /\ Len(scopes') = Len(scopes) - 1
      /\ \A k \in DOMAIN scopes' : /\ k \in DOMAIN scopes /\ scopes'[k] = scopes[k]
                                   /\ \A i \in DOMAIN scopes[k] :
                                        symbols'[scopes[k][i]] = symbols[scopes[k][i]]
  BY CloseScopeKeepsInv
<1>2. OpenOK /\ OpenOK'
  BY <1>1, OpenFacts, OpenFactsNext DEF SymInv
<1>3. \A k \in DOMAIN scopes' : Open'[k] = Open[k]
  <2>1. \A k \in DOMAIN scopes' : NamesIn(scopes[k])' = NamesIn(scopes[k])
    BY <1>1, NamesKept
  <2> QED BY <1>1, <1>2, <2>1 DEF OpenOK
<1>4. Open # <<>>
  BY <1>2 DEF OpenOK, SymInv, SymTypeOK
<1>5. /\ SubSeq(Open, 1, Len(Open) - 1) \in Seq(SUBSET (Names \cup {NULL}))
      /\ Len(SubSeq(Open, 1, Len(Open) - 1)) = Len(Open) - 1
      /\ \A k \in 1 .. Len(Open) - 1 : SubSeq(Open, 1, Len(Open) - 1)[k] = Open[k]
  BY <1>2, <1>4, PopProperties DEF OpenOK
<1>6. Open' = SubSeq(Open, 1, Len(Open) - 1)
  BY <1>1, <1>2, <1>3, <1>5, SeqEqual DEF OpenOK
<1> QED BY <1>4, <1>6 DEF Abstract!Leave, Open, NamesIn

\* symtable_insert of a name that is not in the table declares it.
LEMMA InsertMapped ==
    ASSUME SymInv, scopes # <<>>, NEW a \in Addr, NEW name \in Names,
           AbsentIn(name, Len(scopes)),
           CreateEntry(a, name, "INT_DT"), Insert(a)
    PROVE  Abstract!Declare(name)
<1> DEFINE top == Len(scopes)
<1>1. /\ SymInv' /\ Len(scopes') = Len(scopes)
      /\ \A k \in DOMAIN scopes : k < Len(scopes) =>
            /\ scopes'[k] = scopes[k]
            /\ \A i \in DOMAIN scopes[k] :
                   symbols'[scopes[k][i]] = symbols[scopes[k][i]]
  BY InsertKeepsInv
<1>2. OpenOK /\ OpenOK'
  BY <1>1, OpenFacts, OpenFactsNext DEF SymInv
<1>3. top \in DOMAIN scopes /\ scopes[top] \in Seq(Addr) /\ \A k \in DOMAIN scopes : k <= top
  BY <1>2 DEF OpenOK, SymInv, SymTypeOK
<1>4. \A k \in DOMAIN scopes : k # top => Open'[k] = Open[k]
  <2>1. \A k \in DOMAIN scopes : k # top => NamesIn(scopes[k])' = NamesIn(scopes[k])
    BY <1>1, <1>2, <1>3, NamesKept DEF OpenOK
  <2> QED BY <1>1, <1>2, <2>1 DEF OpenOK
<1>5. Open'[top] = Open[top] \cup {name}
  <2>1. /\ InScope(scopes'[top]) = InScope(scopes[top]) \cup {a}
        /\ scopes'[top] = Append(scopes[top], a)
    <3>1. scopes'[top] = Append(scopes[top], a)
      BY <1>3 DEF Insert, SymInv, SymTypeOK
    <3> QED BY <1>3, <3>1, AppendProperties DEF InScope
  <2>2. a \notin InScope(scopes[top])
    BY <1>3 DEF CreateEntry, SymInv, MemoryOwned, InScope
  <2>3. /\ symbols'[a].name = name
        /\ \A b \in Addr : b # a => symbols'[b] = symbols[b]
    BY DEF CreateEntry, SymInv, SymTypeOK
  <2>4. \A b \in InScope(scopes[top]) : symbols'[b] = symbols[b]
    BY <1>3, <2>2, <2>3 DEF InScope
  <2>5. Open'[top] = {symbols'[b].name : b \in InScope(scopes[top]) \cup {a}}
    BY <1>1, <1>2, <1>3, <2>1 DEF OpenOK, NamesIn
  <2>6. Open[top] = {symbols[b].name : b \in InScope(scopes[top])}
    BY <1>2, <1>3 DEF OpenOK, NamesIn
  <2> QED BY <2>3, <2>4, <2>5, <2>6
<1>6. Open' = [Open EXCEPT ![top] = @ \cup {name}]
  <2> DEFINE new == Open[top] \cup {name}
  <2>1. new \in SUBSET (Names \cup {NULL})
    BY <1>2, <1>3 DEF OpenOK
  <2>2. /\ [Open EXCEPT ![top] = new] \in Seq(SUBSET (Names \cup {NULL}))
        /\ Len([Open EXCEPT ![top] = new]) = Len(Open)
        /\ \A k \in 1 .. Len(Open) :
              [Open EXCEPT ![top] = new][k] = IF k = top THEN new ELSE Open[k]
    <3> HIDE DEF new, top
    <3> QED BY <1>2, <1>3, <2>1, ExceptSeq DEF OpenOK
  <2>3. Open' = [Open EXCEPT ![top] = new]
    <3> HIDE DEF new, top
    <3>1. \A k \in 1 .. Len(Open') : Open'[k] = [Open EXCEPT ![top] = new][k]
      BY <1>1, <1>2, <1>4, <1>5, <2>2 DEF OpenOK, new, top
    <3> QED BY <1>1, <1>2, <2>2, <3>1, SeqEqual DEF OpenOK
  <2> QED BY <2>3
<1>7. name \notin UNION {Open[k] : k \in DOMAIN Open}
  <2>1. \A k \in DOMAIN scopes : name \notin NamesIn(scopes[k])
    BY <1>3 DEF AbsentIn, NamesIn, InScope
  <2> QED BY <1>2, <2>1 DEF OpenOK
<1>8. Open # <<>> /\ Len(Open) = top
  BY <1>2 DEF OpenOK, SymInv, SymTypeOK
<1> QED BY <1>6, <1>7, <1>8 DEF Abstract!Declare, Abstract!Visible, Open, NamesIn

\* Every step of the checker is a step of Scoping or does not show.
LEMMA NextMapped == IInv /\ IInv' /\ [Next]_semVars => [Abstract!Next]_Open
<1> SUFFICES ASSUME IInv, IInv', [Next]_semVars
             PROVE  Abstract!Next \/ UNCHANGED Open
  OBVIOUS
<1>1. CASE EnterFunction
  <2>1. scopes # <<>> /\ OpenScope
    BY <1>1, FrameFacts DEF EnterFunction, AtStat, IInv, StackDiscipline
  <2> QED BY <2>1, OpenMapped DEF IInv, Abstract!Next
<1>2. CASE LeaveFunction \/ Finish
  <2>1. scopes # <<>> /\ CloseScope
    BY <1>2, FrameFacts DEF LeaveFunction, Finish
  <2> QED BY <2>1, CloseMapped DEF IInv, Abstract!Next
<1>3. CASE Declare
  <2>1. PICK name : name = prog[Head(exprs).node].name
    OBVIOUS
  <2>2. /\ name \in Names /\ scopes # <<>> /\ AbsentIn(name, Len(scopes))
        /\ InsertAllowed(name)
    BY <1>3, <2>1, DeclareAllowed DEF Declare
  <2>3. PICK a \in Addr : CreateEntry(a, name, "INT_DT") /\ Insert(a)
    BY <1>3, <2>1, <2>2 DEF Declare
  <2> QED BY <2>2, <2>3, InsertMapped DEF IInv, Abstract!Next
<1>4. CASE ~(EnterFunction \/ LeaveFunction \/ Finish \/ Declare)
  <2>1. UNCHANGED <<scopes, symbols>>
    BY <1>4 DEF Next, Check, Stopped, semVars,
       CheckReturn, CheckIf, CheckWhile, CheckFor, CheckBlock, CheckExprStat, CheckSkip,
       Redeclare, CheckVarDecl, PrototypeCrash,
       CheckIntLit, CheckName, AssignConst, CheckOperands, FinishArith, FinishAssign,
       FinishCompare, CheckUse
  <2> QED BY <2>1, StutterMapped
<1> QED BY <1>1, <1>2, <1>3, <1>4

\* The table is a stack of sets of names in which a name is declared only while
\* it is visible in no open scope, and forgotten with its scope.
THEOREM TableImplementsScoping == Spec => ImplementsScoping
<1>1. Init => Abstract!Init
  BY DEF Init, SemInit, Abstract!Init, InScope
<1>2. IInv /\ IInv' /\ [Next]_semVars => [Abstract!Next]_Open
  BY NextMapped
<1> QED BY <1>1, <1>2, InitIInv, NextIInv, PTL
        DEF Spec, ImplementsScoping, Abstract!Spec, Open, NamesIn

-----------------------------------------------------------------------------
(* What the checker decides.  First that it leaves out no node: after a    *)
(* check without errors every declaration and every name has its symbol,   *)
(* which generate_statement and generate_var_ref assert.  Then that its    *)
(* verdict is right: it reports an error exactly for the programs that     *)
(* break the scoping rules.  The rules speak of the tree, the checker      *)
(* looks into its table; the invariant says that, as long as there is no   *)
(* error, the table holds what the tree says is visible where the check    *)
(* stands.                                                                 *)

\* The nodes the check gives a symbol.
HasSymbol == {"VAR_REF", "FUNC_CALL", "DECL_STAT"}

\* The node is still to be checked.
Waiting(n) ==
    \/ \E i \in DOMAIN exprs : exprs[i].do = "expr" /\ exprs[i].node = n
    \/ \E k \in DOMAIN frames : \E i \in DOMAIN frames[k].todo : frames[k].todo[i] = n

\* The declaration waits for its value or its body to be checked.
Undeclared(n) ==
    \/ \E i \in DOMAIN exprs : exprs[i].do = "declare" /\ exprs[i].node = n
    \/ \E k \in DOMAIN frames : k > 1 /\ frames[k].decl = n

\* What semcheck_stat and semcheck_binop ask of the form of a node: an assignment is
\* to a variable, and the body of a function is a block.
Formed(n) ==
    /\ Type(n) = "BIN_OP" /\ prog[n].op = "ASSIGN" => Type(Kid(n, 1)) = "VAR_REF"
    /\ Type(n) = "DECL_STAT" /\ prog[n].is_func /\ Kids(n) # <<>> =>
          Type(Kid(n, 1)) = "BLOCK_STAT"

\* These nodes have been checked: whatever they lead to has been or will be.
Visited(nodes) ==
    /\ nodes \subseteq DOMAIN prog
    /\ 1 \in nodes \/ Waiting(1)
    /\ \A n \in nodes : \A i \in DOMAIN Kids(n) : Kid(n, i) \in nodes \/ Waiting(Kid(n, i))
    /\ \A n \in nodes : Type(n) \in HasSymbol => symbolOf[n] # NULL \/ Undeclared(n)
    /\ \A n \in nodes : Formed(n)

\* Nothing is left to check when the check is over.
NothingWaits == status = "done" => frames = <<>> /\ exprs = <<>>

\* As long as there is no error, no node is left out.
Covered ==
    /\ Preorder(prog)
    /\ NothingWaits
    /\ (errors = 0 /\ status \in {"checking", "done"}) => \E nodes : Visited(nodes)

\* The inductive invariant.
CoverInv == IInv /\ Covered

-----------------------------------------------------------------------------
(* A step that checks the nodes `new', none or one. *)

\* What was checked before, with the new nodes, covers what they lead to.
LEMMA CoverStep ==
    ASSUME NEW nodes, Visited(nodes), NEW new, new \subseteq DOMAIN prog, prog' = prog,
           \A m : Waiting(m) => m \in new \/ Waiting(m)',
           \A n \in new : \A i \in DOMAIN Kids(n) : \A m : Kid(n, i) = m => Waiting(m)',
           \A n \in new : Type(n) \in HasSymbol => symbolOf'[n] # NULL \/ Undeclared(n)',
           \A n \in new : Formed(n),
           \A m \in DOMAIN prog : symbolOf[m] # NULL => symbolOf'[m] # NULL,
           \A m : Undeclared(m) => Undeclared(m)' \/ symbolOf'[m] # NULL
    PROVE  Visited(nodes \cup new)'
<1> DEFINE all == nodes \cup new
<1>1. /\ \A n : Kids(n)' = Kids(n) /\ Type(n)' = Type(n)
      /\ \A n, i : Kid(n, i)' = Kid(n, i)
  BY DEF Kids, Kid, Type
<1>2. all \subseteq DOMAIN prog
  BY DEF Visited
<1>3. 1 \in all \/ Waiting(1)'
  BY DEF Visited
<1>4. ASSUME NEW n \in all, NEW i \in DOMAIN Kids(n), NEW m, Kid(n, i) = m
      PROVE  m \in all \/ Waiting(m)'
  <2>1. CASE n \in new
    BY <1>4, <2>1
  <2>2. CASE n \in nodes
    <3>1. m \in nodes \/ Waiting(m)
      BY <1>4, <2>2 DEF Visited
    <3> QED BY <3>1
  <2> QED BY <2>1, <2>2
<1>5. ASSUME NEW n \in all, Type(n) \in HasSymbol
      PROVE  symbolOf'[n] # NULL \/ Undeclared(n)'
  <2>1. CASE n \in new
    BY <1>5, <2>1
  <2>2. CASE n \in nodes
    BY <1>5, <2>2 DEF Visited
  <2> QED BY <2>1, <2>2
<1> HIDE DEF all
<1>6. /\ all \subseteq DOMAIN prog'
      /\ \A n \in all : \A i \in DOMAIN Kids(n)' :
            \A m : Kid(n, i)' = m => m \in all \/ Waiting(m)'
      /\ \A n \in all : Type(n)' \in HasSymbol => symbolOf'[n] # NULL \/ Undeclared(n)'
  BY <1>1, <1>2, <1>4, <1>5
<1>7. \A n \in all : Formed(n)'
  BY <1>1 DEF Visited, Formed, all
<1> QED BY <1>3, <1>6, <1>7 DEF Visited, all

\* A statement is replaced by the calls and statements inside it: all the rest goes
\* on waiting.
LEMMA ScheduleWaits ==
    ASSUME IInv, status = "checking", exprs = <<>>, Todo # <<>>,
           NEW tasks \in Seq(Tasks), NEW stats \in Seq(StatIds), Schedule(tasks, stats)
    PROVE  /\ \A m : Waiting(m) => m = Stat \/ Waiting(m)'
           /\ \A i \in DOMAIN tasks : \A m :
                 tasks[i].do = "expr" /\ tasks[i].node = m => Waiting(m)'
           /\ \A i \in DOMAIN stats : \A m : stats[i] = m => Waiting(m)'
           /\ \A m : Undeclared(m) => Undeclared(m)'
           /\ \A i \in DOMAIN tasks : \A m :
                 tasks[i].do = "declare" /\ tasks[i].node = m => Undeclared(m)'
<1> DEFINE top == Len(frames)
           more == stats \o Tail(Todo)
           new == [decl |-> frames[top].decl, todo |-> more]
<1>1. /\ exprs' = tasks /\ frames' = [frames EXCEPT ![top] = new]
  BY DEF Schedule, Todo, Frame
<1>2. frames \in Seq(FrameType) /\ frames # <<>> /\ top \in DOMAIN frames
  BY DEF IInv, TypeOK, StackDiscipline, FrameType
<1>3. Todo \in Seq(StatIds) /\ Todo = frames[top].todo
  <2>1. frames[top] \in FrameType
    BY <1>2
  <2> QED BY <2>1 DEF Todo, FrameType
<1>4. /\ Head(Todo) = Todo[1]
      /\ \A i \in DOMAIN stats : i \in DOMAIN more /\ more[i] = stats[i]
      /\ \A i \in DOMAIN Todo : i > 1 =>
            i - 1 + Len(stats) \in DOMAIN more /\ more[i - 1 + Len(stats)] = Todo[i]
      /\ DOMAIN Todo = 1 .. Len(Todo)
  <2>1. PICK rest \in Seq(StatIds), u \in {more} :
          rest = Todo /\ rest # <<>> /\ u = stats \o Tail(rest)
    BY <1>3
  <2>2. /\ DOMAIN rest = 1 .. Len(rest) /\ Head(rest) = rest[1]
        /\ \A i \in DOMAIN stats : i \in DOMAIN u /\ u[i] = stats[i]
        /\ \A i \in DOMAIN rest : i > 1 =>
              i - 1 + Len(stats) \in DOMAIN u /\ u[i - 1 + Len(stats)] = rest[i]
    BY <2>1, ReplaceHead
  <2>3. more = u
    BY <2>1
  <2> HIDE DEF more
  <2> QED BY <2>1, <2>2, <2>3
<1>5. /\ DOMAIN frames' = DOMAIN frames
      /\ \A k \in DOMAIN frames : frames'[k].decl = frames[k].decl
      /\ \A k \in DOMAIN frames : k # top => frames'[k] = frames[k]
      /\ frames'[top].todo = more
  BY <1>1, <1>2
<1> HIDE DEF more, new, top
<1>6. \A i \in DOMAIN more : \A m : more[i] = m => Waiting(m)'
  BY <1>2, <1>5 DEF Waiting
<1>7. ASSUME NEW m, Waiting(m), m # Stat
      PROVE  Waiting(m)'
  <2>1. PICK k \in DOMAIN frames : \E i \in DOMAIN frames[k].todo : frames[k].todo[i] = m
    BY <1>7 DEF Waiting
  <2>2. PICK i \in DOMAIN frames[k].todo : frames[k].todo[i] = m
    BY <2>1
  <2>3. CASE k # top
    BY <1>5, <2>1, <2>2, <2>3 DEF Waiting
  <2>4. CASE k = top
    <3>1. i \in DOMAIN Todo /\ Todo[i] = m
      BY <1>3, <2>2, <2>4
    <3>2. i > 1
      BY <1>4, <1>7, <3>1 DEF Stat
    <3> QED BY <1>4, <1>6, <3>1, <3>2
  <2> QED BY <2>3, <2>4
<1>8. \A i \in DOMAIN stats : \A m : stats[i] = m => Waiting(m)'
  BY <1>4, <1>6
<1>9. \A i \in DOMAIN tasks : \A m : tasks[i].do = "expr" /\ tasks[i].node = m => Waiting(m)'
  BY <1>1 DEF Waiting
<1>10. \A m : Undeclared(m) => Undeclared(m)'
  BY <1>5 DEF Undeclared
<1>11. \A i \in DOMAIN tasks : \A m :
          tasks[i].do = "declare" /\ tasks[i].node = m => Undeclared(m)'
  BY <1>1 DEF Undeclared
<1> QED BY <1>7, <1>8, <1>9, <1>10, <1>11

\* A pending call is replaced by the calls it makes.
LEMMA CallWaits ==
    ASSUME IInv, exprs # <<>>, NEW tasks \in Seq(Tasks),
           exprs' = tasks \o Tail(exprs), frames' = frames
    PROVE  /\ \A m : Waiting(m) =>
                 \/ Head(exprs).do = "expr" /\ m = Head(exprs).node
                 \/ Waiting(m)'
           /\ \A i \in DOMAIN tasks : \A m :
                 tasks[i].do = "expr" /\ tasks[i].node = m => Waiting(m)'
           /\ \A m : Undeclared(m) =>
                 \/ Head(exprs).do = "declare" /\ m = Head(exprs).node
                 \/ Undeclared(m)'
<1>1. exprs \in Seq(Tasks)
  BY DEF IInv, TypeOK
<1>2. PICK more : more = tasks \o Tail(exprs)
  OBVIOUS
<1>3. /\ Head(exprs) = exprs[1] /\ DOMAIN exprs = 1 .. Len(exprs)
      /\ \A i \in DOMAIN tasks : i \in DOMAIN more /\ more[i] = tasks[i]
      /\ \A i \in DOMAIN exprs : i > 1 =>
            i - 1 + Len(tasks) \in DOMAIN more /\ more[i - 1 + Len(tasks)] = exprs[i]
  BY <1>1, <1>2, ReplaceHead
<1>4. ASSUME NEW i \in DOMAIN exprs, i # 1
      PROVE  \E j \in DOMAIN exprs' : exprs'[j] = exprs[i]
  <2>1. i \in 1 .. Len(exprs) /\ i > 1
    <3>1. i \in 1 .. Len(exprs) /\ Len(exprs) \in Nat
      BY <1>1, <1>3, LenProperties
    <3> QED BY <1>4, <3>1
  <2>2. i - 1 + Len(tasks) \in DOMAIN more /\ more[i - 1 + Len(tasks)] = exprs[i]
    BY <1>3, <2>1
  <2> QED BY <1>2, <2>2
<1>5. \A i \in DOMAIN tasks : \E j \in DOMAIN exprs' : exprs'[j] = tasks[i]
  BY <1>2, <1>3
<1>6. ASSUME NEW m, Waiting(m), ~(Head(exprs).do = "expr" /\ m = Head(exprs).node)
      PROVE  Waiting(m)'
  <2>1. CASE \E k \in DOMAIN frames : \E i \in DOMAIN frames[k].todo : frames[k].todo[i] = m
    BY <2>1 DEF Waiting
  <2>2. CASE \E i \in DOMAIN exprs : exprs[i].do = "expr" /\ exprs[i].node = m
    <3>1. PICK i \in DOMAIN exprs : exprs[i].do = "expr" /\ exprs[i].node = m
      BY <2>2
    <3>2. i # 1
      BY <1>3, <1>6, <3>1
    <3>3. PICK j \in DOMAIN exprs' : exprs'[j] = exprs[i]
      BY <1>4, <3>2
    <3> QED BY <3>1, <3>3 DEF Waiting
  <2> QED BY <1>6, <2>1, <2>2 DEF Waiting
<1>7. ASSUME NEW i \in DOMAIN tasks, NEW m, tasks[i].do = "expr", tasks[i].node = m
      PROVE  Waiting(m)'
  <2>1. PICK j \in DOMAIN exprs' : exprs'[j] = tasks[i]
    BY <1>5
  <2> QED BY <1>7, <2>1 DEF Waiting
<1>8. ASSUME NEW m, Undeclared(m), ~(Head(exprs).do = "declare" /\ m = Head(exprs).node)
      PROVE  Undeclared(m)'
  <2>1. CASE \E k \in DOMAIN frames : k > 1 /\ frames[k].decl = m
    BY <2>1 DEF Undeclared
  <2>2. CASE \E i \in DOMAIN exprs : exprs[i].do = "declare" /\ exprs[i].node = m
    <3>1. PICK i \in DOMAIN exprs : exprs[i].do = "declare" /\ exprs[i].node = m
      BY <2>2
    <3>2. i # 1
      BY <1>3, <1>8, <3>1
    <3>3. PICK j \in DOMAIN exprs' : exprs'[j] = exprs[i]
      BY <1>4, <3>2
    <3> QED BY <3>1, <3>3 DEF Undeclared
  <2> QED BY <1>8, <2>1, <2>2 DEF Undeclared
<1> QED BY <1>6, <1>7, <1>8

\* The node that a statement or a call leads to is among those tasks or statements.
Scheduled(m, tasks, stats) ==
    \/ \E j \in DOMAIN tasks : tasks[j].do = "expr" /\ tasks[j].node = m
    \/ \E j \in DOMAIN stats : stats[j] = m

\* A statement to do is a statement.
LEMMA StatKinds ==
    ASSUME IInv, status = "checking", Todo # <<>>
    PROVE  Stat \in StatIds
<1>1. frames \in Seq(FrameType) /\ frames # <<>>
  BY DEF IInv, TypeOK, StackDiscipline, FrameType
<1>2. frames[Len(frames)] \in FrameType
  BY <1>1
<1>3. Todo \in Seq(StatIds)
  BY <1>2 DEF Todo, FrameType
<1> QED BY <1>3 DEF Stat

\* A statement that leads to all its children, or is an error, leaves out nothing.
LEMMA ScheduleCovers ==
    ASSUME IInv, Covered, status = "checking", exprs = <<>>, Todo # <<>>, Stat \in DOMAIN prog,
           NEW tasks \in Seq(Tasks), NEW stats \in Seq(StatIds), Schedule(tasks, stats),
           errors' = 0 =>
              /\ errors = 0
              /\ \A i \in DOMAIN Kids(Stat) : Scheduled(Kid(Stat, i), tasks, stats)
              /\ Type(Stat) \in HasSymbol =>
                    /\ ~prog[Stat].is_func
                    /\ \E j \in DOMAIN tasks : tasks[j].do = "declare" /\ tasks[j].node = Stat,
           UNCHANGED <<prog, symbolOf, status>>
    PROVE  Covered'
<1>1. Preorder(prog') /\ NothingWaits'
  BY DEF Covered, NothingWaits
<1>2. ASSUME errors' = 0
      PROVE  (\E nodes : Visited(nodes))'
  <2>1. PICK nodes : Visited(nodes)
    BY <1>2 DEF Covered
  <2>2. PICK stat \in DOMAIN prog : stat = Stat
    OBVIOUS
  <2>0. Formed(stat)
    <3>1. Type(stat) # "BIN_OP"
      <4>1. Stat \in StatIds
        BY StatKinds
      <4> QED BY <2>2, <4>1 DEF StatIds, StatTypes, Type
    <3>2. Type(stat) = "DECL_STAT" => ~prog[stat].is_func
      BY <1>2, <2>2 DEF HasSymbol
    <3> QED BY <3>1, <3>2 DEF Formed
  <2>3. \A m : Waiting(m) => m \in {stat} \/ Waiting(m)'
    BY <2>2, ScheduleWaits
  <2>4. \A i \in DOMAIN Kids(stat) : \A m : Kid(stat, i) = m => Waiting(m)'
    <3> SUFFICES ASSUME NEW i \in DOMAIN Kids(stat), NEW m, Kid(stat, i) = m
                 PROVE  Waiting(m)'
      OBVIOUS
    <3>1. Scheduled(m, tasks, stats)
      BY <1>2, <2>2
    <3> QED BY <3>1, ScheduleWaits DEF Scheduled
  <2>5. Type(stat) \in HasSymbol => Undeclared(stat)'
    BY <1>2, <2>2, ScheduleWaits
  <2>6. \A m : Undeclared(m) => Undeclared(m)'
    BY ScheduleWaits
  <2>7. Visited(nodes \cup {stat})'
    <3> DEFINE new == {stat}
    <3>1. /\ new \subseteq DOMAIN prog
          /\ \A m : Waiting(m) => m \in new \/ Waiting(m)'
          /\ \A n \in new : \A i \in DOMAIN Kids(n) : \A m : Kid(n, i) = m => Waiting(m)'
          /\ \A n \in new : Type(n) \in HasSymbol => symbolOf'[n] # NULL \/ Undeclared(n)'
      BY <2>3, <2>4, <2>5
    <3>3. \A n \in new : Formed(n)
      BY <2>0
    <3> HIDE DEF new
    <3>2. Visited(nodes \cup new)'
      BY <2>1, <2>6, <3>1, <3>3, CoverStep
    <3> QED BY <3>2 DEF new
  <2> QED BY <2>7
<1> QED BY <1>1, <1>2 DEF Covered

\* So does a call, if what it was to find a symbol for has one afterwards.
LEMMA CallCovers ==
    ASSUME IInv, Covered, status = "checking", exprs # <<>>, NEW tasks \in Seq(Tasks),
           exprs' = tasks \o Tail(exprs), UNCHANGED <<prog, frames, status>>,
           \A m \in DOMAIN prog : symbolOf[m] # NULL => symbolOf'[m] # NULL,
           Head(exprs).do = "declare" => symbolOf'[Head(exprs).node] # NULL,
           errors' = 0 =>
              /\ errors = 0
              /\ Head(exprs).do = "expr" =>
                    /\ \A i \in DOMAIN Kids(Head(exprs).node) :
                          Scheduled(Kid(Head(exprs).node, i), tasks, <<>>)
                    /\ Type(Head(exprs).node) \in HasSymbol =>
                          symbolOf'[Head(exprs).node] # NULL
                    /\ Formed(Head(exprs).node)
    PROVE  Covered'
<1>1. Preorder(prog') /\ NothingWaits'
  BY DEF Covered, NothingWaits
<1>2. ASSUME errors' = 0
      PROVE  (\E nodes : Visited(nodes))'
  <2>1. PICK nodes : Visited(nodes)
    BY <1>2 DEF Covered
  <2>2. PICK call \in DOMAIN prog, do \in {Head(exprs).do} :
          call = Head(exprs).node /\ do = Head(exprs).do
    BY HeadFacts
  <2> DEFINE new == IF do = "expr" THEN {call} ELSE {}
  <2>3. \A m : Waiting(m) => m \in new \/ Waiting(m)'
    BY <2>2, CallWaits
  <2>4. ASSUME NEW n \in new, NEW i \in DOMAIN Kids(n), NEW m, Kid(n, i) = m
        PROVE  Waiting(m)'
    <3>1. n = call /\ do = "expr"
      OBVIOUS
    <3>2. Scheduled(m, tasks, <<>>)
      BY <1>2, <2>2, <2>4, <3>1
    <3>3. \E j \in DOMAIN tasks : tasks[j].do = "expr" /\ tasks[j].node = m
      BY <3>2 DEF Scheduled
    <3> QED BY <3>3, CallWaits
  <2>5. \A n \in new : Type(n) \in HasSymbol => symbolOf'[n] # NULL \/ Undeclared(n)'
    BY <1>2, <2>2
  <2>6. \A m : Undeclared(m) => Undeclared(m)' \/ symbolOf'[m] # NULL
    BY CallWaits
  <2>7. new \subseteq DOMAIN prog
    OBVIOUS
  <2> HIDE DEF new
  <2>8. \A n \in new : \A i \in DOMAIN Kids(n) : \A m : Kid(n, i) = m => Waiting(m)'
    BY <2>4
  <2>9. \A n \in new : Formed(n)
    BY <1>2, <2>2 DEF new
  <2>10. Visited(nodes \cup new)'
    BY <2>1, <2>3, <2>5, <2>6, <2>7, <2>8, <2>9, CoverStep
  <2> QED BY <2>10
<1> QED BY <1>1, <1>2 DEF Covered

-----------------------------------------------------------------------------
(* The statements. *)

\* How many children there are.
LEMMA KidCounts ==
    ASSUME WellFormed(prog), NEW n \in DOMAIN prog
    PROVE  /\ Kids(n) = <<>> => DOMAIN Kids(n) = {}
           /\ Type(n) \in {"INT_LIT", "VAR_REF", "FUNC_CALL", "SKIP_STAT"} =>
                 DOMAIN Kids(n) = {}
           /\ Type(n) \in {"RETURN_STAT", "EXPR_STAT"} => DOMAIN Kids(n) = {1}
           /\ Type(n) \in {"WHILE_STAT", "BIN_OP"} => DOMAIN Kids(n) = {1, 2}
           /\ Type(n) = "FOR_STAT" => DOMAIN Kids(n) = {1, 2, 3, 4}
           /\ Type(n) = "IF_STAT" => Kids(n) # <<>>
           /\ Type(n) = "DECL_STAT" => DOMAIN Kids(n) \subseteq {1}
           /\ Type(n) = "DECL_STAT" /\ Kids(n) # <<>> => DOMAIN Kids(n) = {1}
<1>1. PICK kids \in Seq(DOMAIN prog) : kids = Kids(n) /\ kids = prog[n].kids
  BY KidTypes DEF Kids
<1>2. Len(kids) \in Nat /\ DOMAIN kids = 1 .. Len(kids) /\ (kids # <<>> => Len(kids) # 0)
  BY EmptySeq, LenProperties
<1>3. ShapeOK(prog, n)
  BY DEF WellFormed
<1>4. kids = <<>> => DOMAIN kids = {}
  OBVIOUS
<1>5. Type(n) \in {"INT_LIT", "VAR_REF", "FUNC_CALL", "SKIP_STAT"} => kids = <<>>
  BY <1>1, <1>3 DEF ShapeOK, Type
<1>6. Type(n) \in {"RETURN_STAT", "EXPR_STAT"} => Len(kids) = 1
  BY <1>1, <1>3 DEF ShapeOK, Type
<1>7. Type(n) \in {"WHILE_STAT", "BIN_OP"} => Len(kids) = 2
  BY <1>1, <1>3 DEF ShapeOK, Type
<1>8. Type(n) = "FOR_STAT" => Len(kids) = 4
  BY <1>1, <1>3 DEF ShapeOK, Type
<1>9. Type(n) = "IF_STAT" => Len(kids) \in {2, 3}
  BY <1>1, <1>3 DEF ShapeOK, Type
<1>10. Type(n) = "DECL_STAT" => Len(kids) \in {0, 1}
  BY <1>1, <1>3 DEF ShapeOK, Type
<1>11. 1 .. 1 = {1} /\ 1 .. 2 = {1, 2} /\ 1 .. 4 = {1, 2, 3, 4} /\ 1 .. 0 = {}
  OBVIOUS
<1>12. Type(n) = "IF_STAT" => kids # <<>>
  <2>1. kids = <<>> => Len(kids) = 0
    BY <1>1, EmptySeq
  <2>2. PICK len \in Nat : len = Len(kids)
    BY <1>2
  <2> QED BY <1>9, <2>1, <2>2
<1>13. Type(n) = "DECL_STAT" => /\ DOMAIN kids \subseteq {1}
                                /\ kids # <<>> => DOMAIN kids = {1}
  BY <1>2, <1>10, <1>11
<1> QED BY <1>1, <1>2, <1>4, <1>5, <1>6, <1>7, <1>8, <1>11, <1>12, <1>13

\* What stands in the list of calls that check an expression.
LEMMA CheckedDoes ==
    ASSUME NEW e \in ExprIds
    PROVE  /\ Checked(e) \in Seq(Tasks) /\ 1 \in DOMAIN Checked(e)
           /\ Checked(e)[1].do = "expr" /\ Checked(e)[1].node = e
<1>1. Checked(e) \in Seq(Tasks) /\ Len(Checked(e)) = 2
  BY CheckedTasks
<1>2. Checked(e)[1] = Task("expr", e)
  BY DEF Checked
<1> QED BY <1>1, <1>2 DEF Task

\* The statements that neither open nor close a scope.
LEMMA StatementsCover ==
    ASSUME CoverInv,
           \/ CheckReturn \/ CheckIf \/ CheckWhile \/ CheckFor \/ CheckBlock
           \/ CheckExprStat \/ CheckSkip \/ Redeclare \/ CheckVarDecl
    PROVE  Covered'
<1>0. <<>> \in Seq(Tasks) /\ <<>> \in Seq(StatIds) /\ IInv /\ Covered
  BY DEF CoverInv
<1>1. CASE CheckReturn
  <2>1. Kid(Stat, 1) \in ExprIds /\ DOMAIN Kids(Stat) = {1} /\ Type(Stat) \notin HasSymbol
    BY <1>0, <1>1, StatFacts, KidTypes, KidCounts DEF CheckReturn, HasSymbol
  <2>2. Scheduled(Kid(Stat, 1), Checked(Kid(Stat, 1)), <<>>)
    BY <2>1, CheckedDoes DEF Scheduled
  <2> QED BY <1>0, <1>1, <2>1, <2>2, StatFacts, CheckedDoes, ScheduleCovers DEF CheckReturn
<1>2. CASE CheckIf
  <2>1. /\ Kid(Stat, 1) \in ExprIds /\ Tail(Kids(Stat)) \in Seq(StatIds)
        /\ Kids(Stat) \in Seq(DOMAIN prog) /\ Kids(Stat) # <<>> /\ Type(Stat) \notin HasSymbol
    BY <1>0, <1>2, StatFacts, KidTypes, KidCounts DEF CheckIf, HasSymbol
  <2>2. Scheduled(Kid(Stat, 1), Checked(Kid(Stat, 1)), Tail(Kids(Stat)))
    BY <2>1, CheckedDoes DEF Scheduled
  <2>3. ASSUME NEW i \in DOMAIN Kids(Stat), i # 1
        PROVE  Scheduled(Kid(Stat, i), Checked(Kid(Stat, 1)), Tail(Kids(Stat)))
    <3>1. PICK kids \in Seq(DOMAIN prog) : kids = Kids(Stat) /\ kids # <<>>
      BY <2>1
    <3>2. /\ Len(kids) \in Nat /\ DOMAIN kids = 1 .. Len(kids)
          /\ Len(Tail(kids)) = Len(kids) - 1 /\ DOMAIN Tail(kids) = 1 .. Len(kids) - 1
          /\ \A j \in 1 .. Len(kids) - 1 : Tail(kids)[j] = kids[j + 1]
      BY <3>1, HeadTailProperties, LenProperties
    <3>3. i - 1 \in 1 .. Len(kids) - 1 /\ i - 1 + 1 = i
      BY <2>3, <3>1, <3>2
    <3>4. i - 1 \in DOMAIN Tail(kids) /\ Tail(kids)[i - 1] = kids[i]
      BY <3>2, <3>3
    <3> QED BY <3>1, <3>4 DEF Scheduled, Kid, Kids
  <2>4. \A i \in DOMAIN Kids(Stat) :
          Scheduled(Kid(Stat, i), Checked(Kid(Stat, 1)), Tail(Kids(Stat)))
    BY <2>2, <2>3
  <2> QED BY <1>0, <1>2, <2>1, <2>4, StatFacts, CheckedDoes, ScheduleCovers DEF CheckIf
<1>3. CASE CheckWhile
  <2>1. /\ Kid(Stat, 1) \in ExprIds /\ <<Kid(Stat, 2)>> \in Seq(StatIds)
        /\ DOMAIN Kids(Stat) = {1, 2} /\ Type(Stat) \notin HasSymbol
    BY <1>0, <1>3, StatFacts, KidTypes, KidCounts DEF CheckWhile, HasSymbol
  <2>2. /\ Scheduled(Kid(Stat, 1), Checked(Kid(Stat, 1)), <<Kid(Stat, 2)>>)
        /\ Scheduled(Kid(Stat, 2), Checked(Kid(Stat, 1)), <<Kid(Stat, 2)>>)
    BY <2>1, CheckedDoes DEF Scheduled
  <2> QED BY <1>0, <1>3, <2>1, <2>2, StatFacts, CheckedDoes, ScheduleCovers DEF CheckWhile
<1>4. CASE CheckFor
  <2>1. /\ Kid(Stat, 1) \in ExprIds /\ Kid(Stat, 2) \in ExprIds /\ Kid(Stat, 3) \in ExprIds
        /\ <<Kid(Stat, 4)>> \in Seq(StatIds)
        /\ DOMAIN Kids(Stat) = {1, 2, 3, 4} /\ Type(Stat) \notin HasSymbol
    BY <1>0, <1>4, StatFacts, KidTypes, KidCounts DEF CheckFor, HasSymbol
  <2>2. PICK a \in ExprIds, b \in ExprIds, c \in ExprIds, d \in {Kid(Stat, 4)} :
          a = Kid(Stat, 1) /\ b = Kid(Stat, 2) /\ c = Kid(Stat, 3) /\ d = Kid(Stat, 4)
    BY <2>1
  <2>3. PICK more \in Seq(Tasks) :
          /\ more = <<Task("expr", a), Task("expr", c)>>
          /\ 1 \in DOMAIN more /\ more[1].do = "expr" /\ more[1].node = a
          /\ 2 \in DOMAIN more /\ more[2].do = "expr" /\ more[2].node = c
    <3>0. \A e \in ExprIds : /\ Task("expr", e) \in Tasks
                             /\ Task("expr", e).do = "expr" /\ Task("expr", e).node = e
      BY DEF Tasks, Task
    <3>1. PICK s \in Tasks, t \in Tasks :
            /\ s = Task("expr", a) /\ s.do = "expr" /\ s.node = a
            /\ t = Task("expr", c) /\ t.do = "expr" /\ t.node = c
      BY <3>0
    <3>2. /\ <<s, t>> \in Seq(Tasks) /\ 1 \in DOMAIN <<s, t>> /\ 2 \in DOMAIN <<s, t>>
          /\ <<s, t>>[1] = s /\ <<s, t>>[2] = t
      OBVIOUS
    <3>3. PICK more \in Seq(Tasks) : /\ more = <<s, t>> /\ 1 \in DOMAIN more
                                     /\ 2 \in DOMAIN more /\ more[1] = s /\ more[2] = t
      BY <3>2, Zenon
    <3> QED BY <3>1, <3>3
  <2>4. PICK tasks \in Seq(Tasks) :
          /\ tasks = Checked(b) \o more
          /\ \A i \in DOMAIN Checked(b) : i \in DOMAIN tasks /\ tasks[i] = Checked(b)[i]
          /\ \A i \in DOMAIN more :
                i + Len(Checked(b)) \in DOMAIN tasks /\ tasks[i + Len(Checked(b))] = more[i]
    <3>1. PICK first \in Seq(Tasks), u \in {Checked(b) \o more} :
            first = Checked(b) /\ u = first \o more
      BY CheckedDoes
    <3>2. /\ u \in Seq(Tasks)
          /\ \A i \in DOMAIN first : i \in DOMAIN u /\ u[i] = first[i]
          /\ \A i \in DOMAIN more : i + Len(first) \in DOMAIN u /\ u[i + Len(first)] = more[i]
      BY <3>1, ConcatPlaces
    <3> QED BY <3>1, <3>2
  <2>5. \A m \in {a, b, c} : \E j \in DOMAIN tasks : tasks[j].do = "expr" /\ tasks[j].node = m
    <3>1. \E j \in DOMAIN tasks : tasks[j].do = "expr" /\ tasks[j].node = b
      BY <2>4, CheckedDoes
    <3>2. \E j \in DOMAIN tasks : tasks[j].do = "expr" /\ tasks[j].node = a
      BY <2>3, <2>4
    <3>3. \E j \in DOMAIN tasks : tasks[j].do = "expr" /\ tasks[j].node = c
      BY <2>3, <2>4
    <3> QED BY <3>1, <3>2, <3>3
  <2>6. <<d>> \in Seq(StatIds) /\ Scheduled(d, tasks, <<d>>)
    BY <2>1, <2>2 DEF Scheduled
  <2>7. \A i \in DOMAIN Kids(Stat) : Scheduled(Kid(Stat, i), tasks, <<d>>)
    BY <2>1, <2>2, <2>5, <2>6 DEF Scheduled
  <2>8. Schedule(tasks, <<d>>)
    BY <1>4, <2>2, <2>3, <2>4 DEF CheckFor
  <2> QED BY <1>0, <1>4, <2>1, <2>6, <2>7, <2>8, StatFacts, ScheduleCovers DEF CheckFor
<1>5. CASE CheckBlock
  <2>1. Kids(Stat) \in Seq(StatIds) /\ Type(Stat) \notin HasSymbol
    BY <1>0, <1>5, StatFacts, KidTypes DEF CheckBlock, HasSymbol
  <2>2. \A i \in DOMAIN Kids(Stat) : Scheduled(Kid(Stat, i), <<>>, Kids(Stat))
    BY DEF Scheduled, Kid, Kids
  <2> QED BY <1>0, <1>5, <2>1, <2>2, StatFacts, ScheduleCovers DEF CheckBlock
<1>6. CASE CheckExprStat
  <2>1. Kid(Stat, 1) \in ExprIds /\ DOMAIN Kids(Stat) = {1} /\ Type(Stat) \notin HasSymbol
    BY <1>0, <1>6, StatFacts, KidTypes, KidCounts DEF CheckExprStat, HasSymbol
  <2>2. PICK tasks \in Seq(Tasks) : /\ tasks = <<Task("expr", Kid(Stat, 1))>>
                                    /\ Scheduled(Kid(Stat, 1), tasks, <<>>)
    <3>1. Task("expr", Kid(Stat, 1)) \in Tasks
      BY <2>1 DEF Tasks, Task
    <3>2. PICK call \in Tasks : /\ call = Task("expr", Kid(Stat, 1))
                                /\ call.do = "expr" /\ call.node = Kid(Stat, 1)
      BY <3>1 DEF Task
    <3>3. <<call>> \in Seq(Tasks) /\ 1 \in DOMAIN <<call>> /\ <<call>>[1] = call
      OBVIOUS
    <3>4. Scheduled(Kid(Stat, 1), <<call>>, <<>>)
      BY <3>2, <3>3 DEF Scheduled
    <3> QED BY <3>2, <3>3, <3>4
  <2> QED BY <1>0, <1>6, <2>1, <2>2, StatFacts, ScheduleCovers DEF CheckExprStat
<1>7. CASE CheckSkip
  <2>1. DOMAIN Kids(Stat) = {} /\ Type(Stat) \notin HasSymbol
    BY <1>0, <1>7, StatFacts, KidCounts DEF CheckSkip, HasSymbol
  <2> QED BY <1>0, <1>7, <2>1, StatFacts, ScheduleCovers DEF CheckSkip
<1>8. CASE Redeclare
  <2>1. errors' # 0
    BY <1>0, <1>8, StatFacts DEF Redeclare
  <2> QED BY <1>0, <1>8, <2>1, StatFacts, ScheduleCovers DEF Redeclare
<1>9. CASE CheckVarDecl
  <2>1. PICK value \in Seq(Tasks) :
          /\ value = (IF Kids(Stat) = <<>> THEN <<>> ELSE Checked(Kid(Stat, 1)))
          /\ \A i \in DOMAIN Kids(Stat) : Scheduled(Kid(Stat, i), value, <<>>)
    <3>1. CASE Kids(Stat) = <<>>
      <4>1. DOMAIN Kids(Stat) = {}
        BY <1>0, <1>9, <3>1, StatFacts, KidCounts DEF CheckVarDecl
      <4> QED BY <1>0, <3>1, <4>1
    <3>2. CASE Kids(Stat) # <<>>
      <4>1. DOMAIN Kids(Stat) = {1} /\ Kid(Stat, 1) \in ExprIds
        BY <1>0, <1>9, <3>2, StatFacts, KidTypes, KidCounts DEF CheckVarDecl
      <4> QED BY <3>2, <4>1, CheckedDoes DEF Scheduled
    <3> QED BY <3>1, <3>2
  <2>2. PICK decl \in Tasks : /\ decl = Task("declare", Stat)
                              /\ decl.do = "declare" /\ decl.node = Stat
    BY <1>0, <1>9, StatFacts DEF CheckVarDecl, Tasks, Task, DeclIds, Type
  <2>3. PICK tasks \in Seq(Tasks) :
          /\ tasks = value \o <<decl>>
          /\ \A i \in DOMAIN value : i \in DOMAIN tasks /\ tasks[i] = value[i]
          /\ \E j \in DOMAIN tasks : tasks[j] = decl
    <3>1. PICK last \in Seq(Tasks), u \in {value \o <<decl>>} :
            /\ last = <<decl>> /\ u = value \o last
            /\ 1 \in DOMAIN last /\ last[1] = decl
      <4>1. /\ <<decl>> \in Seq(Tasks)
            /\ 1 \in DOMAIN <<decl>> /\ <<decl>>[1] = decl
        OBVIOUS
      <4>2. PICK last \in Seq(Tasks) : /\ last = <<decl>>
                                       /\ 1 \in DOMAIN last /\ last[1] = decl
        BY <4>1, Zenon
      <4> QED BY <4>2
    <3>2. /\ u \in Seq(Tasks)
          /\ \A i \in DOMAIN value : i \in DOMAIN u /\ u[i] = value[i]
          /\ \A i \in DOMAIN last : i + Len(value) \in DOMAIN u /\ u[i + Len(value)] = last[i]
      BY <3>1, ConcatPlaces
    <3> QED BY <3>1, <3>2
  <2>4. \A i \in DOMAIN Kids(Stat) : Scheduled(Kid(Stat, i), tasks, <<>>)
    BY <2>1, <2>3 DEF Scheduled
  <2>5. Schedule(tasks, <<>>)
    BY <1>9, <2>1, <2>2, <2>3 DEF CheckVarDecl
  <2>6. ~prog[Stat].is_func
    BY <1>9 DEF CheckVarDecl
  <2> QED BY <1>0, <1>9, <2>2, <2>3, <2>4, <2>5, <2>6, StatFacts, ScheduleCovers
          DEF CheckVarDecl
<1> QED BY <1>1, <1>2, <1>3, <1>4, <1>5, <1>6, <1>7, <1>8, <1>9

-----------------------------------------------------------------------------
(* The expressions. *)

\* A symbol that a node has got is not taken away.
LEMMA SymbolsKept ==
    ASSUME IInv, NEW n \in DOMAIN prog, NEW a \in Addr, symbolOf' = [symbolOf EXCEPT ![n] = a]
    PROVE  /\ symbolOf'[n] # NULL
           /\ \A m \in DOMAIN prog : symbolOf[m] # NULL => symbolOf'[m] # NULL
<1>1. symbolOf \in [DOMAIN prog -> Addr \cup {NULL}]
  BY DEF IInv, TypeOK
<1> QED BY <1>1, AddrAssumption

\* A call that returns without making others.
LEMMA PopCovers ==
    ASSUME IInv, Covered, status = "checking", exprs # <<>>, exprs' = Tail(exprs),
           UNCHANGED <<prog, frames, status>>,
           \A m \in DOMAIN prog : symbolOf[m] # NULL => symbolOf'[m] # NULL,
           Head(exprs).do = "declare" => symbolOf'[Head(exprs).node] # NULL,
           errors' = 0 =>
              /\ errors = 0
              /\ Head(exprs).do = "expr" =>
                    /\ DOMAIN Kids(Head(exprs).node) = {}
                    /\ Type(Head(exprs).node) \in HasSymbol =>
                          symbolOf'[Head(exprs).node] # NULL
    PROVE  Covered'
<1> DEFINE none == <<>>
<1>1. none \in Seq(Tasks) /\ exprs' = none \o Tail(exprs)
  BY HeadFacts
<1>2. errors' = 0 /\ Head(exprs).do = "expr" =>
        \A i \in DOMAIN Kids(Head(exprs).node) : Scheduled(Kid(Head(exprs).node, i), none, <<>>)
  OBVIOUS
<1>3. errors' = 0 /\ Head(exprs).do = "expr" => Formed(Head(exprs).node)
  <2> SUFFICES ASSUME errors' = 0, Head(exprs).do = "expr"
               PROVE  Formed(Head(exprs).node)
    OBVIOUS
  <2>1. PICK n \in DOMAIN prog : n = Head(exprs).node /\ n \in ExprIds /\ DOMAIN Kids(n) = {}
    BY HeadFacts DEF Tasks
  <2>2. Type(n) # "BIN_OP"
    BY <2>1, HeadFacts, KidCounts
  <2>3. Type(n) # "DECL_STAT"
    BY <2>1 DEF ExprIds, ExprTypes, Type
  <2> QED BY <2>1, <2>2, <2>3 DEF Formed
<1> HIDE DEF none
<1> QED BY <1>1, <1>2, <1>3, CallCovers

\* semcheck_expr and semcheck_binop.
LEMMA ExpressionsCover ==
    ASSUME CoverInv,
           \/ CheckIntLit \/ CheckName \/ AssignConst \/ CheckOperands
           \/ FinishArith \/ FinishAssign \/ FinishCompare \/ CheckUse
    PROVE  Covered'
<1>0. IInv /\ Covered
  BY DEF CoverInv
<1>1. CASE CheckIntLit
  <2>1. /\ status = "checking" /\ exprs # <<>> /\ Head(exprs).do = "expr"
        /\ exprs' = Tail(exprs) /\ Type(Head(exprs).node) = "INT_LIT"
        /\ UNCHANGED <<prog, symbolOf, frames, errors, status>>
    BY <1>1 DEF CheckIntLit, AtExpr, Return
  <2>2. /\ DOMAIN Kids(Head(exprs).node) = {} /\ Type(Head(exprs).node) \notin HasSymbol
    BY <1>0, <2>1, HeadFacts, KidCounts DEF HasSymbol
  <2> QED BY <1>0, <2>1, <2>2, PopCovers
<1>2. CASE CheckName
  <2> DEFINE n == Head(exprs).node
             symbol == Find(prog[n].name)
  <2>1. /\ status = "checking" /\ exprs # <<>> /\ Head(exprs).do = "expr"
        /\ exprs' = Tail(exprs) /\ Type(n) \in {"VAR_REF", "FUNC_CALL"}
        /\ UNCHANGED <<prog, frames, status>>
    BY <1>2 DEF CheckName, AtExpr, Return
  <2>2. n \in DOMAIN prog /\ DOMAIN Kids(n) = {}
    BY <1>0, <2>1, HeadFacts, KidCounts
  <2>3. CASE symbol = NULL
    <3>1. errors' = errors + 1 /\ symbolOf' = symbolOf
      BY <1>2, <2>3 DEF CheckName
    <3>2. errors' # 0
      BY <1>0, <2>1, <3>1, HeadFacts
    <3> QED BY <1>0, <2>1, <3>1, <3>2, PopCovers
  <2>4. CASE symbol # NULL
    <3>1. symbolOf' = [symbolOf EXCEPT ![n] = symbol] /\ errors' = errors
      BY <1>2, <2>4 DEF CheckName
    <3>2. symbol \in Addr
      <4>1. scopes \in Seq(Seq(Addr))
        BY <1>0 DEF IInv, SymInv, SymTypeOK
      <4>2. PICK k \in DOMAIN scopes : \E i \in DOMAIN scopes[k] : symbol = scopes[k][i]
        BY <2>4, <4>1, FindProperties
      <4> QED BY <4>1, <4>2
    <3> HIDE DEF symbol
    <3>3. /\ symbolOf'[n] # NULL
          /\ \A m \in DOMAIN prog : symbolOf[m] # NULL => symbolOf'[m] # NULL
      BY <1>0, <2>2, <3>1, <3>2, SymbolsKept
    <3> QED BY <1>0, <2>1, <2>2, <3>1, <3>3, PopCovers
  <2> QED BY <2>3, <2>4
<1>3. CASE AssignConst
  <2>1. /\ status = "checking" /\ exprs # <<>> /\ Head(exprs).do = "expr"
        /\ exprs' = Tail(exprs) /\ errors' = errors + 1
        /\ UNCHANGED <<prog, symbolOf, frames, status>>
    BY <1>3 DEF AssignConst, AtExpr, Return
  <2>2. errors' # 0
    BY <1>0, <2>1, HeadFacts
  <2> QED BY <1>0, <2>1, <2>2, PopCovers
<1>4. CASE CheckOperands
  <2>1. PICK n \in DOMAIN prog :
          /\ n = Head(exprs).node /\ n \in ExprIds
          /\ status = "checking" /\ exprs # <<>> /\ Head(exprs).do = "expr"
          /\ Type(n) = "BIN_OP" /\ (prog[n].op = "ASSIGN" => ~IsConst(Kid(n, 1)))
          /\ exprs' = <<Task("expr", Kid(n, 1)), Task("expr", Kid(n, 2)), Task("binop", n)>>
                         \o Tail(exprs)
          /\ UNCHANGED <<prog, symbolOf, frames, errors, status>>
    BY <1>0, <1>4, HeadFacts DEF CheckOperands, AtExpr, Tasks
  <2>2. DOMAIN Kids(n) = {1, 2} /\ Kid(n, 1) \in ExprIds /\ Kid(n, 2) \in ExprIds
    BY <1>0, <2>1, HeadFacts, KidCounts, KidTypes
  <2>3. \A e \in ExprIds : /\ Task("expr", e) \in Tasks
                           /\ Task("expr", e).do = "expr" /\ Task("expr", e).node = e
    BY DEF Tasks, Task
  <2>4. PICK s \in Tasks, t \in Tasks, u \in Tasks :
          /\ s = Task("expr", Kid(n, 1)) /\ s.do = "expr" /\ s.node = Kid(n, 1)
          /\ t = Task("expr", Kid(n, 2)) /\ t.do = "expr" /\ t.node = Kid(n, 2)
          /\ u = Task("binop", n)
    <3>1. Task("binop", n) \in Tasks
      BY <2>1 DEF Tasks, Task
    <3> QED BY <2>2, <2>3, <3>1
  <2>5. PICK tasks \in Seq(Tasks) :
          /\ tasks = <<s, t, u>> /\ 1 \in DOMAIN tasks /\ 2 \in DOMAIN tasks
          /\ tasks[1] = s /\ tasks[2] = t
    <3>1. /\ <<s, t, u>> \in Seq(Tasks) /\ 1 \in DOMAIN <<s, t, u>>
          /\ 2 \in DOMAIN <<s, t, u>> /\ <<s, t, u>>[1] = s /\ <<s, t, u>>[2] = t
      OBVIOUS
    <3> QED BY <3>1, Zenon
  <2>6. \A i \in DOMAIN Kids(n) : Scheduled(Kid(n, i), tasks, <<>>)
    BY <2>2, <2>4, <2>5 DEF Scheduled
  <2>7. exprs' = tasks \o Tail(exprs) /\ Type(n) \notin HasSymbol
    BY <2>1, <2>4, <2>5 DEF HasSymbol
  <2>8. Formed(n)
    BY <2>1 DEF Formed, IsConst
  <2> QED BY <1>0, <2>1, <2>6, <2>7, <2>8, CallCovers
<1>5. CASE FinishArith \/ FinishAssign \/ FinishCompare
  <2>1. /\ status = "checking" /\ exprs # <<>> /\ Head(exprs).do = "binop"
        /\ exprs' = Tail(exprs)
        /\ UNCHANGED <<prog, symbolOf, frames, status>>
    BY <1>5 DEF FinishArith, FinishAssign, FinishCompare, AtResume, Return
  <2>2. PICK more \in Nat : errors' = errors + more
    BY <1>5, TypeErrorIsNat DEF FinishArith, FinishAssign, FinishCompare
  <2>3. errors' = 0 => errors = 0
    BY <1>0, <2>1, <2>2, HeadFacts
  <2> QED BY <1>0, <2>1, <2>3, PopCovers
<1>6. CASE CheckUse
  <2>1. /\ status = "checking" /\ exprs # <<>> /\ Head(exprs).do = "use"
        /\ exprs' = Tail(exprs)
        /\ UNCHANGED <<prog, symbolOf, frames, status>>
    BY <1>6 DEF CheckUse
  <2>2. PICK more \in Nat : errors' = errors + more
    BY <1>6, TypeErrorIsNat DEF CheckUse
  <2>3. errors' = 0 => errors = 0
    BY <1>0, <2>1, <2>2, HeadFacts
  <2> QED BY <1>0, <2>1, <2>3, PopCovers
<1> QED BY <1>1, <1>2, <1>3, <1>4, <1>5, <1>6

-----------------------------------------------------------------------------
(* Functions, declarations, and the end of the check. *)

\* The declaration waits for the body, which is to be checked next.
LEMMA EnterFunctionCovers ==
    ASSUME CoverInv, EnterFunction
    PROVE  Covered'
<1> DEFINE top == Len(frames)
           new == [decl |-> Stat, todo |-> <<Kid(Stat, 1)>>]
           rest == [decl |-> frames[top].decl, todo |-> Tail(Todo)]
           mid == [frames EXCEPT ![top] = rest]
<1>0. IInv /\ Covered
  BY DEF CoverInv
<1>1. /\ AtStat("DECL_STAT") /\ Kids(Stat) # <<>>
      /\ errors' = 0 => errors = 0 /\ Type(Kid(Stat, 1)) = "BLOCK_STAT"
      /\ frames' = Append(mid, new)
      /\ UNCHANGED <<prog, symbolOf, exprs, status>>
  BY <1>0, StatFacts DEF EnterFunction, Frame, Todo
<1>2. /\ status = "checking" /\ exprs = <<>> /\ Stat \in DOMAIN prog
      /\ DOMAIN Kids(Stat) = {1} /\ Todo # <<>>
  BY <1>0, <1>1, StatFacts, KidCounts
<1>3. /\ frames \in Seq(FrameType) /\ top \in DOMAIN frames
      /\ DOMAIN frames = 1 .. top /\ top \in Nat
  BY <1>0, <1>2, FrameFacts DEF IInv, StackDiscipline
<1>4. Todo \in Seq(StatIds) /\ Todo = frames[top].todo
  <2>1. frames[top] \in FrameType
    BY <1>3
  <2> QED BY <2>1 DEF FrameType, Todo
<1>5. /\ DOMAIN mid = DOMAIN frames
      /\ \A k \in DOMAIN frames : k # top => mid[k] = frames[k]
      /\ mid[top].decl = frames[top].decl /\ mid[top].todo = Tail(Todo)
  BY <1>3
<1>6. /\ DOMAIN frames' = DOMAIN frames \cup {top + 1} /\ top + 1 > 1
      /\ \A k \in DOMAIN frames : frames'[k] = mid[k]
      /\ frames'[top + 1].decl = Stat /\ frames'[top + 1].todo = <<Kid(Stat, 1)>>
  <2>1. mid \in Seq(FrameType) /\ Len(mid) = top
    <3>1. rest \in FrameType
      <4>1. Tail(Todo) \in Seq(StatIds)
        BY <1>2, <1>4, HeadTailProperties
      <4>2. frames[top] \in FrameType
        BY <1>3
      <4> QED BY <4>1, <4>2 DEF FrameType
    <3> HIDE DEF rest
    <3> QED BY <1>3, <3>1, ExceptSeq
  <2> HIDE DEF mid, new, top
  <2>2. /\ DOMAIN Append(mid, new) = 1 .. top + 1
        /\ \A k \in 1 .. top : Append(mid, new)[k] = mid[k]
        /\ Append(mid, new)[top + 1] = new
    BY <1>3, <2>1
  <2>3. 1 .. top + 1 = (1 .. top) \cup {top + 1} /\ top + 1 > 1
    <3>1. top >= 1
      BY <1>3
    <3> QED BY <1>3, <3>1
  <2>4. new.decl = Stat /\ new.todo = <<Kid(Stat, 1)>>
    BY DEF new
  <2> QED BY <1>1, <1>3, <2>2, <2>3, <2>4
<1> HIDE DEF mid, new, top
<1>7. Preorder(prog') /\ NothingWaits'
  BY <1>0, <1>1, <1>2 DEF Covered, NothingWaits
<1>8. ASSUME errors' = 0
      PROVE  (\E nodes : Visited(nodes))'
  <2>1. PICK nodes : Visited(nodes)
    BY <1>0, <1>1, <1>2, <1>8 DEF Covered
  <2>2. PICK stat \in DOMAIN prog : stat = Stat
    BY <1>2
  <2> DEFINE now == {stat}
  <2>3. ASSUME NEW m, Waiting(m), m # stat
        PROVE  Waiting(m)'
    <3>1. PICK k \in DOMAIN frames : \E i \in DOMAIN frames[k].todo : frames[k].todo[i] = m
      BY <1>2, <2>3 DEF Waiting
    <3>2. PICK i \in DOMAIN frames[k].todo : frames[k].todo[i] = m
      BY <3>1
    <3>3. CASE k # top
      BY <1>5, <1>6, <3>1, <3>2, <3>3 DEF Waiting
    <3>4. CASE k = top
      <4>1. PICK s \in Seq(StatIds) : s = Todo /\ s # <<>>
        BY <1>2, <1>4
      <4>2. /\ Len(s) \in Nat /\ DOMAIN s = 1 .. Len(s) /\ Head(s) = s[1]
            /\ DOMAIN Tail(s) = 1 .. Len(s) - 1
            /\ \A j \in 1 .. Len(s) - 1 : Tail(s)[j] = s[j + 1]
        BY <4>1, HeadTailProperties, LenProperties
      <4>3. i \in 1 .. Len(s) /\ s[i] = m /\ i # 1
        BY <1>4, <2>2, <2>3, <3>2, <3>4, <4>1, <4>2 DEF Stat
      <4>4. i - 1 \in DOMAIN Tail(s) /\ Tail(s)[i - 1] = m
        BY <4>2, <4>3
      <4>5. top \in DOMAIN frames' /\ frames'[top].todo = Tail(s)
        BY <1>3, <1>5, <1>6, <4>1
      <4> QED BY <4>4, <4>5 DEF Waiting
    <3> QED BY <3>3, <3>4
  <2>4. \A n \in now : \A i \in DOMAIN Kids(n) : \A m : Kid(n, i) = m => Waiting(m)'
    <3>1. \A m : Kid(stat, 1) = m => Waiting(m)'
      <4>1. top + 1 \in DOMAIN frames' /\ frames'[top + 1].todo = <<Kid(stat, 1)>>
        BY <1>6, <2>2
      <4>2. 1 \in DOMAIN <<Kid(stat, 1)>> /\ <<Kid(stat, 1)>>[1] = Kid(stat, 1)
        OBVIOUS
      <4> QED BY <4>1, <4>2 DEF Waiting
    <3> QED BY <1>2, <2>2, <3>1
  <2>5. Undeclared(stat)'
    BY <1>6, <2>2 DEF Undeclared
  <2>6. ASSUME NEW m, Undeclared(m)
        PROVE  Undeclared(m)'
    <3>1. PICK k \in DOMAIN frames : k > 1 /\ frames[k].decl = m
      BY <1>2, <2>6 DEF Undeclared
    <3>2. k \in DOMAIN frames' /\ frames'[k].decl = m
      BY <1>5, <1>6, <3>1
    <3> QED BY <3>1, <3>2 DEF Undeclared
  <2>9. Formed(stat)
    BY <1>0, <1>1, <1>8, <2>2, StatFacts DEF Formed
  <2>7. /\ now \subseteq DOMAIN prog /\ \A n \in now : Formed(n)
        /\ \A m : Waiting(m) => m \in now \/ Waiting(m)'
        /\ \A n \in now : Type(n) \in HasSymbol => symbolOf'[n] # NULL \/ Undeclared(n)'
    BY <2>3, <2>5, <2>9
  <2> HIDE DEF now
  <2>8. Visited(nodes \cup now)'
    BY <1>1, <2>1, <2>4, <2>6, <2>7, CoverStep
  <2> QED BY <2>8
<1> QED BY <1>7, <1>8 DEF Covered

\* The function whose body is done is declared next.
LEMMA LeaveFunctionCovers ==
    ASSUME CoverInv, LeaveFunction
    PROVE  Covered'
<1> DEFINE top == Len(frames)
<1>0. IInv /\ Covered
  BY DEF CoverInv
<1>1. /\ status = "checking" /\ exprs = <<>> /\ frames[top].todo = <<>> /\ top > 1
      /\ exprs' = <<Task("declare", frames[top].decl)>>
      /\ frames' = SubSeq(frames, 1, top - 1)
      /\ UNCHANGED <<prog, symbolOf, errors, status>>
  BY DEF LeaveFunction, Todo
<1>2. /\ frames \in Seq(FrameType) /\ frames # <<>> /\ top \in Nat /\ DOMAIN frames = 1 .. top
  BY <1>0, <1>1, FrameFacts
<1>3. /\ DOMAIN frames' = 1 .. top - 1
      /\ \A k \in 1 .. top - 1 : frames'[k] = frames[k]
  BY <1>1, <1>2, PopProperties, LenProperties
<1>4. 1 \in DOMAIN exprs' /\ exprs'[1].do = "declare" /\ exprs'[1].node = frames[top].decl
  BY <1>1 DEF Task
<1> HIDE DEF top
<1>5. \A k \in DOMAIN frames : k # top => k \in DOMAIN frames' /\ frames'[k] = frames[k]
  BY <1>2, <1>3
<1>6. Preorder(prog') /\ NothingWaits'
  BY <1>0, <1>1 DEF Covered, NothingWaits
<1>7. \A m : Waiting(m) => Waiting(m)'
  <2>1. SUFFICES ASSUME NEW m, Waiting(m)
                 PROVE  Waiting(m)'
    OBVIOUS
  <2>2. PICK k \in DOMAIN frames : \E i \in DOMAIN frames[k].todo : frames[k].todo[i] = m
    BY <1>1, <2>1 DEF Waiting
  <2>3. PICK i \in DOMAIN frames[k].todo : frames[k].todo[i] = m
    BY <2>2
  <2>4. k # top
    BY <1>1, <2>3
  <2> QED BY <1>5, <2>2, <2>3, <2>4 DEF Waiting
<1>8. ASSUME NEW m, Undeclared(m)
      PROVE  Undeclared(m)'
  <2>1. PICK k \in DOMAIN frames : k > 1 /\ frames[k].decl = m
    BY <1>1, <1>8 DEF Undeclared
  <2>2. CASE k = top
    BY <1>4, <2>1, <2>2 DEF Undeclared
  <2>3. CASE k # top
    BY <1>5, <2>1, <2>3 DEF Undeclared
  <2> QED BY <2>2, <2>3
<1>9. ASSUME errors' = 0
      PROVE  (\E nodes : Visited(nodes))'
  <2>1. PICK nodes : Visited(nodes)
    BY <1>0, <1>1, <1>9 DEF Covered
  <2>2. Visited(nodes \cup {})'
    BY <1>1, <1>7, <1>8, <2>1, CoverStep
  <2> QED BY <2>2
<1> QED BY <1>6, <1>9 DEF Covered

\* At the end nothing waits any more.
LEMMA FinishCovers ==
    ASSUME CoverInv, Finish
    PROVE  Covered'
<1>0. IInv /\ Covered
  BY DEF CoverInv
<1>1. /\ status = "checking" /\ exprs = <<>> /\ Len(frames) = 1
      /\ frames[Len(frames)].todo = <<>> /\ frames' = <<>>
      /\ UNCHANGED <<prog, symbolOf, exprs, errors>>
  BY DEF Finish, Todo
<1>2. DOMAIN frames = {1} /\ frames[1].todo = <<>>
  BY <1>0, <1>1, FrameFacts
<1>3. \A m : ~Waiting(m) /\ ~Undeclared(m)
  BY <1>1, <1>2 DEF Waiting, Undeclared
<1>4. Preorder(prog') /\ NothingWaits'
  BY <1>0, <1>1 DEF Covered, NothingWaits
<1>5. ASSUME errors' = 0
      PROVE  (\E nodes : Visited(nodes))'
  <2>1. PICK nodes : Visited(nodes)
    BY <1>0, <1>1, <1>5 DEF Covered
  <2>2. Visited(nodes \cup {})'
    BY <1>1, <1>3, <2>1, CoverStep
  <2> QED BY <2>2
<1> QED BY <1>4, <1>5 DEF Covered

\* A declaration gets its symbol.
LEMMA DeclareCovers ==
    ASSUME CoverInv, Declare
    PROVE  Covered'
<1>0. IInv /\ Covered
  BY DEF CoverInv
<1>1. /\ status = "checking" /\ exprs # <<>> /\ Head(exprs).do = "declare"
      /\ exprs' = Tail(exprs) /\ UNCHANGED <<prog, frames, errors>>
  BY DEF Declare
<1>2. PICK n \in DOMAIN prog : n = Head(exprs).node
  BY <1>0, <1>1, HeadFacts
<1>3. InsertAllowed(prog[n].name)
  BY <1>0, <1>1, <1>2, DeclareAllowed
<1>4. PICK a \in Addr : symbolOf' = [symbolOf EXCEPT ![n] = a] /\ status' = status
  BY <1>2, <1>3 DEF Declare
<1>5. /\ symbolOf'[n] # NULL
      /\ \A m \in DOMAIN prog : symbolOf[m] # NULL => symbolOf'[m] # NULL
  BY <1>0, <1>4, SymbolsKept
<1> QED BY <1>0, <1>1, <1>2, <1>4, <1>5, PopCovers

-----------------------------------------------------------------------------
(* The theorem. *)

\* At the start nothing has been checked, and the program's block waits.
LEMMA CalledCovers ==
    ASSUME Called
    PROVE  CoverInv
<1>1. Preorder(prog) /\ NothingWaits
  BY DEF Called, SemInit, NothingWaits
<1>2. Waiting(1)
  <2>1. 1 \in DOMAIN frames /\ frames[1].todo = <<1>>
    BY DEF Called, SemInit, Frame
  <2>2. 1 \in DOMAIN <<1>> /\ <<1>>[1] = 1
    OBVIOUS
  <2> QED BY <2>1, <2>2 DEF Waiting
<1>3. Visited({})
  BY <1>2 DEF Visited
<1> QED BY <1>1, <1>3, CalledIInv DEF CoverInv, Covered

\* Every step leaves out no node.
LEMMA NextCovers == CoverInv /\ [Next]_semVars => Covered'
<1> SUFFICES ASSUME CoverInv, [Next]_semVars
             PROVE  Covered'
  OBVIOUS
<1>1. CASE \/ CheckReturn \/ CheckIf \/ CheckWhile \/ CheckFor \/ CheckBlock
           \/ CheckExprStat \/ CheckSkip \/ Redeclare \/ CheckVarDecl
  BY <1>1, StatementsCover
<1>2. CASE \/ CheckIntLit \/ CheckName \/ AssignConst \/ CheckOperands
           \/ FinishArith \/ FinishAssign \/ FinishCompare \/ CheckUse
  BY <1>2, ExpressionsCover
<1>3. CASE EnterFunction
  BY <1>3, EnterFunctionCovers
<1>4. CASE LeaveFunction
  BY <1>4, LeaveFunctionCovers
<1>5. CASE Finish
  BY <1>5, FinishCovers
<1>6. CASE Declare
  BY <1>6, DeclareCovers
<1>7. CASE PrototypeCrash
  BY <1>7 DEF CoverInv, Covered, NothingWaits, PrototypeCrash
<1>8. CASE UNCHANGED semVars
  <2>1. /\ UNCHANGED <<prog, symbolOf, frames, exprs, errors, status>>
        /\ Covered
    BY <1>8 DEF semVars, CoverInv
  <2>2. ASSUME NEW nodes, Visited(nodes)
        PROVE  Visited(nodes)'
    <3>1. \A m : (Waiting(m) => Waiting(m)') /\ (Undeclared(m) => Undeclared(m)')
      BY <2>1 DEF Waiting, Undeclared
    <3>2. Visited(nodes \cup {})'
      BY <2>1, <2>2, <3>1, CoverStep
    <3>3. nodes \cup {} = nodes
      OBVIOUS
    <3> QED BY <3>2, <3>3
  <2> QED BY <2>1, <2>2 DEF Covered, NothingWaits
<1> QED BY <1>1, <1>2, <1>3, <1>4, <1>5, <1>6, <1>7, <1>8 DEF Next, Check, Stopped

\* When the check is over every node has been checked: the first that was not would
\* have a parent that was.
LEMMA NothingLeftOut ==
    ASSUME CoverInv, status = "done", errors = 0
    PROVE  \A n \in DOMAIN prog :
              Formed(n) /\ (Type(n) \in HasSymbol => symbolOf[n] # NULL)
<1>1. frames = <<>> /\ exprs = <<>> /\ WellFormed(prog) /\ Preorder(prog)
  BY DEF CoverInv, Covered, NothingWaits, IInv, TypeOK
<1>2. \A m : ~Waiting(m) /\ ~Undeclared(m)
  BY <1>1 DEF Waiting, Undeclared
<1>3. PICK nodes : Visited(nodes)
  BY DEF CoverInv, Covered
<1>4. Preorder(prog)
  BY <1>1
<1> DEFINE left == DOMAIN prog \ nodes
<1>5. left = {}
  <2> SUFFICES ASSUME left # {}
               PROVE  FALSE
    OBVIOUS
  <2>1. left \in SUBSET Nat
    BY <1>1, LenProperties DEF WellFormed
  <2>2. PICK n \in left : \A m \in left : n <= m
    <3> HIDE DEF left
    <3> QED BY <2>1, MinProperties
  <2>3. n \in DOMAIN prog \ {1}
    BY <1>2, <1>3 DEF Visited
  <2>4. PICK m \in DOMAIN prog : \E i \in DOMAIN prog[m].kids : prog[m].kids[i] = n
    BY <1>1, <1>4, <2>3, ParentKnown
  <2>5. PICK i \in DOMAIN prog[m].kids : prog[m].kids[i] = n
    BY <2>4
  <2>6. m < n
    BY <1>1, <2>5 DEF WellFormed
  <2>7. m \in nodes
    <3>1. m \in Nat /\ n \in Nat
      BY <1>1, <2>1, LenProperties DEF WellFormed
    <3>2. m \notin left
      BY <2>2, <2>6, <3>1
    <3> QED BY <3>2
  <2>8. n \in nodes
    BY <1>2, <1>3, <2>5, <2>7 DEF Visited, Kids, Kid
  <2> QED BY <2>8
<1>6. \A n \in DOMAIN prog : n \in nodes
  BY <1>5
<1> QED BY <1>2, <1>3, <1>6 DEF Visited

\* What generate_statement and generate_var_ref assert: after a check without
\* errors, every declaration and every name has a symbol.
THEOREM EveryNodeResolved == Spec => []AllResolved
<1>1. Init => CoverInv
  BY InitCalled, CalledCovers
<1>2. CoverInv /\ [Next]_semVars => CoverInv'
  BY NextIInv, NextCovers DEF CoverInv
<1>3. CoverInv => AllResolved
  BY NothingLeftOut DEF AllResolved, HasSymbol
<1> QED BY <1>1, <1>2, <1>3, PTL DEF Spec

-----------------------------------------------------------------------------
(* The invariant of the verdict. *)

\* The function declarations of the program.
Funs == {f \in DeclIds : prog[f].is_func}

\* The functions that node n stands in.
Encl(n) == {f \in Funs : f < n /\ n <= LastOf(prog)[f]}

\* What the k-th open scope belongs to: the program, or a function.
Owner(k)  == IF k = 1 THEN 1 ELSE frames[k].decl
Owners(k) == {frames[j].decl : j \in 2 .. k}

\* Where the statements of the k-th frame go on; where the check is.
After(k) == IF frames[k].todo # <<>> THEN Head(frames[k].todo) ELSE LastOf(prog)[Owner(k)] + 1
Pos      == After(Len(frames))

\* The declarations that are behind, but for those that wait to be declared.
Declared == {d \in DeclIds : LastOf(prog)[d] < Pos /\ ~Undeclared(d)}

\* What the rules say of the name of a node: it is visible there.
Known(n) == Declarations(prog, prog[n].name, n) # {}

\* The statements to do follow each other up to the end of the scope.
TodoInv ==
    \A k \in DOMAIN frames :
        LET todo == frames[k].todo
        IN  /\ \A i \in DOMAIN todo :
                  /\ Encl(todo[i]) = Owners(k)
                  /\ LastOf(prog)[todo[i]] + 1 = IF i + 1 \in DOMAIN todo THEN todo[i + 1]
                                                 ELSE LastOf(prog)[Owner(k)] + 1
            /\ k + 1 \in DOMAIN frames => After(k) = LastOf(prog)[frames[k + 1].decl] + 1

\* The functions of the open scopes stand in each other.
OwnersInv ==
    \A k \in DOMAIN frames : k > 1 =>
        /\ frames[k].decl \in Funs
        /\ Encl(frames[k].decl) = Owners(k - 1)
        /\ ~Known(frames[k].decl)

\* A scope holds the names declared in it so far.
Holds(k, name) == \E i \in DOMAIN scopes[k] : symbols[scopes[k][i]].name = name

\* What a scope holds are the declarations that are behind and belong to it.
TableInv ==
    \A k \in DOMAIN frames : \A name \in Names :
        Holds(k, name) <=> \E d \in Declared : ScopeOf(prog, d) = Owner(k) /\ prog[d].name = name

\* At node n, in the innermost open scope, the same declarations are behind.
Here(n) ==
    /\ Encl(n) = Owners(Len(frames))
    /\ \A d \in DeclIds : LastOf(prog)[d] < n <=> d \in Declared

\* The calls pending stand where the statement does; a declaration that waits is not
\* visible yet.
ExprsInv ==
    \A i \in DOMAIN exprs :
        LET n == exprs[i].node
        IN  /\ exprs[i].do = "expr" => Here(n)
            /\ exprs[i].do = "declare" =>
                  /\ Encl(n) = Owners(Len(frames))
                  /\ LastOf(prog)[n] + 1 = Pos
                  /\ ~Known(n)

\* The call for an operand comes before the i-th.
IsPending(n, i) ==
    \E j \in DOMAIN exprs : j < i /\ exprs[j].node = n /\ exprs[j].do \in {"expr", "binop"}

\* A result is there when it is asked for.
ResultsInv ==
    \A i \in DOMAIN exprs :
        LET n == exprs[i].node
        IN  /\ exprs[i].do = "use" => IsPending(n, i) \/ result[n] = "INT_DT"
            /\ exprs[i].do = "binop" =>
                  \A c \in {1, 2} : IsPending(Kid(n, c), i) \/ result[Kid(n, c)] = "INT_DT"

\* What has got its symbol keeps the rules, and every symbol is an int.
SymbolsInv ==
    /\ \A n \in DOMAIN prog : symbolOf[n] # NULL =>
          /\ Type(n) = "DECL_STAT" => ~Known(n)
          /\ Type(n) \in {"VAR_REF", "FUNC_CALL"} => Known(n)
    /\ \A a \in Addr : symbols[a] # Blank => symbols[a].datatype = "INT_DT"

\* What holds while the check goes on without an error.
View == TodoInv /\ OwnersInv /\ TableInv /\ ExprsInv /\ ResultsInv

\* The inductive invariant, with CoverInv.
VerdictInv ==
    /\ errors # 0 => ~WellScoped(prog)
    /\ errors = 0 => SymbolsInv
    /\ (errors = 0 /\ status = "checking") => View

\* The states in which the check goes on without an error.
Sound == CoverInv /\ status = "checking" /\ View

-----------------------------------------------------------------------------
(* The tree and the stack. *)

\* What the assumptions on the programs give: the places of nodes and of subtrees.
LEMMA ProgFacts ==
    ASSUME CoverInv
    PROVE  /\ WellFormed(prog) /\ Preorder(prog)
           /\ Len(prog) \in Nat \ {0} /\ DOMAIN prog = 1 .. Len(prog)
           /\ \A n \in DOMAIN prog : /\ n \in Nat /\ n >= 1 /\ LastOf(prog)[n] \in Nat
                                     /\ n <= LastOf(prog)[n] /\ LastOf(prog)[n] <= Len(prog)
           /\ LastOf(prog)[1] = Len(prog)
           /\ DeclIds \subseteq DOMAIN prog /\ Funs \subseteq DeclIds /\ 1 \notin DeclIds
<1>1. WellFormed(prog) /\ Preorder(prog)
  BY DEF CoverInv, Covered, IInv, TypeOK
<1>2. /\ Len(prog) \in Nat \ {0} /\ DOMAIN prog = 1 .. Len(prog) /\ prog[1].type = "BLOCK_STAT"
      /\ \A n \in DOMAIN prog : LastOf(prog)[n] \in n .. Len(prog)
  BY <1>1, TreeFacts, LastBounds
<1>3. \A n \in DOMAIN prog : /\ n \in Nat /\ n >= 1 /\ LastOf(prog)[n] \in Nat
                             /\ n <= LastOf(prog)[n] /\ LastOf(prog)[n] <= Len(prog)
  BY <1>2
<1>4. LastOf(prog)[1] = Len(prog)
  BY <1>1 DEF Preorder
<1>5. DeclIds \subseteq DOMAIN prog /\ Funs \subseteq DeclIds /\ 1 \notin DeclIds
  BY <1>2 DEF DeclIds, Funs
<1> QED BY <1>1, <1>2, <1>3, <1>4, <1>5

\* The scope of a declaration is the innermost function it stands in.
LEMMA ScopeOfDecl ==
    ASSUME CoverInv, NEW d \in DOMAIN prog
    PROVE  /\ ScopeOf(prog, d) \in {1} \cup Encl(d)
           /\ \A f \in Encl(d) : f <= ScopeOf(prog, d)
<1> DEFINE S == {1} \cup Encl(d)
<1>1. S \in SUBSET (1 .. Len(prog)) /\ S # {} /\ Len(prog) \in Nat
  BY ProgFacts DEF Encl
<1>2. ScopeOf(prog, d) = Max(S)
  <2>1. Encl(d) = {f \in DOMAIN prog : /\ prog[f].type = "DECL_STAT" /\ prog[f].is_func
                                       /\ f < d /\ d <= LastOf(prog)[f]}
    BY DEF Encl, Funs, DeclIds
  <2> QED BY <2>1 DEF ScopeOf
<1> HIDE DEF S
<1>3. Max(S) \in S /\ \A i \in S : Max(S) >= i
  BY <1>1, MaxProperties
<1>4. Max(S) \in Nat /\ \A i \in S : i \in Nat
  <2>1. \A i \in S : i \in Nat
    BY <1>1
  <2> QED BY <1>3, <2>1
<1>5. \A f \in Encl(d) : f \in S
  BY DEF S
<1> QED BY <1>2, <1>3, <1>4, <1>5 DEF S

\* symtable_find finds what some scope holds.
LEMMA FindMeans ==
    ASSUME CoverInv, NEW name
    PROVE  Find(name) # NULL <=> \E k \in DOMAIN frames : Holds(k, name)
<1>1. /\ scopes \in Seq(Seq(Addr)) /\ DOMAIN frames = DOMAIN scopes
      /\ DOMAIN scopes = 1 .. Len(scopes)
  BY FrameFacts DEF CoverInv
<1>2. Find(name) = NULL <=> AbsentIn(name, Len(scopes))
  BY <1>1, FindProperties
<1>3. AbsentIn(name, Len(scopes)) <=> \A k \in DOMAIN scopes : ~Holds(k, name)
  BY <1>1 DEF AbsentIn, Holds
<1> QED BY <1>1, <1>2, <1>3

\* The outermost frame is the program's; the others are functions'.
LEMMA OwnerFacts ==
    ASSUME CoverInv, OwnersInv, NEW k \in DOMAIN frames
    PROVE  /\ Owner(k) \in DOMAIN prog
           /\ k # 1 => Owner(k) \in Funs /\ Owner(k) \in Owners(k) /\ Owner(k) > 1
           /\ \A j \in DOMAIN frames : j < k => Owner(j) < Owner(k)
           /\ \A f \in Owners(k) : /\ f <= Owner(k)
                                   /\ \E j \in DOMAIN frames : j # 1 /\ j <= k /\ f = Owner(j)
<1>1. /\ DOMAIN frames = 1 .. Len(frames) /\ Len(frames) \in Nat /\ 1 \in DOMAIN prog
      /\ \A n \in DOMAIN prog : n \in Nat /\ n >= 1
      /\ Funs \subseteq DOMAIN prog /\ 1 \notin Funs
  BY ProgFacts, FrameFacts DEF CoverInv
<1>2. ASSUME NEW m \in DOMAIN frames, m # 1
      PROVE  /\ Owner(m) = frames[m].decl /\ Owner(m) \in Funs /\ Owner(m) \in DOMAIN prog
             /\ Owner(m) > 1 /\ Owner(m) \in Owners(m)
             /\ \A j \in DOMAIN frames : j # 1 /\ j < m => Owner(j) < Owner(m)
  <2>1. m > 1 /\ m \in 2 .. m
    BY <1>1, <1>2
  <2>2. Owner(m) = frames[m].decl /\ Owner(m) \in Funs /\ Encl(Owner(m)) = Owners(m - 1)
    BY <1>2, <2>1 DEF OwnersInv, Owner
  <2>3. Owner(m) \in DOMAIN prog /\ Owner(m) > 1
    <3>1. PICK n \in DOMAIN prog : n = Owner(m) /\ n # 1
      BY <1>1, <2>2
    <3> QED BY <1>1, <3>1
  <2>4. Owner(m) \in Owners(m)
    BY <2>1, <2>2 DEF Owners
  <2>5. ASSUME NEW j \in DOMAIN frames, j # 1, j < m
        PROVE  Owner(j) < Owner(m)
    <3>1. j \in 2 .. m - 1
      BY <1>1, <2>5
    <3>2. Owner(j) = frames[j].decl
      BY <2>5 DEF Owner
    <3>3. Owner(j) \in Encl(Owner(m))
      BY <2>2, <3>1, <3>2 DEF Owners
    <3> QED BY <3>3 DEF Encl
  <2> QED BY <2>2, <2>3, <2>4, <2>5
<1>3. Owner(1) = 1
  BY DEF Owner
<1>4. Owner(k) \in DOMAIN prog
  BY <1>1, <1>2, <1>3
<1>5. \A j \in DOMAIN frames : j < k => Owner(j) < Owner(k)
  BY <1>1, <1>2, <1>3
<1>6. ASSUME NEW f \in Owners(k)
      PROVE  /\ f <= Owner(k)
             /\ \E j \in DOMAIN frames : j # 1 /\ j <= k /\ f = Owner(j)
  <2>1. PICK j \in 2 .. k : f = frames[j].decl
    BY DEF Owners
  <2>2. j \in DOMAIN frames /\ j # 1 /\ j <= k /\ f = Owner(j)
    BY <1>1, <2>1 DEF Owner
  <2>3. j = k \/ j < k
    BY <1>1, <2>2
  <2>4. Owner(j) \in Nat /\ Owner(k) \in Nat
    BY <1>1, <1>2, <1>4, <2>2
  <2> QED BY <1>5, <2>2, <2>3, <2>4
<1> QED BY <1>2, <1>4, <1>5, <1>6

\* The scope of a declaration is open as long as the check is inside of it.
LEMMA OpenScopeOf ==
    ASSUME Sound, NEW n \in DOMAIN prog, Encl(n) = Owners(Len(frames)),
           NEW d \in DOMAIN prog, d < n, n <= LastOf(prog)[ScopeOf(prog, d)]
    PROVE  \E k \in DOMAIN frames : ScopeOf(prog, d) = Owner(k)
<1>1. /\ DOMAIN frames = 1 .. Len(frames) /\ Len(frames) \in Nat /\ 1 \in DOMAIN frames
      /\ \A m \in DOMAIN prog : m \in Nat
      /\ Funs \subseteq DOMAIN prog
  <2>1. frames \in Seq(FrameType) /\ frames # <<>> /\ CoverInv
    BY FrameFacts DEF Sound, CoverInv, IInv, StackDiscipline
  <2>2. Len(frames) \in Nat \ {0} /\ DOMAIN frames = 1 .. Len(frames)
    BY <2>1, EmptySeq, LenProperties
  <2> QED BY <2>1, <2>2, ProgFacts
<1>2. ScopeOf(prog, d) \in {1} \cup Encl(d)
  BY ScopeOfDecl DEF Sound
<1>3. CASE ScopeOf(prog, d) = 1
  BY <1>1, <1>3 DEF Owner
<1>4. CASE ScopeOf(prog, d) \in Encl(d)
  <2>1. PICK f \in Funs : f = ScopeOf(prog, d) /\ f < d
    BY <1>4 DEF Encl
  <2>2. f < n /\ n <= LastOf(prog)[f]
    BY <1>1, <2>1
  <2>3. f \in Owners(Len(frames))
    BY <2>1, <2>2 DEF Encl
  <2>4. PICK j \in 2 .. Len(frames) : f = frames[j].decl
    BY <2>3 DEF Owners
  <2>5. j \in DOMAIN frames /\ Owner(j) = f
    BY <1>1, <2>4 DEF Owner
  <2> QED BY <2>1, <2>5
<1> QED BY <1>2, <1>3, <1>4

\* What a lookup at n finds is what the rules say is visible there.
LEMMA LookupRight ==
    ASSUME Sound, NEW n \in DOMAIN prog, Here(n), prog[n].name \in Names
    PROVE  Find(prog[n].name) # NULL <=> Known(n)
<1> DEFINE top == Len(frames)
           name == prog[n].name
<1>0. /\ CoverInv /\ IInv /\ status = "checking"
      /\ TodoInv /\ OwnersInv /\ TableInv /\ ExprsInv /\ ResultsInv
  BY DEF Sound, CoverInv, View
<1>1. /\ DOMAIN frames = 1 .. top /\ top \in Nat /\ 1 \in DOMAIN frames
      /\ \A m \in DOMAIN prog : /\ m \in Nat /\ LastOf(prog)[m] \in Nat
                                /\ m <= LastOf(prog)[m] /\ LastOf(prog)[m] <= Len(prog)
      /\ Len(prog) \in Nat /\ LastOf(prog)[1] = Len(prog)
      /\ DeclIds \subseteq DOMAIN prog /\ Funs \subseteq DeclIds
  <2>1. frames \in Seq(FrameType) /\ frames # <<>>
    BY <1>0, FrameFacts DEF IInv, StackDiscipline
  <2>2. Len(frames) \in Nat \ {0} /\ DOMAIN frames = 1 .. Len(frames)
    BY <2>1, EmptySeq, LenProperties
  <2> QED BY <1>0, <2>2, ProgFacts
<1>2. /\ Encl(n) = Owners(top)
      /\ \A d \in DeclIds : LastOf(prog)[d] < n <=> d \in Declared
      /\ Declared \subseteq DeclIds
  BY DEF Here, Declared
<1>3. Find(name) # NULL <=> \E k \in DOMAIN frames : \E d \in Declared :
                               ScopeOf(prog, d) = Owner(k) /\ prog[d].name = name
  <2>1. Find(name) # NULL <=> \E k \in DOMAIN frames : Holds(k, name)
    BY <1>0, FindMeans
  <2> QED BY <1>0, <2>1 DEF TableInv
<1>4. Known(n) <=> \E d \in DeclIds : /\ prog[d].name = name /\ LastOf(prog)[d] < n
                                      /\ n <= LastOf(prog)[ScopeOf(prog, d)]
  BY <1>1 DEF Known, Declarations, VisibleAt, DeclIds
<1>5. ASSUME NEW k \in DOMAIN frames, NEW d \in Declared, ScopeOf(prog, d) = Owner(k)
      PROVE  n <= LastOf(prog)[ScopeOf(prog, d)]
  <2>1. CASE k = 1
    <3>1. Owner(k) = 1
      BY <2>1 DEF Owner
    <3> QED BY <1>1, <1>5, <3>1
  <2>2. CASE k # 1
    <3>1. Owner(k) \in Owners(top)
      <4>1. k \in 2 .. top
        BY <1>1, <2>2
      <4> QED BY <2>2, <4>1 DEF Owner, Owners
    <3> QED BY <1>2, <1>5, <3>1 DEF Encl
  <2> QED BY <2>1, <2>2
<1>6. ASSUME NEW d \in DeclIds, LastOf(prog)[d] < n, n <= LastOf(prog)[ScopeOf(prog, d)]
      PROVE  \E k \in DOMAIN frames : ScopeOf(prog, d) = Owner(k)
  <2>1. d \in DOMAIN prog /\ d < n
    BY <1>1, <1>6
  <2> QED BY <1>2, <1>6, <2>1, OpenScopeOf
<1> QED BY <1>2, <1>3, <1>4, <1>5, <1>6

-----------------------------------------------------------------------------
(* The statements. *)

\* The parts of the invariant, and the stacks of frames and scopes.
LEMMA SoundFacts ==
    ASSUME Sound
    PROVE  /\ CoverInv /\ IInv /\ Covered /\ status = "checking"
           /\ TodoInv /\ OwnersInv /\ TableInv /\ ExprsInv /\ ResultsInv
           /\ frames \in Seq(FrameType) /\ scopes \in Seq(Seq(Addr)) /\ exprs \in Seq(Tasks)
           /\ Len(frames) \in Nat \ {0} /\ DOMAIN frames = 1 .. Len(frames)
           /\ DOMAIN scopes = DOMAIN frames /\ Len(scopes) = Len(frames)
<1>1. /\ CoverInv /\ IInv /\ Covered /\ status = "checking"
      /\ TodoInv /\ OwnersInv /\ TableInv /\ ExprsInv /\ ResultsInv
  BY DEF Sound, CoverInv, View
<1>2. frames \in Seq(FrameType) /\ frames # <<>> /\ exprs \in Seq(Tasks)
  BY <1>1, FrameFacts DEF IInv, StackDiscipline, TypeOK
<1>3. Len(frames) \in Nat \ {0} /\ DOMAIN frames = 1 .. Len(frames)
  BY <1>2, EmptySeq, LenProperties
<1> QED BY <1>1, <1>2, <1>3, FrameFacts

\* What depends on the tree only.
LEMMA SameTree ==
    ASSUME prog' = prog
    PROVE  /\ Funs' = Funs /\ DeclIds' = DeclIds
           /\ \A n : /\ Encl(n)' = Encl(n) /\ Known(n)' = Known(n) /\ Type(n)' = Type(n)
                     /\ Kids(n)' = Kids(n)
           /\ \A n, c : Kid(n, c)' = Kid(n, c)
BY DEF Funs, DeclIds, Encl, Known, Type, Kids, Kid

\* At a statement, what is behind is declared.
LEMMA AtStatement ==
    ASSUME Sound, exprs = <<>>, Todo # <<>>
    PROVE  /\ Stat \in StatIds /\ Stat \in DOMAIN prog /\ Todo \in Seq(StatIds)
           /\ Todo = frames[Len(frames)].todo
           /\ Pos = Stat /\ Here(Stat)
           /\ LastOf(prog)[Stat] + 1 = IF 2 \in DOMAIN Todo THEN Todo[2]
                                       ELSE LastOf(prog)[Owner(Len(frames))] + 1
<1> DEFINE top == Len(frames)
<1>1. /\ IInv /\ status = "checking" /\ CoverInv /\ TodoInv
      /\ top \in Nat \ {0} /\ DOMAIN frames = 1 .. top /\ top \in DOMAIN frames
      /\ frames[top] \in FrameType
  BY SoundFacts
<1>2. Stat \in StatIds /\ Stat \in DOMAIN prog
  BY <1>1, StatKinds DEF StatIds
<1>3. Todo = frames[top].todo /\ Todo \in Seq(StatIds)
  BY <1>1 DEF Todo, FrameType
<1>4. 1 \in DOMAIN Todo /\ Stat = Todo[1]
  BY <1>3, ReplaceHead DEF Stat
<1>5. Pos = Stat
  BY <1>3 DEF Pos, After, Stat
<1>6. /\ Encl(Stat) = Owners(top)
      /\ LastOf(prog)[Stat] + 1 = IF 2 \in DOMAIN Todo THEN Todo[2]
                                  ELSE LastOf(prog)[Owner(top)] + 1
  BY <1>1, <1>3, <1>4 DEF TodoInv
<1>7. ASSUME NEW d \in DeclIds, LastOf(prog)[d] < Stat
      PROVE  ~Undeclared(d)
  <2>1. SUFFICES ASSUME NEW k \in DOMAIN frames, k > 1, frames[k].decl = d
                 PROVE  FALSE
    BY DEF Undeclared
  <2>2. k \in 2 .. top
    BY <1>1, <2>1
  <2>3. d \in Encl(Stat)
    BY <1>6, <2>1, <2>2 DEF Owners
  <2>4. LastOf(prog)[d] \in Nat /\ Stat \in Nat /\ Stat <= LastOf(prog)[d]
    BY <1>1, <1>2, <2>3, ProgFacts DEF Encl
  <2> QED BY <1>7, <2>4
<1>8. Here(Stat)
  BY <1>5, <1>6, <1>7 DEF Here, Declared
<1> QED BY <1>2, <1>3, <1>5, <1>6, <1>8

\* A statement that makes these calls on its children, the expressions before the
\* j-th, and is followed by the others, which are statements.
LeadsTo(tasks, stats, j) ==
    /\ exprs = <<>> /\ Todo # <<>> /\ j \in Nat \ {0}
    /\ tasks \in Seq(Tasks) /\ stats \in Seq(StatIds) /\ Schedule(tasks, stats)
    /\ \A i \in DOMAIN Kids(Stat) : i < j => Kid(Stat, i) \in ExprIds
    /\ j + Len(stats) = Len(Kids(Stat)) + 1
    /\ \A i \in DOMAIN stats : stats[i] = Kid(Stat, i + j - 1)
    /\ \A i \in DOMAIN tasks :
          \/ /\ tasks[i].do \in {"expr", "use"}
             /\ \E c \in DOMAIN Kids(Stat) : c < j /\ tasks[i].node = Kid(Stat, c)
          \/ /\ tasks[i].do = "declare" /\ tasks[i].node = Stat /\ stats = <<>>
    /\ \A i \in DOMAIN tasks : tasks[i].do = "use" =>
          \E h \in DOMAIN tasks : /\ h < i /\ tasks[h].do = "expr"
                                  /\ tasks[h].node = tasks[i].node
    /\ Type(Stat) = "DECL_STAT" =>
          /\ ~prog[Stat].is_func /\ ~Known(Stat)
          /\ \E i \in DOMAIN tasks : tasks[i].do = "declare" /\ tasks[i].node = Stat
    /\ UNCHANGED <<scopes, symbols, prog, result, status>>

\* The other frames stay as they are.
LEMMA LeadsToFrames ==
    ASSUME Sound, NEW tasks, NEW stats, NEW j, LeadsTo(tasks, stats, j)
    PROVE  LET more == stats \o Tail(Todo)
               top  == Len(frames)
           IN  /\ DOMAIN frames' = DOMAIN frames /\ Len(frames') = top
               /\ \A k \in DOMAIN frames : /\ frames'[k].decl = frames[k].decl
                                           /\ k # top => frames'[k] = frames[k]
                                           /\ Owner(k)' = Owner(k) /\ Owners(k)' = Owners(k)
               /\ frames'[top].todo = more /\ more \in Seq(StatIds)
               /\ Len(more) = Len(stats) + Len(Todo) - 1 /\ DOMAIN more = 1 .. Len(more)
               /\ Len(stats) \in Nat /\ DOMAIN stats = 1 .. Len(stats)
               /\ Len(Todo) \in Nat \ {0} /\ DOMAIN Todo = 1 .. Len(Todo)
               /\ \A i \in DOMAIN more :
                     more[i] = IF i <= Len(stats) THEN stats[i] ELSE Todo[i - Len(stats) + 1]
               /\ more # <<>> => 1 \in DOMAIN more /\ Head(more) = more[1]
               /\ more = <<>> <=> Len(more) = 0
<1> DEFINE top == Len(frames)
           more == stats \o Tail(Todo)
           new == [decl |-> frames[top].decl, todo |-> more]
<1>1. exprs' = tasks /\ frames' = [frames EXCEPT ![top] = new]
      /\ stats \in Seq(StatIds) /\ exprs = <<>> /\ Todo # <<>>
  BY DEF LeadsTo, Schedule, Todo, Frame
<1>2. /\ frames \in Seq(FrameType) /\ top \in DOMAIN frames /\ Todo \in Seq(StatIds)
      /\ DOMAIN frames = 1 .. top /\ top \in Nat
  BY <1>1, SoundFacts, AtStatement
<1>3. PICK rest \in Seq(StatIds), u \in {more} :
        rest = Todo /\ rest # <<>> /\ u = stats \o Tail(rest)
  BY <1>1, <1>2
<1>4. /\ u \in Seq(StatIds) /\ Len(u) = Len(stats) + Len(rest) - 1
      /\ DOMAIN u = 1 .. Len(u) /\ DOMAIN rest = 1 .. Len(rest)
      /\ Len(stats) \in Nat /\ DOMAIN stats = 1 .. Len(stats)
      /\ \A i \in DOMAIN u : \/ i \in DOMAIN stats /\ u[i] = stats[i]
                             \/ /\ i > Len(stats) /\ i - Len(stats) + 1 \in DOMAIN rest
                                /\ u[i] = rest[i - Len(stats) + 1]
  <2>1. HeadReplaced(u, rest, stats)
    BY <1>1, <1>3, HeadIsReplaced
  <2>2. u \in Seq(StatIds)
    BY <1>1, <1>3, ReplaceHead
  <2> QED BY <2>1, <2>2, Zenon DEF HeadReplaced
<1>5. Len(rest) \in Nat \ {0}
  BY <1>3, EmptySeq, LenProperties
<1>6. \A i \in DOMAIN u :
        u[i] = IF i <= Len(stats) THEN stats[i] ELSE rest[i - Len(stats) + 1]
  BY <1>4
<1>7. (u # <<>> => 1 \in DOMAIN u /\ Head(u) = u[1]) /\ (u = <<>> <=> Len(u) = 0)
  BY <1>4, EmptySeq, LenProperties
<1>8. /\ DOMAIN frames' = DOMAIN frames
      /\ \A k \in DOMAIN frames : frames'[k].decl = frames[k].decl
      /\ \A k \in DOMAIN frames : k # top => frames'[k] = frames[k]
      /\ frames'[top].todo = u
  BY <1>1, <1>2, <1>3
<1>9. Len(frames') = top
  <2>1. new \in FrameType
    <3>1. frames[top] \in FrameType /\ more \in Seq(StatIds)
      BY <1>2, <1>3, <1>4
    <3> QED BY <3>1 DEF FrameType
  <2> HIDE DEF new
  <2> QED BY <1>1, <1>2, <2>1, ExceptSeq
<1>10. \A k \in DOMAIN frames : Owner(k)' = Owner(k) /\ Owners(k)' = Owners(k)
  <2> SUFFICES ASSUME NEW k \in DOMAIN frames
               PROVE  Owner(k)' = Owner(k) /\ Owners(k)' = Owners(k)
    OBVIOUS
  <2>1. \A i \in 2 .. k : i \in DOMAIN frames
    BY <1>2
  <2> QED BY <1>8, <2>1 DEF Owner, Owners
<1> HIDE DEF more, new, top
<1>11. more = u
  BY <1>3
<1> QED BY <1>3, <1>4, <1>5, <1>6, <1>7, <1>8, <1>9, <1>10, <1>11 DEF more, top

\* Where the check goes on: at the j-th child, or behind the statement.  Up to there
\* only expressions are left behind.
LEMMA LeadsToPos ==
    ASSUME Sound, NEW tasks, NEW stats, NEW j, LeadsTo(tasks, stats, j)
    PROVE  /\ Pos' = IF stats = <<>> THEN LastOf(prog)[Stat] + 1 ELSE Kid(Stat, j)
           /\ j \in DOMAIN Kids(Stat) <=> stats # <<>>
           /\ Pos' \in Nat /\ Stat < Pos' /\ Pos' <= LastOf(prog)[Stat] + 1
           /\ \A u \in DOMAIN prog : Stat < u /\ u < Pos' => Type(u) \in ExprTypes
<1> DEFINE top == Len(frames)
           more == stats \o Tail(Todo)
           last == LastOf(prog)
<1>1. /\ DOMAIN frames' = DOMAIN frames /\ Len(frames') = top
      /\ frames'[top].todo = more /\ top \in DOMAIN frames
      /\ Owner(top)' = Owner(top) /\ prog' = prog
      /\ Len(more) = Len(stats) + Len(Todo) - 1 /\ DOMAIN more = 1 .. Len(more)
      /\ Len(stats) \in Nat /\ DOMAIN stats = 1 .. Len(stats) /\ stats \in Seq(StatIds)
      /\ Len(Todo) \in Nat \ {0} /\ DOMAIN Todo = 1 .. Len(Todo)
      /\ \A i \in DOMAIN more :
            more[i] = IF i <= Len(stats) THEN stats[i] ELSE Todo[i - Len(stats) + 1]
      /\ more # <<>> => 1 \in DOMAIN more /\ Head(more) = more[1]
      /\ more = <<>> <=> Len(more) = 0
  <2>1. top \in DOMAIN frames
    BY SoundFacts
  <2>2. prog' = prog /\ stats \in Seq(StatIds)
    BY DEF LeadsTo
  <2> QED BY <2>1, <2>2, LeadsToFrames
<1>2. /\ exprs = <<>> /\ Todo # <<>> /\ j \in Nat \ {0}
      /\ \A i \in DOMAIN Kids(Stat) : i < j => Kid(Stat, i) \in ExprIds
      /\ j + Len(stats) = Len(Kids(Stat)) + 1
      /\ \A i \in DOMAIN stats : stats[i] = Kid(Stat, i + j - 1)
  BY DEF LeadsTo
<1>3. PICK stat \in DOMAIN prog :
        /\ stat = Stat
        /\ last[stat] + 1 = IF 2 \in DOMAIN Todo THEN Todo[2] ELSE last[Owner(top)] + 1
  BY <1>2, AtStatement
<1>4. /\ WellFormed(prog) /\ Preorder(prog)
      /\ \A n \in DOMAIN prog : n \in Nat /\ last[n] \in Nat /\ n <= last[n]
  BY SoundFacts, ProgFacts
<1>5. Pos' = IF more # <<>> THEN more[1] ELSE last[Owner(top)] + 1
  BY <1>1 DEF Pos, After
<1>6. /\ Len(Kids(stat)) \in Nat /\ DOMAIN Kids(stat) = 1 .. Len(Kids(stat))
      /\ \A i \in DOMAIN Kids(stat) : Kid(stat, i) \in DOMAIN prog /\ Kid(stat, i) > stat
  BY <1>4, TreeFacts DEF Kids, Kid
<1>7. stats = <<>> <=> Len(stats) = 0
  BY <1>1, EmptySeq, LenProperties
<1>8. j \in DOMAIN Kids(stat) <=> stats # <<>>
  <2>1. PICK a \in Nat, b \in Nat :
          /\ a = Len(stats) /\ b = Len(Kids(stat)) /\ j + a = b + 1
          /\ DOMAIN Kids(stat) = 1 .. b
    BY <1>1, <1>2, <1>3, <1>6
  <2>2. j \in 1 .. b <=> a # 0
    BY <1>2, <2>1
  <2> QED BY <1>7, <2>1, <2>2
<1> HIDE DEF more, top
<1>9. CASE stats = <<>>
  <2>1. Len(stats) = 0 /\ Len(more) = Len(Todo) - 1
    BY <1>1, <1>7, <1>9
  <2>2. Pos' = last[stat] + 1
    <3>1. CASE 2 \in DOMAIN Todo
      <4>1. 1 \in DOMAIN more /\ more # <<>>
        BY <1>1, <2>1, <3>1
      <4>2. more[1] = Todo[2]
        BY <1>1, <2>1, <4>1
      <4> QED BY <1>3, <1>5, <3>1, <4>1, <4>2
    <3>2. CASE 2 \notin DOMAIN Todo
      <4>1. Len(more) = 0
        BY <1>1, <2>1, <3>2
      <4> QED BY <1>1, <1>3, <1>5, <3>2, <4>1
    <3> QED BY <3>1, <3>2
  <2>3. ASSUME NEW u \in DOMAIN prog, stat < u, u < Pos'
        PROVE  Type(u) \in ExprTypes
    <3>1. u <= last[stat]
      BY <1>4, <2>2, <2>3
    <3>2. \A i \in DOMAIN prog[stat].kids : i < j => IsExpr(prog, prog[stat].kids[i])
      BY <1>2, <1>3 DEF Kids, Kid, ExprIds, IsExpr
    <3>3. j \notin DOMAIN prog[stat].kids
      BY <1>8, <1>9 DEF Kids
    <3>4. IsExpr(prog, u)
      BY <1>2, <1>4, <2>3, <3>1, <3>2, <3>3, BeforeKid
    <3> QED BY <3>4 DEF IsExpr, Type
  <2> QED BY <1>3, <1>4, <1>8, <1>9, <2>2, <2>3
<1>10. CASE stats # <<>>
  <2>1. 1 \in DOMAIN more /\ 1 \in DOMAIN stats
    BY <1>1, <1>7, <1>10
  <2>2. 1 + j - 1 = j
    BY <1>2
  <2>3. more[1] = stats[1] /\ stats[1] = Kid(stat, j)
    BY <1>1, <1>2, <1>3, <2>1, <2>2
  <2>4. Pos' = Kid(stat, j) /\ j \in DOMAIN Kids(stat)
    <3>1. more # <<>>
      BY <1>1, <2>1
    <3> QED BY <1>5, <1>8, <1>10, <2>3, <3>1
  <2>5. PICK kid \in DOMAIN prog : kid = Kid(stat, j) /\ kid > stat /\ kid <= last[stat]
    <3>1. PICK kid \in DOMAIN prog : kid = Kid(stat, j) /\ kid > stat
      BY <1>6, <2>4
    <3>2. last[kid] <= last[stat]
      BY <1>4, <2>4, <3>1, KidsFollow DEF Kids, Kid
    <3>3. kid <= last[stat]
      BY <1>4, <3>2
    <3> QED BY <3>1, <3>3
  <2>6. ASSUME NEW u \in DOMAIN prog, stat < u, u < Pos'
        PROVE  Type(u) \in ExprTypes
    <3>1. u <= last[stat] /\ u < kid
      BY <1>4, <2>4, <2>5, <2>6
    <3>2. \A i \in DOMAIN prog[stat].kids : i < j => IsExpr(prog, prog[stat].kids[i])
      BY <1>2, <1>3 DEF Kids, Kid, ExprIds, IsExpr
    <3>3. kid = prog[stat].kids[j]
      BY <2>5 DEF Kid
    <3>4. IsExpr(prog, u)
      BY <1>2, <1>4, <2>6, <3>1, <3>2, <3>3, BeforeKid
    <3> QED BY <3>4 DEF IsExpr, Type
  <2> QED BY <1>3, <1>4, <1>8, <1>10, <2>4, <2>5, <2>6
<1> QED BY <1>9, <1>10

\* So nothing gets declared, and nothing that is declared is left out.
LEMMA LeadsToDeclared ==
    ASSUME Sound, NEW tasks, NEW stats, NEW j, LeadsTo(tasks, stats, j)
    PROVE  Declared' = Declared
<1> DEFINE top == Len(frames)
           last == LastOf(prog)
<1>1. /\ DOMAIN frames' = DOMAIN frames /\ DOMAIN frames = 1 .. top /\ top \in Nat
      /\ \A k \in DOMAIN frames : frames'[k].decl = frames[k].decl
      /\ exprs = <<>> /\ exprs' = tasks /\ prog' = prog /\ Todo # <<>>
      /\ \A i \in DOMAIN tasks : tasks[i].do = "declare" => tasks[i].node = Stat
      /\ Type(Stat) = "DECL_STAT" => \E i \in DOMAIN tasks : /\ tasks[i].do = "declare"
                                                             /\ tasks[i].node = Stat
  <2>1. /\ exprs = <<>> /\ exprs' = tasks /\ prog' = prog /\ Todo # <<>>
        /\ \A i \in DOMAIN tasks : tasks[i].do = "declare" => tasks[i].node = Stat
        /\ Type(Stat) = "DECL_STAT" => \E i \in DOMAIN tasks : /\ tasks[i].do = "declare"
                                                               /\ tasks[i].node = Stat
    BY DEF LeadsTo, Schedule
  <2>2. DOMAIN frames = 1 .. top /\ top \in Nat
    BY SoundFacts
  <2>3. /\ DOMAIN frames' = DOMAIN frames
        /\ \A k \in DOMAIN frames : frames'[k].decl = frames[k].decl
    BY LeadsToFrames
  <2> QED BY <2>1, <2>2, <2>3
<1>2. /\ WellFormed(prog) /\ Preorder(prog) /\ DeclIds \subseteq DOMAIN prog
      /\ \A n \in DOMAIN prog : n \in Nat /\ last[n] \in Nat /\ n <= last[n]
  BY SoundFacts, ProgFacts
<1>3. PICK stat \in DOMAIN prog : /\ stat = Stat /\ stat \in StatIds /\ Pos = stat
                                  /\ Here(stat)
  BY <1>1, AtStatement
<1>4. PICK pos \in Nat : /\ pos = Pos' /\ stat < pos /\ pos <= last[stat] + 1
                         /\ \A u \in DOMAIN prog : stat < u /\ u < pos => Type(u) \in ExprTypes
  BY <1>3, LeadsToPos
<1>5. \A d : Undeclared(d)' <=> \/ Undeclared(d)
                                \/ \E i \in DOMAIN tasks : /\ tasks[i].do = "declare"
                                                           /\ tasks[i].node = d
  BY <1>1 DEF Undeclared
<1>6. \A d \in DeclIds : Undeclared(d)' <=> Undeclared(d) \/ d = stat
  <2>1. Type(stat) = "DECL_STAT" <=> stat \in DeclIds
    BY DEF DeclIds, Type
  <2> QED BY <1>1, <1>3, <1>5, <2>1
<1>7. ASSUME NEW d \in DeclIds, last[d] < pos, stat <= last[d]
      PROVE  Undeclared(d) \/ d = stat
  <2>1. d \in DOMAIN prog /\ Type(d) = "DECL_STAT" /\ prog[d].type = "DECL_STAT"
    BY <1>2 DEF DeclIds, Type
  <2>2. ~(stat < d)
    <3>1. SUFFICES ASSUME stat < d
                   PROVE  FALSE
      OBVIOUS
    <3>2. d < pos
      BY <1>2, <1>7, <2>1
    <3>3. Type(d) \in ExprTypes
      BY <1>4, <2>1, <3>1, <3>2
    <3> QED BY <2>1, <3>3 DEF ExprTypes
  <2>3. CASE d < stat
    <3>1. prog[d].is_func
      BY <1>2, <1>3, <1>7, <2>1, <2>3, StatInDecl DEF StatIds, IsStat
    <3>2. d \in Encl(stat)
      BY <1>7, <2>3, <3>1 DEF Encl, Funs
    <3>3. PICK k \in 2 .. top : frames[k].decl = d
      BY <1>3, <3>2 DEF Here, Owners
    <3> QED BY <1>1, <3>3 DEF Undeclared
  <2> QED BY <1>2, <2>1, <2>2, <2>3
<1>8. ASSUME NEW d \in DeclIds
      PROVE  last[d] < pos /\ ~Undeclared(d)' <=> last[d] < stat /\ ~Undeclared(d)
  <2>1. last[d] \in Nat /\ stat \in Nat /\ last[stat] \in Nat /\ stat <= last[stat]
    BY <1>2
  <2>2. ASSUME last[d] < stat, ~Undeclared(d)
        PROVE  last[d] < pos /\ ~Undeclared(d)'
    <3>1. d # stat
      BY <2>1, <2>2
    <3> QED BY <1>4, <1>6, <2>1, <2>2, <3>1
  <2>3. ASSUME last[d] < pos, ~Undeclared(d)'
        PROVE  last[d] < stat /\ ~Undeclared(d)
    BY <1>6, <1>7, <2>1, <2>3
  <2> QED BY <2>2, <2>3
<1>9. Declared' = {d \in DeclIds : last[d] < pos /\ ~Undeclared(d)'}
  BY <1>1, <1>4, SameTree DEF Declared
<1>10. Declared = {d \in DeclIds : last[d] < stat /\ ~Undeclared(d)}
  BY <1>3 DEF Declared
<1> QED BY <1>8, <1>9, <1>10

\* A child stands in what its parent stands in, and in its parent.
LEMMA KidEncl ==
    ASSUME CoverInv, NEW n \in DOMAIN prog, NEW c \in DOMAIN Kids(n)
    PROVE  Encl(Kid(n, c)) = Encl(n) \cup (IF n \in Funs THEN {n} ELSE {})
<1> DEFINE last == LastOf(prog)
<1>1. /\ WellFormed(prog) /\ Preorder(prog) /\ Funs \subseteq DOMAIN prog
      /\ \A m \in DOMAIN prog : m \in Nat /\ last[m] \in Nat /\ m <= last[m]
  BY ProgFacts
<1>2. \A m \in DOMAIN prog : (m < Kid(n, c) /\ Kid(n, c) <= last[m]) <=> (m <= n /\ n <= last[m])
  BY <1>1, AboveKid DEF Kids, Kid
<1>3. \A m \in DOMAIN prog : (m <= n /\ n <= last[m]) <=> (m < n /\ n <= last[m]) \/ m = n
  BY <1>1
<1>4. \A f \in Funs : f \in DOMAIN prog
  BY <1>1
<1>5. \A f : f \in Encl(Kid(n, c)) <=> f \in Encl(n) \/ (f \in Funs /\ f = n)
  BY <1>2, <1>3, <1>4 DEF Encl
<1> QED BY <1>5

\* No declaration ends between a node and an expression that starts it.
LEMMA NoneBetween ==
    ASSUME CoverInv, NEW n \in DOMAIN prog, NEW u \in DOMAIN prog,
           n < u, u <= LastOf(prog)[n],
           \A v \in DOMAIN prog : n < v /\ v < u => Type(v) \in ExprTypes
    PROVE  \A d \in DeclIds : LastOf(prog)[d] < u <=> LastOf(prog)[d] < n
<1> DEFINE last == LastOf(prog)
<1>1. /\ WellFormed(prog) /\ Preorder(prog) /\ DeclIds \subseteq DOMAIN prog
      /\ \A m \in DOMAIN prog : m \in Nat /\ last[m] \in Nat /\ m <= last[m]
  BY ProgFacts
<1> SUFFICES ASSUME NEW d \in DeclIds
             PROVE  last[d] < u <=> last[d] < n
  OBVIOUS
<1>2. d \in DOMAIN prog /\ Type(d) = "DECL_STAT"
  BY <1>1 DEF DeclIds, Type
<1>3. ASSUME last[d] < u, n <= last[d]
      PROVE  FALSE
  <2>1. n < d /\ d < u
    BY <1>1, <1>2, <1>3, EndsWithin
  <2>2. Type(d) \in ExprTypes
    BY <1>2, <2>1
  <2> QED BY <1>2, <2>2 DEF ExprTypes
<1> QED BY <1>1, <1>2, <1>3

\* The statements to do still follow each other, the new ones first.
LEMMA LeadsToTodo ==
    ASSUME Sound, NEW tasks, NEW stats, NEW j, LeadsTo(tasks, stats, j)
    PROVE  TodoInv'
<1> DEFINE top == Len(frames)
           more == stats \o Tail(Todo)
           last == LastOf(prog)
<1>1. /\ CoverInv /\ TodoInv /\ prog' = prog /\ DOMAIN frames = 1 .. top
      /\ top \in Nat \ {0} /\ top \in DOMAIN frames
  <2>1. prog' = prog
    BY DEF LeadsTo
  <2> QED BY <2>1, SoundFacts
<1>2. /\ DOMAIN frames' = DOMAIN frames /\ Len(frames') = top
      /\ \A k \in DOMAIN frames : /\ frames'[k].decl = frames[k].decl
                                  /\ k # top => frames'[k] = frames[k]
                                  /\ Owner(k)' = Owner(k) /\ Owners(k)' = Owners(k)
      /\ frames'[top].todo = more
      /\ Len(more) = Len(stats) + Len(Todo) - 1 /\ DOMAIN more = 1 .. Len(more)
      /\ Len(stats) \in Nat /\ DOMAIN stats = 1 .. Len(stats)
      /\ Len(Todo) \in Nat \ {0} /\ DOMAIN Todo = 1 .. Len(Todo)
      /\ \A i \in DOMAIN more :
            more[i] = IF i <= Len(stats) THEN stats[i] ELSE Todo[i - Len(stats) + 1]
  BY LeadsToFrames
<1>3. /\ exprs = <<>> /\ Todo # <<>> /\ j \in Nat \ {0}
      /\ j + Len(stats) = Len(Kids(Stat)) + 1
      /\ \A i \in DOMAIN stats : stats[i] = Kid(Stat, i + j - 1)
      /\ Type(Stat) = "DECL_STAT" => ~prog[Stat].is_func
  BY DEF LeadsTo
<1>4. PICK stat \in DOMAIN prog :
        /\ stat = Stat /\ Encl(stat) = Owners(top) /\ Todo = frames[top].todo
        /\ last[stat] + 1 = IF 2 \in DOMAIN Todo THEN Todo[2] ELSE last[Owner(top)] + 1
  BY <1>3, AtStatement DEF Here
<1>5. /\ WellFormed(prog) /\ Preorder(prog)
      /\ \A n \in DOMAIN prog : n \in Nat /\ last[n] \in Nat /\ n <= last[n]
      /\ stat \notin Funs
  BY <1>1, <1>3, <1>4, ProgFacts DEF Funs, DeclIds, Type
<1>6. /\ Len(Kids(stat)) \in Nat /\ DOMAIN Kids(stat) = 1 .. Len(Kids(stat))
      /\ Kids(stat) # <<>> => last[stat] = last[Kid(stat, Len(Kids(stat)))]
      /\ \A c \in DOMAIN Kids(stat) : c + 1 \in DOMAIN Kids(stat) =>
            Kid(stat, c + 1) = last[Kid(stat, c)] + 1
  <2>1. PICK kids \in {prog[stat].kids} : kids = prog[stat].kids
    OBVIOUS
  <2>2. /\ Len(kids) \in Nat /\ DOMAIN kids = 1 .. Len(kids)
        /\ kids # <<>> => last[stat] = last[kids[Len(kids)]]
    BY <1>5, <2>1, TreeFacts, LastDef
  <2>3. \A c \in DOMAIN kids : c + 1 \in DOMAIN kids => kids[c + 1] = last[kids[c]] + 1
    BY <1>5, <2>1, KidsFollow
  <2> QED BY <2>1, <2>2, <2>3 DEF Kids, Kid
<1>7. \A c \in DOMAIN Kids(stat) : Encl(Kid(stat, c)) = Owners(top)
  BY <1>1, <1>4, <1>5, KidEncl
<1> HIDE DEF more, top
<1>20. PICK a \in Nat, b \in Nat, size \in Nat :
        /\ a = Len(stats) /\ b = Len(Todo) /\ size = Len(Kids(stat)) /\ j + a = size + 1
        /\ DOMAIN stats = 1 .. a /\ DOMAIN Todo = 1 .. b /\ b # 0 /\ DOMAIN Kids(stat) = 1 .. size
        /\ DOMAIN more = 1 .. a + b - 1
  <2>1. /\ Len(stats) \in Nat /\ Len(Todo) \in Nat /\ Len(Kids(stat)) \in Nat
        /\ j + Len(stats) = Len(Kids(stat)) + 1 /\ Len(Todo) # 0
        /\ DOMAIN stats = 1 .. Len(stats) /\ DOMAIN Todo = 1 .. Len(Todo)
        /\ DOMAIN Kids(stat) = 1 .. Len(Kids(stat))
        /\ DOMAIN more = 1 .. Len(stats) + Len(Todo) - 1
    BY <1>2, <1>3, <1>4, <1>6
  <2> QED BY <2>1, Zenon
<1>21. /\ \A i \in DOMAIN more : i <= a => more[i] = stats[i]
       /\ \A i \in DOMAIN more : ~(i <= a) => more[i] = Todo[i - a + 1]
  BY <1>2, <1>20
<1>8. ASSUME NEW i \in DOMAIN more
      PROVE  /\ Encl(more[i]) = Owners(top)
             /\ last[more[i]] + 1 = IF i + 1 \in DOMAIN more THEN more[i + 1]
                                    ELSE last[Owner(top)] + 1
  <2>1. CASE i <= Len(stats)
    <3>1. PICK c \in DOMAIN Kids(stat) : c = i + j - 1 /\ more[i] = Kid(stat, c)
      <4>1. i \in DOMAIN stats /\ i + j - 1 \in DOMAIN Kids(stat)
        BY <1>3, <1>20, <2>1
      <4>2. more[i] = stats[i]
        BY <1>20, <1>21, <2>1
      <4> QED BY <1>3, <1>4, <4>1, <4>2
    <3>2. CASE i < Len(stats)
      <4>1. i + 1 \in DOMAIN more /\ i + 1 \in DOMAIN stats /\ i + 1 <= Len(stats)
        BY <1>2, <3>2
      <4>2. c + 1 \in DOMAIN Kids(stat) /\ i + 1 + j - 1 = c + 1
        <5>1. PICK len \in Nat : /\ len = Len(Kids(stat)) /\ DOMAIN Kids(stat) = 1 .. len
                                 /\ j + Len(stats) = len + 1
          BY <1>3, <1>4, <1>6
        <5>2. i \in Nat /\ i >= 1 /\ Len(stats) \in Nat
          BY <1>2
        <5> QED BY <1>3, <3>1, <3>2, <5>1, <5>2
      <4>3. more[i + 1] = Kid(stat, c + 1)
        <5>1. more[i + 1] = stats[i + 1]
          BY <1>20, <1>21, <4>1
        <5>2. stats[i + 1] = Kid(stat, i + 1 + j - 1)
          BY <1>3, <1>4, <4>1
        <5> QED BY <4>2, <5>1, <5>2
      <4> QED BY <1>6, <1>7, <3>1, <4>1, <4>2, <4>3
    <3>3. CASE i = Len(stats)
      <4>1. c = Len(Kids(stat)) /\ Kids(stat) # <<>>
        BY <1>3, <1>4, <1>6, <3>1, <3>3
      <4>2. last[more[i]] = last[stat]
        BY <1>6, <3>1, <4>1
      <4>3. i + 1 \in DOMAIN more <=> 2 \in DOMAIN Todo
        BY <1>2, <3>3
      <4>4. i + 1 \in DOMAIN more => more[i + 1] = Todo[2]
        <5>1. i + 1 - Len(stats) + 1 = 2 /\ ~(i + 1 <= Len(stats))
          BY <1>2, <3>3
        <5> QED BY <1>2, <5>1
      <4> QED BY <1>4, <1>7, <3>1, <4>2, <4>3, <4>4
    <3> QED BY <1>2, <2>1, <3>2, <3>3
  <2>2. CASE i > Len(stats)
    <3>1. PICK h \in DOMAIN Todo : h = i - Len(stats) + 1 /\ more[i] = Todo[h]
      <4>1. i - Len(stats) + 1 \in DOMAIN Todo /\ ~(i <= Len(stats))
        BY <1>2, <2>2
      <4> QED BY <1>2, <4>1
    <3>2. /\ Encl(Todo[h]) = Owners(top)
          /\ last[Todo[h]] + 1 = IF h + 1 \in DOMAIN Todo THEN Todo[h + 1]
                                 ELSE last[Owner(top)] + 1
      BY <1>1, <1>4 DEF TodoInv, top
    <3>3. i + 1 \in DOMAIN more <=> h + 1 \in DOMAIN Todo
      BY <1>20, <2>2, <3>1
    <3>4. i + 1 \in DOMAIN more => more[i + 1] = Todo[h + 1]
      <4>1. i + 1 - a + 1 = h + 1 /\ ~(i + 1 <= a)
        BY <1>20, <2>2, <3>1
      <4>2. ASSUME NEW g \in DOMAIN more, g = i + 1
            PROVE  more[g] = Todo[h + 1]
        <5>1. g - a + 1 = h + 1 /\ ~(g <= a) /\ g \in Nat
          BY <1>20, <4>1, <4>2
        <5>2. more[g] = Todo[g - a + 1]
          BY <1>21, <5>1, Zenon
        <5> QED BY <5>1, <5>2
      <4> QED BY <4>2
    <3> QED BY <3>1, <3>2, <3>3, <3>4
  <2> QED BY <1>2, <2>1, <2>2
<1>9. \A k \in DOMAIN frames : k # top => After(k)' = After(k)
  BY <1>1, <1>2 DEF After
<1>10. ASSUME NEW k \in DOMAIN frames
       PROVE  /\ \A i \in DOMAIN frames'[k].todo :
                    /\ Encl(frames'[k].todo[i]) = Owners(k)
                    /\ last[frames'[k].todo[i]] + 1 =
                          IF i + 1 \in DOMAIN frames'[k].todo THEN frames'[k].todo[i + 1]
                          ELSE last[Owner(k)] + 1
              /\ k + 1 \in DOMAIN frames => After(k)' = last[frames[k + 1].decl] + 1
  <2>1. CASE k = top
    <3>1. top + 1 \notin DOMAIN frames
      BY <1>1 DEF top
    <3> QED BY <1>2, <1>8, <2>1, <3>1
  <2>2. CASE k # top
    <3>1. frames'[k] = frames[k] /\ After(k)' = After(k)
      BY <1>2, <1>9, <2>2
    <3> QED BY <1>1, <3>1 DEF TodoInv
  <2> QED BY <2>1, <2>2
<1>11. \A k \in DOMAIN frames : \A i \in DOMAIN frames'[k].todo : \A n :
         frames'[k].todo[i] = n => Encl(n)' = Owners(k)'
  BY <1>1, <1>2, <1>10, SameTree
<1>12. \A k \in DOMAIN frames' :
         LET todo == frames'[k].todo
         IN  /\ \A i \in DOMAIN todo :
                   LastOf(prog')[todo[i]] + 1 =
                         IF i + 1 \in DOMAIN todo THEN todo[i + 1]
                         ELSE LastOf(prog')[Owner(k)'] + 1
             /\ k + 1 \in DOMAIN frames' =>
                   After(k)' = LastOf(prog')[frames'[k + 1].decl] + 1
  BY <1>1, <1>2, <1>10
<1> QED BY <1>2, <1>11, <1>12 DEF TodoInv

\* The table keeps what it holds, and the functions their places.
LEMMA LeadsToTable ==
    ASSUME Sound, NEW tasks, NEW stats, NEW j, LeadsTo(tasks, stats, j)
    PROVE  TableInv' /\ OwnersInv'
<1>1. /\ TableInv /\ OwnersInv /\ DOMAIN frames = 1 .. Len(frames)
      /\ prog' = prog /\ scopes' = scopes /\ symbols' = symbols
  <2>1. prog' = prog /\ scopes' = scopes /\ symbols' = symbols
    BY DEF LeadsTo
  <2> QED BY <2>1, SoundFacts
<1>2. /\ DOMAIN frames' = DOMAIN frames
      /\ \A k \in DOMAIN frames : /\ frames'[k].decl = frames[k].decl
                                  /\ Owner(k)' = Owner(k) /\ Owners(k)' = Owners(k)
  BY LeadsToFrames
<1>3. Declared' = Declared
  BY LeadsToDeclared
<1>4. TableInv'
  BY <1>1, <1>2, <1>3 DEF TableInv, Holds
<1>5. ASSUME NEW k \in DOMAIN frames, k > 1
      PROVE  \A f : f = frames'[k].decl =>
                /\ f \in Funs' /\ Encl(f)' = Owners(k - 1)' /\ ~Known(f)'
  <2>1. k - 1 \in DOMAIN frames
    BY <1>1, <1>5
  <2>2. \A f : f = frames[k].decl => f \in Funs /\ Encl(f) = Owners(k - 1) /\ ~Known(f)
    BY <1>1, <1>5 DEF OwnersInv
  <2> QED BY <1>1, <1>2, <2>1, <2>2, SameTree
<1>6. OwnersInv'
  BY <1>2, <1>5 DEF OwnersInv
<1> QED BY <1>4, <1>6

\* The expressions of the statement are about to be checked where it stands.
LEMMA LeadsToExprs ==
    ASSUME Sound, NEW tasks, NEW stats, NEW j, LeadsTo(tasks, stats, j)
    PROVE  ExprsInv'
<1> DEFINE top == Len(frames)
           last == LastOf(prog)
<1>1. /\ exprs = <<>> /\ exprs' = tasks /\ prog' = prog /\ Todo # <<>> /\ tasks \in Seq(Tasks)
      /\ \A i \in DOMAIN tasks :
            \/ /\ tasks[i].do \in {"expr", "use"}
               /\ \E c \in DOMAIN Kids(Stat) : c < j /\ tasks[i].node = Kid(Stat, c)
            \/ /\ tasks[i].do = "declare" /\ tasks[i].node = Stat /\ stats = <<>>
      /\ \A i \in DOMAIN Kids(Stat) : i < j => Kid(Stat, i) \in ExprIds
      /\ Type(Stat) = "DECL_STAT" => ~prog[Stat].is_func /\ ~Known(Stat)
      /\ j \in Nat
  BY DEF LeadsTo, Schedule
<1>2. /\ CoverInv /\ WellFormed(prog) /\ Preorder(prog) /\ top \in DOMAIN frames
      /\ \A n \in DOMAIN prog : n \in Nat /\ last[n] \in Nat /\ n <= last[n]
  BY SoundFacts, ProgFacts
<1>3. PICK stat \in DOMAIN prog : /\ stat = Stat /\ Here(stat)
  BY <1>1, AtStatement
<1>4. PICK pos \in Nat : /\ pos = Pos' /\ stat < pos /\ pos <= last[stat] + 1
                         /\ pos = IF stats = <<>> THEN last[stat] + 1 ELSE Kid(stat, j)
                         /\ j \in DOMAIN Kids(stat) <=> stats # <<>>
                         /\ \A u \in DOMAIN prog : stat < u /\ u < pos => Type(u) \in ExprTypes
  BY <1>3, LeadsToPos
<1>5. Len(frames') = top /\ Owners(top)' = Owners(top)
  BY <1>2, LeadsToFrames
<1>6. Declared' = Declared
  BY LeadsToDeclared
<1>7. ASSUME NEW c \in DOMAIN Kids(stat), c < j
      PROVE  \A n : n = Kid(stat, c) => Here(n)'
  <2>1. PICK u \in DOMAIN prog : u = Kid(stat, c) /\ stat < u /\ u <= last[u] /\ u \in ExprIds
    BY <1>1, <1>2, <1>3, <1>7, TreeFacts DEF Kids, Kid
  <2>2. last[u] <= last[stat]
    BY <1>2, <2>1, KidsFollow DEF Kids, Kid
  <2>3. u < pos
    <3>1. CASE stats = <<>>
      BY <1>2, <1>4, <2>1, <2>2, <3>1
    <3>2. CASE stats # <<>>
      <4>1. j \in DOMAIN Kids(stat) /\ pos = Kid(stat, j)
        BY <1>4, <3>2
      <4>2. last[u] < pos
        BY <1>2, <1>7, <2>1, <4>1, KidsFollow DEF Kids, Kid
      <4> QED BY <1>2, <2>1, <4>2
    <3> QED BY <3>1, <3>2
  <2>4. \A v \in DOMAIN prog : stat < v /\ v < u => Type(v) \in ExprTypes
    BY <1>2, <1>4, <2>1, <2>3
  <2>5. \A d \in DeclIds : last[d] < u <=> last[d] < stat
    <3>1. u <= last[stat]
      BY <1>2, <2>1, <2>2
    <3> QED BY <1>2, <2>1, <2>4, <3>1, NoneBetween
  <2>6. stat \notin Funs
    BY <1>1, <1>3 DEF Funs, DeclIds, Type
  <2>7. Encl(u) = Encl(stat)
    BY <1>2, <2>1, <2>6, KidEncl
  <2>8. Here(u)'
    <3>1. /\ Encl(u) = Owners(top)
          /\ \A d \in DeclIds : last[d] < u <=> d \in Declared
      BY <1>3, <2>5, <2>7 DEF Here
    <3>2. Encl(u)' = Encl(u) /\ DeclIds' = DeclIds
      BY <1>1, SameTree
    <3> QED BY <1>1, <1>5, <1>6, <3>1, <3>2 DEF Here
  <2> QED BY <2>1, <2>8
<1>8. ASSUME NEW i \in DOMAIN tasks, NEW n, n = tasks[i].node
      PROVE  /\ tasks[i].do = "expr" => Here(n)'
             /\ tasks[i].do = "declare" =>
                   /\ Encl(n)' = Owners(top)'
                   /\ last[n] + 1 = Pos'
                   /\ ~Known(n)'
  <2>1. CASE tasks[i].do \in {"expr", "use"}
    <3>1. \E c \in DOMAIN Kids(stat) : c < j /\ n = Kid(stat, c)
      BY <1>1, <1>3, <1>8, <2>1
    <3> QED BY <1>7, <2>1, <3>1
  <2>2. CASE tasks[i].do = "declare"
    <3>1. n = stat /\ stats = <<>>
      BY <1>1, <1>3, <1>8, <2>2
    <3>2. Type(stat) = "DECL_STAT"
      <4>1. tasks[i] \in Tasks
        BY <1>1
      <4>2. tasks[i].node \in DeclIds
        BY <2>2, <4>1 DEF Tasks
      <4> QED BY <1>8, <3>1, <4>2 DEF DeclIds, Type
    <3>3. Encl(stat) = Owners(top) /\ ~Known(stat)
      BY <1>1, <1>3, <3>2 DEF Here
    <3>4. last[stat] + 1 = pos
      BY <1>2, <1>4, <3>1
    <3>5. Encl(stat)' = Encl(stat) /\ Known(stat)' = Known(stat)
      BY <1>1, SameTree
    <3> QED BY <1>4, <1>5, <2>2, <3>1, <3>3, <3>4, <3>5
  <2> QED BY <1>1, <2>1, <2>2
<1>9. \A i \in DOMAIN exprs' : \A n : n = exprs'[i].node =>
        /\ exprs'[i].do = "expr" => Here(n)'
        /\ exprs'[i].do = "declare" =>
              /\ Encl(n)' = Owners(Len(frames))'
              /\ LastOf(prog')[n] + 1 = Pos'
              /\ ~Known(n)'
  <2>1. Owners(Len(frames))' = Owners(top)'
    BY <1>5 DEF Owners
  <2> QED BY <1>1, <1>8, <2>1
<1> QED BY <1>9 DEF ExprsInv

\* Each result that is used is asked for before.
LEMMA LeadsToResults ==
    ASSUME Sound, NEW tasks, NEW stats, NEW j, LeadsTo(tasks, stats, j)
    PROVE  ResultsInv'
<1>1. /\ exprs' = tasks
      /\ \A i \in DOMAIN tasks : tasks[i].do \in {"expr", "use", "declare"}
      /\ \A i \in DOMAIN tasks : tasks[i].do = "use" =>
            \E h \in DOMAIN tasks : /\ h < i /\ tasks[h].do = "expr"
                                    /\ tasks[h].node = tasks[i].node
  BY DEF LeadsTo, Schedule
<1>2. \A i \in DOMAIN exprs' : \A n :
         exprs'[i].do = "use" /\ exprs'[i].node = n => IsPending(n, i)'
  BY <1>1 DEF IsPending
<1>3. \A i \in DOMAIN exprs' : exprs'[i].do # "binop"
  BY <1>1
<1> QED BY <1>2, <1>3 DEF ResultsInv

\* All of it together.
LEMMA LeadsToView ==
    ASSUME Sound, NEW tasks, NEW stats, NEW j, LeadsTo(tasks, stats, j)
    PROVE  View' /\ Declared' = Declared
BY LeadsToDeclared, LeadsToTodo, LeadsToTable, LeadsToExprs, LeadsToResults DEF View

\* The calls for an expression.
LEMMA TaskFacts ==
    ASSUME NEW e \in ExprIds, NEW do \in {"expr", "use"}
    PROVE  Task(do, e) \in Tasks /\ Task(do, e).do = do /\ Task(do, e).node = e
BY DEF Tasks, Task

\* A list of one call.
LEMMA OneItem ==
    ASSUME NEW S, NEW x \in S
    PROVE  /\ <<x>> \in Seq(S) /\ Len(<<x>>) = 1 /\ DOMAIN <<x>> = {1}
           /\ <<x>>[1] = x
OBVIOUS

\* What the calls that check an expression are.
LEMMA CheckedPlaces ==
    ASSUME NEW e \in ExprIds
    PROVE  /\ Checked(e) \in Seq(Tasks) /\ Len(Checked(e)) = 2 /\ DOMAIN Checked(e) = {1, 2}
           /\ Checked(e)[1].do = "expr" /\ Checked(e)[1].node = e
           /\ Checked(e)[2].do = "use" /\ Checked(e)[2].node = e
<1>1. PICK s \in Tasks, t \in Tasks : /\ s = Task("expr", e) /\ s.do = "expr" /\ s.node = e
                                      /\ t = Task("use", e) /\ t.do = "use" /\ t.node = e
  BY TaskFacts
<1>2. /\ <<s, t>> \in Seq(Tasks) /\ Len(<<s, t>>) = 2 /\ DOMAIN <<s, t>> = {1, 2}
      /\ <<s, t>>[1] = s /\ <<s, t>>[2] = t
  OBVIOUS
<1>3. Checked(e) = <<s, t>>
  BY <1>1 DEF Checked
<1> QED BY <1>1, <1>2, <1>3

\* The numbers of children, and of statements among them.
LEMMA KidLengths ==
    ASSUME WellFormed(prog), NEW n \in DOMAIN prog
    PROVE  /\ Len(Kids(n)) \in Nat /\ DOMAIN Kids(n) = 1 .. Len(Kids(n))
           /\ Kids(n) = <<>> <=> Len(Kids(n)) = 0
           /\ Type(n) = "SKIP_STAT" => Len(Kids(n)) = 0
           /\ Type(n) \in {"RETURN_STAT", "EXPR_STAT"} => Len(Kids(n)) = 1
           /\ Type(n) \in {"WHILE_STAT", "BIN_OP"} => Len(Kids(n)) = 2
           /\ Type(n) = "FOR_STAT" => Len(Kids(n)) = 4
           /\ Type(n) = "DECL_STAT" /\ Kids(n) # <<>> => Len(Kids(n)) = 1
           /\ Type(n) = "IF_STAT" => /\ Len(Tail(Kids(n))) = Len(Kids(n)) - 1
                                     /\ DOMAIN Tail(Kids(n)) = 1 .. Len(Kids(n)) - 1
                                     /\ \A i \in 1 .. Len(Kids(n)) - 1 :
                                           Tail(Kids(n))[i] = Kid(n, i + 1)
<1>1. PICK kids \in Seq(DOMAIN prog) : kids = Kids(n) /\ kids = prog[n].kids
  BY KidTypes DEF Kids
<1>2. /\ Len(kids) \in Nat /\ DOMAIN kids = 1 .. Len(kids)
      /\ kids = <<>> <=> Len(kids) = 0
  BY EmptySeq, LenProperties
<1>3. ShapeOK(prog, n)
  BY DEF WellFormed
<1>4. Type(n) = "SKIP_STAT" => Len(kids) = 0
  BY <1>1, <1>2, <1>3 DEF ShapeOK, Type
<1>5. Type(n) \in {"RETURN_STAT", "EXPR_STAT"} => Len(kids) = 1
  BY <1>1, <1>3 DEF ShapeOK, Type
<1>6. Type(n) \in {"WHILE_STAT", "BIN_OP"} => Len(kids) = 2
  BY <1>1, <1>3 DEF ShapeOK, Type
<1>7. Type(n) = "FOR_STAT" => Len(kids) = 4
  BY <1>1, <1>3 DEF ShapeOK, Type
<1>8. Type(n) = "DECL_STAT" /\ kids # <<>> => Len(kids) = 1
  BY <1>1, <1>2, <1>3 DEF ShapeOK, Type
<1>9. Type(n) = "IF_STAT" => /\ Len(Tail(kids)) = Len(kids) - 1
                             /\ DOMAIN Tail(kids) = 1 .. Len(kids) - 1
                             /\ \A i \in 1 .. Len(kids) - 1 : Tail(kids)[i] = kids[i + 1]
  <2>1. Type(n) = "IF_STAT" => kids # <<>>
    BY <1>1, <1>2, <1>3 DEF ShapeOK, Type
  <2> QED BY <2>1, HeadTailProperties, LenProperties
<1>10. \A i : Kid(n, i) = kids[i]
  BY <1>1 DEF Kid
<1> QED BY <1>1, <1>2, <1>4, <1>5, <1>6, <1>7, <1>8, <1>9, <1>10

\* The statements that lead to their children.
LEMMA StatementsView ==
    ASSUME Sound, \/ CheckReturn \/ CheckIf \/ CheckWhile \/ CheckFor \/ CheckBlock
                  \/ CheckExprStat \/ CheckSkip
    PROVE  View' /\ Declared' = Declared
<1>0. IInv /\ <<>> \in Seq(Tasks) /\ <<>> \in Seq(StatIds) /\ Len(<<>>) = 0
  BY SoundFacts
<1>1. CASE CheckReturn
  <2>1. /\ exprs = <<>> /\ Todo # <<>> /\ Stat \in DOMAIN prog /\ Type(Stat) = "RETURN_STAT"
        /\ WellFormed(prog) /\ Schedule(Checked(Kid(Stat, 1)), <<>>)
        /\ UNCHANGED <<scopes, symbols, prog, result, status>>
    BY <1>0, <1>1, StatFacts DEF CheckReturn
  <2>2. Kid(Stat, 1) \in ExprIds /\ Len(Kids(Stat)) = 1 /\ DOMAIN Kids(Stat) = {1}
    BY <2>1, KidTypes, KidLengths
  <2>3. LeadsTo(Checked(Kid(Stat, 1)), <<>>, 2)
    BY <1>0, <2>1, <2>2, CheckedPlaces DEF LeadsTo
  <2> QED BY <2>3, LeadsToView
<1>2. CASE CheckIf
  <2>1. /\ exprs = <<>> /\ Todo # <<>> /\ Stat \in DOMAIN prog /\ Type(Stat) = "IF_STAT"
        /\ WellFormed(prog) /\ Schedule(Checked(Kid(Stat, 1)), Tail(Kids(Stat)))
        /\ UNCHANGED <<scopes, symbols, prog, result, status>>
    BY <1>0, <1>2, StatFacts DEF CheckIf
  <2>2. PICK len \in Nat :
          /\ len = Len(Kids(Stat)) /\ DOMAIN Kids(Stat) = 1 .. len /\ len # 0
          /\ Kid(Stat, 1) \in ExprIds /\ Tail(Kids(Stat)) \in Seq(StatIds)
          /\ Len(Tail(Kids(Stat))) = len - 1
          /\ DOMAIN Tail(Kids(Stat)) = 1 .. len - 1
          /\ \A i \in 1 .. len - 1 : Tail(Kids(Stat))[i] = Kid(Stat, i + 1)
    <3>1. Kids(Stat) # <<>>
      BY <2>1, KidCounts
    <3> QED BY <2>1, <3>1, KidTypes, KidLengths
  <2>3. /\ \A i \in DOMAIN Kids(Stat) : i < 2 => Kid(Stat, i) \in ExprIds
        /\ 2 + Len(Tail(Kids(Stat))) = Len(Kids(Stat)) + 1
        /\ \A i \in DOMAIN Tail(Kids(Stat)) : Tail(Kids(Stat))[i] = Kid(Stat, i + 2 - 1)
        /\ 1 \in DOMAIN Kids(Stat)
    <3>1. \A i \in 1 .. len : i < 2 => i = 1
      OBVIOUS
    <3>2. \A i \in 1 .. len - 1 : i + 2 - 1 = i + 1
      OBVIOUS
    <3> QED BY <2>2, <3>1, <3>2
  <2>4. LeadsTo(Checked(Kid(Stat, 1)), Tail(Kids(Stat)), 2)
    BY <1>0, <2>1, <2>2, <2>3, CheckedPlaces DEF LeadsTo
  <2> QED BY <2>4, LeadsToView
<1>3. CASE CheckWhile
  <2>1. /\ exprs = <<>> /\ Todo # <<>> /\ Stat \in DOMAIN prog /\ Type(Stat) = "WHILE_STAT"
        /\ WellFormed(prog) /\ Schedule(Checked(Kid(Stat, 1)), <<Kid(Stat, 2)>>)
        /\ UNCHANGED <<scopes, symbols, prog, result, status>>
    BY <1>0, <1>3, StatFacts DEF CheckWhile
  <2>2. /\ Kid(Stat, 1) \in ExprIds /\ Kid(Stat, 2) \in StatIds
        /\ Len(Kids(Stat)) = 2 /\ DOMAIN Kids(Stat) = {1, 2}
    BY <2>1, KidTypes, KidLengths, KidCounts
  <2>3. PICK stats \in Seq(StatIds) : /\ stats = <<Kid(Stat, 2)>> /\ Len(stats) = 1
                                      /\ DOMAIN stats = {1} /\ stats[1] = Kid(Stat, 2)
    BY <2>2, OneItem, Zenon
  <2>4. LeadsTo(Checked(Kid(Stat, 1)), stats, 2)
    BY <1>0, <2>1, <2>2, <2>3, CheckedPlaces DEF LeadsTo
  <2> QED BY <2>4, LeadsToView
<1>4. CASE CheckFor
  <2>1. /\ exprs = <<>> /\ Todo # <<>> /\ Stat \in DOMAIN prog /\ Type(Stat) = "FOR_STAT"
        /\ WellFormed(prog)
        /\ Schedule(Checked(Kid(Stat, 2)) \o
                       <<Task("expr", Kid(Stat, 1)), Task("expr", Kid(Stat, 3))>>,
                    <<Kid(Stat, 4)>>)
        /\ UNCHANGED <<scopes, symbols, prog, result, status>>
    BY <1>0, <1>4, StatFacts DEF CheckFor
  <2>2. /\ Kid(Stat, 1) \in ExprIds /\ Kid(Stat, 2) \in ExprIds /\ Kid(Stat, 3) \in ExprIds
        /\ Kid(Stat, 4) \in StatIds
        /\ Len(Kids(Stat)) = 4 /\ DOMAIN Kids(Stat) = {1, 2, 3, 4}
    BY <2>1, KidTypes, KidLengths, KidCounts
  <2>3. PICK stats \in Seq(StatIds) : /\ stats = <<Kid(Stat, 4)>> /\ Len(stats) = 1
                                      /\ DOMAIN stats = {1} /\ stats[1] = Kid(Stat, 4)
    BY <2>2, OneItem, Zenon
  <2>4. PICK u \in Tasks, v \in Tasks :
          /\ u = Task("expr", Kid(Stat, 1)) /\ u.do = "expr" /\ u.node = Kid(Stat, 1)
          /\ v = Task("expr", Kid(Stat, 3)) /\ v.do = "expr" /\ v.node = Kid(Stat, 3)
    BY <2>2, TaskFacts
  <2>5. PICK tasks \in Seq(Tasks) :
          /\ tasks = Checked(Kid(Stat, 2)) \o <<u, v>> /\ DOMAIN tasks = {1, 2, 3, 4}
          /\ tasks[1].do = "expr" /\ tasks[1].node = Kid(Stat, 2)
          /\ tasks[2].do = "use" /\ tasks[2].node = Kid(Stat, 2)
          /\ tasks[3] = u /\ tasks[4] = v
    <3>1. PICK more \in Seq(Tasks) : /\ more = <<u, v>> /\ Len(more) = 2
                                     /\ DOMAIN more = {1, 2}
                                     /\ more[1] = u /\ more[2] = v
      <4>1. /\ <<u, v>> \in Seq(Tasks) /\ Len(<<u, v>>) = 2 /\ DOMAIN <<u, v>> = {1, 2}
            /\ <<u, v>>[1] = u /\ <<u, v>>[2] = v
        OBVIOUS
      <4> QED BY <4>1, Zenon
    <3>2. PICK first \in Seq(Tasks), all \in {Checked(Kid(Stat, 2)) \o more} :
            first = Checked(Kid(Stat, 2)) /\ all = first \o more
      BY <2>2, CheckedPlaces
    <3>3. /\ Len(first) = 2 /\ DOMAIN first = {1, 2} /\ first[1].do = "expr" /\ first[1].node = Kid(Stat, 2)
          /\ first[2].do = "use" /\ first[2].node = Kid(Stat, 2)
      BY <2>2, <3>2, CheckedPlaces
    <3>4. /\ all \in Seq(Tasks) /\ DOMAIN all = 1 .. Len(all) /\ Len(all) = Len(first) + Len(more)
          /\ Len(first) \in Nat /\ Len(more) \in Nat
          /\ DOMAIN first = 1 .. Len(first) /\ DOMAIN more = 1 .. Len(more)
          /\ \A i \in DOMAIN first : i \in DOMAIN all /\ all[i] = first[i]
          /\ \A i \in DOMAIN more : all[i + Len(first)] = more[i]
      BY <3>2, ConcatPlaces, LenProperties
    <3>5. DOMAIN all = {1, 2, 3, 4}
      BY <3>1, <3>3, <3>4
    <3>6. all[1 + 2] = u /\ all[2 + 2] = v /\ all[1] = first[1] /\ all[2] = first[2]
      BY <3>1, <3>3, <3>4
    <3>7. all[3] = u /\ all[4] = v
      BY <3>6
    <3>8. all = Checked(Kid(Stat, 2)) \o <<u, v>>
      BY <3>1, <3>2
    <3> QED BY <3>3, <3>4, <3>5, <3>6, <3>7, <3>8
  <2>6. Schedule(tasks, stats)
    BY <2>1, <2>3, <2>4, <2>5
  <2>7. /\ \A i \in DOMAIN Kids(Stat) : i < 4 => Kid(Stat, i) \in ExprIds
        /\ \A i \in DOMAIN stats : stats[i] = Kid(Stat, i + 4 - 1)
        /\ 1 < 4 /\ 2 < 4 /\ 3 < 4 /\ 1 \in DOMAIN Kids(Stat) /\ 2 \in DOMAIN Kids(Stat)
        /\ 3 \in DOMAIN Kids(Stat)
    BY <2>2, <2>3
  <2>8. \A i \in DOMAIN tasks :
          /\ tasks[i].do \in {"expr", "use"}
          /\ \E c \in DOMAIN Kids(Stat) : c < 4 /\ tasks[i].node = Kid(Stat, c)
    <3>1. \A m \in {Kid(Stat, 1), Kid(Stat, 2), Kid(Stat, 3)} :
            \E c \in DOMAIN Kids(Stat) : c < 4 /\ m = Kid(Stat, c)
      BY <2>7
    <3>2. \A i \in {1, 2, 3, 4} :
            /\ tasks[i].do \in {"expr", "use"}
            /\ tasks[i].node \in {Kid(Stat, 1), Kid(Stat, 2), Kid(Stat, 3)}
      BY <2>4, <2>5
    <3> QED BY <2>5, <3>1, <3>2
  <2>9. \A i \in DOMAIN tasks : tasks[i].do = "use" =>
          \E h \in DOMAIN tasks : /\ h < i /\ tasks[h].do = "expr"
                                  /\ tasks[h].node = tasks[i].node
    <3>1. \A i \in DOMAIN tasks : tasks[i].do = "use" => i = 2
      BY <2>4, <2>5
    <3>2. 1 \in DOMAIN tasks /\ 1 < 2
      BY <2>5
    <3> QED BY <2>5, <3>1, <3>2
  <2>10. LeadsTo(tasks, stats, 4)
    BY <1>0, <2>1, <2>2, <2>3, <2>6, <2>7, <2>8, <2>9 DEF LeadsTo
  <2> QED BY <2>10, LeadsToView
<1>5. CASE CheckBlock
  <2>1. /\ exprs = <<>> /\ Todo # <<>> /\ Stat \in DOMAIN prog /\ Type(Stat) = "BLOCK_STAT"
        /\ WellFormed(prog) /\ Schedule(<<>>, Kids(Stat))
        /\ UNCHANGED <<scopes, symbols, prog, result, status>>
    BY <1>0, <1>5, StatFacts DEF CheckBlock
  <2>2. PICK len \in Nat :
          /\ len = Len(Kids(Stat)) /\ DOMAIN Kids(Stat) = 1 .. len
          /\ Kids(Stat) \in Seq(StatIds)
    BY <2>1, KidTypes, KidLengths
  <2>3. /\ \A i \in DOMAIN Kids(Stat) : ~(i < 1)
        /\ 1 + Len(Kids(Stat)) = Len(Kids(Stat)) + 1
        /\ \A i \in DOMAIN Kids(Stat) : Kids(Stat)[i] = Kid(Stat, i + 1 - 1)
    <3>1. \A i \in 1 .. len : ~(i < 1) /\ i + 1 - 1 = i
      OBVIOUS
    <3> QED BY <2>2, <3>1 DEF Kids, Kid
  <2>4. LeadsTo(<<>>, Kids(Stat), 1)
    BY <1>0, <2>1, <2>2, <2>3 DEF LeadsTo
  <2> QED BY <2>4, LeadsToView
<1>6. CASE CheckExprStat
  <2>1. /\ exprs = <<>> /\ Todo # <<>> /\ Stat \in DOMAIN prog /\ Type(Stat) = "EXPR_STAT"
        /\ WellFormed(prog) /\ Schedule(<<Task("expr", Kid(Stat, 1))>>, <<>>)
        /\ UNCHANGED <<scopes, symbols, prog, result, status>>
    BY <1>0, <1>6, StatFacts DEF CheckExprStat
  <2>2. Kid(Stat, 1) \in ExprIds /\ Len(Kids(Stat)) = 1 /\ DOMAIN Kids(Stat) = {1}
    BY <2>1, KidTypes, KidLengths, KidCounts
  <2>3. PICK call \in Tasks : /\ call = Task("expr", Kid(Stat, 1))
                              /\ call.do = "expr" /\ call.node = Kid(Stat, 1)
    BY <2>2, TaskFacts
  <2>4. PICK tasks \in Seq(Tasks) : /\ tasks = <<call>> /\ DOMAIN tasks = {1}
                                    /\ tasks[1] = call
    BY OneItem, Zenon
  <2>5. LeadsTo(tasks, <<>>, 2)
    BY <1>0, <2>1, <2>2, <2>3, <2>4 DEF LeadsTo
  <2> QED BY <2>5, LeadsToView
<1>7. CASE CheckSkip
  <2>1. /\ exprs = <<>> /\ Todo # <<>> /\ Stat \in DOMAIN prog /\ Type(Stat) = "SKIP_STAT"
        /\ WellFormed(prog) /\ Schedule(<<>>, <<>>)
        /\ UNCHANGED <<scopes, symbols, prog, result, status>>
    BY <1>0, <1>7, StatFacts DEF CheckSkip
  <2>2. Len(Kids(Stat)) = 0 /\ DOMAIN Kids(Stat) = {}
    BY <2>1, KidLengths, KidCounts
  <2>3. LeadsTo(<<>>, <<>>, 1)
    BY <1>0, <2>1, <2>2 DEF LeadsTo
  <2> QED BY <2>3, LeadsToView
<1> QED BY <1>1, <1>2, <1>3, <1>4, <1>5, <1>6, <1>7

\* A declaration goes on exactly when its name is not visible yet.
LEMMA FreshMeans ==
    ASSUME Sound, AtStat("DECL_STAT")
    PROVE  /\ exprs = <<>> /\ Todo # <<>> /\ Stat \in DOMAIN prog /\ Type(Stat) = "DECL_STAT"
           /\ Fresh(Stat) <=> ~Known(Stat)
<1>1. /\ exprs = <<>> /\ Todo # <<>> /\ Stat \in DOMAIN prog /\ Type(Stat) = "DECL_STAT"
      /\ WellFormed(prog)
  BY SoundFacts, StatFacts
<1>2. prog[Stat].name \in Names
  BY <1>1 DEF WellFormed, ShapeOK, Type
<1>3. Here(Stat)
  BY <1>1, AtStatement
<1>4. Find(prog[Stat].name) # NULL <=> Known(Stat)
  BY <1>1, <1>2, <1>3, LookupRight
<1> QED BY <1>1, <1>4 DEF Fresh

\* The declaration of a variable.
LEMMA VarDeclView ==
    ASSUME Sound, CheckVarDecl
    PROVE  View' /\ Declared' = Declared
<1>1. /\ exprs = <<>> /\ Todo # <<>> /\ Stat \in DOMAIN prog /\ Type(Stat) = "DECL_STAT"
      /\ ~prog[Stat].is_func /\ ~Known(Stat) /\ WellFormed(prog)
      /\ Schedule((IF Kids(Stat) = <<>> THEN <<>> ELSE Checked(Kid(Stat, 1)))
                     \o <<Task("declare", Stat)>>, <<>>)
      /\ UNCHANGED <<scopes, symbols, prog, result, status>>
  BY FreshMeans, SoundFacts, StatFacts DEF CheckVarDecl
<1>2. PICK decl \in Tasks : /\ decl = Task("declare", Stat)
                            /\ decl.do = "declare" /\ decl.node = Stat
  <2>1. Stat \in DeclIds
    BY <1>1 DEF DeclIds, Type
  <2>2. /\ Task("declare", Stat) \in Tasks /\ Task("declare", Stat).do = "declare"
        /\ Task("declare", Stat).node = Stat
    BY <2>1 DEF Tasks, Task
  <2> QED BY <2>2
<1>3. PICK one \in Seq(Tasks) : /\ one = <<decl>> /\ Len(one) = 1
                                /\ DOMAIN one = {1} /\ one[1] = decl
  BY OneItem, Zenon
<1>4. <<>> \in Seq(StatIds) /\ Len(<<>>) = 0 /\ DOMAIN <<>> = {}
  OBVIOUS
<1>5. CASE Kids(Stat) = <<>>
  <2>1. Len(Kids(Stat)) = 0 /\ DOMAIN Kids(Stat) = {}
    BY <1>1, <1>5, KidLengths, KidCounts
  <2>2. Schedule(one, <<>>)
    <3>1. <<>> \o one = one
      OBVIOUS
    <3> QED BY <1>1, <1>2, <1>3, <1>5, <3>1
  <2>3. LeadsTo(one, <<>>, 1)
    BY <1>1, <1>2, <1>3, <1>4, <2>1, <2>2 DEF LeadsTo
  <2> QED BY <2>3, LeadsToView
<1>6. CASE Kids(Stat) # <<>>
  <2>1. Len(Kids(Stat)) = 1 /\ DOMAIN Kids(Stat) = {1} /\ Kid(Stat, 1) \in ExprIds
    BY <1>1, <1>6, KidLengths, KidCounts, KidTypes
  <2>2. PICK tasks \in Seq(Tasks) :
          /\ tasks = Checked(Kid(Stat, 1)) \o one /\ DOMAIN tasks = {1, 2, 3}
          /\ tasks[1].do = "expr" /\ tasks[1].node = Kid(Stat, 1)
          /\ tasks[2].do = "use" /\ tasks[2].node = Kid(Stat, 1)
          /\ tasks[3] = decl
    <3>1. PICK first \in Seq(Tasks), all \in {Checked(Kid(Stat, 1)) \o one} :
            first = Checked(Kid(Stat, 1)) /\ all = first \o one
      BY <2>1, CheckedPlaces
    <3>2. /\ Len(first) = 2 /\ DOMAIN first = {1, 2}
          /\ first[1].do = "expr" /\ first[1].node = Kid(Stat, 1)
          /\ first[2].do = "use" /\ first[2].node = Kid(Stat, 1)
      BY <2>1, <3>1, CheckedPlaces
    <3>3. /\ all \in Seq(Tasks) /\ DOMAIN all = 1 .. Len(all) /\ Len(all) = Len(first) + Len(one)
          /\ \A i \in DOMAIN first : i \in DOMAIN all /\ all[i] = first[i]
          /\ \A i \in DOMAIN one : all[i + Len(first)] = one[i]
      BY <3>1, ConcatPlaces
    <3>4. DOMAIN all = {1, 2, 3}
      BY <1>3, <3>2, <3>3
    <3>5. all[1 + 2] = decl /\ all[1] = first[1] /\ all[2] = first[2]
      BY <1>3, <3>2, <3>3
    <3>6. all[3] = decl
      BY <3>5
    <3> QED BY <3>1, <3>2, <3>3, <3>4, <3>5, <3>6
  <2>3. Schedule(tasks, <<>>)
    BY <1>1, <1>2, <1>3, <1>6, <2>2
  <2>4. \A i \in DOMAIN tasks :
          \/ /\ tasks[i].do \in {"expr", "use"}
             /\ \E c \in DOMAIN Kids(Stat) : c < 2 /\ tasks[i].node = Kid(Stat, c)
          \/ /\ tasks[i].do = "declare" /\ tasks[i].node = Stat /\ <<>> = <<>>
    <3>1. \E c \in DOMAIN Kids(Stat) : c < 2 /\ Kid(Stat, 1) = Kid(Stat, c)
      BY <2>1
    <3>2. \A i \in {1, 2} : tasks[i].do \in {"expr", "use"} /\ tasks[i].node = Kid(Stat, 1)
      BY <2>2
    <3>3. tasks[3].do = "declare" /\ tasks[3].node = Stat
      BY <1>2, <2>2
    <3> QED BY <2>2, <3>1, <3>2, <3>3
  <2>5. \A i \in DOMAIN tasks : tasks[i].do = "use" =>
          \E h \in DOMAIN tasks : /\ h < i /\ tasks[h].do = "expr"
                                  /\ tasks[h].node = tasks[i].node
    <3>1. \A i \in DOMAIN tasks : tasks[i].do = "use" => i = 2
      BY <1>2, <2>2
    <3>2. 1 \in DOMAIN tasks /\ 1 < 2
      BY <2>2
    <3> QED BY <2>2, <3>1, <3>2
  <2>6. \E i \in DOMAIN tasks : tasks[i].do = "declare" /\ tasks[i].node = Stat
    BY <1>2, <2>2
  <2>7. LeadsTo(tasks, <<>>, 2)
    BY <1>1, <1>4, <2>1, <2>3, <2>4, <2>5, <2>6 DEF LeadsTo
  <2> QED BY <2>7, LeadsToView
<1> QED BY <1>5, <1>6

-----------------------------------------------------------------------------
(* Functions. *)

\* The body of a function is checked in a scope of its own.
LEMMA EnterFunctionView ==
    ASSUME Sound, EnterFunction
    PROVE  View' /\ Declared' = Declared
<1>0. PICK top \in Nat \ {0} : top = Len(frames)
  BY SoundFacts
<1> DEFINE new == [decl |-> Stat, todo |-> <<Kid(Stat, 1)>>]
           rest == [decl |-> frames[top].decl, todo |-> Tail(Todo)]
           mid == [frames EXCEPT ![top] = rest]
           last == LastOf(prog)
<1>1. /\ AtStat("DECL_STAT") /\ Kids(Stat) # <<>> /\ Fresh(Stat) /\ prog[Stat].is_func
      /\ frames' = Append(mid, new) /\ scopes' = Append(scopes, <<>>)
      /\ prog' = prog /\ symbols' = symbols /\ exprs' = exprs
  BY <1>0 DEF EnterFunction, OpenScope, Frame, Todo
<1>2. /\ exprs = <<>> /\ Todo # <<>> /\ ~Known(Stat) /\ Type(Stat) = "DECL_STAT"
  BY <1>1, FreshMeans
<1>3. PICK stat \in DOMAIN prog :
        /\ stat = Stat /\ Pos = stat /\ Here(stat) /\ Todo = frames[top].todo
        /\ Todo \in Seq(StatIds)
        /\ last[stat] + 1 = IF 2 \in DOMAIN Todo THEN Todo[2] ELSE last[Owner(top)] + 1
  BY <1>0, <1>2, AtStatement
<1>4. /\ CoverInv /\ WellFormed(prog) /\ Preorder(prog) /\ DeclIds \subseteq DOMAIN prog
      /\ \A n \in DOMAIN prog : n \in Nat /\ last[n] \in Nat /\ n <= last[n]
      /\ TodoInv /\ OwnersInv /\ TableInv
      /\ frames \in Seq(FrameType) /\ scopes \in Seq(Seq(Addr))
      /\ top \in Nat \ {0} /\ DOMAIN frames = 1 .. top /\ DOMAIN scopes = DOMAIN frames
      /\ Len(scopes) = top
  BY <1>0, SoundFacts, ProgFacts
<1>5. /\ Len(Tail(Todo)) = Len(Todo) - 1 /\ DOMAIN Tail(Todo) = 1 .. Len(Todo) - 1
      /\ Tail(Todo) \in Seq(StatIds)
      /\ \A i \in 1 .. Len(Todo) - 1 : Tail(Todo)[i] = Todo[i + 1]
      /\ Len(Todo) \in Nat \ {0} /\ DOMAIN Todo = 1 .. Len(Todo)
      /\ Tail(Todo) = <<>> <=> Len(Todo) = 1
      /\ Tail(Todo) # <<>> => Head(Tail(Todo)) = Tail(Todo)[1]
  <2>1. PICK s \in Seq(StatIds) : s = Todo /\ s # <<>>
    BY <1>2, <1>3
  <2>2. /\ Tail(s) \in Seq(StatIds) /\ Len(Tail(s)) = Len(s) - 1
        /\ DOMAIN Tail(s) = 1 .. Len(s) - 1
        /\ \A i \in 1 .. Len(s) - 1 : Tail(s)[i] = s[i + 1]
        /\ Len(s) \in Nat \ {0} /\ DOMAIN s = 1 .. Len(s)
    BY <2>1, EmptySeq, HeadTailProperties, LenProperties
  <2>3. Tail(s) = <<>> <=> Len(Tail(s)) = 0
    BY <2>2, EmptySeq
  <2>4. Tail(s) # <<>> => Head(Tail(s)) = Tail(s)[1]
    BY <2>2, HeadTailProperties
  <2> QED BY <2>1, <2>2, <2>3, <2>4
<1>6. /\ DOMAIN frames' = 1 .. top + 1 /\ Len(frames') = top + 1
      /\ \A k \in 1 .. top : frames'[k].decl = frames[k].decl
      /\ \A k \in 1 .. top : k # top => frames'[k] = frames[k]
      /\ frames'[top].todo = Tail(Todo)
      /\ frames'[top + 1].decl = stat /\ frames'[top + 1].todo = <<Kid(stat, 1)>>
  <2>1. mid \in Seq(FrameType) /\ Len(mid) = top
    <3>1. rest \in FrameType
      <4>1. frames[top] \in FrameType
        BY <1>4
      <4> QED BY <1>5, <4>1 DEF FrameType
    <3> HIDE DEF rest
    <3> QED BY <1>4, <3>1, ExceptSeq
  <2>2. /\ \A k \in 1 .. top : k # top => mid[k] = frames[k]
        /\ mid[top].decl = frames[top].decl /\ mid[top].todo = Tail(Todo)
        /\ new.decl = stat /\ new.todo = <<Kid(stat, 1)>>
    BY <1>3, <1>4
  <2> HIDE DEF mid, new
  <2>3. /\ DOMAIN Append(mid, new) = 1 .. top + 1 /\ Len(Append(mid, new)) = top + 1
        /\ \A k \in 1 .. top : Append(mid, new)[k] = mid[k]
        /\ Append(mid, new)[top + 1] = new
    BY <1>4, <2>1
  <2> QED BY <1>1, <2>2, <2>3
<1>7. /\ DOMAIN scopes' = 1 .. top + 1
      /\ \A k \in 1 .. top : scopes'[k] = scopes[k]
      /\ scopes'[top + 1] = <<>>
  BY <1>1, <1>4
<1> HIDE DEF mid, new, rest
<1>8. /\ \A k \in 1 .. top : Owner(k)' = Owner(k) /\ Owners(k)' = Owners(k)
      /\ Owner(top + 1)' = stat
      /\ Owners(top + 1)' = Owners(top) \cup {stat}
  <2>1. ASSUME NEW k \in 1 .. top
        PROVE  Owner(k)' = Owner(k) /\ Owners(k)' = Owners(k)
    <3>1. \A i \in 2 .. k : i \in 1 .. top
      BY <1>4
    <3> QED BY <1>6, <3>1 DEF Owner, Owners
  <2>2. Owner(top + 1)' = stat
    BY <1>4, <1>6 DEF Owner
  <2>3. Owners(top + 1)' = Owners(top) \cup {stat}
    <3>1. 2 .. top + 1 = (2 .. top) \cup {top + 1}
      BY <1>4
    <3>2. \A i \in 2 .. top : frames'[i].decl = frames[i].decl
      BY <1>4, <1>6
    <3> QED BY <1>6, <3>1, <3>2 DEF Owners
  <2> QED BY <2>1, <2>2, <2>3
<1>9. PICK body \in DOMAIN prog :
        /\ body = Kid(stat, 1) /\ body = stat + 1 /\ last[body] = last[stat] /\ body <= last[stat]
        /\ Encl(body) = Encl(stat) \cup {stat} /\ stat \in Funs
  <2>1. Len(Kids(stat)) = 1 /\ DOMAIN Kids(stat) = {1}
    BY <1>1, <1>2, <1>3, <1>4, KidLengths, KidCounts
  <2>2. PICK body \in DOMAIN prog : body = Kid(stat, 1)
    BY <1>4, <2>1, TreeFacts DEF Kids, Kid
  <2>3. body = stat + 1
    <3>1. \A i \in DOMAIN prog[stat].kids : i = 1 => prog[stat].kids[i] = stat + 1
      BY <1>3, <1>4 DEF Preorder
    <3> QED BY <2>1, <2>2, <3>1 DEF Kids, Kid
  <2>6. last[stat] = last[body]
    <3>1. PICK kids \in {prog[stat].kids} : kids = prog[stat].kids
      OBVIOUS
    <3>2. kids # <<>> => last[stat] = last[kids[Len(kids)]]
      BY <1>3, <1>4, <3>1, LastDef
    <3> QED BY <1>1, <1>3, <2>1, <2>2, <3>1, <3>2 DEF Kids, Kid
  <2>4. stat \in Funs
    BY <1>1, <1>2, <1>3 DEF Funs, DeclIds, Type
  <2>5. Encl(body) = Encl(stat) \cup {stat}
    BY <1>4, <2>1, <2>2, <2>4, KidEncl
  <2> QED BY <1>4, <2>2, <2>3, <2>4, <2>5, <2>6
<1>10. Pos' = body
  <2>1. frames'[top + 1].todo # <<>> /\ Head(frames'[top + 1].todo) = body
    BY <1>6, <1>9
  <2> QED BY <1>6, <2>1 DEF Pos, After
<1>11. After(top)' = last[stat] + 1
  <2>1. top \in 1 .. top
    BY <1>4
  <2>2. CASE 2 \in DOMAIN Todo
    <3>1. Tail(Todo) # <<>> /\ Tail(Todo)[1] = Todo[2]
      BY <1>5, <2>2
    <3> QED BY <1>3, <1>5, <1>6, <2>2, <3>1 DEF After
  <2>3. CASE 2 \notin DOMAIN Todo
    <3>1. Tail(Todo) = <<>>
      BY <1>5, <2>3
    <3> QED BY <1>1, <1>3, <1>6, <1>8, <2>1, <2>3, <3>1 DEF After
  <2> QED BY <2>2, <2>3
<1>12. Declared' = Declared
  <2>1. \A d : Undeclared(d)' <=> Undeclared(d) \/ d = stat
    <3>0. (\A i \in DOMAIN exprs : FALSE) /\ (\A i \in DOMAIN exprs' : FALSE)
      BY <1>1, <1>2
    <3>1. \A d : Undeclared(d) <=> \E k \in 1 .. top : k > 1 /\ frames[k].decl = d
      BY <1>4, <3>0 DEF Undeclared
    <3>2. \A d : Undeclared(d)' <=> \E k \in 1 .. top + 1 : k > 1 /\ frames'[k].decl = d
      BY <1>6, <3>0 DEF Undeclared
    <3>3. (\A k \in 1 .. top + 1 : k \in 1 .. top \/ k = top + 1) /\ top + 1 > 1
          /\ 1 .. top \subseteq 1 .. top + 1 /\ top + 1 \in 1 .. top + 1
      BY <1>4
    <3> QED BY <1>6, <3>1, <3>2, <3>3
  <2>2. ASSUME NEW d \in DeclIds
        PROVE  last[d] < body /\ ~Undeclared(d)' <=> last[d] < stat /\ ~Undeclared(d)
    <3>1. /\ d \in DOMAIN prog /\ last[d] \in Nat /\ last[stat] \in Nat /\ stat \in Nat
          /\ stat <= last[stat]
      BY <1>4
    <3>2. last[d] < stat => d # stat
      BY <3>1
    <3>3. last[d] < body => last[d] < stat
      <4>1. SUFFICES ASSUME last[d] < body, stat <= last[d]
                     PROVE  FALSE
        BY <3>1
      <4>2. stat < d /\ d <= last[d]
        BY <1>4, <1>9, <3>1, <4>1, EndsWithin
      <4> QED BY <1>4, <1>9, <3>1, <4>1, <4>2
    <3>4. last[d] < stat => last[d] < body
      BY <1>9, <3>1
    <3> QED BY <2>1, <3>2, <3>3, <3>4
  <2>3. Declared' = {d \in DeclIds : last[d] < body /\ ~Undeclared(d)'}
    BY <1>1, <1>10, SameTree DEF Declared
  <2>4. Declared = {d \in DeclIds : last[d] < stat /\ ~Undeclared(d)}
    BY <1>3 DEF Declared
  <2> QED BY <2>2, <2>3, <2>4
<1>13. TodoInv'
  <2>1. ASSUME NEW k \in 1 .. top + 1
        PROVE  /\ \A i \in DOMAIN frames'[k].todo : \A n : frames'[k].todo[i] = n =>
                     /\ Encl(n) = Owners(k)'
                     /\ last[n] + 1 =
                          IF i + 1 \in DOMAIN frames'[k].todo THEN frames'[k].todo[i + 1]
                          ELSE last[Owner(k)'] + 1
               /\ k + 1 \in 1 .. top + 1 => After(k)' = last[frames'[k + 1].decl] + 1
    <3>1. CASE k = top + 1
      <4>1. DOMAIN <<body>> = {1} /\ <<body>>[1] = body /\ 1 + 1 \notin {1}
        OBVIOUS
      <4>2. frames'[k].todo = <<body>> /\ Owner(k)' = stat /\ Owners(k)' = Owners(top) \cup {stat}
        BY <1>6, <1>8, <1>9, <3>1
      <4>3. k + 1 \notin 1 .. top + 1
        BY <1>4, <3>1
      <4> QED BY <1>0, <1>3, <1>9, <4>1, <4>2, <4>3 DEF Here
    <3>2. CASE k = top
      <4>1. /\ frames'[k].todo = Tail(Todo) /\ Owner(k)' = Owner(top)
            /\ Owners(k)' = Owners(top) /\ frames'[k + 1].decl = stat
        BY <1>4, <1>6, <1>8, <3>2
      <4>2. ASSUME NEW i \in DOMAIN Tail(Todo)
            PROVE  /\ Encl(Tail(Todo)[i]) = Owners(top)
                   /\ last[Tail(Todo)[i]] + 1 =
                        IF i + 1 \in DOMAIN Tail(Todo) THEN Tail(Todo)[i + 1]
                        ELSE last[Owner(top)] + 1
        <5>1. i + 1 \in DOMAIN Todo /\ Tail(Todo)[i] = Todo[i + 1]
          BY <1>5, <4>2
        <5>2. i + 1 \in DOMAIN Tail(Todo) <=> i + 1 + 1 \in DOMAIN Todo
          BY <1>5, <4>2
        <5>3. i + 1 \in DOMAIN Tail(Todo) => Tail(Todo)[i + 1] = Todo[i + 1 + 1]
          BY <1>5, <4>2
        <5>4. /\ Encl(Todo[i + 1]) = Owners(top)
              /\ last[Todo[i + 1]] + 1 = IF i + 1 + 1 \in DOMAIN Todo THEN Todo[i + 1 + 1]
                                         ELSE last[Owner(top)] + 1
          <6>1. top \in DOMAIN frames /\ frames[top].todo = Todo
            BY <1>3, <1>4
          <6> QED BY <1>4, <5>1, <6>1 DEF TodoInv
        <5> QED BY <5>1, <5>2, <5>3, <5>4
      <4> QED BY <1>11, <3>2, <4>1, <4>2
    <3>3. CASE k # top /\ k # top + 1
      <4>1. k \in 1 .. top /\ k + 1 \in 1 .. top
        BY <1>4, <3>3
      <4>2. frames'[k] = frames[k] /\ frames'[k + 1].decl = frames[k + 1].decl
        BY <1>6, <3>3, <4>1
      <4>3. After(k)' = After(k) /\ Owner(k)' = Owner(k) /\ Owners(k)' = Owners(k)
        BY <1>1, <1>8, <4>1, <4>2 DEF After
      <4>4. /\ \A i \in DOMAIN frames[k].todo :
                 /\ Encl(frames[k].todo[i]) = Owners(k)
                 /\ last[frames[k].todo[i]] + 1 =
                       IF i + 1 \in DOMAIN frames[k].todo THEN frames[k].todo[i + 1]
                       ELSE last[Owner(k)] + 1
            /\ After(k) = last[frames[k + 1].decl] + 1
        BY <1>4, <4>1 DEF TodoInv
      <4> QED BY <4>2, <4>3, <4>4
    <3> QED BY <3>1, <3>2, <3>3
  <2>2. \A k \in 1 .. top + 1 : \A i \in DOMAIN frames'[k].todo : \A n :
          frames'[k].todo[i] = n => Encl(n)' = Owners(k)'
    BY <1>1, <2>1, SameTree
  <2>3. \A k \in DOMAIN frames' :
          LET todo == frames'[k].todo
          IN  /\ \A i \in DOMAIN todo :
                    LastOf(prog')[todo[i]] + 1 =
                          IF i + 1 \in DOMAIN todo THEN todo[i + 1]
                          ELSE LastOf(prog')[Owner(k)'] + 1
              /\ k + 1 \in DOMAIN frames' =>
                    After(k)' = LastOf(prog')[frames'[k + 1].decl] + 1
    <3>1. prog' = prog /\ DOMAIN frames' = 1 .. top + 1
      BY <1>1, <1>6
    <3> QED BY <2>1, <3>1
  <2> QED BY <1>6, <2>2, <2>3 DEF TodoInv
<1>14. OwnersInv'
  <2>1. ASSUME NEW k \in 1 .. top + 1, k > 1
        PROVE  \A f : f = frames'[k].decl =>
                  /\ f \in Funs' /\ Encl(f)' = Owners(k - 1)' /\ ~Known(f)'
    <3>1. k - 1 \in 1 .. top
      BY <1>4, <2>1
    <3>2. CASE k = top + 1
      <4>1. k - 1 = top /\ frames'[k].decl = stat /\ Owners(k - 1)' = Owners(top)
        BY <1>4, <1>6, <1>8, <3>1, <3>2
      <4>2. stat \in Funs /\ Encl(stat) = Owners(top) /\ ~Known(stat)
        BY <1>0, <1>2, <1>3, <1>9 DEF Here
      <4> QED BY <1>1, <4>1, <4>2, SameTree
    <3>3. CASE k # top + 1
      <4>1. k \in 1 .. top /\ frames'[k].decl = frames[k].decl
        BY <1>4, <1>6, <3>3
      <4>2. \A f : f = frames[k].decl => f \in Funs /\ Encl(f) = Owners(k - 1) /\ ~Known(f)
        BY <1>4, <2>1, <4>1 DEF OwnersInv
      <4> QED BY <1>1, <1>8, <3>1, <4>1, <4>2, SameTree
    <3> QED BY <3>2, <3>3
  <2> QED BY <1>6, <2>1 DEF OwnersInv
<1>15. TableInv'
  <2>1. ASSUME NEW k \in 1 .. top + 1, NEW name \in Names
        PROVE  Holds(k, name)' <=>
                  \E d \in Declared : ScopeOf(prog, d) = Owner(k)' /\ prog[d].name = name
    <3>1. CASE k = top + 1
      <4>1. ~Holds(k, name)'
        BY <1>7, <3>1 DEF Holds
      <4>2. ASSUME NEW d \in Declared, ScopeOf(prog, d) = stat
            PROVE  FALSE
        <5>1. d \in DOMAIN prog /\ last[d] < stat
          BY <1>3, <1>4 DEF Declared
        <5>2. stat # 1
          BY <1>2, <1>3, <1>4, ProgFacts DEF DeclIds, Type
        <5>3. stat \in Encl(d)
          BY <1>4, <4>2, <5>1, <5>2, ScopeOfDecl
        <5>4. stat < d
          BY <5>3 DEF Encl
        <5> QED BY <1>4, <5>1, <5>4
      <4> QED BY <1>8, <3>1, <4>1, <4>2
    <3>2. CASE k # top + 1
      <4>1. k \in 1 .. top
        BY <1>4, <3>2
      <4>2. Holds(k, name)' <=> Holds(k, name)
        BY <1>1, <1>7, <4>1 DEF Holds
      <4>3. k \in DOMAIN frames /\ Owner(k)' = Owner(k)
        BY <1>4, <1>8, <4>1
      <4>4. Holds(k, name) <=> \E d \in Declared : /\ ScopeOf(prog, d) = Owner(k)
                                                    /\ prog[d].name = name
        BY <1>4, <4>3 DEF TableInv
      <4> QED BY <4>2, <4>3, <4>4
    <3> QED BY <3>1, <3>2
  <2> QED BY <1>1, <1>6, <1>12, <2>1 DEF TableInv
<1>16. ExprsInv' /\ ResultsInv'
  <2>1. DOMAIN exprs' = {}
    BY <1>1, <1>2
  <2> QED BY <2>1 DEF ExprsInv, ResultsInv
<1> QED BY <1>12, <1>13, <1>14, <1>15, <1>16 DEF View

\* When the body is done the declarations in it are behind; so is the function, but
\* for its own declaration, which comes next.
LEMMA LeaveFunctionView ==
    ASSUME Sound, LeaveFunction
    PROVE  View' /\ Declared' = Declared
<1>0. PICK top \in Nat \ {0} : top = Len(frames)
  BY SoundFacts
<1>1. PICK decl \in {frames[top].decl} : decl = frames[top].decl
  OBVIOUS
<1> DEFINE last == LastOf(prog)
<1>2. /\ exprs = <<>> /\ frames[top].todo = <<>> /\ top > 1 /\ CloseScope
      /\ exprs' = <<Task("declare", decl)>> /\ frames' = SubSeq(frames, 1, top - 1)
      /\ prog' = prog
  BY <1>0, <1>1 DEF LeaveFunction, Todo
<1>3. /\ CoverInv /\ IInv /\ TodoInv /\ OwnersInv /\ TableInv
      /\ frames \in Seq(FrameType) /\ frames # <<>>
      /\ DOMAIN frames = 1 .. top /\ DOMAIN scopes = 1 .. top /\ Len(scopes) = top
      /\ scopes \in Seq(Seq(Addr)) /\ scopes # <<>>
  BY <1>0, SoundFacts, EmptySeq
<1>4. /\ DOMAIN frames' = 1 .. top - 1 /\ Len(frames') = top - 1
      /\ \A k \in 1 .. top - 1 : frames'[k] = frames[k]
      /\ 1 .. top - 1 \subseteq 1 .. top /\ top - 1 \in 1 .. top - 1 /\ top \in 1 .. top
      /\ top - 1 + 1 = top /\ \A k \in 1 .. top : k = top \/ k \in 1 .. top - 1
  BY <1>0, <1>2, <1>3, PopProperties, LenProperties
<1>5. /\ DOMAIN exprs' = {1} /\ exprs'[1].do = "declare" /\ exprs'[1].node = decl
      /\ DOMAIN exprs = {}
  BY <1>2 DEF Task
<1>6. /\ decl \in Funs /\ Encl(decl) = Owners(top - 1) /\ ~Known(decl)
      /\ Owner(top) = decl /\ decl \in DOMAIN prog /\ last[decl] \in Nat
  <2>1. /\ decl \in Funs /\ Encl(decl) = Owners(top - 1) /\ ~Known(decl)
        /\ Owner(top) = decl
    <3>1. top \in DOMAIN frames /\ top # 1
      BY <1>2, <1>3, <1>4
    <3>2. \A f : f = frames[top].decl => f \in Funs /\ Encl(f) = Owners(top - 1) /\ ~Known(f)
      BY <1>2, <1>3, <3>1 DEF OwnersInv
    <3>3. Owner(top) = decl
      BY <1>1, <3>1 DEF Owner
    <3> QED BY <1>1, <3>2, <3>3
  <2> QED BY <1>3, <2>1, ProgFacts
<1>7. \A k \in 1 .. top - 1 : /\ Owner(k)' = Owner(k) /\ Owners(k)' = Owners(k)
                              /\ After(k)' = After(k)
  <2> SUFFICES ASSUME NEW k \in 1 .. top - 1
               PROVE  /\ Owner(k)' = Owner(k) /\ Owners(k)' = Owners(k)
                      /\ After(k)' = After(k)
    OBVIOUS
  <2>1. \A i \in 2 .. k : i \in 1 .. top - 1
    BY <1>0
  <2>2. Owner(k)' = Owner(k) /\ Owners(k)' = Owners(k)
    BY <1>4, <2>1 DEF Owner, Owners
  <2> QED BY <1>2, <1>4, <2>2 DEF After
<1>8. Pos = last[decl] + 1 /\ Pos' = last[decl] + 1
  <2>1. After(top) = last[decl] + 1
    BY <1>2, <1>6 DEF After
  <2>2. After(top - 1) = last[decl] + 1
    <3>1. top - 1 \in DOMAIN frames /\ top - 1 + 1 \in DOMAIN frames
      BY <1>3, <1>4
    <3> QED BY <1>1, <1>3, <1>4, <3>1 DEF TodoInv
  <2>3. After(top - 1)' = After(top - 1)
    BY <1>4, <1>7
  <2>4. Pos' = After(top - 1)'
    BY <1>4 DEF Pos, After, Owner
  <2> QED BY <1>0, <2>1, <2>2, <2>3, <2>4 DEF Pos
<1>9. Declared' = Declared
  <2>1. ASSUME NEW d
        PROVE  Undeclared(d)' <=> Undeclared(d)
    <3>1. Undeclared(d) <=> \E k \in 1 .. top : k > 1 /\ frames[k].decl = d
      BY <1>3, <1>5 DEF Undeclared
    <3>2. Undeclared(d)' <=> d = decl \/ \E k \in 1 .. top - 1 : k > 1 /\ frames[k].decl = d
      BY <1>4, <1>5 DEF Undeclared
    <3> QED BY <1>1, <1>2, <1>4, <3>1, <3>2
  <2> QED BY <1>2, <1>8, <2>1, SameTree DEF Declared
<1>10. TodoInv'
  <2>1. ASSUME NEW k \in 1 .. top - 1
        PROVE  /\ \A i \in DOMAIN frames'[k].todo : \A n : frames'[k].todo[i] = n =>
                     /\ Encl(n) = Owners(k)'
                     /\ last[n] + 1 =
                          IF i + 1 \in DOMAIN frames'[k].todo THEN frames'[k].todo[i + 1]
                          ELSE last[Owner(k)'] + 1
               /\ k + 1 \in 1 .. top - 1 => After(k)' = last[frames'[k + 1].decl] + 1
    <3>1. k \in DOMAIN frames /\ (k + 1 \in 1 .. top - 1 => k + 1 \in DOMAIN frames)
      BY <1>3, <1>4
    <3>2. /\ frames'[k] = frames[k] /\ After(k)' = After(k)
          /\ Owner(k)' = Owner(k) /\ Owners(k)' = Owners(k)
          /\ k + 1 \in 1 .. top - 1 => frames'[k + 1] = frames[k + 1]
      BY <1>4, <1>7
    <3> QED BY <1>3, <3>1, <3>2 DEF TodoInv
  <2>2. \A k \in 1 .. top - 1 : \A i \in DOMAIN frames'[k].todo : \A n :
          frames'[k].todo[i] = n => Encl(n)' = Owners(k)'
    BY <1>2, <2>1, SameTree
  <2>3. \A k \in DOMAIN frames' :
          LET todo == frames'[k].todo
          IN  /\ \A i \in DOMAIN todo :
                    LastOf(prog')[todo[i]] + 1 =
                          IF i + 1 \in DOMAIN todo THEN todo[i + 1]
                          ELSE LastOf(prog')[Owner(k)'] + 1
              /\ k + 1 \in DOMAIN frames' =>
                    After(k)' = LastOf(prog')[frames'[k + 1].decl] + 1
    <3>1. prog' = prog /\ DOMAIN frames' = 1 .. top - 1
      BY <1>2, <1>4
    <3> QED BY <2>1, <3>1
  <2> QED BY <1>4, <2>2, <2>3 DEF TodoInv
<1>11. OwnersInv'
  <2>1. ASSUME NEW k \in 1 .. top - 1, k > 1
        PROVE  \A f : f = frames'[k].decl =>
                  /\ f \in Funs' /\ Encl(f)' = Owners(k - 1)' /\ ~Known(f)'
    <3>1. k - 1 \in 1 .. top - 1 /\ k \in DOMAIN frames
      BY <1>0, <1>3, <2>1
    <3>2. \A f : f = frames[k].decl => f \in Funs /\ Encl(f) = Owners(k - 1) /\ ~Known(f)
      BY <1>3, <2>1, <3>1 DEF OwnersInv
    <3> QED BY <1>2, <1>4, <1>7, <3>1, <3>2, SameTree
  <2> QED BY <1>4, <2>1 DEF OwnersInv
<1>12. TableInv'
  <2>1. \A k \in DOMAIN scopes' :
          /\ k \in DOMAIN scopes /\ scopes'[k] = scopes[k]
          /\ \A i \in DOMAIN scopes[k] : symbols'[scopes[k][i]] = symbols[scopes[k][i]]
    BY <1>2, <1>3, CloseScopeKeepsInv DEF IInv
  <2>2. DOMAIN scopes' = 1 .. top - 1
    BY <1>2, <1>3, PopProperties, LenProperties DEF CloseScope
  <2>3. ASSUME NEW k \in 1 .. top - 1, NEW name \in Names
        PROVE  Holds(k, name)' <=>
                  \E d \in Declared : ScopeOf(prog, d) = Owner(k)' /\ prog[d].name = name
    <3>1. Holds(k, name)' <=> Holds(k, name)
      BY <2>1, <2>2, <2>3 DEF Holds
    <3>2. k \in DOMAIN frames /\ Owner(k)' = Owner(k)
      BY <1>3, <1>4, <1>7
    <3>3. Holds(k, name) <=> \E d \in Declared : /\ ScopeOf(prog, d) = Owner(k)
                                                  /\ prog[d].name = name
      BY <1>3, <3>2 DEF TableInv
    <3> QED BY <3>1, <3>2, <3>3
  <2> QED BY <1>2, <1>4, <1>9, <2>3 DEF TableInv
<1>13. ExprsInv'
  <2>1. \A i \in DOMAIN exprs' : exprs'[i].do = "declare" /\ exprs'[i].node = decl
    BY <1>5
  <2>2. \A n : n = decl => /\ Encl(n)' = Owners(top - 1)' /\ LastOf(prog')[n] + 1 = Pos'
                           /\ ~Known(n)'
    <3>1. \A n : n = decl => Encl(n)' = Owners(top - 1) /\ ~Known(n)'
      BY <1>2, <1>6, SameTree
    <3> QED BY <1>2, <1>4, <1>6, <1>7, <1>8, <3>1
  <2>3. Owners(Len(frames))' = Owners(top - 1)'
    BY <1>4 DEF Owners
  <2> QED BY <2>1, <2>2, <2>3 DEF ExprsInv
<1>14. ResultsInv'
  BY <1>5 DEF ResultsInv
<1> QED BY <1>9, <1>10, <1>11, <1>12, <1>13, <1>14 DEF View

\* A step that leaves the frames as they are.
LEMMA SameFrames ==
    ASSUME Sound, prog' = prog, frames' = frames
    PROVE  /\ TodoInv' /\ OwnersInv' /\ Pos' = Pos
           /\ \A k : Owner(k)' = Owner(k) /\ Owners(k)' = Owners(k)
           /\ Owners(Len(frames))' = Owners(Len(frames))
<1>1. TodoInv /\ OwnersInv
  BY SoundFacts
<1>2. \A k : /\ Owner(k)' = Owner(k) /\ Owners(k)' = Owners(k) /\ After(k)' = After(k)
  BY DEF Owner, Owners, After
<1>3. Owners(Len(frames))' = Owners(Len(frames)) /\ Pos' = Pos
  BY DEF Owner, Owners, After, Pos
<1>4. \A k \in DOMAIN frames : \A i \in DOMAIN frames[k].todo : \A n :
         frames[k].todo[i] = n => Encl(n)' = Owners(k)'
  BY <1>1, <1>2, SameTree DEF TodoInv
<1>5. \A k \in DOMAIN frames' :
         LET todo == frames'[k].todo
         IN  /\ \A i \in DOMAIN todo :
                   LastOf(prog')[todo[i]] + 1 =
                         IF i + 1 \in DOMAIN todo THEN todo[i + 1]
                         ELSE LastOf(prog')[Owner(k)'] + 1
             /\ k + 1 \in DOMAIN frames' =>
                   After(k)' = LastOf(prog')[frames'[k + 1].decl] + 1
  BY <1>1, <1>2 DEF TodoInv
<1>6. TodoInv'
  BY <1>4, <1>5 DEF TodoInv
<1>7. ASSUME NEW k \in DOMAIN frames, k > 1
      PROVE  \A f : f = frames[k].decl =>
                /\ f \in Funs' /\ Encl(f)' = Owners(k - 1)' /\ ~Known(f)'
  <2>1. \A f : f = frames[k].decl => f \in Funs /\ Encl(f) = Owners(k - 1) /\ ~Known(f)
    BY <1>1, <1>7 DEF OwnersInv
  <2> QED BY <1>2, <2>1, SameTree
<1>8. OwnersInv'
  BY <1>7 DEF OwnersInv
<1> QED BY <1>2, <1>3, <1>6, <1>8

\* What the declaration at the head of `exprs' brings: one name in the innermost scope.
LEMMA DeclareFacts ==
    ASSUME Sound, Declare
    PROVE  \E n \in DeclIds, a \in Addr :
             /\ n = Head(exprs).node /\ DOMAIN exprs = {1} /\ exprs[1] = Head(exprs)
             /\ Head(exprs).do = "declare" /\ prog[n].name \in Names
             /\ symbols[a] = Blank
             /\ symbols' = [symbols EXCEPT ![a] = [name |-> prog[n].name, datatype |-> "INT_DT"]]
             /\ scopes' = [scopes EXCEPT ![Len(scopes)] = Append(@, a)]
             /\ symbolOf' = [symbolOf EXCEPT ![n] = a]
             /\ exprs' = <<>> /\ prog' = prog /\ frames' = frames /\ errors' = errors
             /\ status' = status /\ result' = result
<1>1. /\ status = "checking" /\ exprs # <<>> /\ Head(exprs).do = "declare"
      /\ exprs' = Tail(exprs)
      /\ UNCHANGED <<prog, frames, result, errors>>
  BY DEF Declare
<1>2. PICK n : n = Head(exprs).node
  OBVIOUS
<1>3. PICK name : name = prog[n].name
  OBVIOUS
<1>4. IInv /\ exprs \in Seq(Tasks)
  BY SoundFacts
<1>5. /\ n \in DeclIds /\ name \in Names /\ Len(exprs) = 1 /\ InsertAllowed(name)
  BY <1>1, <1>2, <1>3, <1>4, DeclareAllowed
<1>6. PICK a \in Addr :
        /\ CreateEntry(a, name, "INT_DT") /\ Insert(a)
        /\ symbolOf' = [symbolOf EXCEPT ![n] = a] /\ UNCHANGED status
  BY <1>2, <1>3, <1>5 DEF Declare
<1>7. DOMAIN exprs = {1} /\ exprs[1] = Head(exprs) /\ exprs' = <<>>
  BY <1>1, <1>4, <1>5, HeadTailProperties, LenProperties, EmptySeq
<1>8. /\ symbols[a] = Blank
      /\ symbols' = [symbols EXCEPT ![a] = [name |-> name, datatype |-> "INT_DT"]]
      /\ scopes' = [scopes EXCEPT ![Len(scopes)] = Append(@, a)]
  BY <1>6 DEF CreateEntry, Insert
<1> QED BY <1>1, <1>2, <1>3, <1>5, <1>6, <1>7, <1>8

\* The scope of the declaration is the innermost open one.
LEMMA OwnScope ==
    ASSUME Sound, NEW n \in DOMAIN prog, Encl(n) = Owners(Len(frames))
    PROVE  ScopeOf(prog, n) = Owner(Len(frames))
<1>1. PICK top \in Nat \ {0} : top = Len(frames) /\ top \in DOMAIN frames
  <2>1. Len(frames) \in Nat \ {0} /\ Len(frames) \in DOMAIN frames
    BY SoundFacts
  <2> QED BY <2>1
<1>2. CoverInv /\ OwnersInv
  BY SoundFacts
<1>3. /\ ScopeOf(prog, n) \in {1} \cup Owners(top)
      /\ \A f \in Owners(top) : f <= ScopeOf(prog, n)
  BY <1>1, <1>2, ScopeOfDecl
<1>4. /\ Owner(top) \in DOMAIN prog
      /\ top # 1 => Owner(top) \in Owners(top) /\ Owner(top) > 1
      /\ \A f \in Owners(top) : f <= Owner(top) /\ f \in Nat
  <2>1. /\ Owner(top) \in DOMAIN prog
        /\ top # 1 => Owner(top) \in Owners(top) /\ Owner(top) > 1
        /\ \A f \in Owners(top) : f <= Owner(top)
    BY <1>1, <1>2, OwnerFacts
  <2>2. \A f \in Encl(n) : f \in Nat
    BY <1>2, ProgFacts DEF Encl
  <2> QED BY <1>1, <2>1, <2>2
<1>5. CASE top = 1
  <2>1. Owners(top) = {}
    BY <1>5 DEF Owners
  <2>2. Owner(top) = 1
    BY <1>5 DEF Owner
  <2> QED BY <1>1, <1>3, <2>1, <2>2
<1>6. CASE top # 1
  <2>1. Owner(top) \in Nat /\ Owner(top) > 1 /\ Owner(top) <= ScopeOf(prog, n)
    BY <1>2, <1>3, <1>4, <1>6, ProgFacts
  <2>2. ScopeOf(prog, n) \in Nat /\ ScopeOf(prog, n) <= Owner(top)
    BY <1>3, <1>4, <2>1
  <2> QED BY <1>1, <2>1, <2>2
<1> QED BY <1>5, <1>6

\* The scope holds one name more, and one declaration more is behind.
LEMMA DeclareView ==
    ASSUME Sound, Declare
    PROVE  View' /\ Declared' = Declared \cup {Head(exprs).node}
<1>1. PICK n \in DeclIds, a \in Addr :
             /\ n = Head(exprs).node /\ DOMAIN exprs = {1} /\ exprs[1] = Head(exprs)
             /\ Head(exprs).do = "declare" /\ prog[n].name \in Names
             /\ symbols[a] = Blank
             /\ symbols' = [symbols EXCEPT ![a] = [name |-> prog[n].name, datatype |-> "INT_DT"]]
             /\ scopes' = [scopes EXCEPT ![Len(scopes)] = Append(@, a)]
             /\ exprs' = <<>> /\ prog' = prog /\ frames' = frames
  BY DeclareFacts
<1>2. PICK top \in Nat \ {0} :
        /\ top = Len(frames) /\ DOMAIN frames = 1 .. top /\ top \in DOMAIN frames
        /\ DOMAIN scopes = 1 .. top /\ Len(scopes) = top
  <2>1. /\ Len(frames) \in Nat \ {0} /\ DOMAIN frames = 1 .. Len(frames)
        /\ DOMAIN scopes = DOMAIN frames /\ Len(scopes) = Len(frames)
    BY SoundFacts
  <2>2. Len(frames) \in DOMAIN frames
    BY <2>1
  <2> QED BY <2>1, <2>2
<1>3. /\ CoverInv /\ IInv /\ OwnersInv /\ TableInv /\ ExprsInv
      /\ scopes \in Seq(Seq(Addr))
  BY SoundFacts
<1>4. TodoInv' /\ OwnersInv' /\ Pos' = Pos /\ \A k : Owner(k)' = Owner(k)
  BY <1>1, SameFrames
<1>5. /\ Encl(n) = Owners(top) /\ LastOf(prog)[n] < Pos /\ n \in DOMAIN prog
  <2>1. Encl(n) = Owners(top) /\ LastOf(prog)[n] + 1 = Pos
    BY <1>1, <1>2, <1>3 DEF ExprsInv
  <2>2. n \in DOMAIN prog /\ LastOf(prog)[n] \in Nat
    BY <1>3, ProgFacts
  <2> QED BY <2>1, <2>2
<1>6. ScopeOf(prog, n) = Owner(top)
  BY <1>2, <1>5, OwnScope
<1>7. Declared' = Declared \cup {n}
  <2>1. DOMAIN exprs' = {}
    BY <1>1
  <2>2. \A d : Undeclared(d) <=> d = n \/ \E k \in DOMAIN frames : k > 1 /\ frames[k].decl = d
    BY <1>1 DEF Undeclared
  <2>3. \A d : Undeclared(d)' <=> \E k \in DOMAIN frames : k > 1 /\ frames[k].decl = d
    BY <1>1, <2>1 DEF Undeclared
  <2>4. ~Undeclared(n)'
    <3> SUFFICES ASSUME NEW k \in DOMAIN frames, k > 1, frames[k].decl = n
                 PROVE  FALSE
      BY <2>3
    <3>1. k \in 2 .. top
      BY <1>2
    <3>2. n \in Encl(n)
      BY <1>5, <3>1 DEF Owners
    <3>3. n < n
      BY <3>2 DEF Encl
    <3> QED BY <1>3, <1>5, <3>3, ProgFacts
  <2> QED BY <1>1, <1>4, <1>5, <2>2, <2>3, <2>4, SameTree DEF Declared
<1>8. TableInv'
  <2>1. ASSUME NEW k \in DOMAIN scopes, NEW i \in DOMAIN scopes[k]
        PROVE  scopes[k][i] \in Addr /\ symbols'[scopes[k][i]] = symbols[scopes[k][i]]
    <3>1. scopes[k][i] \in Addr
      BY <1>3
    <3>2. scopes[k][i] # a
      BY <1>1, <1>3 DEF IInv, SymInv, MemoryOwned
    <3> QED BY <1>1, <1>3, <3>1, <3>2 DEF IInv, TypeOK, SymTypeOK
  <2>2. ASSUME NEW k \in DOMAIN frames, NEW name \in Names
        PROVE  Holds(k, name)' <=>
                  \E d \in Declared \cup {n} : ScopeOf(prog, d) = Owner(k) /\ prog[d].name = name
    <3>1. Holds(k, name) <=> \E d \in Declared : /\ ScopeOf(prog, d) = Owner(k)
                                                  /\ prog[d].name = name
      BY <1>3 DEF TableInv
    <3>2. CASE k # top
      <4>1. scopes'[k] = scopes[k] /\ k \in DOMAIN scopes
        BY <1>1, <1>2, <3>2
      <4>2. Holds(k, name)' <=> Holds(k, name)
        BY <2>1, <4>1 DEF Holds
      <4>3. Owner(k) # Owner(top)
        <5>1. k < top
          BY <1>2, <3>2
        <5>2. Owner(k) < Owner(top) /\ Owner(k) \in DOMAIN prog
          BY <1>2, <1>3, <5>1, OwnerFacts
        <5> QED BY <1>3, <5>2, ProgFacts
      <4> QED BY <1>6, <3>1, <4>2, <4>3
    <3>3. CASE k = top
      <4>1. PICK old \in Seq(Addr) : old = scopes[top] /\ k \in DOMAIN scopes
        BY <1>2, <1>3, <3>3
      <4>2. scopes'[k] = Append(old, a)
        BY <1>1, <1>2, <3>3, <4>1
      <4>3. /\ DOMAIN Append(old, a) = DOMAIN old \cup {Len(old) + 1}
            /\ \A i \in DOMAIN old : Append(old, a)[i] = old[i]
            /\ Append(old, a)[Len(old) + 1] = a
        BY <4>1, AppendProperties
      <4>4. symbols'[a].name = prog[n].name
        BY <1>1, <1>3 DEF IInv, TypeOK, SymTypeOK
      <4>5. \A i \in DOMAIN old : symbols'[old[i]].name = symbols[old[i]].name
        BY <2>1, <3>3, <4>1
      <4>6. Holds(k, name)' <=> \E i \in DOMAIN Append(old, a) :
                                   symbols'[Append(old, a)[i]].name = name
        BY <4>2 DEF Holds
      <4>7. Holds(k, name) <=> \E i \in DOMAIN old : symbols[old[i]].name = name
        BY <3>3, <4>1 DEF Holds
      <4>8. Holds(k, name)' <=> Holds(k, name) \/ prog[n].name = name
        BY <4>3, <4>4, <4>5, <4>6, <4>7
      <4> QED BY <1>6, <3>1, <3>3, <4>8
    <3> QED BY <3>2, <3>3
  <2> QED BY <1>1, <1>4, <1>7, <2>2 DEF TableInv
<1>9. ExprsInv' /\ ResultsInv'
  <2>1. DOMAIN exprs' = {}
    BY <1>1
  <2> QED BY <2>1 DEF ExprsInv, ResultsInv
<1> QED BY <1>1, <1>4, <1>7, <1>8, <1>9 DEF View

\* A pending call on an expression is replaced by the calls it makes, if it makes any.
CallsOn(calls) ==
    /\ exprs # <<>> /\ Head(exprs).do # "declare"
    /\ calls \in Seq(Tasks) /\ exprs' = calls \o Tail(exprs)
    /\ \A i \in DOMAIN calls :
          /\ calls[i].do \in {"expr", "binop"}
          /\ calls[i].do = "expr" => Here(calls[i].node)
          /\ calls[i].do = "binop" =>
                \A c \in {1, 2} : \E h \in DOMAIN calls :
                   /\ h < i /\ calls[h].do = "expr"
                   /\ calls[h].node = Kid(calls[i].node, c)
    /\ Head(exprs).do \in {"expr", "binop"} =>
          \/ result'[Head(exprs).node] = "INT_DT"
          \/ \E h \in DOMAIN calls : /\ calls[h].do \in {"expr", "binop"}
                                     /\ calls[h].node = Head(exprs).node
    /\ \A m \in DOMAIN prog : result[m] = "INT_DT" => result'[m] = "INT_DT"
    /\ UNCHANGED <<scopes, symbols, prog, frames, errors, status>>

\* Where the calls stand afterwards.
LEMMA CallPlaces ==
    ASSUME Sound, NEW calls, CallsOn(calls)
    PROVE  /\ Len(calls) \in Nat /\ DOMAIN calls = 1 .. Len(calls)
           /\ \A i \in DOMAIN exprs : i \in Nat
           /\ \A i \in DOMAIN exprs' : i \in Nat
           /\ Head(exprs) = exprs[1] /\ 1 \in DOMAIN exprs
           /\ \A i \in DOMAIN exprs' :
                 \/ i \in DOMAIN calls /\ exprs'[i] = calls[i]
                 \/ /\ i > Len(calls) /\ i - Len(calls) + 1 \in DOMAIN exprs
                    /\ exprs'[i] = exprs[i - Len(calls) + 1]
           /\ \A i \in DOMAIN calls : i \in DOMAIN exprs' /\ exprs'[i] = calls[i]
           /\ \A i \in DOMAIN exprs : i > 1 =>
                 i - 1 + Len(calls) \in DOMAIN exprs' /\ exprs'[i - 1 + Len(calls)] = exprs[i]
<1>1. exprs \in Seq(Tasks) /\ exprs # <<>> /\ calls \in Seq(Tasks)
      /\ exprs' = calls \o Tail(exprs)
  BY SoundFacts DEF CallsOn
<1>2. PICK s \in Seq(Tasks), u \in {exprs'} : s = exprs /\ u = exprs' /\ s # <<>>
                                              /\ u = calls \o Tail(s)
  BY <1>1
<1>3. /\ Len(calls) \in Nat /\ DOMAIN u = 1 .. Len(u) /\ DOMAIN s = 1 .. Len(s)
      /\ DOMAIN calls = 1 .. Len(calls)
      /\ Head(s) = s[1] /\ 1 \in DOMAIN s
      /\ \A i \in DOMAIN u : \/ i \in DOMAIN calls /\ u[i] = calls[i]
                             \/ /\ i > Len(calls) /\ i - Len(calls) + 1 \in DOMAIN s
                                /\ u[i] = s[i - Len(calls) + 1]
      /\ \A i \in DOMAIN calls : i \in DOMAIN u /\ u[i] = calls[i]
      /\ \A i \in DOMAIN s : i > 1 =>
            i - 1 + Len(calls) \in DOMAIN u /\ u[i - 1 + Len(calls)] = s[i]
  <2>1. HeadReplaced(u, s, calls)
    BY <1>1, <1>2, HeadIsReplaced
  <2> QED BY <2>1, Zenon DEF HeadReplaced
<1>4. (\A i \in DOMAIN s : i \in Nat) /\ (\A i \in DOMAIN u : i \in Nat)
  BY <1>3
<1> QED BY <1>2, <1>3, <1>4

\* What is pending stays pending, or has got its result.
LEMMA PendingKept ==
    ASSUME Sound, NEW calls, CallsOn(calls), NEW i \in DOMAIN exprs, i > 1,
           NEW m \in DOMAIN prog,
           IsPending(m, i) \/ result[m] = "INT_DT"
    PROVE  \A k : k = i - 1 + Len(calls) => IsPending(m, k)' \/ result'[m] = "INT_DT"
<1>1. /\ Len(calls) \in Nat /\ DOMAIN calls = 1 .. Len(calls)
      /\ \A j \in DOMAIN exprs : j \in Nat
      /\ Head(exprs) = exprs[1] /\ 1 \in DOMAIN exprs
      /\ \A j \in DOMAIN calls : j \in DOMAIN exprs' /\ exprs'[j] = calls[j]
      /\ \A j \in DOMAIN exprs : j > 1 =>
            j - 1 + Len(calls) \in DOMAIN exprs' /\ exprs'[j - 1 + Len(calls)] = exprs[j]
  BY CallPlaces
<1>2. /\ Head(exprs).do \in {"expr", "binop"} =>
            \/ result'[Head(exprs).node] = "INT_DT"
            \/ \E h \in DOMAIN calls : /\ calls[h].do \in {"expr", "binop"}
                                       /\ calls[h].node = Head(exprs).node
      /\ result[m] = "INT_DT" => result'[m] = "INT_DT"
  BY DEF CallsOn
<1> SUFFICES ASSUME NEW k, k = i - 1 + Len(calls)
             PROVE  IsPending(m, k)' \/ result'[m] = "INT_DT"
  OBVIOUS
<1>3. CASE result[m] = "INT_DT"
  BY <1>2, <1>3
<1>4. CASE IsPending(m, i)
  <2>1. PICK j \in DOMAIN exprs : /\ j < i /\ exprs[j].node = m
                                  /\ exprs[j].do \in {"expr", "binop"}
    BY <1>4 DEF IsPending
  <2>2. CASE j > 1
    <3>1. PICK h \in DOMAIN exprs' : h = j - 1 + Len(calls) /\ exprs'[h] = exprs[j]
      BY <1>1, <2>2
    <3>2. h < k
      BY <1>1, <2>1, <3>1
    <3> QED BY <2>1, <3>1, <3>2 DEF IsPending
  <2>3. CASE ~(j > 1)
    <3>1. j = 1
      BY <1>1, <2>3, SoundFacts, LenProperties
    <3>2. Head(exprs).node = m /\ Head(exprs).do \in {"expr", "binop"}
      BY <1>1, <2>1, <3>1
    <3>3. ASSUME NEW h \in DOMAIN calls, calls[h].do \in {"expr", "binop"}, calls[h].node = m
          PROVE  IsPending(m, k)'
      <4>1. h \in DOMAIN exprs' /\ exprs'[h] = calls[h] /\ h < k
        BY <1>1, <3>3
      <4> QED BY <3>3, <4>1 DEF IsPending
    <3> QED BY <1>2, <3>2, <3>3
  <2> QED BY <2>2, <2>3
<1> QED BY <1>3, <1>4

\* Nothing of what is behind or declared changes.
LEMMA CallsView ==
    ASSUME Sound, NEW calls, CallsOn(calls)
    PROVE  View' /\ Declared' = Declared
<1>1. /\ Len(calls) \in Nat /\ DOMAIN calls = 1 .. Len(calls)
      /\ \A i \in DOMAIN exprs : i \in Nat
      /\ \A i \in DOMAIN exprs' : i \in Nat
      /\ Head(exprs) = exprs[1] /\ 1 \in DOMAIN exprs
      /\ \A i \in DOMAIN exprs' :
            \/ i \in DOMAIN calls /\ exprs'[i] = calls[i]
            \/ /\ i > Len(calls) /\ i - Len(calls) + 1 \in DOMAIN exprs
               /\ exprs'[i] = exprs[i - Len(calls) + 1]
      /\ \A i \in DOMAIN calls : i \in DOMAIN exprs' /\ exprs'[i] = calls[i]
      /\ \A i \in DOMAIN exprs : i > 1 =>
            i - 1 + Len(calls) \in DOMAIN exprs' /\ exprs'[i - 1 + Len(calls)] = exprs[i]
  BY CallPlaces
<1>2. /\ Head(exprs).do # "declare" /\ exprs # <<>>
      /\ \A i \in DOMAIN calls :
            /\ calls[i].do \in {"expr", "binop"}
            /\ calls[i].do = "expr" => Here(calls[i].node)
            /\ calls[i].do = "binop" =>
                  \A c \in {1, 2} : \E h \in DOMAIN calls :
                     /\ h < i /\ calls[h].do = "expr"
                     /\ calls[h].node = Kid(calls[i].node, c)
      /\ scopes' = scopes /\ symbols' = symbols /\ prog' = prog /\ frames' = frames
  BY DEF CallsOn
<1>3. /\ TodoInv' /\ OwnersInv' /\ Pos' = Pos
      /\ \A k : Owner(k)' = Owner(k) /\ Owners(k)' = Owners(k)
      /\ Owners(Len(frames))' = Owners(Len(frames))
  BY <1>2, SameFrames
<1>4. TableInv /\ ExprsInv /\ ResultsInv
  BY SoundFacts
<1>5. \A d : Undeclared(d)' <=> Undeclared(d)
  <2> SUFFICES ASSUME NEW d
               PROVE  (\E i \in DOMAIN exprs' : exprs'[i].do = "declare" /\ exprs'[i].node = d)
                      <=> \E i \in DOMAIN exprs : exprs[i].do = "declare" /\ exprs[i].node = d
    BY <1>2 DEF Undeclared
  <2>1. ASSUME NEW i \in DOMAIN exprs', exprs'[i].do = "declare"
        PROVE  \E j \in DOMAIN exprs : exprs[j] = exprs'[i]
    <3>1. i \notin DOMAIN calls \/ exprs'[i] # calls[i]
      BY <1>2, <2>1
    <3> QED BY <1>1, <3>1
  <2>2. ASSUME NEW i \in DOMAIN exprs, exprs[i].do = "declare"
        PROVE  \E j \in DOMAIN exprs' : exprs'[j] = exprs[i]
    <3>1. i # 1
      BY <1>1, <1>2, <2>2
    <3>2. i > 1
      BY <1>1, <3>1, SoundFacts, LenProperties
    <3> QED BY <1>1, <3>2
  <2> QED BY <2>1, <2>2
<1>6. Declared' = Declared
  BY <1>2, <1>3, <1>5, SameTree DEF Declared
<1>7. \A n : Here(n)' <=> Here(n)
  BY <1>2, <1>3, <1>6, SameTree DEF Here
<1>8. TableInv'
  BY <1>2, <1>3, <1>4, <1>6 DEF TableInv, Holds
<1>9. ExprsInv'
  <2>1. ASSUME NEW i \in DOMAIN exprs', NEW n, n = exprs'[i].node
        PROVE  /\ exprs'[i].do = "expr" => Here(n)'
               /\ exprs'[i].do = "declare" =>
                     /\ Encl(n)' = Owners(Len(frames))'
                     /\ LastOf(prog')[n] + 1 = Pos'
                     /\ ~Known(n)'
    <3>1. CASE i \in DOMAIN calls /\ exprs'[i] = calls[i]
      BY <1>2, <1>7, <2>1, <3>1
    <3>2. CASE i - Len(calls) + 1 \in DOMAIN exprs /\ exprs'[i] = exprs[i - Len(calls) + 1]
      <4>1. PICK j \in DOMAIN exprs : exprs'[i] = exprs[j] /\ n = exprs[j].node
        BY <2>1, <3>2
      <4>2. /\ exprs[j].do = "expr" => Here(n)
            /\ exprs[j].do = "declare" =>
                  /\ Encl(n) = Owners(Len(frames))
                  /\ LastOf(prog)[n] + 1 = Pos
                  /\ ~Known(n)
        BY <1>4, <4>1 DEF ExprsInv
      <4> QED BY <1>2, <1>3, <1>7, <4>1, <4>2, SameTree
    <3> QED BY <1>1, <3>1, <3>2
  <2> QED BY <2>1 DEF ExprsInv
<1>10. ResultsInv'
  <2>1. ASSUME NEW i \in DOMAIN exprs', NEW n, n = exprs'[i].node
        PROVE  /\ exprs'[i].do = "use" => IsPending(n, i)' \/ result'[n] = "INT_DT"
               /\ exprs'[i].do = "binop" =>
                     \A c \in {1, 2} : \A m : m = Kid(n, c) =>
                        IsPending(m, i)' \/ result'[m] = "INT_DT"
    <3>1. CASE i \in DOMAIN calls /\ exprs'[i] = calls[i]
      <4>1. exprs'[i].do # "use"
        BY <1>2, <3>1
      <4>2. ASSUME exprs'[i].do = "binop", NEW c \in {1, 2}, NEW m, m = Kid(n, c)
            PROVE  IsPending(m, i)'
        <5>1. PICK h \in DOMAIN calls : h < i /\ calls[h].do = "expr" /\ calls[h].node = m
          BY <1>2, <2>1, <3>1, <4>2
        <5> QED BY <1>1, <5>1 DEF IsPending
      <4> QED BY <4>1, <4>2
    <3>2. CASE /\ i > Len(calls) /\ i - Len(calls) + 1 \in DOMAIN exprs
               /\ exprs'[i] = exprs[i - Len(calls) + 1]
      <4>1. PICK j \in DOMAIN exprs : /\ j > 1 /\ i = j - 1 + Len(calls)
                                      /\ exprs'[i] = exprs[j] /\ n = exprs[j].node
        <5>1. PICK j \in DOMAIN exprs : /\ j = i - Len(calls) + 1 /\ exprs'[i] = exprs[j]
                                        /\ n = exprs[j].node
          BY <2>1, <3>2
        <5>2. j > 1 /\ i = j - 1 + Len(calls)
          BY <1>1, <3>2, <5>1
        <5> QED BY <5>1, <5>2
      <4>2. /\ exprs[j].do = "use" => IsPending(n, j) \/ result[n] = "INT_DT"
            /\ exprs[j].do = "binop" =>
                  \A c \in {1, 2} : \A m : m = Kid(n, c) =>
                     IsPending(m, j) \/ result[m] = "INT_DT"
        BY <1>4, <4>1 DEF ResultsInv
      <4>3. \A m \in DOMAIN prog : IsPending(m, j) \/ result[m] = "INT_DT" =>
                                    IsPending(m, i)' \/ result'[m] = "INT_DT"
        BY <4>1, PendingKept
      <4>4. /\ exprs[j].do = "use" => n \in DOMAIN prog
            /\ exprs[j].do = "binop" => \A c \in {1, 2} : Kid(n, c) \in DOMAIN prog
        <5>1. exprs[j] \in Tasks /\ WellFormed(prog)
          BY SoundFacts, ProgFacts
        <5>2. exprs[j].do = "use" => n \in ExprIds
          BY <4>1, <5>1 DEF Tasks
        <5>3. exprs[j].do = "binop" => n \in DOMAIN prog /\ Type(n) = "BIN_OP"
          BY <4>1, <5>1 DEF Tasks, ExprIds
        <5>4. Type(n) = "BIN_OP" /\ n \in DOMAIN prog => \A c \in {1, 2} : Kid(n, c) \in ExprIds
          BY <5>1, KidTypes
        <5> QED BY <5>2, <5>3, <5>4 DEF ExprIds
      <4> QED BY <4>1, <4>2, <4>3, <4>4
    <3> QED BY <1>1, <3>1, <3>2
  <2>2. \A n, c : Kid(n, c)' = Kid(n, c)
    BY <1>2, SameTree
  <2> QED BY <2>1, <2>2 DEF ResultsInv
<1> QED BY <1>3, <1>6, <1>8, <1>9, <1>10 DEF View

-----------------------------------------------------------------------------
(* What each step does about errors. *)

\* Either there is still no error, and only Declare declares something, or the program
\* breaks a rule.
Judged ==
    \/ /\ errors' = 0 /\ SymbolsInv'
       /\ status' = "checking" => View' /\ (Declare \/ Declared' = Declared)
    \/ errors' # 0 /\ ~WellScoped(prog)

\* A step that gives no symbol.
LEMMA SymbolsStay ==
    ASSUME SymbolsInv, UNCHANGED <<symbolOf, symbols, prog>>
    PROVE  SymbolsInv'
BY SameTree DEF SymbolsInv

\* A call that returns a datatype, or makes its comparison.
LEMMA PopView ==
    ASSUME Sound, exprs # <<>>, Head(exprs).do # "declare", exprs' = Tail(exprs),
           Head(exprs).do # "use" => result' = [result EXCEPT ![Head(exprs).node] = "INT_DT"],
           Head(exprs).do = "use" => result' = result,
           UNCHANGED <<scopes, symbols, prog, frames, errors, status>>
    PROVE  View' /\ Declared' = Declared
<1>1. /\ Head(exprs) \in Tasks /\ Head(exprs).node \in DOMAIN prog
      /\ <<>> \o Tail(exprs) = Tail(exprs) /\ result \in [DOMAIN prog -> Datatypes]
  BY SoundFacts, HeadFacts
<1>2. PICK calls \in Seq(Tasks) : calls = <<>> /\ DOMAIN calls = {}
  <2>1. <<>> \in Seq(Tasks) /\ DOMAIN <<>> = {}
    OBVIOUS
  <2> QED BY <2>1
<1>3. CallsOn(calls)
  <2>1. Head(exprs).do \in {"expr", "binop"} => result'[Head(exprs).node] = "INT_DT"
    BY <1>1
  <2>2. \A m \in DOMAIN prog : result[m] = "INT_DT" => result'[m] = "INT_DT"
    <3>1. CASE Head(exprs).do = "use"
      BY <3>1
    <3>2. CASE Head(exprs).do # "use"
      <4> SUFFICES ASSUME NEW m \in DOMAIN prog, result[m] = "INT_DT"
                   PROVE  result'[m] = "INT_DT"
        OBVIOUS
      <4>1. CASE m = Head(exprs).node
        BY <1>1, <3>2, <4>1
      <4>2. CASE m # Head(exprs).node
        BY <1>1, <3>2, <4>2
      <4> QED BY <4>1, <4>2
    <3> QED BY <3>1, <3>2
  <2> QED BY <1>1, <1>2, <2>1, <2>2 DEF CallsOn
<1> QED BY <1>3, CallsView

\* At an expression, what the statement's place tells holds of it.
LEMMA AtHead ==
    ASSUME Sound, exprs # <<>>
    PROVE  \E n \in DOMAIN prog :
              /\ n = Head(exprs).node /\ Head(exprs) \in Tasks
              /\ Head(exprs).do = "expr" => Here(n)
              /\ Head(exprs).do = "use" => result[n] = "INT_DT"
              /\ Head(exprs).do = "binop" => LeftType = "INT_DT" /\ RightType = "INT_DT"
<1>1. PICK n \in DOMAIN prog : n = Head(exprs).node /\ Head(exprs) \in Tasks
  BY SoundFacts, HeadFacts
<1>2. /\ exprs \in Seq(Tasks) /\ ExprsInv /\ ResultsInv
  BY SoundFacts
<1>3. 1 \in DOMAIN exprs /\ exprs[1] = Head(exprs) /\ \A i \in DOMAIN exprs : ~(i < 1)
  BY <1>2, EmptySeq, LenProperties, HeadTailProperties
<1>4. \A m : ~IsPending(m, 1)
  BY <1>3 DEF IsPending
<1>5. Head(exprs).do = "expr" => Here(n)
  BY <1>1, <1>2, <1>3 DEF ExprsInv
<1>6. Head(exprs).do = "use" => result[n] = "INT_DT"
  BY <1>1, <1>2, <1>3, <1>4 DEF ResultsInv
<1>7. Head(exprs).do = "binop" => LeftType = "INT_DT" /\ RightType = "INT_DT"
  BY <1>1, <1>2, <1>3, <1>4 DEF ResultsInv, LeftType, RightType
<1> QED BY <1>1, <1>5, <1>6, <1>7

\* A literal is an int.
LEMMA IntLitJudged ==
    ASSUME Sound, errors = 0, SymbolsInv, CheckIntLit
    PROVE  Judged
<1>1. /\ exprs # <<>> /\ Head(exprs).do = "expr" /\ exprs' = Tail(exprs)
      /\ result' = [result EXCEPT ![Head(exprs).node] = "INT_DT"]
      /\ UNCHANGED <<scopes, symbols, prog, symbolOf, frames, errors, status>>
  BY DEF CheckIntLit, AtExpr, Return
<1> QED BY <1>1, PopView, SymbolsStay DEF Judged

\* A name is found exactly when a declaration of it is visible, and is an int.
LEMMA NameJudged ==
    ASSUME Sound, errors = 0, SymbolsInv, CheckName
    PROVE  Judged
<1> DEFINE symbol == Find(prog[Head(exprs).node].name)
<1>1. /\ exprs # <<>> /\ Head(exprs).do = "expr"
      /\ Type(Head(exprs).node) \in {"VAR_REF", "FUNC_CALL"}
      /\ UNCHANGED <<scopes, symbols, prog, frames, status>>
  BY DEF CheckName, AtExpr
<1>2. PICK n \in DOMAIN prog : n = Head(exprs).node /\ Here(n)
  BY <1>1, AtHead
<1>3. /\ prog[n].name \in Names /\ IInv
      /\ symbolOf \in [DOMAIN prog -> Addr \cup {NULL}]
  BY <1>1, <1>2, SoundFacts, HeadFacts DEF WellFormed, ShapeOK, Type
<1>4. symbol # NULL <=> Known(n)
  BY <1>2, <1>3, LookupRight
<1>5. CASE symbol = NULL
  <2>1. errors' = errors + 1 /\ ~Known(n)
    BY <1>4, <1>5 DEF CheckName
  <2>2. ~WellScoped(prog)
    BY <1>1, <1>2, <2>1 DEF WellScoped, Known, Type
  <2> QED BY <2>1, <2>2 DEF Judged
<1>6. CASE symbol # NULL
  <2>1. /\ symbolOf' = [symbolOf EXCEPT ![n] = symbol] /\ exprs' = Tail(exprs)
        /\ result' = [result EXCEPT ![Head(exprs).node] = symbols[symbol].datatype]
        /\ errors' = errors
    BY <1>2, <1>6 DEF CheckName, Return
  <2>2. symbols[symbol].datatype = "INT_DT"
    <3>1. scopes \in Seq(Seq(Addr)) /\ MemoryOwned
      BY <1>3 DEF IInv, SymInv, SymTypeOK
    <3>2. PICK k \in DOMAIN scopes : \E i \in DOMAIN scopes[k] : symbol = scopes[k][i]
      BY <1>6, <3>1, FindProperties
    <3>3. symbol \in Addr /\ symbols[symbol] # Blank
      BY <3>1, <3>2 DEF MemoryOwned
    <3> QED BY <3>3 DEF SymbolsInv
  <2> HIDE DEF symbol
  <2>3. View' /\ Declared' = Declared
    BY <1>1, <2>1, <2>2, PopView
  <2>4. SymbolsInv'
    <3>1. ASSUME NEW m \in DOMAIN prog, symbolOf'[m] # NULL
          PROVE  /\ Type(m) = "DECL_STAT" => ~Known(m)
                 /\ Type(m) \in {"VAR_REF", "FUNC_CALL"} => Known(m)
      <4>1. CASE m = n
        BY <1>1, <1>2, <1>4, <1>6, <4>1
      <4>2. CASE m # n
        <5>1. symbolOf[m] # NULL
          BY <1>3, <2>1, <3>1, <4>2
        <5> QED BY <5>1 DEF SymbolsInv
      <4> QED BY <4>1, <4>2
    <3> QED BY <1>1, <3>1, SameTree DEF SymbolsInv
  <2> QED BY <2>1, <2>3, <2>4 DEF Judged
<1> QED BY <1>5, <1>6

\* An assignment to a constant or a call breaks the third rule.
LEMMA AssignConstJudged ==
    ASSUME Sound, errors = 0, AssignConst
    PROVE  Judged
<1>1. PICK n \in DOMAIN prog :
        /\ Type(n) = "BIN_OP" /\ prog[n].op = "ASSIGN" /\ Type(Kid(n, 1)) # "VAR_REF"
        /\ errors' = errors + 1
  BY AtHead DEF AssignConst, AtExpr, IsConst
<1> QED BY <1>1 DEF WellScoped, Type, Kid, Judged

\* The operands of an operator stand where it stands.
LEMMA OperandsJudged ==
    ASSUME Sound, errors = 0, SymbolsInv, CheckOperands
    PROVE  Judged
<1>1. /\ exprs # <<>> /\ Head(exprs).do = "expr" /\ Type(Head(exprs).node) = "BIN_OP"
      /\ UNCHANGED <<scopes, symbols, prog, symbolOf, frames, result, errors, status>>
  BY DEF CheckOperands, AtExpr
<1>2. PICK n \in DOMAIN prog :
        /\ n = Head(exprs).node /\ Here(n) /\ Type(n) = "BIN_OP"
        /\ exprs' = <<Task("expr", Kid(n, 1)), Task("expr", Kid(n, 2)), Task("binop", n)>>
                       \o Tail(exprs)
  BY <1>1, AtHead DEF CheckOperands
<1>3. /\ CoverInv /\ WellFormed(prog) /\ Preorder(prog)
      /\ \A m \in DOMAIN prog : m \in Nat /\ LastOf(prog)[m] \in Nat /\ m <= LastOf(prog)[m]
  BY SoundFacts, ProgFacts
<1>4. /\ n \in ExprIds /\ Kid(n, 1) \in ExprIds /\ Kid(n, 2) \in ExprIds
      /\ DOMAIN Kids(n) = {1, 2}
  <2>1. n \in ExprIds
    BY <1>2 DEF ExprIds, ExprTypes, Type
  <2> QED BY <1>2, <1>3, <2>1, KidTypes, KidLengths, KidCounts
<1>5. ASSUME NEW c \in {1, 2}
      PROVE  Here(Kid(n, c))
  <2>1. PICK kid \in DOMAIN prog : kid = Kid(n, c) /\ n < kid
    BY <1>3, <1>4, TreeFacts DEF Kids, Kid
  <2>2. kid <= LastOf(prog)[n]
    <3>1. LastOf(prog)[kid] <= LastOf(prog)[n]
      BY <1>3, <1>4, <2>1, KidsFollow DEF Kids, Kid
    <3> QED BY <1>3, <2>1, <3>1
  <2>3. Encl(kid) = Encl(n)
    <3>1. n \notin Funs
      BY <1>2 DEF Funs, DeclIds, Type
    <3> QED BY <1>3, <1>4, <2>1, <3>1, KidEncl
  <2>4. \A v \in DOMAIN prog : n < v /\ v < kid => Type(v) \in ExprTypes
    <3>1. IsExpr(prog, n)
      BY <1>4 DEF ExprIds, IsExpr
    <3>2. \A v \in DOMAIN prog : n <= v /\ v <= LastOf(prog)[n] => IsExpr(prog, v)
      BY <1>3, <3>1, OnlyExprs
    <3> QED BY <1>3, <2>2, <3>2 DEF IsExpr, Type
  <2>5. \A d \in DeclIds : LastOf(prog)[d] < kid <=> LastOf(prog)[d] < n
    BY <1>3, <2>1, <2>2, <2>4, NoneBetween
  <2> QED BY <1>2, <2>1, <2>3, <2>5 DEF Here
<1>6. PICK s \in Tasks, t \in Tasks, u \in Tasks :
        /\ s = Task("expr", Kid(n, 1)) /\ s.do = "expr" /\ s.node = Kid(n, 1)
        /\ t = Task("expr", Kid(n, 2)) /\ t.do = "expr" /\ t.node = Kid(n, 2)
        /\ u = Task("binop", n) /\ u.do = "binop" /\ u.node = n
  <2>1. /\ Task("binop", n) \in Tasks /\ Task("binop", n).do = "binop"
        /\ Task("binop", n).node = n
    BY <1>2, <1>4 DEF Tasks, Task
  <2> QED BY <1>4, <2>1, TaskFacts
<1>7. PICK calls \in Seq(Tasks) :
        /\ calls = <<s, t, u>> /\ DOMAIN calls = {1, 2, 3}
        /\ calls[1] = s /\ calls[2] = t /\ calls[3] = u
  <2>1. /\ <<s, t, u>> \in Seq(Tasks) /\ DOMAIN <<s, t, u>> = {1, 2, 3}
        /\ <<s, t, u>>[1] = s /\ <<s, t, u>>[2] = t /\ <<s, t, u>>[3] = u
    OBVIOUS
  <2> QED BY <2>1, Zenon
<1>8. CallsOn(calls)
  <2>1. exprs' = calls \o Tail(exprs)
    BY <1>2, <1>6, <1>7
  <2>2. \A i \in DOMAIN calls : calls[i].do = "expr" => Here(calls[i].node)
    BY <1>5, <1>6, <1>7
  <2>3. \A i \in DOMAIN calls : calls[i].do = "binop" =>
           \A c \in {1, 2} : \E h \in DOMAIN calls :
              /\ h < i /\ calls[h].do = "expr"
              /\ calls[h].node = Kid(calls[i].node, c)
    <3>1. \A i \in DOMAIN calls : calls[i].do = "binop" => i = 3 /\ calls[i].node = n
      BY <1>6, <1>7
    <3>2. 1 \in DOMAIN calls /\ 2 \in DOMAIN calls /\ 1 < 3 /\ 2 < 3
      BY <1>7
    <3>3. \A c \in {1, 2} : calls[c].do = "expr" /\ calls[c].node = Kid(n, c)
      BY <1>6, <1>7
    <3> QED BY <3>1, <3>2, <3>3
  <2>4. \E h \in DOMAIN calls : calls[h].do \in {"expr", "binop"} /\ calls[h].node = n
    BY <1>6, <1>7
  <2>5. \A i \in DOMAIN calls : calls[i].do \in {"expr", "binop"}
    BY <1>6, <1>7
  <2> QED BY <1>1, <1>2, <2>1, <2>2, <2>3, <2>4, <2>5 DEF CallsOn
<1> QED BY <1>1, <1>8, CallsView, SymbolsStay DEF Judged

\* Operands that are ints give no error.
LEMMA FinishJudged ==
    ASSUME Sound, errors = 0, SymbolsInv, FinishArith \/ FinishAssign \/ FinishCompare
    PROVE  Judged
<1>1. /\ exprs # <<>> /\ Head(exprs).do = "binop"
      /\ UNCHANGED <<scopes, symbols, prog, symbolOf, frames, status>>
  BY DEF FinishArith, FinishAssign, FinishCompare, AtResume
<1>2. LeftType = "INT_DT" /\ RightType = "INT_DT"
  BY <1>1, AtHead
<1>3. TypeError("INT_DT", "INT_DT") = 0
  BY DEF TypeError
<1>4. errors' = errors /\ Return("INT_DT")
  BY <1>2, <1>3 DEF FinishArith, FinishAssign, FinishCompare
<1> QED BY <1>1, <1>4, PopView, SymbolsStay DEF Judged, Return

\* So does the comparison a statement makes.
LEMMA UseJudged ==
    ASSUME Sound, errors = 0, SymbolsInv, CheckUse
    PROVE  Judged
<1>1. /\ exprs # <<>> /\ Head(exprs).do = "use" /\ exprs' = Tail(exprs)
      /\ errors' = errors + TypeError("INT_DT", result[Head(exprs).node])
      /\ UNCHANGED <<scopes, symbols, prog, symbolOf, frames, result, status>>
  BY DEF CheckUse
<1>2. result[Head(exprs).node] = "INT_DT"
  BY <1>1, AtHead
<1>3. errors' = errors
  BY <1>1, <1>2 DEF TypeError
<1> QED BY <1>1, <1>3, PopView, SymbolsStay DEF Judged

\* The statements that have children only.
LEMMA StatementsJudged ==
    ASSUME Sound, errors = 0, SymbolsInv,
           \/ CheckReturn \/ CheckIf \/ CheckWhile \/ CheckFor \/ CheckBlock
           \/ CheckExprStat \/ CheckSkip
    PROVE  Judged
<1>1. UNCHANGED <<symbols, prog, symbolOf, errors>>
  BY DEF CheckReturn, CheckIf, CheckWhile, CheckFor, CheckBlock, CheckExprStat, CheckSkip
<1> QED BY <1>1, StatementsView, SymbolsStay DEF Judged

\* A declaration: of a name that is visible, of a variable, of a function.
LEMMA DeclarationsJudged ==
    ASSUME Sound, errors = 0, SymbolsInv, Redeclare \/ CheckVarDecl \/ EnterFunction
    PROVE  Judged
<1>1. AtStat("DECL_STAT")
  BY DEF Redeclare, CheckVarDecl, EnterFunction
<1>2. PICK stat \in DOMAIN prog : /\ stat = Stat /\ Type(stat) = "DECL_STAT"
                                  /\ Fresh(stat) <=> ~Known(stat)
  BY <1>1, FreshMeans
<1>3. CASE Redeclare
  <2>1. errors' = errors + 1 /\ Known(stat)
    BY <1>2, <1>3 DEF Redeclare
  <2>2. ~WellScoped(prog)
    BY <1>2, <2>1 DEF WellScoped, Known, Type
  <2> QED BY <2>1, <2>2 DEF Judged
<1>4. CASE CheckVarDecl
  <2>1. UNCHANGED <<symbols, prog, symbolOf, errors>>
    BY <1>4 DEF CheckVarDecl
  <2> QED BY <1>4, <2>1, VarDeclView, SymbolsStay DEF Judged
<1>5. CASE EnterFunction
  <2>1. /\ UNCHANGED <<symbols, prog, symbolOf>>
        /\ errors' = IF Type(Kid(stat, 1)) # "BLOCK_STAT" THEN errors + 1 ELSE errors
        /\ prog[stat].is_func /\ Kids(stat) # <<>>
    BY <1>2, <1>5 DEF EnterFunction, OpenScope
  <2>2. CASE Type(Kid(stat, 1)) # "BLOCK_STAT"
    <3>1. ~WellScoped(prog)
      BY <1>2, <2>1, <2>2 DEF WellScoped, Type, Kid, Kids
    <3> QED BY <2>1, <2>2, <3>1 DEF Judged
  <2>3. CASE Type(Kid(stat, 1)) = "BLOCK_STAT"
    BY <1>5, <2>1, <2>3, EnterFunctionView, SymbolsStay DEF Judged
  <2> QED BY <2>2, <2>3
<1> QED BY <1>3, <1>4, <1>5

\* Closing a scope frees symbols and keeps the others.
LEMMA CloseJudged ==
    ASSUME Sound, errors = 0, SymbolsInv, LeaveFunction \/ Finish
    PROVE  Judged
<1>1. /\ CloseScope /\ UNCHANGED <<prog, symbolOf, errors>>
      /\ status' = "checking" => LeaveFunction
  BY DEF LeaveFunction, Finish
<1>2. SymbolsInv'
  <2>1. \A a \in Addr : symbols'[a] # Blank => symbols'[a].datatype = "INT_DT"
    BY <1>1 DEF CloseScope, SymbolsInv
  <2> QED BY <1>1, <2>1, SameTree DEF SymbolsInv, Blank
<1> QED BY <1>1, <1>2, LeaveFunctionView DEF Judged

\* The declared name was visible nowhere, and its symbol is an int.
LEMMA DeclareJudged ==
    ASSUME Sound, errors = 0, SymbolsInv, Declare
    PROVE  Judged
<1>1. PICK n \in DeclIds, a \in Addr :
             /\ n = Head(exprs).node /\ DOMAIN exprs = {1} /\ exprs[1] = Head(exprs)
             /\ Head(exprs).do = "declare"
             /\ symbols' = [symbols EXCEPT ![a] = [name |-> prog[n].name, datatype |-> "INT_DT"]]
             /\ symbolOf' = [symbolOf EXCEPT ![n] = a]
             /\ prog' = prog /\ errors' = errors
  BY DeclareFacts
<1>2. /\ ~Known(n) /\ Type(n) = "DECL_STAT" /\ n \in DOMAIN prog
  BY <1>1, SoundFacts DEF ExprsInv, DeclIds, Type
<1>3. symbolOf \in [DOMAIN prog -> Addr \cup {NULL}] /\ symbols \in [Addr -> Symbol \cup {Blank}]
  BY SoundFacts DEF IInv, TypeOK, SymTypeOK
<1>4. ASSUME NEW m \in DOMAIN prog, symbolOf'[m] # NULL
      PROVE  /\ Type(m) = "DECL_STAT" => ~Known(m)
             /\ Type(m) \in {"VAR_REF", "FUNC_CALL"} => Known(m)
  <2>1. CASE m = n
    BY <1>2, <2>1
  <2>2. CASE m # n
    <3>1. symbolOf[m] # NULL
      BY <1>1, <1>3, <1>4, <2>2
    <3> QED BY <3>1 DEF SymbolsInv
  <2> QED BY <2>1, <2>2
<1>5. ASSUME NEW b \in Addr, symbols'[b] # Blank
      PROVE  symbols'[b].datatype = "INT_DT"
  <2>1. CASE b = a
    BY <1>1, <1>3, <2>1
  <2>2. CASE b # a
    <3>1. symbols'[b] = symbols[b]
      BY <1>1, <1>3, <2>2
    <3> QED BY <1>5, <3>1 DEF SymbolsInv
  <2> QED BY <2>1, <2>2
<1>6. SymbolsInv'
  BY <1>1, <1>4, <1>5, SameTree DEF SymbolsInv, Blank
<1> QED BY <1>1, <1>6, DeclareView DEF Judged

-----------------------------------------------------------------------------
(* The theorem. *)

\* An error that was reported stays reported.
LEMMA ErrorsStay ==
    ASSUME IInv, Next, errors # 0
    PROVE  errors' # 0 /\ prog' = prog
<1>1. errors \in Nat \ {0} /\ errors + 1 # 0
  BY DEF IInv, TypeOK
<1>2. \A expected, actual : errors + TypeError(expected, actual) # 0
  BY <1>1, TypeErrorIsNat
<1>3. CASE Check
  <2>1. CASE \/ CheckReturn \/ CheckIf \/ CheckWhile \/ CheckFor \/ CheckBlock
             \/ CheckExprStat \/ CheckSkip
    BY <1>1, <2>1 DEF CheckReturn, CheckIf, CheckWhile, CheckFor, CheckBlock, CheckExprStat,
                      CheckSkip
  <2>2. CASE \/ Redeclare \/ CheckVarDecl \/ EnterFunction \/ PrototypeCrash
             \/ LeaveFunction \/ Finish \/ Declare
    BY <1>1, <2>2 DEF Redeclare, CheckVarDecl, EnterFunction, PrototypeCrash, LeaveFunction,
                      Finish, Declare
  <2>3. CASE CheckIntLit \/ CheckName \/ AssignConst \/ CheckOperands
    BY <1>1, <2>3 DEF CheckIntLit, CheckName, AssignConst, CheckOperands
  <2>4. CASE FinishArith \/ FinishAssign \/ FinishCompare \/ CheckUse
    BY <1>1, <1>2, <2>4 DEF FinishArith, FinishAssign, FinishCompare, CheckUse
  <2> QED BY <1>3, <2>1, <2>2, <2>3, <2>4 DEF Check
<1>4. CASE Stopped
  BY <1>4 DEF Stopped, semVars
<1> QED BY <1>3, <1>4 DEF Next

\* At the start nothing is behind and nothing is declared.
LEMMA CalledVerdict ==
    ASSUME Called
    PROVE  VerdictInv
<1>1. /\ scopes = <<<<>>>> /\ symbols = [a \in Addr |-> Blank]
      /\ symbolOf = [n \in DOMAIN prog |-> NULL]
      /\ frames = <<Frame(NULL, <<1>>)>> /\ exprs = <<>> /\ errors = 0
  BY DEF Called, SemInit, NoSymbols
<1>2. /\ DOMAIN frames = {1} /\ Len(frames) = 1 /\ frames[1].todo = <<1>>
      /\ DOMAIN <<1>> = {1} /\ <<1>>[1] = 1 /\ Head(<<1>>) = 1 /\ <<1>> # <<>>
      /\ DOMAIN exprs = {} /\ DOMAIN scopes[1] = {} /\ 2 .. 1 = {}
  BY <1>1 DEF Frame
<1>3. Owner(1) = 1 /\ Owners(1) = {} /\ After(1) = 1 /\ Pos = 1
  BY <1>2 DEF Owner, Owners, After, Pos
<1>4. /\ 1 \in DOMAIN prog /\ DeclIds \subseteq DOMAIN prog /\ Funs \subseteq DOMAIN prog
      /\ \A n \in DOMAIN prog : n \in Nat /\ n >= 1 /\ LastOf(prog)[n] \in Nat
                                /\ n <= LastOf(prog)[n]
  BY CalledCovers, ProgFacts
<1>5. Encl(1) = {}
  BY <1>4 DEF Encl
<1>6. Declared = {}
  BY <1>3, <1>4 DEF Declared
<1>7. TodoInv
  <2>1. /\ \A k \in DOMAIN frames : k = 1 /\ frames[k].todo = <<1>> /\ k + 1 \notin DOMAIN frames
        /\ \A i \in DOMAIN <<1>> : i = 1 /\ <<1>>[i] = 1 /\ i + 1 \notin DOMAIN <<1>>
    BY <1>2
  <2> QED BY <1>3, <1>5, <2>1 DEF TodoInv
<1>8. OwnersInv
  BY <1>2 DEF OwnersInv
<1>9. TableInv
  BY <1>2, <1>6 DEF TableInv, Holds
<1>10. ExprsInv /\ ResultsInv
  BY <1>2 DEF ExprsInv, ResultsInv
<1>11. SymbolsInv
  BY <1>1 DEF SymbolsInv
<1> QED BY <1>1, <1>7, <1>8, <1>9, <1>10, <1>11 DEF VerdictInv, View

\* Without an error so far, every step of the checker is judged rightly.
LEMMA StepJudged ==
    ASSUME CoverInv, VerdictInv, Check, errors = 0
    PROVE  Judged /\ Sound /\ SymbolsInv /\ status = "checking" /\ prog' = prog
<1>1. status = "checking" /\ prog' = prog
  BY DEF Check, CheckReturn, CheckIf, CheckWhile, CheckFor, CheckBlock, CheckExprStat,
        CheckSkip, Redeclare, CheckVarDecl, EnterFunction, PrototypeCrash, LeaveFunction,
        Finish, Declare, CheckIntLit, CheckName, AssignConst, CheckOperands, FinishArith,
        FinishAssign, FinishCompare, CheckUse, AtStat, AtExpr, AtResume
<1>2. Sound /\ SymbolsInv
  BY <1>1 DEF VerdictInv, Sound
<1>3. CASE \/ CheckReturn \/ CheckIf \/ CheckWhile \/ CheckFor \/ CheckBlock
           \/ CheckExprStat \/ CheckSkip
  BY <1>1, <1>2, <1>3, StatementsJudged
<1>4. CASE Redeclare \/ CheckVarDecl \/ EnterFunction
  BY <1>1, <1>2, <1>4, DeclarationsJudged
<1>5. CASE PrototypeCrash
  <2>1. /\ status' = "crashed" /\ errors' = errors
        /\ UNCHANGED <<symbolOf, symbols, prog>>
    BY <1>5 DEF PrototypeCrash
  <2> QED BY <1>1, <1>2, <2>1, SymbolsStay DEF Judged
<1>6. CASE LeaveFunction \/ Finish
  BY <1>1, <1>2, <1>6, CloseJudged
<1>7. CASE Declare
  BY <1>1, <1>2, <1>7, DeclareJudged
<1>8. CASE CheckIntLit
  BY <1>1, <1>2, <1>8, IntLitJudged
<1>9. CASE CheckName
  BY <1>1, <1>2, <1>9, NameJudged
<1>10. CASE AssignConst
  BY <1>1, <1>2, <1>10, AssignConstJudged
<1>11. CASE CheckOperands
  BY <1>1, <1>2, <1>11, OperandsJudged
<1>12. CASE FinishArith \/ FinishAssign \/ FinishCompare
  BY <1>1, <1>2, <1>12, FinishJudged
<1>13. CASE CheckUse
  BY <1>1, <1>2, <1>13, UseJudged
<1> QED BY <1>1, <1>2, <1>3, <1>4, <1>5, <1>6, <1>7, <1>8, <1>9, <1>10, <1>11, <1>12, <1>13
        DEF Check

\* Every step keeps it.
LEMMA NextVerdict ==
    ASSUME CoverInv, VerdictInv, [Next]_semVars
    PROVE  VerdictInv'
<1>1. IInv
  BY DEF CoverInv
<1>2. CASE UNCHANGED semVars
  <2>1. UNCHANGED <<scopes, symbols, prog, symbolOf, frames, exprs, result, errors, status>>
    BY <1>2 DEF semVars
  <2>2. SymbolsInv => SymbolsInv'
    BY <2>1, SymbolsStay
  <2>3. ASSUME errors = 0, status = "checking"
        PROVE  View'
    <3>1. Sound /\ TableInv /\ ExprsInv /\ ResultsInv
      BY <2>3 DEF VerdictInv, Sound, View
    <3>2. /\ TodoInv' /\ OwnersInv' /\ Pos' = Pos
          /\ \A k : Owner(k)' = Owner(k) /\ Owners(k)' = Owners(k)
          /\ Owners(Len(frames))' = Owners(Len(frames))
      BY <2>1, <3>1, SameFrames
    <3>3. Declared' = Declared
      <4>1. \A d : Undeclared(d)' <=> Undeclared(d)
        BY <2>1 DEF Undeclared
      <4> QED BY <2>1, <3>2, <4>1, SameTree DEF Declared
    <3>4. TableInv'
      BY <2>1, <3>1, <3>2, <3>3 DEF TableInv, Holds
    <3>5. ExprsInv'
      <4>1. \A n : Here(n)' <=> Here(n)
        BY <2>1, <3>2, <3>3, SameTree DEF Here
      <4>2. \A i \in DOMAIN exprs : \A n : n = exprs[i].node =>
              /\ exprs[i].do = "expr" => Here(n)'
              /\ exprs[i].do = "declare" =>
                    Encl(n)' = Owners(Len(frames))' /\ LastOf(prog)[n] + 1 = Pos' /\ ~Known(n)'
        BY <2>1, <3>1, <3>2, <4>1, SameTree DEF ExprsInv
      <4> QED BY <2>1, <4>2 DEF ExprsInv
    <3>6. ResultsInv'
      <4>1. /\ \A n, i : IsPending(n, i)' <=> IsPending(n, i)
            /\ \A n, c : Kid(n, c)' = Kid(n, c)
        BY <2>1, SameTree DEF IsPending
      <4>2. \A i \in DOMAIN exprs : \A n : n = exprs[i].node =>
              /\ exprs[i].do = "use" => IsPending(n, i)' \/ result[n] = "INT_DT"
              /\ exprs[i].do = "binop" => \A c \in {1, 2} : \A m : m = Kid(n, c) =>
                    IsPending(m, i)' \/ result[m] = "INT_DT"
        BY <3>1, <4>1 DEF ResultsInv
      <4> QED BY <2>1, <4>1, <4>2 DEF ResultsInv
    <3> QED BY <3>2, <3>4, <3>5, <3>6 DEF View
  <2> QED BY <2>1, <2>2, <2>3 DEF VerdictInv
<1>3. CASE Next /\ errors # 0
  <2>1. errors' # 0 /\ prog' = prog
    BY <1>1, <1>3, ErrorsStay
  <2> QED BY <1>3, <2>1 DEF VerdictInv
<1>4. CASE Check /\ errors = 0
  <2>1. Judged /\ status = "checking" /\ prog' = prog
    BY <1>4, StepJudged
  <2> QED BY <2>1 DEF Judged, VerdictInv
<1> QED BY <1>2, <1>3, <1>4 DEF Next, Stopped

\* The verdict: with the invariant and no node left out, no error means that every
\* node keeps the rules.
LEMMA VerdictFollows ==
    ASSUME CoverInv, VerdictInv
    PROVE  VerdictCorrect
<1>1. errors # 0 => ~WellScoped(prog)
  BY DEF VerdictInv
<1>2. ASSUME status = "done", errors = 0
      PROVE  WellScoped(prog)
  <2>1. SymbolsInv
    BY <1>2 DEF VerdictInv
  <2>2. \A n \in DOMAIN prog : Formed(n) /\ (Type(n) \in HasSymbol => symbolOf[n] # NULL)
    BY <1>2, NothingLeftOut
  <2>3. ASSUME NEW n \in DOMAIN prog
        PROVE  /\ Type(n) = "DECL_STAT" => ~Known(n)
               /\ Type(n) \in {"VAR_REF", "FUNC_CALL"} => Known(n)
    BY <2>1, <2>2 DEF SymbolsInv, HasSymbol
  <2> QED BY <2>2, <2>3 DEF WellScoped, Formed, Known, Type, Kid, Kids
<1> QED BY <1>1, <1>2 DEF VerdictCorrect

\* semcheck reports an error exactly for the programs that break the scoping rules,
\* for every program.
THEOREM VerdictIsRight == Spec => []VerdictCorrect
<1>1. Init => CoverInv /\ VerdictInv
  BY InitCalled, CalledCovers, CalledVerdict
<1>2. CoverInv /\ VerdictInv /\ [Next]_semVars => CoverInv' /\ VerdictInv'
  <2>1. CoverInv /\ [Next]_semVars => CoverInv'
    BY NextIInv, NextCovers DEF CoverInv
  <2> QED BY <2>1, NextVerdict
<1>3. CoverInv /\ VerdictInv => VerdictCorrect
  BY VerdictFollows
<1> QED BY <1>1, <1>2, <1>3, PTL DEF Spec
=============================================================================
