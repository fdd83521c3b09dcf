--------------------------- MODULE CompilerProofs ---------------------------
(***************************************************************************)
(* Theorems about Compiler, checker and generator together: what the       *)
(* verdict and giving up mean for the exit status, and that the generator  *)
(* finds the places of the variables through the symbols that the checker  *)
(* left in the tree, although their memory has been freed.                 *)
(***************************************************************************)
EXTENDS Compiler, SemCheckProofs, GenProofs

-----------------------------------------------------------------------------
(* The symbols the checker leaves in the tree. *)

\* What is declared, and nothing else, has its symbol.
NamesGiven == \A d \in DeclIds : symbolOf[d] # NULL <=> d \in Declared

\* As long as the scope of a declaration is open, it holds the symbol.
Lives ==
    \A d \in Declared : \A k \in DOMAIN frames : Owner(k) = ScopeOf(prog, d) =>
        symbolOf[d] \in InScope(scopes[k]) /\ symbols[symbolOf[d]].name = prog[d].name

\* No variable gets the memory of another one before the scope of that one ends.
Apart ==
    \A d, e \in Variables :
        (/\ d < e /\ e <= LastOf(prog)[ScopeOf(prog, d)]
         /\ symbolOf[d] # NULL /\ symbolOf[e] # NULL) => symbolOf[d] # symbolOf[e]

\* A name has the symbol of the declaration that the rules say it refers to.
Meant ==
    \A n \in DOMAIN prog : Type(n) = "VAR_REF" /\ symbolOf[n] # NULL =>
        \A d \in Declarations(prog, prog[n].name, n) : symbolOf[n] = symbolOf[d]

\* The inductive invariant, with CoverInv and VerdictInv.
LinkInv ==
    /\ errors = 0 => Apart /\ Meant
    /\ (errors = 0 /\ status = "checking") => NamesGiven /\ Lives

\* A step that gives no declaration a symbol and keeps the symbols of the scopes that
\* stay open.
LEMMA LivesOn ==
    ASSUME NamesGiven, Lives, prog' = prog, Declared' = Declared,
           \A d \in DeclIds : symbolOf'[d] = symbolOf[d],
           \A k \in DOMAIN frames', d \in Declared : Owner(k)' = ScopeOf(prog, d) =>
              /\ k \in DOMAIN frames /\ Owner(k) = Owner(k)' /\ scopes'[k] = scopes[k]
              /\ \A a \in InScope(scopes[k]) : symbols'[a] = symbols[a]
    PROVE  NamesGiven' /\ Lives'
<1>1. DeclIds' = DeclIds /\ Declared \subseteq DeclIds
  BY SameTree DEF Declared
<1>2. NamesGiven'
  BY <1>1 DEF NamesGiven
<1>3. ASSUME NEW d \in Declared, NEW k \in DOMAIN frames', Owner(k)' = ScopeOf(prog, d)
      PROVE  symbolOf'[d] \in InScope(scopes'[k]) /\ symbols'[symbolOf'[d]].name = prog[d].name
  <2>1. symbolOf[d] \in InScope(scopes[k]) /\ symbols[symbolOf[d]].name = prog[d].name
    BY <1>3 DEF Lives
  <2> QED BY <1>1, <1>3, <2>1
<1> QED BY <1>1, <1>2, <1>3 DEF Lives, InScope

\* The frame of the statement at hand changes its list only.
LEMMA OwnersStay ==
    ASSUME Sound, NEW tasks, NEW stats, Schedule(tasks, stats)
    PROVE  DOMAIN frames' = DOMAIN frames /\ \A k \in DOMAIN frames : Owner(k)' = Owner(k)
<1>1. DOMAIN frames = 1 .. Len(frames) /\ frames \in Seq(FrameType)
  BY SoundFacts
<1>2. /\ DOMAIN frames' = DOMAIN frames
      /\ \A k \in DOMAIN frames : frames'[k].decl = frames[k].decl
  BY <1>1 DEF Schedule, Frame
<1> QED BY <1>2 DEF Owner

\* Most steps have nothing to do with symbols.
Quiet ==
    \/ CheckReturn \/ CheckIf \/ CheckWhile \/ CheckFor \/ CheckBlock
    \/ CheckExprStat \/ CheckSkip \/ Redeclare \/ CheckVarDecl
    \/ CheckIntLit \/ AssignConst \/ CheckOperands
    \/ FinishArith \/ FinishAssign \/ FinishCompare \/ CheckUse

\* What they leave alone.
LEMMA QuietFacts ==
    ASSUME Sound, Quiet
    PROVE  /\ UNCHANGED <<scopes, symbols, prog, symbolOf>>
           /\ DOMAIN frames' = DOMAIN frames /\ \A k \in DOMAIN frames : Owner(k)' = Owner(k)
<1>1. UNCHANGED <<scopes, symbols, prog, symbolOf>>
  BY DEF Quiet, CheckReturn, CheckIf, CheckWhile, CheckFor, CheckBlock, CheckExprStat,
        CheckSkip, Redeclare, CheckVarDecl, CheckIntLit, AssignConst, CheckOperands,
        FinishArith, FinishAssign, FinishCompare, CheckUse
<1>2. ASSUME frames' = frames
      PROVE  DOMAIN frames' = DOMAIN frames /\ \A k \in DOMAIN frames : Owner(k)' = Owner(k)
  BY <1>2 DEF Owner
<1>3. ASSUME \E tasks, stats : Schedule(tasks, stats)
      PROVE  DOMAIN frames' = DOMAIN frames /\ \A k \in DOMAIN frames : Owner(k)' = Owner(k)
  <2>1. PICK tasks, stats : Schedule(tasks, stats)
    BY <1>3
  <2> QED BY <2>1, OwnersStay
<1>4. frames' = frames \/ \E tasks, stats : Schedule(tasks, stats)
  <2>1. CASE \/ CheckIntLit \/ AssignConst \/ CheckOperands
             \/ FinishArith \/ FinishAssign \/ FinishCompare \/ CheckUse
    BY <2>1 DEF CheckIntLit, AssignConst, CheckOperands, FinishArith, FinishAssign,
                FinishCompare, CheckUse
  <2>2. CASE CheckReturn \/ CheckIf \/ CheckWhile \/ CheckFor \/ CheckBlock
    BY <2>2, Zenon DEF CheckReturn, CheckIf, CheckWhile, CheckFor, CheckBlock
  <2>3. CASE CheckExprStat \/ CheckSkip \/ Redeclare \/ CheckVarDecl
    BY <2>3, Zenon DEF CheckExprStat, CheckSkip, Redeclare, CheckVarDecl
  <2> QED BY <2>1, <2>2, <2>3 DEF Quiet
<1> QED BY <1>1, <1>2, <1>3, <1>4

\* So the links of the tree stay as they are.
LEMMA LinksStay ==
    ASSUME UNCHANGED <<prog, symbolOf>>
    PROVE  /\ Apart => Apart'
           /\ Meant => Meant'
<1>1. Variables' = Variables
  BY SameTree DEF Variables
<1> QED BY <1>1, SameTree DEF Apart, Meant

\* The tree and the memory.
LEMMA LinkFacts ==
    ASSUME Sound
    PROVE  /\ DeclIds \subseteq DOMAIN prog /\ Variables \subseteq DeclIds
           /\ symbolOf \in [DOMAIN prog -> Addr \cup {NULL}]
           /\ symbols \in [Addr -> Symbol \cup {Blank}]
           /\ scopes \in Seq(Seq(Addr)) /\ SymInv
           /\ \A k \in DOMAIN scopes : \A a \in InScope(scopes[k]) : a \in Addr /\ symbols[a] # Blank
<1>1. IInv /\ scopes \in Seq(Seq(Addr))
  BY SoundFacts
<1>2. ASSUME NEW k \in DOMAIN scopes, NEW a \in InScope(scopes[k])
      PROVE  a \in Addr /\ symbols[a] # Blank
  <2>1. PICK i \in DOMAIN scopes[k] : a = scopes[k][i]
    BY DEF InScope
  <2> QED BY <1>1, <2>1 DEF IInv, SymInv, MemoryOwned
<1> QED BY <1>1, <1>2 DEF IInv, TypeOK, SymInv, SymTypeOK, DeclIds, Variables

\* What is declared and whose scope is open has a symbol in use.
LEMMA SymbolInUse ==
    ASSUME Sound, Lives, NEW d \in Declared, NEW k \in DOMAIN frames, Owner(k) = ScopeOf(prog, d)
    PROVE  symbolOf[d] \in Addr /\ symbols[symbolOf[d]] # Blank
<1>1. symbolOf[d] \in InScope(scopes[k]) /\ k \in DOMAIN scopes
  BY SoundFacts DEF Lives
<1> QED BY <1>1, LinkFacts

\* A name that is found gets the symbol of the declaration that is visible.
LEMMA NameLinks ==
    ASSUME Sound, NamesGiven, Lives, Apart, Meant, errors = 0,
           CheckName, errors' = 0, Declared' = Declared
    PROVE  NamesGiven' /\ Lives' /\ Apart' /\ Meant'
<1> DEFINE symbol == Find(prog[Head(exprs).node].name)
<1>1. /\ exprs # <<>> /\ Head(exprs).do = "expr"
      /\ Type(Head(exprs).node) \in {"VAR_REF", "FUNC_CALL"}
      /\ UNCHANGED <<scopes, symbols, prog, frames>>
  BY DEF CheckName, AtExpr
<1>2. PICK n \in DOMAIN prog : n = Head(exprs).node /\ Here(n)
  BY <1>1, AtHead
<1>3. symbol # NULL /\ symbolOf' = [symbolOf EXCEPT ![n] = symbol]
  BY <1>2 DEF CheckName
<1> HIDE DEF symbol
<1>4. \A m \in DOMAIN prog : symbolOf'[m] = IF m = n THEN symbol ELSE symbolOf[m]
  BY <1>3, LinkFacts
<1>5. \A d \in DeclIds : d \in DOMAIN prog /\ d # n /\ symbolOf'[d] = symbolOf[d]
  BY <1>1, <1>2, <1>4 DEF DeclIds, Type
<1>6. NamesGiven' /\ Lives'
  BY <1>1, <1>5, LivesOn DEF Owner
<1>7. Apart'
  <2>1. Variables' = Variables /\ Variables \subseteq DeclIds
    BY <1>1, SameTree DEF Variables
  <2> QED BY <1>1, <1>5, <2>1 DEF Apart
<1>8. ASSUME NEW d \in Declarations(prog, prog[n].name, n)
      PROVE  symbol = symbolOf[d]
  <2>1. /\ d \in DeclIds /\ d \in DOMAIN prog /\ prog[d].name = prog[n].name
        /\ LastOf(prog)[d] < n /\ n <= LastOf(prog)[ScopeOf(prog, d)]
    BY DEF Declarations, VisibleAt, DeclIds
  <2>2. d \in Declared /\ Encl(n) = Owners(Len(frames))
    BY <1>2, <2>1 DEF Here
  <2>3. d < n
    BY <2>1, ProgFacts, SoundFacts
  <2>4. PICK k \in DOMAIN frames : ScopeOf(prog, d) = Owner(k)
    BY <2>1, <2>2, <2>3, OpenScopeOf
  <2>5. symbolOf[d] \in InScope(scopes[k]) /\ symbols[symbolOf[d]].name = prog[n].name
    BY <2>1, <2>2, <2>4 DEF Lives
  <2>6. PICK i \in DOMAIN scopes[k] : symbolOf[d] = scopes[k][i]
    BY <2>5 DEF InScope
  <2>7. PICK l \in DOMAIN scopes : \E j \in DOMAIN scopes[l] :
          symbol = scopes[l][j] /\ symbols[scopes[l][j]].name = prog[n].name
    BY <1>2, <1>3, LinkFacts, FindProperties DEF symbol
  <2>8. k \in DOMAIN scopes /\ UniqueNames
    BY SoundFacts, LinkFacts DEF SymInv
  <2>9. PICK j \in DOMAIN scopes[l] :
          symbol = scopes[l][j] /\ symbols[scopes[l][j]].name = prog[n].name
    BY <2>7
  <2>10. k = l /\ i = j
    BY <2>5, <2>6, <2>8, <2>9 DEF UniqueNames
  <2> QED BY <2>6, <2>9, <2>10
<1>9. Meant'
  <2>1. ASSUME NEW m \in DOMAIN prog, Type(m) = "VAR_REF", symbolOf'[m] # NULL,
               NEW d \in Declarations(prog, prog[m].name, m)
        PROVE  symbolOf'[m] = symbolOf'[d]
    <3>1. d \in DeclIds
      BY DEF Declarations, DeclIds
    <3>2. symbolOf'[d] = symbolOf[d]
      BY <1>5, <3>1
    <3>3. CASE m = n
      BY <1>4, <1>8, <3>2, <3>3
    <3>4. CASE m # n
      <4>1. symbolOf'[m] = symbolOf[m]
        BY <1>4, <3>4
      <4> QED BY <2>1, <3>2, <4>1 DEF Meant
    <3> QED BY <3>3, <3>4
  <2> QED BY <1>1, <2>1, SameTree DEF Meant
<1> QED BY <1>6, <1>7, <1>9

\* A declaration gets memory that no open scope holds.
LEMMA DeclareLinks ==
    ASSUME Sound, NamesGiven, Lives, Apart, Meant, Declare
    PROVE  NamesGiven' /\ Lives' /\ Apart' /\ Meant'
<1>1. PICK n \in DeclIds, a \in Addr :
             /\ n = Head(exprs).node /\ DOMAIN exprs = {1} /\ exprs[1] = Head(exprs)
             /\ Head(exprs).do = "declare" /\ prog[n].name \in Names
             /\ symbols[a] = Blank
             /\ symbols' = [symbols EXCEPT ![a] = [name |-> prog[n].name, datatype |-> "INT_DT"]]
             /\ scopes' = [scopes EXCEPT ![Len(scopes)] = Append(@, a)]
             /\ symbolOf' = [symbolOf EXCEPT ![n] = a]
             /\ prog' = prog /\ frames' = frames
  BY DeclareFacts
<1>2. PICK top \in Nat \ {0} :
        /\ top = Len(frames) /\ top \in DOMAIN frames /\ DOMAIN frames = 1 .. top
        /\ DOMAIN scopes = 1 .. top /\ Len(scopes) = top
  <2>1. /\ Len(frames) \in Nat \ {0} /\ DOMAIN frames = 1 .. Len(frames)
        /\ DOMAIN scopes = DOMAIN frames /\ Len(scopes) = Len(frames)
    BY SoundFacts
  <2>2. Len(frames) \in DOMAIN frames
    BY <2>1
  <2> QED BY <2>1, <2>2
<1>3. /\ CoverInv /\ OwnersInv /\ a # NULL
      /\ Variables' = Variables /\ DeclIds' = DeclIds /\ n \in DOMAIN prog
      /\ \A m \in DOMAIN prog : /\ m \in Nat /\ LastOf(prog)[m] \in Nat
                                /\ m <= LastOf(prog)[m]
  BY <1>1, SoundFacts, ProgFacts, LinkFacts, SameTree, AddrAssumption DEF Variables
<1>4. \A m \in DOMAIN prog : symbolOf'[m] = IF m = n THEN a ELSE symbolOf[m]
  BY <1>1, <1>3, LinkFacts
<1>5. Declared' = Declared \cup {n} /\ Declared \subseteq DeclIds
  BY <1>1, DeclareView DEF Declared
<1>6. n \notin Declared /\ symbolOf[n] = NULL
  <2>1. Undeclared(n)
    BY <1>1 DEF Undeclared
  <2> QED BY <2>1 DEF Declared, NamesGiven
<1>7. /\ Encl(n) = Owners(Len(frames)) /\ LastOf(prog)[n] + 1 = Pos
  BY <1>1, SoundFacts DEF ExprsInv
<1>8. \A k : Owner(k)' = Owner(k)
  BY <1>1 DEF Owner
<1>9. NamesGiven'
  <2>1. ASSUME NEW d \in DeclIds
        PROVE  symbolOf'[d] # NULL <=> d \in Declared'
    <3>1. d \in DOMAIN prog
      BY LinkFacts
    <3> QED BY <1>3, <1>4, <1>5, <3>1 DEF NamesGiven
  <2> QED BY <1>3, <2>1 DEF NamesGiven
<1>10. Lives'
  <2>1. ASSUME NEW d \in Declared, NEW k \in DOMAIN frames, Owner(k) = ScopeOf(prog, d)
        PROVE  symbolOf'[d] \in InScope(scopes'[k]) /\ symbols'[symbolOf'[d]].name = prog[d].name
    <3>1. /\ symbolOf[d] \in InScope(scopes[k]) /\ symbols[symbolOf[d]].name = prog[d].name
          /\ symbolOf[d] \in Addr /\ symbols[symbolOf[d]] # Blank
      BY <2>1, SymbolInUse DEF Lives
    <3>2. symbolOf'[d] = symbolOf[d] /\ symbolOf[d] # a
      <4>1. d \in DOMAIN prog /\ d # n
        BY <1>5, <1>6, LinkFacts
      <4> QED BY <1>1, <1>4, <3>1, <4>1
    <3>3. symbols'[symbolOf[d]] = symbols[symbolOf[d]]
      BY <1>1, <3>1, <3>2, LinkFacts
    <3>4. InScope(scopes[k]) \subseteq InScope(scopes'[k])
      <4>1. PICK old \in Seq(Addr) : old = scopes[k] /\ k \in DOMAIN scopes
        BY <1>2, LinkFacts
      <4>2. scopes'[k] = old \/ scopes'[k] = Append(old, a)
        BY <1>1, <1>2, <4>1, LinkFacts
      <4>3. \A i \in DOMAIN old : i \in DOMAIN Append(old, a) /\ Append(old, a)[i] = old[i]
        BY <4>1, AppendProperties
      <4> QED BY <4>1, <4>2, <4>3 DEF InScope
    <3> QED BY <3>1, <3>2, <3>3, <3>4
  <2>2. ASSUME NEW k \in DOMAIN frames, Owner(k) = ScopeOf(prog, n)
        PROVE  symbolOf'[n] \in InScope(scopes'[k]) /\ symbols'[symbolOf'[n]].name = prog[n].name
    <3>1. Owner(k) = Owner(top)
      BY <1>2, <1>3, <1>7, <2>2, OwnScope
    <3>2. k = top
      <4>1. CASE k < top
        <5>1. Owner(k) < Owner(top) /\ Owner(top) \in Nat
          BY <1>2, <1>3, <4>1, OwnerFacts
        <5> QED BY <3>1, <5>1
      <4> QED BY <1>2, <4>1
    <3>3. symbolOf'[n] = a /\ symbols'[a].name = prog[n].name
      BY <1>1, <1>3, <1>4, LinkFacts
    <3>4. PICK old \in Seq(Addr) : old = scopes[top] /\ top \in DOMAIN scopes
      BY <1>2, LinkFacts
    <3>5. scopes'[top] = Append(old, a)
      BY <1>1, <1>2, <3>4
    <3>6. Len(old) + 1 \in DOMAIN Append(old, a) /\ Append(old, a)[Len(old) + 1] = a
      BY <3>4, AppendProperties
    <3>7. a \in InScope(scopes'[top])
      BY <3>5, <3>6 DEF InScope
    <3> QED BY <3>2, <3>3, <3>7
  <2>3. \A d \in Declared \cup {n} : \A k \in DOMAIN frames : Owner(k) = ScopeOf(prog, d) =>
           symbolOf'[d] \in InScope(scopes'[k]) /\ symbols'[symbolOf'[d]].name = prog[d].name
    BY <2>1, <2>2
  <2> QED BY <1>1, <1>5, <1>8, <2>3 DEF Lives, InScope
<1>11. Apart'
  <2>1. ASSUME NEW d \in Variables, NEW e \in Variables, d < e,
               e <= LastOf(prog)[ScopeOf(prog, d)], symbolOf'[d] # NULL, symbolOf'[e] # NULL
        PROVE  symbolOf'[d] # symbolOf'[e]
    <3>1. d \in DOMAIN prog /\ e \in DOMAIN prog /\ d \in DeclIds /\ e \in DeclIds
      BY LinkFacts
    <3>2. CASE d # n /\ e # n
      BY <1>4, <2>1, <3>1, <3>2 DEF Apart
    <3>3. CASE e = n
      <4>1. d # n /\ symbolOf'[d] = symbolOf[d] /\ symbolOf'[n] = a
        BY <1>3, <1>4, <2>1, <3>1, <3>3
      <4>2. d \in Declared
        BY <2>1, <3>1, <4>1 DEF NamesGiven
      <4>3. PICK k \in DOMAIN frames : ScopeOf(prog, d) = Owner(k)
        BY <1>3, <1>7, <2>1, <3>1, <3>3, OpenScopeOf
      <4>4. symbols[symbolOf[d]] # Blank
        BY <4>2, <4>3, SymbolInUse
      <4> QED BY <1>1, <3>3, <4>1, <4>4
    <3>4. CASE d = n
      <4>1. e # n /\ symbolOf[e] # NULL
        BY <1>3, <1>4, <2>1, <3>1, <3>4
      <4>2. LastOf(prog)[e] < Pos
        BY <3>1, <4>1 DEF NamesGiven, Declared
      <4>3. n < e /\ e <= LastOf(prog)[n]
        BY <1>3, <1>7, <2>1, <3>1, <3>4, <4>2
      <4>4. prog[n].is_func
        <5>1. CoverInv => WellFormed(prog) /\ Preorder(prog)
          BY ProgFacts
        <5>2. IsStat(prog, e) /\ prog[n].type = "DECL_STAT"
          BY <3>1 DEF IsStat, StatTypes, DeclIds
        <5> QED BY <1>3, <3>1, <4>3, <5>1, <5>2, StatInDecl
      <4> QED BY <3>4, <4>4 DEF Variables
    <3> QED BY <3>2, <3>3, <3>4
  <2> QED BY <1>1, <1>3, <2>1 DEF Apart
<1>12. Meant'
  <2>1. ASSUME NEW m \in DOMAIN prog, Type(m) = "VAR_REF", symbolOf'[m] # NULL,
               NEW d \in Declarations(prog, prog[m].name, m)
        PROVE  symbolOf'[m] = symbolOf'[d]
    <3>1. d \in DOMAIN prog /\ m # n
      BY <1>1, <2>1 DEF Declarations, DeclIds, Type
    <3>2. symbolOf'[m] = symbolOf[m] /\ symbolOf[m] = symbolOf[d]
      BY <1>4, <2>1, <3>1 DEF Meant
    <3>3. d # n
      BY <1>6, <2>1, <3>2
    <3> QED BY <1>4, <3>1, <3>2, <3>3
  <2> QED BY <1>1, <2>1, SameTree DEF Meant
<1> QED BY <1>9, <1>10, <1>11, <1>12

\* A new scope is empty, and no declaration behind belongs to it.
LEMMA EnterLinks ==
    ASSUME Sound, NamesGiven, Lives, EnterFunction, Declared' = Declared
    PROVE  NamesGiven' /\ Lives'
<1>0. PICK top \in Nat \ {0} : /\ top = Len(frames) /\ DOMAIN frames = 1 .. top
                               /\ DOMAIN scopes = 1 .. top /\ Len(scopes) = top
  BY SoundFacts
<1> DEFINE new == [decl |-> Stat, todo |-> <<Kid(Stat, 1)>>]
           rest == [decl |-> frames[top].decl, todo |-> Tail(Todo)]
           mid == [frames EXCEPT ![top] = rest]
<1>1. /\ AtStat("DECL_STAT") /\ frames' = Append(mid, new) /\ scopes' = Append(scopes, <<>>)
      /\ UNCHANGED <<prog, symbols, symbolOf>>
  BY <1>0 DEF EnterFunction, OpenScope, Frame, Todo
<1>2. /\ CoverInv /\ frames \in Seq(FrameType) /\ scopes \in Seq(Seq(Addr)) /\ IInv
  BY SoundFacts
<1>3. PICK stat \in DOMAIN prog : stat = Stat /\ Pos = stat /\ stat \in DeclIds
  <2>1. exprs = <<>> /\ Todo # <<>> /\ Type(Stat) = "DECL_STAT"
    BY <1>1 DEF AtStat
  <2> QED BY <2>1, AtStatement DEF DeclIds, Type
<1>4. /\ DOMAIN frames' = 1 .. top + 1 /\ frames'[top + 1] = new
      /\ \A k \in 1 .. top : frames'[k].decl = frames[k].decl
      /\ \A k \in 1 .. top : scopes'[k] = scopes[k]
  <2>1. /\ mid \in Seq(FrameType) /\ Len(mid) = top
        /\ \A k \in 1 .. top : mid[k] = IF k = top THEN rest ELSE frames[k]
    <3>1. rest \in FrameType
      <4>1. frames[top] \in FrameType
        BY <1>0, <1>2
      <4>2. Tail(Todo) \in Seq(StatIds)
        <5>1. Todo \in Seq(StatIds) /\ Todo # <<>>
          BY <1>1, AtStatement DEF AtStat
        <5> QED BY <5>1, HeadTailProperties
      <4> QED BY <4>1, <4>2 DEF FrameType
    <3> HIDE DEF rest
    <3> QED BY <1>0, <1>2, <3>1
  <2>2. \A k \in 1 .. top : mid[k].decl = frames[k].decl
    <3>1. rest.decl = frames[top].decl
      OBVIOUS
    <3> HIDE DEF rest, mid
    <3> QED BY <2>1, <3>1
  <2> HIDE DEF mid
  <2>3. /\ Len(frames') = top + 1 /\ DOMAIN frames' = 1 .. top + 1 /\ frames'[top + 1] = new
        /\ \A k \in 1 .. top : frames'[k] = mid[k]
    BY <1>0, <1>1, <2>1
  <2>4. \A k \in 1 .. top : scopes'[k] = scopes[k]
    BY <1>0, <1>1, <1>2
  <2> QED BY <2>2, <2>3, <2>4
<1>5. \A k \in 1 .. top : Owner(k)' = Owner(k)
  BY <1>4 DEF Owner
<1>6. Owner(top + 1)' = stat
  <2>1. top + 1 # 1
    BY <1>0
  <2> QED BY <1>3, <1>4, <2>1 DEF Owner
<1>7. \A d \in Declared : ScopeOf(prog, d) # stat
  <2> SUFFICES ASSUME NEW d \in Declared, ScopeOf(prog, d) = stat
               PROVE  FALSE
    OBVIOUS
  <2>1. d \in DOMAIN prog /\ LastOf(prog)[d] < stat
    BY <1>2, <1>3, ProgFacts DEF Declared
  <2>2. stat # 1
    BY <1>2, <1>3, ProgFacts
  <2>3. stat < d
    BY <1>2, <2>1, <2>2, ScopeOfDecl DEF Encl
  <2>4. d <= LastOf(prog)[d] /\ LastOf(prog)[d] \in Nat /\ stat \in Nat /\ d \in Nat
    BY <1>2, <1>3, <2>1, ProgFacts
  <2> QED BY <2>1, <2>3, <2>4
<1>8. \A k \in DOMAIN frames', d \in Declared : Owner(k)' = ScopeOf(prog, d) =>
         /\ k \in DOMAIN frames /\ Owner(k) = Owner(k)' /\ scopes'[k] = scopes[k]
         /\ \A a \in InScope(scopes[k]) : symbols'[a] = symbols[a]
  <2>1. \A k \in DOMAIN frames' : k \in 1 .. top \/ k = top + 1
    BY <1>0, <1>4
  <2> QED BY <1>0, <1>1, <1>4, <1>5, <1>6, <1>7, <2>1
<1> QED BY <1>1, <1>8, LivesOn

\* Closing a scope frees the memory of its own symbols only.
LEMMA LeaveLinks ==
    ASSUME Sound, NamesGiven, Lives, LeaveFunction, Declared' = Declared
    PROVE  NamesGiven' /\ Lives'
<1>0. PICK top \in Nat \ {0} : top = Len(frames)
  BY SoundFacts
<1>1. /\ top > 1 /\ CloseScope /\ frames' = SubSeq(frames, 1, top - 1)
      /\ UNCHANGED <<prog, symbolOf>>
  BY <1>0 DEF LeaveFunction
<1>2. /\ IInv /\ frames \in Seq(FrameType) /\ frames # <<>>
      /\ DOMAIN frames = 1 .. top /\ DOMAIN scopes = 1 .. top /\ Len(scopes) = top
      /\ scopes \in Seq(Seq(Addr)) /\ scopes # <<>>
  BY <1>0, SoundFacts, EmptySeq
<1>3. /\ DOMAIN frames' = 1 .. top - 1 /\ DOMAIN scopes' = 1 .. top - 1
      /\ \A k \in 1 .. top - 1 : frames'[k] = frames[k]
      /\ 1 .. top - 1 \subseteq 1 .. top
  BY <1>0, <1>1, <1>2, PopProperties, LenProperties DEF CloseScope
<1>4. \A k \in DOMAIN scopes' :
        /\ k \in DOMAIN scopes /\ scopes'[k] = scopes[k]
        /\ \A i \in DOMAIN scopes[k] : symbols'[scopes[k][i]] = symbols[scopes[k][i]]
  BY <1>1, <1>2, CloseScopeKeepsInv DEF IInv
<1>5. \A k \in DOMAIN frames' :
         /\ k \in DOMAIN frames /\ Owner(k) = Owner(k)' /\ scopes'[k] = scopes[k]
         /\ \A a \in InScope(scopes[k]) : symbols'[a] = symbols[a]
  BY <1>2, <1>3, <1>4 DEF InScope, Owner
<1> QED BY <1>1, <1>5, LivesOn

\* At the start nothing has a symbol.
LEMMA CalledLinks ==
    ASSUME Called
    PROVE  LinkInv
<1>1. /\ symbolOf = [n \in DOMAIN prog |-> NULL]
      /\ frames = <<Frame(NULL, <<1>>)>> /\ exprs = <<>>
  BY DEF Called, SemInit, NoSymbols
<1>2. Len(frames) = 1 /\ frames[1].todo = <<1>> /\ <<1>> # <<>> /\ Head(<<1>>) = 1
  BY <1>1 DEF Frame
<1>3. Pos = 1
  BY <1>2 DEF Pos, After
<1>4. \A d \in DeclIds : d \in DOMAIN prog /\ d >= 1 /\ d <= LastOf(prog)[d]
                         /\ LastOf(prog)[d] \in Nat /\ d \in Nat
  BY CalledCovers, ProgFacts
<1>5. Declared = {}
  BY <1>3, <1>4 DEF Declared
<1>6. \A d \in DeclIds : symbolOf[d] = NULL
  BY <1>1, <1>4
<1>7. Apart /\ Meant
  BY <1>1, <1>6 DEF Apart, Meant, Variables
<1> QED BY <1>5, <1>6, <1>7 DEF LinkInv, NamesGiven, Lives

\* Every step of the checker keeps it.
LEMMA CheckLinks ==
    ASSUME CoverInv, VerdictInv, LinkInv, Check
    PROVE  LinkInv'
<1>1. SUFFICES ASSUME errors = 0, errors' = 0
               PROVE  Apart' /\ Meant' /\ (status' = "checking" => NamesGiven' /\ Lives')
  <2>1. errors # 0 => errors' # 0
    BY ErrorsStay DEF CoverInv, Next
  <2> QED BY <2>1 DEF LinkInv
<1>2. /\ Sound /\ NamesGiven /\ Lives /\ Apart /\ Meant
      /\ status' = "checking" => Declare \/ Declared' = Declared
  BY <1>1, StepJudged DEF Judged, LinkInv
<1>3. CASE Declare
  BY <1>2, <1>3, DeclareLinks
<1>4. CASE CheckName
  <2>1. status' = "checking" /\ ~Declare
    BY <1>2, <1>4 DEF Sound, CheckName, AtExpr, Declare
  <2> QED BY <1>1, <1>2, <1>4, <2>1, NameLinks
<1>5. CASE EnterFunction
  <2>1. status' = "checking" /\ ~Declare /\ UNCHANGED <<prog, symbolOf>>
    BY <1>2, <1>5 DEF Sound, EnterFunction, AtStat, Declare
  <2> QED BY <1>2, <1>5, <2>1, EnterLinks, LinksStay
<1>6. CASE LeaveFunction
  <2>1. status' = "checking" /\ ~Declare /\ UNCHANGED <<prog, symbolOf>>
    BY <1>2, <1>6 DEF Sound, LeaveFunction, Declare
  <2> QED BY <1>2, <1>6, <2>1, LeaveLinks, LinksStay
<1>7. CASE Finish \/ PrototypeCrash
  <2>1. status' # "checking" /\ UNCHANGED <<prog, symbolOf>>
    BY <1>7 DEF Finish, PrototypeCrash
  <2> QED BY <1>2, <2>1, LinksStay
<1>8. CASE Quiet
  <2>1. /\ UNCHANGED <<scopes, symbols, prog, symbolOf>>
        /\ DOMAIN frames' = DOMAIN frames /\ \A k \in DOMAIN frames : Owner(k)' = Owner(k)
    BY <1>2, <1>8, QuietFacts
  <2>2. ~Declare
    <3>1. CASE symbolOf' = symbolOf /\ symbols' = symbols /\ Declare
      <4>1. PICK n \in DeclIds, a \in Addr :
               /\ symbols[a] = Blank /\ prog[n].name \in Names
               /\ symbols' = [symbols EXCEPT ![a] = [name |-> prog[n].name, datatype |-> "INT_DT"]]
        BY <1>2, <3>1, DeclareFacts
      <4>2. symbols'[a].name = prog[n].name
        BY <1>2, <4>1, LinkFacts
      <4> QED BY <3>1, <4>1, <4>2, NoNameAssumption DEF Blank
    <3> QED BY <2>1, <3>1
  <2>3. status' = "checking" => NamesGiven' /\ Lives'
    BY <1>2, <2>1, <2>2, LivesOn
  <2> QED BY <1>2, <2>1, <2>3, LinksStay
<1> QED BY <1>3, <1>4, <1>5, <1>6, <1>7, <1>8 DEF Check, Quiet

-----------------------------------------------------------------------------
(* The places the generator gives to the variables. *)

\* The variables that the generator has come past.
Placed == {v \in Variables : \A j \in DOMAIN todo : todo[j].do = "stat" => v < todo[j].node}

\* The calls that wait are made in the order of the program.
InOrder ==
    \A i, j \in DOMAIN todo :
        (i < j /\ IsCall(todo[i]) /\ todo[j].do = "stat") =>
            LastOf(prog)[todo[i].node] < todo[j].node

\* The generator comes to every variable.
NoneLost ==
    \A v \in Variables : v \in Placed \/ \E j \in DOMAIN todo :
        todo[j].do = "stat" /\ todo[j].node <= v /\ v <= LastOf(prog)[todo[j].node]

\* While it is in a function, it has not come to what is behind the function.
LaterOutside ==
    \A i \in DOMAIN todo : IsCall(todo[i]) =>
        \A f \in Funs : (f < todo[i].node /\ todo[i].node <= LastOf(prog)[f]) =>
            \A v \in Variables : v > LastOf(prog)[f] =>
                \E j \in DOMAIN todo : j > i /\ todo[j].do = "stat" /\ todo[j].node <= v

\* Each variable placed took one word, the first of them at 8.
OffsetCounts == next_stack_offset = 8 * (Cardinality(Placed) + 1)

\* The memory of a symbol holds the place of the last variable that it was used for.
SlotsRight ==
    \A d \in Placed :
        (\A e \in Placed : e > d => symbolOf[e] # symbolOf[d]) => slot[symbolOf[d]] = PlaceOf(d)

\* The inductive invariant, with CoverInv and GenTypeOK.
PlacesInv == InOrder /\ NoneLost /\ LaterOutside /\ OffsetCounts /\ SlotsRight

\* What holds of a variable in the tree.
LEMMA VariableFacts ==
    ASSUME CoverInv
    PROVE  /\ \A v \in Variables : /\ v \in DOMAIN prog /\ v \in DeclIds /\ v \in Nat
                                   /\ IsStat(prog, v) /\ ~IsExpr(prog, v)
                                   /\ v <= LastOf(prog)[v] /\ VarDecl(v)
           /\ \A n \in DOMAIN prog : VarDecl(n) => n \in Variables
           /\ \A v \in Variables, w \in Variables : v < w => LastOf(prog)[v] < w
<1>1. /\ WellFormed(prog) /\ Preorder(prog) /\ DeclIds \subseteq DOMAIN prog
      /\ \A m \in DOMAIN prog : m \in Nat /\ LastOf(prog)[m] \in Nat /\ m <= LastOf(prog)[m]
  BY ProgFacts
<1>2. \A v \in Variables : /\ v \in DeclIds /\ v \in DOMAIN prog /\ prog[v].type = "DECL_STAT"
                           /\ ~prog[v].is_func
  BY <1>1 DEF Variables, DeclIds
<1>3. \A v \in Variables : IsStat(prog, v) /\ ~IsExpr(prog, v) /\ VarDecl(v)
  BY <1>2 DEF IsStat, IsExpr, StatTypes, ExprTypes, VarDecl, Type
<1>4. ASSUME NEW v \in Variables, NEW w \in Variables, v < w
      PROVE  LastOf(prog)[v] < w
  <2>1. ~(w <= LastOf(prog)[v])
    BY <1>1, <1>2, <1>3, <1>4, StatInDecl
  <2> QED BY <1>1, <1>2, <2>1
<1>5. \A n \in DOMAIN prog : VarDecl(n) => n \in Variables
  BY DEF VarDecl, Variables, DeclIds, Type
<1> QED BY <1>1, <1>2, <1>3, <1>4, <1>5

\* Where the nodes of the new calls stand in the tree.
CallsBelow(tasks) ==
    \A i \in DOMAIN tasks : IsCall(tasks[i]) =>
        /\ IsCall(Head(todo)) /\ tasks[i].node \in DOMAIN prog
        /\ LastOf(prog)[tasks[i].node] <= LastOf(prog)[node]
        /\ tasks[i].do = "stat" => Head(todo).do = "stat" /\ node < tasks[i].node
        /\ \A f \in DOMAIN prog : (f < tasks[i].node /\ tasks[i].node <= LastOf(prog)[f]) =>
              f = node \/ (f < node /\ node <= LastOf(prog)[f])

\* The new calls for statements contain all variables of the current one.
Contains(tasks) ==
    \A v \in Variables : (node <= v /\ v <= LastOf(prog)[node]) =>
        \E j \in DOMAIN tasks : /\ tasks[j].do = "stat" /\ tasks[j].node <= v
                                /\ v <= LastOf(prog)[tasks[j].node]

\* They follow each other.
Consecutive(tasks) ==
    \A i, j \in DOMAIN tasks :
        (i < j /\ IsCall(tasks[i]) /\ tasks[j].do = "stat") =>
            LastOf(prog)[tasks[i].node] < tasks[j].node

\* A new call is for a node below the current one.
LEMMA KidCall ==
    ASSUME CoverInv, GenTypeOK, todo # <<>>, NEW t \in GenTasks, Below(t), IsCall(t)
    PROVE  /\ IsCall(Head(todo)) /\ node \in DOMAIN prog /\ t.node \in DOMAIN prog
           /\ \/ /\ t.do = "right" /\ t.node = node
              \/ \E c \in DOMAIN prog[node].kids : t.node = prog[node].kids[c]
           /\ t.do = "stat" => /\ Head(todo).do = "stat"
                               /\ \E c \in DOMAIN prog[node].kids : t.node = prog[node].kids[c]
<1>1. /\ WellFormed(prog) /\ Preorder(prog) /\ node \in DOMAIN prog
      /\ Head(todo).do = "stat" => IsStat(prog, node)
      /\ Head(todo).do = "expr" => IsExpr(prog, node)
      /\ Head(todo).do = "right" => Type(node) = "BIN_OP"
  BY ProgFacts, CallFacts
<1>2. t.node \in DOMAIN prog /\ (t.do = "stat" => IsStat(prog, t.node))
  BY <1>1, TaskParts
<1>3. ASSUME NEW c \in DOMAIN prog[node].kids, t.node = prog[node].kids[c],
             t.do = "stat", Head(todo).do # "stat"
      PROVE  FALSE
  <2>1. IsExpr(prog, node)
    BY <1>1, <1>3 DEF Below, IsCall, IsExpr, ExprTypes, Type
  <2>2. /\ node <= t.node /\ t.node <= LastOf(prog)[node]
    <3>1. node < t.node /\ LastOf(prog)[t.node] <= LastOf(prog)[node]
      BY <1>1, <1>3, TreeFacts, KidsFollow
    <3>2. /\ t.node <= LastOf(prog)[t.node] /\ LastOf(prog)[t.node] \in Nat
          /\ t.node \in Nat /\ node \in Nat /\ LastOf(prog)[node] \in Nat
      BY <1>1, <1>2, ProgFacts
    <3> QED BY <3>1, <3>2
  <2>3. IsExpr(prog, t.node)
    BY <1>1, <1>2, <2>1, <2>2, OnlyExprs
  <2> QED BY <1>2, <1>3, <2>3 DEF IsStat, IsExpr, StatTypes, ExprTypes
<1> QED BY <1>1, <1>2, <1>3 DEF Below, Kids, Kid

\* The tree of the new calls.
LEMMA TaskTree ==
    ASSUME CoverInv, GenTypeOK, todo # <<>>, NEW tasks \in Seq(GenTasks), Serves(tasks)
    PROVE  /\ CallsBelow(tasks) /\ Consecutive(tasks)
           /\ Head(todo).do = "stat" /\ ~VarDecl(node) => Contains(tasks)
<1>1. /\ WellFormed(prog) /\ Preorder(prog) /\ node \in DOMAIN prog
      /\ \A m \in DOMAIN prog : m \in Nat /\ LastOf(prog)[m] \in Nat /\ m <= LastOf(prog)[m]
      /\ Head(todo).do = "stat" => IsStat(prog, node)
  BY ProgFacts, CallFacts
<1>2. \A i \in DOMAIN tasks : tasks[i] \in GenTasks /\ Below(tasks[i])
  BY DEF Serves, Fit
<1>3. \A c \in DOMAIN prog[node].kids :
         /\ prog[node].kids[c] \in DOMAIN prog /\ node < prog[node].kids[c]
         /\ LastOf(prog)[prog[node].kids[c]] <= LastOf(prog)[node]
  BY <1>1, TreeFacts, KidsFollow
<1>4. CallsBelow(tasks)
  <2> SUFFICES ASSUME NEW i \in DOMAIN tasks, IsCall(tasks[i])
               PROVE  /\ IsCall(Head(todo)) /\ tasks[i].node \in DOMAIN prog
                      /\ LastOf(prog)[tasks[i].node] <= LastOf(prog)[node]
                      /\ tasks[i].do = "stat" => Head(todo).do = "stat" /\ node < tasks[i].node
                      /\ \A f \in DOMAIN prog :
                            (f < tasks[i].node /\ tasks[i].node <= LastOf(prog)[f]) =>
                               f = node \/ (f < node /\ node <= LastOf(prog)[f])
    BY DEF CallsBelow
  <2>1. /\ IsCall(Head(todo)) /\ tasks[i].node \in DOMAIN prog
        /\ \/ tasks[i].do = "right" /\ tasks[i].node = node
           \/ \E c \in DOMAIN prog[node].kids : tasks[i].node = prog[node].kids[c]
        /\ tasks[i].do = "stat" => Head(todo).do = "stat"
    BY <1>2, KidCall
  <2>2. CASE tasks[i].do = "right" /\ tasks[i].node = node
    BY <1>1, <2>1, <2>2
  <2>3. CASE \E c \in DOMAIN prog[node].kids : tasks[i].node = prog[node].kids[c]
    <3>1. PICK c \in DOMAIN prog[node].kids : tasks[i].node = prog[node].kids[c]
      BY <2>3
    <3>2. \A f \in DOMAIN prog : (f < tasks[i].node /\ tasks[i].node <= LastOf(prog)[f]) =>
             f <= node /\ node <= LastOf(prog)[f]
      BY <1>1, <3>1, AboveKid
    <3> QED BY <1>1, <1>3, <2>1, <3>1, <3>2
  <2> QED BY <2>1, <2>2, <2>3
<1>5. Consecutive(tasks)
  <2> SUFFICES ASSUME NEW i \in DOMAIN tasks, NEW j \in DOMAIN tasks,
                      i < j, IsCall(tasks[i]), tasks[j].do = "stat"
               PROVE  LastOf(prog)[tasks[i].node] < tasks[j].node
    BY DEF Consecutive
  <2>1. tasks[i].node < tasks[j].node
    BY DEF Serves, Sorted
  <2>2. PICK d \in DOMAIN prog[node].kids : tasks[j].node = prog[node].kids[d]
    BY <1>2, KidCall DEF IsCall
  <2>3. Head(todo).do = "stat"
    BY <1>2, KidCall DEF IsCall
  <2>4. PICK c \in DOMAIN prog[node].kids : tasks[i].node = prog[node].kids[c]
    BY <1>2, <2>3 DEF Below, Kids, Kid
  <2>5. /\ c \in Nat /\ d \in Nat
        /\ \A a, b \in DOMAIN prog[node].kids :
              a < b => LastOf(prog)[prog[node].kids[a]] < prog[node].kids[b]
    BY <1>1, TreeFacts, KidsFollow
  <2>6. c < d
    <3>1. CASE c = d
      BY <1>1, <1>3, <2>1, <2>2, <2>4, <3>1
    <3>2. CASE d < c
      <4>1. LastOf(prog)[tasks[j].node] < tasks[i].node
        BY <2>2, <2>4, <2>5, <3>2
      <4> QED BY <1>1, <1>3, <2>1, <2>2, <2>4, <4>1
    <3> QED BY <2>5, <3>1, <3>2
  <2> QED BY <2>2, <2>4, <2>5, <2>6
<1>6. ASSUME Head(todo).do = "stat", ~VarDecl(node),
             NEW v \in Variables, node <= v, v <= LastOf(prog)[node]
      PROVE  \E j \in DOMAIN tasks : /\ tasks[j].do = "stat" /\ tasks[j].node <= v
                                     /\ v <= LastOf(prog)[tasks[j].node]
  <2>1. v \in DOMAIN prog /\ IsStat(prog, v) /\ ~IsExpr(prog, v) /\ node < v
    <3>1. v \in DOMAIN prog /\ IsStat(prog, v) /\ ~IsExpr(prog, v) /\ VarDecl(v)
      BY VariableFacts
    <3> QED BY <1>1, <1>6, <3>1
  <2>2. PICK c \in DOMAIN prog[node].kids :
          prog[node].kids[c] <= v /\ v <= LastOf(prog)[prog[node].kids[c]]
    BY <1>1, <1>6, <2>1, BelowKid
  <2>3. ~IsExpr(prog, prog[node].kids[c])
    BY <1>1, <1>3, <2>1, <2>2, OnlyExprs
  <2>4. \/ In(StatTask(Kid(node, c), regset), tasks)
        \/ In(ExprTask(Kid(node, c), regset), tasks)
    BY <1>6 DEF Serves, Kids
  <2>5. ~In(ExprTask(Kid(node, c), regset), tasks)
    <3> SUFFICES ASSUME NEW j \in DOMAIN tasks, tasks[j] = ExprTask(Kid(node, c), regset)
                 PROVE  FALSE
      BY DEF In
    <3>1. tasks[j].do = "expr" /\ tasks[j].node = prog[node].kids[c]
      BY TaskKinds DEF Kid
    <3> QED BY <1>1, <1>2, <2>3, <3>1, TaskParts
  <2>6. PICK j \in DOMAIN tasks : tasks[j] = StatTask(Kid(node, c), regset)
    BY <2>4, <2>5 DEF In
  <2>7. tasks[j].do = "stat" /\ tasks[j].node = prog[node].kids[c]
    BY <2>6, TaskKinds DEF Kid
  <2> QED BY <2>2, <2>7
<1> QED BY <1>4, <1>5, <1>6 DEF Contains

\* A variable that the generator has not come past stands in a statement that waits.
LEMMA NotPlaced ==
    ASSUME NoneLost, NEW v \in Variables, NEW s \in DOMAIN todo, todo[s].do = "stat",
           CoverInv, GenTypeOK, ~(v < todo[s].node)
    PROVE  \E j \in DOMAIN todo : /\ todo[j].do = "stat" /\ todo[j].node <= v
                                  /\ v <= LastOf(prog)[todo[j].node]
BY DEF NoneLost, Placed

\* The calls in a list of calls have nodes of the tree.
LEMMA NodesOfCalls ==
    ASSUME CoverInv, GenTypeOK
    PROVE  /\ \A i \in DOMAIN todo : /\ todo[i] \in GenTasks /\ todo[i].node \in DOMAIN prog
                                     /\ todo[i].node \in Nat /\ LastOf(prog)[todo[i].node] \in Nat
                                     /\ todo[i].node <= LastOf(prog)[todo[i].node]
           /\ \A v \in Variables : v \in Nat
<1>1. \A i \in DOMAIN todo : todo[i] \in GenTasks
  BY DEF GenTypeOK
<1>2. \A i \in DOMAIN todo : todo[i].node \in DOMAIN prog
  BY <1>1, ProgFacts, TaskParts
<1> QED BY <1>1, <1>2, ProgFacts, VariableFacts

\* A step makes no call for a variable that the generator has come past, and comes
\* past none.
LEMMA PlacedStays ==
    ASSUME CoverInv, GenTypeOK, PlacesInv, todo # <<>>, NEW tasks,
           HeadReplaced(todo', todo, tasks), CallsBelow(tasks),
           Head(todo).do = "stat" => Contains(tasks), prog' = prog
    PROVE  Placed' = Placed
<1>1. /\ DOMAIN todo = 1 .. Len(todo) /\ Head(todo) = todo[1] /\ 1 \in DOMAIN todo
      /\ Len(tasks) \in Nat
      /\ \A i \in DOMAIN todo' : \/ i \in DOMAIN tasks /\ todo'[i] = tasks[i]
                                 \/ /\ i > Len(tasks) /\ i - Len(tasks) + 1 \in DOMAIN todo
                                    /\ todo'[i] = todo[i - Len(tasks) + 1]
      /\ \A i \in DOMAIN tasks : i \in DOMAIN todo' /\ todo'[i] = tasks[i]
      /\ \A i \in DOMAIN todo : i > 1 =>
            i - 1 + Len(tasks) \in DOMAIN todo' /\ todo'[i - 1 + Len(tasks)] = todo[i]
  BY DEF HeadReplaced
<1>2. /\ Variables' = Variables
      /\ \A i \in DOMAIN tasks : tasks[i].do = "stat" =>
            /\ Head(todo).do = "stat" /\ node < tasks[i].node
            /\ tasks[i].node \in Nat
      /\ node = todo[1].node
  <2>1. \A i \in DOMAIN tasks : tasks[i].do = "stat" => tasks[i].node \in DOMAIN prog
    BY DEF CallsBelow, IsCall
  <2> QED BY <1>1, <2>1, ProgFacts, SameTree DEF Variables, CallsBelow, IsCall, node
<1>3. ASSUME NEW v \in Placed, NEW i \in DOMAIN todo', todo'[i].do = "stat"
      PROVE  v < todo'[i].node
  <2>1. CASE i \in DOMAIN tasks /\ todo'[i] = tasks[i]
    <3>1. v < node /\ node < tasks[i].node
      BY <1>1, <1>2, <1>3, <2>1 DEF Placed
    <3>2. v \in Nat /\ node \in Nat /\ tasks[i].node \in Nat
      BY <1>1, <1>2, <1>3, <2>1, NodesOfCalls DEF Placed
    <3> QED BY <2>1, <3>1, <3>2
  <2>2. CASE i - Len(tasks) + 1 \in DOMAIN todo /\ todo'[i] = todo[i - Len(tasks) + 1]
    BY <1>3, <2>2 DEF Placed
  <2> QED BY <1>1, <2>1, <2>2
<1>4. ASSUME NEW v \in Variables, \A i \in DOMAIN todo' : todo'[i].do = "stat" => v < todo'[i].node
      PROVE  v \in Placed
  <2>1. ASSUME NEW j \in DOMAIN todo, j > 1, todo[j].do = "stat"
        PROVE  v < todo[j].node
    BY <1>1, <1>4, <2>1
  <2>2. ASSUME todo[1].do = "stat", ~(v < node)
        PROVE  FALSE
    <3>1. PICK j \in DOMAIN todo : /\ todo[j].do = "stat" /\ todo[j].node <= v
                                   /\ v <= LastOf(prog)[todo[j].node]
      BY <1>1, <1>2, <2>2, NotPlaced DEF PlacesInv
    <3>2. j = 1
      <4>1. ~(v < todo[j].node)
        BY <3>1, NodesOfCalls
      <4> QED BY <1>1, <2>1, <3>1, <4>1
    <3>3. PICK i \in DOMAIN tasks : tasks[i].do = "stat" /\ tasks[i].node <= v
      BY <1>1, <1>2, <2>2, <3>1, <3>2 DEF Contains
    <3>4. v < tasks[i].node /\ v \in Nat /\ tasks[i].node \in Nat
      BY <1>1, <1>2, <1>4, <3>3, NodesOfCalls
    <3> QED BY <3>3, <3>4
  <2>3. \A j \in DOMAIN todo : j = 1 \/ j > 1
    BY <1>1
  <2> QED BY <1>2, <2>1, <2>2, <2>3 DEF Placed
<1> QED BY <1>2, <1>3, <1>4 DEF Placed

\* The order of the calls is kept.
LEMMA OrderStays ==
    ASSUME CoverInv, GenTypeOK, InOrder, todo # <<>>, NEW tasks,
           HeadReplaced(todo', todo, tasks), CallsBelow(tasks), Consecutive(tasks), prog' = prog
    PROVE  InOrder'
<1>1. /\ DOMAIN todo = 1 .. Len(todo) /\ Head(todo) = todo[1] /\ 1 \in DOMAIN todo
      /\ DOMAIN tasks = 1 .. Len(tasks) /\ Len(tasks) \in Nat
      /\ DOMAIN todo' = 1 .. Len(todo')
      /\ \A i \in DOMAIN todo' : \/ i \in DOMAIN tasks /\ todo'[i] = tasks[i]
                                 \/ /\ i > Len(tasks) /\ i - Len(tasks) + 1 \in DOMAIN todo
                                    /\ todo'[i] = todo[i - Len(tasks) + 1]
      /\ node = todo[1].node
  BY DEF HeadReplaced, node
<1>2. ASSUME NEW i \in DOMAIN todo', NEW j \in DOMAIN todo', i < j,
             IsCall(todo'[i]), todo'[j].do = "stat"
      PROVE  LastOf(prog)[todo'[i].node] < todo'[j].node
  <2>1. CASE j \in DOMAIN tasks /\ todo'[j] = tasks[j]
    <3>1. i \in DOMAIN tasks /\ todo'[i] = tasks[i]
      BY <1>1, <1>2, <2>1
    <3> QED BY <1>2, <2>1, <3>1 DEF Consecutive
  <2>2. CASE j > Len(tasks) /\ j - Len(tasks) + 1 \in DOMAIN todo
             /\ todo'[j] = todo[j - Len(tasks) + 1]
    <3>1. PICK l \in DOMAIN todo : l = j - Len(tasks) + 1 /\ l > 1 /\ todo'[j] = todo[l]
      BY <1>1, <1>2, <2>2
    <3>2. CASE i \in DOMAIN tasks /\ todo'[i] = tasks[i]
      <4>1. /\ IsCall(todo[1]) /\ tasks[i].node \in DOMAIN prog
            /\ LastOf(prog)[tasks[i].node] <= LastOf(prog)[node]
        BY <1>1, <1>2, <3>2 DEF CallsBelow
      <4>2. LastOf(prog)[node] < todo[l].node
        BY <1>1, <1>2, <3>1, <4>1 DEF InOrder
      <4>3. /\ LastOf(prog)[tasks[i].node] \in Nat /\ LastOf(prog)[node] \in Nat
            /\ todo[l].node \in Nat
        BY <1>1, <4>1, ProgFacts, NodesOfCalls
      <4> QED BY <3>1, <3>2, <4>1, <4>2, <4>3
    <3>3. CASE i > Len(tasks) /\ i - Len(tasks) + 1 \in DOMAIN todo
               /\ todo'[i] = todo[i - Len(tasks) + 1]
      <4>1. i - Len(tasks) + 1 < l
        BY <1>1, <1>2, <3>1, <3>3
      <4> QED BY <1>2, <3>1, <3>3, <4>1 DEF InOrder
    <3> QED BY <1>1, <3>2, <3>3
  <2> QED BY <1>1, <2>1, <2>2
<1> QED BY <1>2 DEF InOrder

\* What is behind the function at hand has not been come to.
LEMMA OutsideStays ==
    ASSUME CoverInv, GenTypeOK, NoneLost, LaterOutside, todo # <<>>, NEW tasks,
           HeadReplaced(todo', todo, tasks), CallsBelow(tasks), prog' = prog
    PROVE  LaterOutside'
<1>1. /\ DOMAIN todo = 1 .. Len(todo) /\ Head(todo) = todo[1] /\ 1 \in DOMAIN todo
      /\ DOMAIN tasks = 1 .. Len(tasks) /\ Len(tasks) \in Nat
      /\ DOMAIN todo' = 1 .. Len(todo')
      /\ \A i \in DOMAIN todo' : \/ i \in DOMAIN tasks /\ todo'[i] = tasks[i]
                                 \/ /\ i > Len(tasks) /\ i - Len(tasks) + 1 \in DOMAIN todo
                                    /\ todo'[i] = todo[i - Len(tasks) + 1]
      /\ \A i \in DOMAIN todo : i > 1 =>
            i - 1 + Len(tasks) \in DOMAIN todo' /\ todo'[i - 1 + Len(tasks)] = todo[i]
      /\ node = todo[1].node
  BY DEF HeadReplaced, node
<1>2. Variables' = Variables /\ Funs' = Funs /\ Funs \subseteq DOMAIN prog
  BY ProgFacts, SameTree DEF Variables
<1>3. ASSUME NEW i \in DOMAIN todo', IsCall(todo'[i]), NEW f \in Funs,
             f < todo'[i].node, todo'[i].node <= LastOf(prog)[f],
             NEW v \in Variables, v > LastOf(prog)[f]
      PROVE  \E j \in DOMAIN todo' : j > i /\ todo'[j].do = "stat" /\ todo'[j].node <= v
  <2>1. ASSUME NEW k \in DOMAIN todo, NEW l \in DOMAIN todo, l > k,
               todo[l].do = "stat", todo[l].node <= v, i < l - 1 + Len(tasks)
        PROVE  \E j \in DOMAIN todo' : j > i /\ todo'[j].do = "stat" /\ todo'[j].node <= v
    <3>1. /\ l - 1 + Len(tasks) \in DOMAIN todo' /\ todo'[l - 1 + Len(tasks)] = todo[l]
      BY <1>1, <2>1
    <3> QED BY <1>1, <2>1, <3>1
  <2>2. CASE i \in DOMAIN tasks /\ todo'[i] = tasks[i]
    <3>1. /\ IsCall(todo[1]) /\ (f = node \/ (f < node /\ node <= LastOf(prog)[f]))
          /\ node \in DOMAIN prog
      BY <1>1, <1>2, <1>3, <2>2, NodesOfCalls DEF CallsBelow
    <3>2. PICK l \in DOMAIN todo : l > 1 /\ todo[l].do = "stat" /\ todo[l].node <= v
      <4>1. CASE f < node /\ node <= LastOf(prog)[f]
        BY <1>1, <1>3, <3>1, <4>1 DEF LaterOutside
      <4>2. CASE f = node
        <5>1. IsStat(prog, f)
          BY DEF Funs, DeclIds, IsStat, StatTypes
        <5>2. Head(todo).do = "stat"
          <6>1. /\ Head(todo).do = "expr" => IsExpr(prog, node)
                /\ Head(todo).do = "right" => Type(node) = "BIN_OP"
            BY CallFacts
          <6> QED BY <1>1, <3>1, <4>2, <5>1, <6>1
                  DEF IsCall, IsStat, IsExpr, StatTypes, ExprTypes, Type
        <5>3. ~(v < todo[1].node)
          BY <1>1, <1>3, <3>1, <4>2, ProgFacts, NodesOfCalls
        <5>4. PICK j \in DOMAIN todo : /\ todo[j].do = "stat" /\ todo[j].node <= v
                                       /\ v <= LastOf(prog)[todo[j].node]
          BY <1>1, <5>2, <5>3, NotPlaced
        <5>5. j # 1
          BY <1>1, <1>3, <3>1, <4>2, <5>4, NodesOfCalls
        <5> QED BY <1>1, <5>4, <5>5
      <4> QED BY <3>1, <4>1, <4>2
    <3>3. i < l - 1 + Len(tasks)
      BY <1>1, <2>2, <3>2
    <3> QED BY <1>1, <2>1, <3>2, <3>3
  <2>3. CASE i > Len(tasks) /\ i - Len(tasks) + 1 \in DOMAIN todo
             /\ todo'[i] = todo[i - Len(tasks) + 1]
    <3>1. PICK k \in DOMAIN todo : k = i - Len(tasks) + 1 /\ todo'[i] = todo[k]
      BY <2>3
    <3>2. PICK l \in DOMAIN todo : l > k /\ todo[l].do = "stat" /\ todo[l].node <= v
      BY <1>3, <3>1 DEF LaterOutside
    <3>3. i < l - 1 + Len(tasks)
      BY <1>1, <1>3, <3>1, <3>2
    <3> QED BY <2>1, <3>2, <3>3
  <2> QED BY <1>1, <2>2, <2>3
<1> QED BY <1>2, <1>3 DEF LaterOutside

\* A step that gives no variable a place keeps the invariant.
LEMMA CallsKeepPlaces ==
    ASSUME CoverInv, GenTypeOK, PlacesInv, NEW tasks, Step(tasks),
           ~(Head(todo).do = "stat" /\ VarDecl(node)), UNCHANGED <<slot, next_stack_offset>>
    PROVE  PlacesInv'
<1>1. /\ todo # <<>> /\ tasks \in Seq(GenTasks) /\ todo' = tasks \o Tail(todo)
      /\ Serves(tasks) /\ UNCHANGED <<prog, symbolOf>>
  BY DEF Step
<1>2. HeadReplaced(todo', todo, tasks)
  <2>1. todo \in Seq(GenTasks)
    BY DEF GenTypeOK
  <2> QED BY <1>1, <2>1, HeadIsReplaced
<1>3. /\ CallsBelow(tasks) /\ Consecutive(tasks)
      /\ Head(todo).do = "stat" => Contains(tasks)
  BY <1>1, TaskTree
<1>4. Placed' = Placed /\ Variables' = Variables
  BY <1>1, <1>2, <1>3, PlacedStays, SameTree DEF Variables
<1>5. InOrder' /\ LaterOutside'
  BY <1>1, <1>2, <1>3, OrderStays, OutsideStays DEF PlacesInv
<1>6. OffsetCounts' /\ SlotsRight'
  BY <1>1, <1>4 DEF PlacesInv, OffsetCounts, SlotsRight, PlaceOf
<1>7. NoneLost'
  <2> SUFFICES ASSUME NEW v \in Variables, v \notin Placed
               PROVE  \E i \in DOMAIN todo' : /\ todo'[i].do = "stat" /\ todo'[i].node <= v
                                              /\ v <= LastOf(prog)[todo'[i].node]
    BY <1>1, <1>4 DEF NoneLost
  <2>1. PICK j \in DOMAIN todo : /\ todo[j].do = "stat" /\ todo[j].node <= v
                                 /\ v <= LastOf(prog)[todo[j].node]
    BY DEF PlacesInv, NoneLost
  <2>2. /\ \A i \in DOMAIN tasks : i \in DOMAIN todo' /\ todo'[i] = tasks[i]
        /\ \A i \in DOMAIN todo : i > 1 =>
              i - 1 + Len(tasks) \in DOMAIN todo' /\ todo'[i - 1 + Len(tasks)] = todo[i]
        /\ \A i \in DOMAIN todo : i = 1 \/ i > 1
        /\ Head(todo) = todo[1] /\ node = todo[1].node
    BY <1>2 DEF HeadReplaced, node
  <2>3. CASE j > 1
    BY <2>1, <2>2, <2>3
  <2>4. CASE j = 1
    BY <1>3, <2>1, <2>2, <2>4 DEF Contains
  <2> QED BY <2>2, <2>3, <2>4
<1> QED BY <1>5, <1>6, <1>7 DEF PlacesInv

\* When the generator comes to a variable, it has come past those before it.
LEMMA PlacedBefore ==
    ASSUME CoverInv, GenTypeOK, PlacesInv, GenVar, HeadReplaced(todo', todo, <<>>)
    PROVE  /\ node \in Variables
           /\ Placed = {v \in Variables : v < node}
           /\ Placed' = {v \in Variables : v <= node}
<1>1. /\ Head(todo).do = "stat" /\ VarDecl(node) /\ todo # <<>> /\ prog' = prog
      /\ DOMAIN <<>> = {} /\ Len(<<>>) = 0
  BY DEF GenVar, AtStatTask, At, VarDecl
<1>2. /\ DOMAIN todo = 1 .. Len(todo) /\ Head(todo) = todo[1] /\ 1 \in DOMAIN todo
      /\ \A i \in DOMAIN todo' : i > 0 /\ i + 1 \in DOMAIN todo /\ todo'[i] = todo[i + 1]
      /\ \A i \in DOMAIN todo : i > 1 => i - 1 \in DOMAIN todo' /\ todo'[i - 1] = todo[i]
      /\ node = todo[1].node /\ node \in DOMAIN prog
  <2>1. /\ DOMAIN todo' = 1 .. Len(todo') /\ DOMAIN todo = 1 .. Len(todo)
        /\ \A i \in DOMAIN todo' : i > 0 /\ i - 0 + 1 \in DOMAIN todo /\ todo'[i] = todo[i - 0 + 1]
        /\ \A i \in DOMAIN todo : i > 1 => i - 1 + 0 \in DOMAIN todo' /\ todo'[i - 1 + 0] = todo[i]
    BY <1>1 DEF HeadReplaced
  <2> QED BY <1>1, <2>1, CallFacts DEF HeadReplaced, node
<1>3. /\ node \in Variables /\ Variables' = Variables /\ node <= LastOf(prog)[node]
      /\ \A v \in Variables : v > node => v > LastOf(prog)[node]
  BY <1>1, <1>2, SameTree, VariableFacts DEF Variables
<1>4. /\ \A i \in DOMAIN todo : todo[i].node \in Nat
      /\ \A v \in Variables : v \in Nat
      /\ LastOf(prog)[node] \in Nat /\ node \in Nat
  BY <1>2, NodesOfCalls
<1>5. \A j \in DOMAIN todo : j > 1 /\ todo[j].do = "stat" => LastOf(prog)[node] < todo[j].node
  BY <1>1, <1>2 DEF PlacesInv, InOrder, IsCall
<1>6. ASSUME NEW v \in Variables, v <= node
      PROVE  \A j \in DOMAIN todo : j > 1 /\ todo[j].do = "stat" => v < todo[j].node
  BY <1>3, <1>4, <1>5, <1>6
<1>7. ASSUME NEW v \in Variables,
             \A j \in DOMAIN todo : j > 1 /\ todo[j].do = "stat" => v < todo[j].node
      PROVE  v <= node
  <2> SUFFICES ASSUME v > node
               PROVE  FALSE
    BY <1>4
  <2>1. PICK j \in DOMAIN todo : /\ todo[j].do = "stat" /\ todo[j].node <= v
                                 /\ v <= LastOf(prog)[todo[j].node]
    <3>1. ~(v < todo[1].node)
      BY <1>2, <1>4
    <3> QED BY <1>1, <1>2, <3>1, NotPlaced DEF PlacesInv
  <2>2. j # 1
    BY <1>2, <1>3, <1>4, <2>1
  <2>3. j > 1
    BY <1>2, <2>2
  <2> QED BY <1>4, <1>7, <2>1, <2>3
<1>8. \A j \in DOMAIN todo : j = 1 \/ j > 1
  BY <1>2
<1>9. \A v \in Variables : v \in Placed <=> v < node
  <2>1. ASSUME NEW v \in Placed
        PROVE  v < node
    BY <1>1, <1>2 DEF Placed
  <2>2. ASSUME NEW v \in Variables, v < node
        PROVE  v \in Placed
    <3>1. v <= node
      BY <1>4, <2>2
    <3> QED BY <1>2, <1>6, <1>8, <2>2, <3>1 DEF Placed
  <2> QED BY <2>1, <2>2
<1>10. \A v \in Variables : v \in Placed' <=> v <= node
  <2>1. \A v \in Variables :
          v \in Placed' <=> \A j \in DOMAIN todo : j > 1 /\ todo[j].do = "stat" => v < todo[j].node
    <3>1. ASSUME NEW v \in Variables, NEW j \in DOMAIN todo, j > 1, todo[j].do = "stat",
                 \A i \in DOMAIN todo' : todo'[i].do = "stat" => v < todo'[i].node
          PROVE  v < todo[j].node
      BY <1>2, <3>1
    <3>2. ASSUME NEW v \in Variables, NEW i \in DOMAIN todo', todo'[i].do = "stat",
                 \A j \in DOMAIN todo : j > 1 /\ todo[j].do = "stat" => v < todo[j].node
          PROVE  v < todo'[i].node
      <4>1. i + 1 > 1 /\ i + 1 \in DOMAIN todo /\ todo'[i] = todo[i + 1]
        <5>1. DOMAIN todo' = 1 .. Len(todo')
          BY DEF HeadReplaced
        <5> QED BY <1>2, <5>1
      <4> QED BY <3>2, <4>1
    <3> QED BY <1>3, <3>1, <3>2 DEF Placed
  <2> QED BY <1>6, <1>7, <2>1
<1> QED BY <1>3, <1>9, <1>10 DEF Placed

\* The place of a variable is free when it gets it.
LEMMA NextPlace ==
    ASSUME CoverInv, OffsetCounts, NEW n \in Variables,
           Placed = {v \in Variables : v < n}
    PROVE  /\ next_stack_offset = PlaceOf(n)
           /\ next_stack_offset + 8 = 8 * (Cardinality({v \in Variables : v <= n}) + 1)
<1> DEFINE S == {v \in Variables : v < n}
           T == {v \in Variables : v <= n}
<1>1. Len(prog) \in Nat /\ Variables \subseteq 1 .. Len(prog)
  BY ProgFacts, VariableFacts
<1>2. IsFiniteSet(S)
  <2>1. IsFiniteSet(1 .. Len(prog))
    BY <1>1, FS_Interval
  <2> QED BY <1>1, <2>1, FS_Subset
<1>3. T = S \cup {n} /\ n \notin S
  <2>1. \A v \in Variables : v \in Nat
    BY VariableFacts
  <2>2. \A v \in Variables : v <= n <=> v < n \/ v = n
    BY <2>1
  <2> QED BY <2>1, <2>2
<1>4. Cardinality(S) \in Nat /\ Cardinality(T) = Cardinality(S) + 1
  BY <1>2, <1>3, FS_CardinalityType, FS_AddElement
<1>5. PlaceOf(n) = 8 * Cardinality(T)
  BY DEF PlaceOf
<1>6. next_stack_offset = 8 * (Cardinality(S) + 1)
  BY DEF OffsetCounts
<1> HIDE DEF S, T
<1>7. next_stack_offset = 8 * Cardinality(T)
  BY <1>4, <1>6
<1>8. next_stack_offset + 8 = 8 * (Cardinality(T) + 1)
  BY <1>4, <1>6
<1> QED BY <1>5, <1>7, <1>8 DEF T

\* A variable gets its place.
LEMMA VarKeepsPlaces ==
    ASSUME CoverInv, GenTypeOK, PlacesInv, GenVar
    PROVE  PlacesInv'
<1> DEFINE none == <<>>
<1>1. /\ todo # <<>> /\ Head(todo).do = "stat" /\ todo' = none \o Tail(todo)
      /\ UNCHANGED <<prog, symbolOf>> /\ symbolOf[node] # NULL
      /\ slot' = [slot EXCEPT ![symbolOf[node]] = next_stack_offset]
      /\ next_stack_offset' = next_stack_offset + 8
      /\ DOMAIN none = {} /\ Len(none) = 0 /\ none \in Seq(GenTasks)
  BY DEF GenVar, AtStatTask, At, Do
<1>2. HeadReplaced(todo', todo, none)
  <2>1. todo \in Seq(GenTasks)
    BY DEF GenTypeOK
  <2> QED BY <1>1, <2>1, HeadIsReplaced
<1>3. CallsBelow(none) /\ Consecutive(none)
  BY <1>1 DEF CallsBelow, Consecutive
<1>4. InOrder' /\ LaterOutside'
  BY <1>1, <1>2, <1>3, OrderStays, OutsideStays DEF PlacesInv
<1>5. /\ node \in Variables
      /\ Placed = {v \in Variables : v < node}
      /\ Placed' = {v \in Variables : v <= node}
  BY <1>2, PlacedBefore
<1>6. PICK n \in Variables :
        /\ n = node /\ Placed = {v \in Variables : v < n} /\ Placed' = {v \in Variables : v <= n}
  BY <1>5
<1>7. /\ next_stack_offset = PlaceOf(n)
      /\ next_stack_offset + 8 = 8 * (Cardinality({v \in Variables : v <= n}) + 1)
  BY <1>6, NextPlace DEF PlacesInv
<1>8. OffsetCounts'
  BY <1>1, <1>6, <1>7 DEF OffsetCounts
<1>9. /\ Variables' = Variables /\ \A d : PlaceOf(d)' = PlaceOf(d)
  BY <1>1, SameTree DEF Variables, PlaceOf
<1>10. SlotsRight'
  <2>1. /\ \A v \in Variables : v \in Nat /\ v \in DOMAIN prog
        /\ symbolOf \in [DOMAIN prog -> Addr \cup {NULL}] /\ slot \in [Addr -> Nat]
    BY VariableFacts DEF GenTypeOK
  <2>2. \A a \in Addr : slot'[a] = IF a = symbolOf[n] THEN next_stack_offset ELSE slot[a]
    BY <1>1, <1>6, <2>1
  <2>3. ASSUME NEW d \in Placed', \A e \in Placed' : e > d => symbolOf[e] # symbolOf[d]
        PROVE  slot'[symbolOf[d]] = PlaceOf(d)
    <3>1. CASE d = n
      <4>1. symbolOf[n] \in Addr
        BY <1>1, <1>6, <2>1
      <4> QED BY <1>7, <2>2, <3>1, <4>1
    <3>2. CASE d # n
      <4>1. d \in Placed /\ n > d /\ n \in Placed' /\ Placed \subseteq Placed'
        BY <1>6, <2>1, <2>3, <3>2
      <4>2. symbolOf[n] # symbolOf[d]
        BY <2>3, <4>1
      <4>3. slot[symbolOf[d]] = PlaceOf(d)
        BY <2>3, <4>1 DEF PlacesInv, SlotsRight
      <4>4. slot'[symbolOf[d]] = slot[symbolOf[d]]
        BY <1>1, <1>6, <2>1, <4>2
      <4> QED BY <4>3, <4>4
    <3> QED BY <3>1, <3>2
  <2> QED BY <1>1, <1>9, <2>3 DEF SlotsRight
<1>11. NoneLost'
  <2> SUFFICES ASSUME NEW v \in Variables, v \notin Placed'
               PROVE  \E i \in DOMAIN todo' : /\ todo'[i].do = "stat" /\ todo'[i].node <= v
                                              /\ v <= LastOf(prog)[todo'[i].node]
    BY <1>1, <1>9 DEF NoneLost
  <2>1. v \notin Placed /\ ~(v <= n) /\ v \in Nat /\ n \in Nat
    BY <1>6, VariableFacts
  <2>2. PICK j \in DOMAIN todo : /\ todo[j].do = "stat" /\ todo[j].node <= v
                                 /\ v <= LastOf(prog)[todo[j].node]
    BY <2>1 DEF PlacesInv, NoneLost
  <2>3. /\ \A i \in DOMAIN todo : i > 1 =>
              i - 1 + Len(none) \in DOMAIN todo' /\ todo'[i - 1 + Len(none)] = todo[i]
        /\ \A i \in DOMAIN todo : i = 1 \/ i > 1
        /\ Head(todo) = todo[1] /\ node = todo[1].node
    BY <1>2 DEF HeadReplaced, node
  <2>4. j # 1
    <3>1. \A w \in Variables : n < w => LastOf(prog)[n] < w
      BY VariableFacts
    <3>2. LastOf(prog)[n] < v /\ LastOf(prog)[n] \in Nat
      BY <2>1, <3>1, ProgFacts, VariableFacts
    <3> QED BY <1>6, <2>1, <2>2, <2>3, <3>2
  <2> QED BY <2>2, <2>3, <2>4
<1> QED BY <1>4, <1>8, <1>10, <1>11 DEF PlacesInv

\* At the start of the generator no variable has a place.
LEMMA InitPlaces ==
    ASSUME CoverInv, GenInit
    PROVE  PlacesInv
<1> DEFINE t == StatTask(1, initial_regset)
<1>1. t.do = "stat" /\ t.node = 1 /\ todo = <<t>> /\ next_stack_offset = 8
  BY TaskKinds DEF GenInit
<1> HIDE DEF t
<1>2. DOMAIN todo = {1} /\ todo[1] = t
  BY <1>1
<1>3. \A v \in Variables : v >= 1 /\ v <= Len(prog) /\ v \in Nat
  BY ProgFacts, VariableFacts
<1>4. Placed = {}
  BY <1>1, <1>2, <1>3 DEF Placed
<1>5. InOrder
  BY <1>2 DEF InOrder
<1>6. NoneLost
  BY <1>1, <1>2, <1>3, ProgFacts DEF NoneLost
<1>7. LaterOutside
  <2>1. \A f \in Funs : ~(f < 1)
    BY ProgFacts
  <2> QED BY <1>1, <1>2, <2>1 DEF LaterOutside
<1>8. OffsetCounts
  BY <1>1, <1>4, FS_EmptySet DEF OffsetCounts
<1> QED BY <1>4, <1>5, <1>6, <1>7, <1>8 DEF PlacesInv, SlotsRight

\* A step that leaves the tree, the places and the calls alone keeps it.
LEMMA PlacesStay ==
    ASSUME PlacesInv, UNCHANGED <<prog, symbolOf, slot, todo, next_stack_offset>>
    PROVE  PlacesInv'
<1>1. Variables' = Variables /\ Funs' = Funs /\ Placed' = Placed
  BY SameTree DEF Variables, Placed
<1> QED BY <1>1 DEF PlacesInv, InOrder, NoneLost, LaterOutside, OffsetCounts, SlotsRight, PlaceOf

\* Every step of the generator keeps the invariant.
LEMMA NextPlaces ==
    ASSUME CoverInv, GenTypeOK, GivesUpInv, PlacesInv, Generate
    PROVE  PlacesInv'
<1>1. CASE GenVar
  BY <1>1, VarKeepsPlaces
<1>2. CASE OutOfRegisters \/ NoSymbol \/ GenFinish
  <2>1. UNCHANGED <<prog, symbolOf, slot, todo, next_stack_offset>>
    BY <1>2 DEF OutOfRegisters, NoSymbol, GenFinish
  <2> QED BY <2>1, PlacesStay
<1>3. CASE ~GenVar /\ ~(OutOfRegisters \/ NoSymbol \/ GenFinish)
  <2>1. PICK tasks : Step(tasks)
    BY <1>3, EveryStep
  <2>2. ~(Head(todo).do = "stat" /\ VarDecl(node)) /\ UNCHANGED <<slot, next_stack_offset>>
    BY <1>3 DEF Generate, GenReturn, GenIf, GenWhile, GenFor, Loop, GenBlock, GenFunc,
           GenExprStat, GenSkip, GenIntLit, GenVarRef, GenFuncCall, GenBinop, GenRight,
           GenArith, GenAssign, GenCompare, GenEmit, Continue, Write,
           AtStatTask, AtExprTask, AtOp, At, VarDecl
  <2> QED BY <2>1, <2>2, CallsKeepPlaces
<1> QED BY <1>1, <1>2, <1>3

\* The places are right at every name: no later variable has used the memory of the
\* symbol, because those come after the scope of the declaration.
LEMMA PlaceFound ==
    ASSUME CoverInv, GenTypeOK, PlacesInv, Apart, Meant, AtExprTask("VAR_REF"),
           \A n \in DOMAIN prog : Type(n) \in {"DECL_STAT", "VAR_REF"} => symbolOf[n] # NULL,
           NEW d \in Declarations(prog, prog[node].name, node) \cap Variables
    PROVE  slot[symbolOf[node]] = PlaceOf(d)
<1>1. /\ todo # <<>> /\ Head(todo).do = "expr" /\ Type(node) = "VAR_REF" /\ node \in DOMAIN prog
      /\ 1 \in DOMAIN todo /\ todo[1] = Head(todo) /\ node = todo[1].node
      /\ DOMAIN todo = 1 .. Len(todo)
  <2>1. todo \in Seq(GenTasks) /\ todo # <<>>
    BY DEF AtExprTask, At, GenTypeOK
  <2> QED BY <2>1, CallFacts, EmptySeq DEF AtExprTask, At, node
<1>2. /\ d \in Variables /\ d \in DOMAIN prog /\ d \in DeclIds /\ d <= LastOf(prog)[d]
      /\ LastOf(prog)[d] < node /\ node <= LastOf(prog)[ScopeOf(prog, d)]
      /\ \A m \in DOMAIN prog : m \in Nat /\ LastOf(prog)[m] \in Nat /\ m <= LastOf(prog)[m]
      /\ LastOf(prog)[1] = Len(prog) /\ DOMAIN prog = 1 .. Len(prog) /\ Len(prog) \in Nat
  BY VariableFacts, ProgFacts DEF Declarations, VisibleAt
<1>3. d \in Placed
  <2>1. ASSUME NEW j \in DOMAIN todo, todo[j].do = "stat"
        PROVE  d < todo[j].node
    <3>1. 1 < j
      BY <1>1, <2>1
    <3>2. LastOf(prog)[node] < todo[j].node
      BY <1>1, <2>1, <3>1 DEF PlacesInv, InOrder, IsCall
    <3> QED BY <1>1, <1>2, <3>2, NodesOfCalls
  <2> QED BY <1>2, <2>1 DEF Placed
<1>4. ASSUME NEW e \in Placed, e > d
      PROVE  symbolOf[e] # symbolOf[d]
  <2>1. e \in Variables /\ e \in DOMAIN prog /\ e \in DeclIds /\ e \in Nat
    BY VariableFacts DEF Placed
  <2>2. PICK f : f = ScopeOf(prog, d) /\ f \in {1} \cup Encl(d)
    BY <1>2, ScopeOfDecl
  <2>3. e <= LastOf(prog)[f]
    <3>1. CASE f = 1
      BY <1>2, <2>1, <3>1
    <3>2. CASE f \in Encl(d)
      <4>1. f \in Funs /\ f < d /\ f \in DOMAIN prog
        BY <3>2, ProgFacts DEF Encl
      <4>2. f < node /\ node <= LastOf(prog)[f]
        BY <1>1, <1>2, <2>2, <4>1
      <4>3. ASSUME e > LastOf(prog)[f]
            PROVE  FALSE
        <5>1. PICK j \in DOMAIN todo : todo[j].do = "stat" /\ todo[j].node <= e
          BY <1>1, <2>1, <4>1, <4>2, <4>3 DEF PlacesInv, LaterOutside, IsCall
        <5>2. e < todo[j].node /\ todo[j].node \in Nat
          BY <5>1, NodesOfCalls DEF Placed
        <5> QED BY <2>1, <5>1, <5>2
      <4> QED BY <1>2, <2>1, <4>1, <4>3
    <3> QED BY <2>2, <3>1, <3>2
  <2>4. symbolOf[d] # NULL /\ symbolOf[e] # NULL
    BY <1>2, <2>1 DEF DeclIds, Type
  <2> QED BY <1>2, <1>4, <2>1, <2>2, <2>3, <2>4 DEF Apart
<1>5. slot[symbolOf[d]] = PlaceOf(d)
  BY <1>3, <1>4 DEF PlacesInv, SlotsRight
<1>6. symbolOf[node] = symbolOf[d]
  BY <1>1 DEF Meant
<1> QED BY <1>5, <1>6

-----------------------------------------------------------------------------
(* The exit status. *)

\* What the checker leaves to the generator.
Accepted ==
    /\ WellScoped(prog)
    /\ \A n \in DOMAIN prog : Type(n) \in {"DECL_STAT", "VAR_REF"} => symbolOf[n] # NULL

ExitInv ==
    /\ phase \in {"semcheck", "gen", "OK", "SEM_ERR", "killed"}
    /\ phase = "semcheck" =>
          /\ CoverInv /\ VerdictInv /\ NeverAborted /\ GenInit
          /\ status = "crashed" => HasPrototype
    /\ phase = "gen" => CoverInv /\ Accepted /\ GenInv /\ GivesUpInv
    /\ ExitStatus

\* The generator leaves what the checker has left.
LEMMA CoverStays ==
    ASSUME CoverInv, UNCHANGED semVars
    PROVE  CoverInv'
BY NextIInv, NextCovers DEF CoverInv

\* The compiler starts with the checker, and the generator waits.
Started == Called /\ GenInit /\ phase = "semcheck"

LEMMA CompilerStarts == CompilerInit => Started
BY InitCalled DEF CompilerInit, Started

LEMMA StartedExit == Started => ExitInv
<1> SUFFICES ASSUME Started
             PROVE  ExitInv
  OBVIOUS
<1>1. CoverInv /\ VerdictInv
  BY CalledCovers, CalledVerdict DEF Started
<1>2. status # "crashed" /\ NeverAborted
  BY DEF Started, Called, SemInit, NeverAborted
<1> QED BY <1>1, <1>2 DEF ExitInv, ExitStatus, Started

\* A step of the checker.
LEMMA SemcheckKeepsExit == ExitInv /\ Semcheck => ExitInv'
<1> SUFFICES ASSUME ExitInv, Semcheck
             PROVE  ExitInv'
  OBVIOUS
<1>1. /\ phase = "semcheck" /\ phase' = phase /\ CoverInv /\ VerdictInv /\ GenInit
      /\ Next /\ UNCHANGED <<slot, todo, out, next_label, next_stack_offset, genStatus>>
  BY DEF Semcheck, ExitInv, Next, genOnly
<1>2. CoverInv'
  BY <1>1, NextIInv, NextCovers DEF CoverInv
<1>3. VerdictInv'
  BY <1>1, NextVerdict
<1>4. GenInit'
  BY <1>1 DEF GenInit, StatTask, Pending
<1>5. ASSUME status' = "crashed"
      PROVE  HasPrototype'
  <2>1. PrototypeCrash
    BY <1>1, <1>5 DEF Semcheck, Check, CheckReturn, CheckIf, CheckWhile, CheckFor, CheckBlock,
          CheckExprStat, CheckSkip, Redeclare, CheckVarDecl, EnterFunction, LeaveFunction,
          Finish, Declare, CheckIntLit, CheckName, AssignConst, CheckOperands, FinishArith,
          FinishAssign, FinishCompare, CheckUse, AtStat, AtExpr, AtResume
  <2>2. Stat \in DOMAIN prog /\ prog' = prog /\ prog[Stat].is_func /\ Kids(Stat) = <<>>
    BY <1>1, <2>1, StatFacts DEF PrototypeCrash, CoverInv, IInv, StatIds
  <2> QED BY <2>2 DEF HasPrototype, Kids
<1>6. NeverAborted'
  BY <1>1, NextNotAborted DEF CoverInv, ExitInv
<1> QED BY <1>1, <1>2, <1>3, <1>4, <1>5, <1>6 DEF ExitInv, ExitStatus

\* The checker hands a program over that keeps the rules, with all its symbols.
LEMMA StartGenKeepsExit == ExitInv /\ StartGen => ExitInv'
<1> SUFFICES ASSUME ExitInv, StartGen
             PROVE  ExitInv'
  OBVIOUS
<1>1. /\ phase = "semcheck" /\ phase' = "gen" /\ status = "done" /\ errors = 0
      /\ CoverInv /\ VerdictInv /\ GenInit
      /\ UNCHANGED <<scopes, symbols, prog, symbolOf, frames, exprs, result, errors, status,
                     slot, todo, out, next_label, next_stack_offset, genStatus>>
  BY DEF StartGen, ExitInv, semVars, genOnly
<1>2. Accepted
  <2>1. WellScoped(prog)
    BY <1>1, VerdictFollows DEF VerdictCorrect
  <2> QED BY <1>1, <2>1, NothingLeftOut DEF Accepted, HasSymbol
<1>3. /\ WellFormed(prog) /\ Preorder(prog)
      /\ symbolOf \in [DOMAIN prog -> Addr \cup {NULL}]
  BY <1>1, ProgFacts DEF CoverInv, IInv, TypeOK
<1>4. GenInv /\ GivesUpInv
  BY <1>1, <1>3, InvInit, InitGivesUp
<1>5. Accepted' /\ UNCHANGED genVars
  BY <1>1, <1>2 DEF Accepted, Type, genVars
<1>6. GenInv' /\ GivesUpInv'
  <2>1. [GenNext]_genVars
    BY <1>5
  <2> QED BY <1>4, <2>1, InvNext, NextGivesUp DEF GenInv
<1>7. CoverInv'
  <2>1. UNCHANGED semVars
    BY DEF StartGen
  <2> QED BY <1>1, <2>1, CoverStays
<1> QED BY <1>1, <1>5, <1>6, <1>7 DEF ExitInv, ExitStatus

\* A step of the generator.
LEMMA GenerateKeepsExit == ExitInv /\ GenerateCode => ExitInv'
<1> SUFFICES ASSUME ExitInv, GenerateCode
             PROVE  ExitInv'
  OBVIOUS
<1>1. /\ phase = "gen" /\ phase' = "gen" /\ [GenNext]_genVars
      /\ Accepted /\ GenInv /\ GivesUpInv
  BY DEF GenerateCode, ExitInv, GenNext
<1>2. GenInv' /\ GivesUpInv'
  BY <1>1, InvNext, NextGivesUp DEF GenInv
<1>3. UNCHANGED <<prog, symbolOf>>
  BY DEF GenerateCode, Generate, GenReturn, GenIf, GenWhile, GenFor, Loop, GenBlock, GenFunc, GenVar,
         GenExprStat, GenSkip, GenIntLit, GenVarRef, GenFuncCall, GenBinop, GenRight,
         OutOfRegisters, NoSymbol, GenArith, GenAssign, GenCompare, GenEmit, GenFinish,
         Continue, Write
<1>4. Accepted'
  BY <1>1, <1>3 DEF Accepted, Type
<1>5. CoverInv'
  <2>1. UNCHANGED semVars /\ CoverInv
    BY <1>1, <1>3 DEF GenerateCode, semOnly, semVars, ExitInv
  <2> QED BY <2>1, CoverStays
<1> QED BY <1>1, <1>2, <1>4, <1>5 DEF ExitInv, ExitStatus

\* The end of the process.
LEMMA EndKeepsExit == ExitInv /\ (SemErrors \/ Succeed \/ Killed) => ExitInv'
<1> SUFFICES ASSUME ExitInv, SemErrors \/ Succeed \/ Killed
             PROVE  ExitInv'
  OBVIOUS
<1>1. UNCHANGED <<prog, symbolOf>>
  BY DEF SemErrors, Succeed, Killed, semVars
<1>2. /\ WellScoped(prog)' <=> WellScoped(prog)
      /\ HasPrototype' <=> HasPrototype
      /\ TooDeep' <=> TooDeep
  BY <1>1 DEF HasPrototype, TooDeep, Generated, Ignored, Type, Kids
<1>3. CASE SemErrors
  <2>1. phase = "semcheck" /\ phase' = "SEM_ERR" /\ errors # 0 /\ VerdictInv
    BY <1>3 DEF SemErrors, ExitInv
  <2> QED BY <1>2, <2>1 DEF ExitInv, ExitStatus, VerdictInv
<1>4. CASE Succeed
  <2>1. /\ phase' = "OK" /\ Accepted /\ genStatus = "done" /\ GenInv /\ GivesUpInv
    BY <1>4 DEF Succeed, ExitInv
  <2>2. ~TooDeep
    BY <2>1, GivesUpFollows DEF GivesUpOnlyIfNeeded
  <2> QED BY <1>2, <2>1, <2>2 DEF ExitInv, ExitStatus, Accepted
<1>5. CASE Killed
  <2>1. CASE phase = "semcheck" /\ status \in {"aborted", "crashed"}
    <3>1. phase' = "killed" /\ HasPrototype
      BY <1>5, <2>1 DEF Killed, ExitInv, NeverAborted
    <3> QED BY <1>2, <3>1 DEF ExitInv, ExitStatus
  <2>2. CASE phase = "gen" /\ genStatus = "aborted"
    <3>1. phase' = "killed" /\ Accepted /\ GenInv /\ GivesUpInv
      BY <1>5, <2>2 DEF Killed, ExitInv
    <3>2. TooDeep \/ Unresolved
      BY <2>2, <3>1, GivesUpFollows DEF GivesUpOnlyIfNeeded
    <3>3. ~Unresolved
      BY <3>1 DEF Accepted, Unresolved, Generated
    <3> QED BY <1>2, <3>1, <3>2, <3>3 DEF ExitInv, ExitStatus
  <2> QED BY <1>5, <2>1, <2>2 DEF Killed
<1> QED BY <1>3, <1>4, <1>5

\* Nothing changes.
LEMMA StutterKeepsExit == ExitInv /\ UNCHANGED compilerVars => ExitInv'
<1> SUFFICES ASSUME ExitInv, UNCHANGED compilerVars
             PROVE  ExitInv'
  OBVIOUS
<1>1. /\ UNCHANGED semVars /\ UNCHANGED genVars /\ phase' = phase
      /\ UNCHANGED <<prog, symbolOf, status, slot, todo, out, next_label, next_stack_offset,
                     genStatus>>
  BY DEF compilerVars, semVars, genOnly, genVars
<1>2. /\ CoverInv => CoverInv'
      /\ CoverInv /\ VerdictInv /\ NeverAborted => CoverInv' /\ VerdictInv' /\ NeverAborted'
  BY <1>1, CoverStays, NextVerdict, NextNotAborted DEF CoverInv
<1>3. GenInit => GenInit'
  BY <1>1 DEF GenInit, StatTask, Pending
<1>4. GenInv /\ GivesUpInv => GenInv' /\ GivesUpInv'
  BY <1>1, InvNext, NextGivesUp DEF GenInv
<1>5. /\ Accepted => Accepted'
      /\ HasPrototype => HasPrototype'
      /\ ExitStatus => ExitStatus'
  BY <1>1 DEF Accepted, HasPrototype, ExitStatus, TooDeep, Generated, Ignored, Type, Kids
<1> QED BY <1>1, <1>2, <1>3, <1>4, <1>5 DEF ExitInv

\* Every step of the compiler keeps the invariant.
LEMMA NextExit ==
    ASSUME ExitInv, [CompilerNext]_compilerVars
    PROVE  ExitInv'
<1>1. CASE Compile
  BY <1>1, SemcheckKeepsExit, StartGenKeepsExit, GenerateKeepsExit, EndKeepsExit DEF Compile
<1>2. CASE UNCHANGED compilerVars
  BY <1>2, StutterKeepsExit
<1> QED BY <1>1, <1>2 DEF CompilerNext

\* The exit status tells whether the program is correct, for every program and every
\* list of registers.
THEOREM ExitTellsVerdict == CompilerSpec => []ExitStatus
<1>1. ExitInv /\ [CompilerNext]_compilerVars => ExitInv'
  BY NextExit
<1>2. ExitInv => ExitStatus
  BY DEF ExitInv
<1> QED BY <1>1, <1>2, CompilerStarts, StartedExit, PTL DEF CompilerSpec

-----------------------------------------------------------------------------
(* The symbols and the places, from the checker to the generator. *)

\* The inductive invariant of the compiler: the symbols while the checker runs, the
\* places while the generator runs.
PlaceInv ==
    /\ ExitInv
    /\ phase = "semcheck" => LinkInv
    /\ phase = "gen" => Apart /\ Meant /\ PlacesInv

LEMMA StartedPlace == Started => PlaceInv
BY StartedExit, CalledLinks DEF PlaceInv, Started

\* Every step of the compiler keeps it.
LEMMA NextPlaceInv ==
    ASSUME PlaceInv, [CompilerNext]_compilerVars
    PROVE  PlaceInv'
<1>1. ExitInv /\ ExitInv'
  BY NextExit DEF PlaceInv
<1>2. CASE Semcheck
  <2>1. /\ phase = "semcheck" /\ phase' = "semcheck" /\ Check /\ CoverInv /\ VerdictInv /\ LinkInv
    BY <1>1, <1>2 DEF Semcheck, ExitInv, PlaceInv
  <2> QED BY <1>1, <2>1, CheckLinks DEF PlaceInv
<1>3. CASE StartGen
  <2>1. /\ phase = "semcheck" /\ phase' = "gen" /\ errors = 0 /\ CoverInv /\ LinkInv /\ GenInit
        /\ UNCHANGED <<prog, symbolOf, slot, todo, next_stack_offset>>
    BY <1>1, <1>3 DEF StartGen, ExitInv, PlaceInv, semVars, genOnly
  <2>2. PlacesInv
    BY <2>1, InitPlaces
  <2>3. PlacesInv'
    BY <2>1, <2>2, PlacesStay
  <2> QED BY <1>1, <2>1, <2>3, LinksStay DEF PlaceInv, LinkInv
<1>4. CASE GenerateCode
  <2>1. /\ phase = "gen" /\ phase' = "gen" /\ CoverInv /\ GenTypeOK /\ GivesUpInv
        /\ Apart /\ Meant /\ PlacesInv /\ Generate
    BY <1>1, <1>4 DEF GenerateCode, ExitInv, PlaceInv, GenInv
  <2>2. UNCHANGED <<prog, symbolOf>>
    BY <2>1, EveryStep DEF Step, OutOfRegisters, NoSymbol, GenFinish
  <2> QED BY <1>1, <2>1, <2>2, NextPlaces, LinksStay DEF PlaceInv
<1>5. CASE SemErrors \/ Succeed \/ Killed
  <2>1. phase' \in {"SEM_ERR", "OK", "killed"}
    BY <1>5 DEF SemErrors, Succeed, Killed
  <2> QED BY <1>1, <2>1 DEF PlaceInv
<1>6. CASE UNCHANGED compilerVars
  <2>1. /\ UNCHANGED <<prog, symbolOf, slot, todo, next_stack_offset>> /\ phase' = phase
        /\ UNCHANGED <<scopes, symbols, frames, exprs, errors, status>>
    BY <1>6 DEF compilerVars, semVars, genOnly
  <2>2. LinkInv => LinkInv'
    <3>1. /\ DeclIds' = DeclIds /\ Variables' = Variables /\ \A k : Owner(k)' = Owner(k)
      BY <2>1, SameTree DEF Variables, Owner
    <3>2. Pos' = Pos /\ \A d : Undeclared(d)' = Undeclared(d)
      BY <2>1, <3>1 DEF Pos, After, Undeclared, Owner
    <3>3. Declared' = Declared
      BY <2>1, <3>1, <3>2 DEF Declared
    <3> QED BY <3>3, <2>1, <3>1, LinksStay DEF LinkInv, NamesGiven, Lives, InScope
  <2> QED BY <1>1, <2>1, <2>2, PlacesStay, LinksStay DEF PlaceInv
<1> QED BY <1>2, <1>3, <1>4, <1>5, <1>6 DEF CompilerNext, Compile

\* The generator finds the place of the right variable behind every name, for every
\* program, whichever memory the checker's symbols were given.
THEOREM VariablesFound == CompilerSpec => []OwnPlace
<1>1. CompilerInit => PlaceInv
  BY CompilerStarts, StartedPlace
<1>2. PlaceInv /\ [CompilerNext]_compilerVars => PlaceInv'
  BY NextPlaceInv
<1>3. PlaceInv => OwnPlace
  BY PlaceFound DEF PlaceInv, ExitInv, GenInv, Accepted, OwnPlace
<1> QED BY <1>1, <1>2, <1>3, PTL DEF CompilerSpec
=============================================================================
