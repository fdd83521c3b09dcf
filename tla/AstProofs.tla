----------------------------- MODULE AstProofs -----------------------------
(***************************************************************************)
(* Facts about trees that are numbered as the parser reads them: the nodes *)
(* of a subtree have the numbers from its root to its last node.  Before   *)
(* them, facts about numbers and sequences that the proofs use.            *)
(***************************************************************************)
EXTENDS Ast, Integers, Sequences, FiniteSetsExt, SequenceTheorems, FiniteSetTheorems, TLAPS

-----------------------------------------------------------------------------
(* Facts about numbers and sequences that several proofs use.               *)

\* A set of natural numbers that is not empty has a least element, so Min
\* denotes it.  (The intervals 1 .. i are ordered by inclusion as the numbers
\* are, and inclusion is well-founded on finite sets.)
LEMMA MinProperties ==
    ASSUME NEW S \in SUBSET Nat, S # {}
    PROVE  Min(S) \in S /\ \A i \in S : Min(S) <= i
<1> DEFINE T == {1 .. i : i \in S}
<1>1. T \subseteq FiniteSubsetsOf(Nat) /\ T # {}
  <2>1. \A i \in S : 1 .. i \subseteq Nat /\ IsFiniteSet(1 .. i)
    BY FS_Interval
  <2> QED BY <2>1 DEF FiniteSubsetsOf
<1>2. \E X \in T : \A Y \in T : <<Y, X>> \notin StrictSubsetOrdering(Nat)
  BY <1>1, WFMin, FS_StrictSubsetOrderingWellFounded
<1>3. PICK m \in S : \A Y \in T : <<Y, 1 .. m>> \notin StrictSubsetOrdering(Nat)
  BY <1>2
<1>4. ASSUME NEW j \in S, j < m
      PROVE  FALSE
  <2>1. 1 .. j \subseteq 1 .. m /\ 1 .. j # 1 .. m
    <3>1. m \in 1 .. m /\ m \notin 1 .. j
      BY <1>4
    <3> QED BY <1>4, <3>1
  <2>2. 1 .. j \in SUBSET Nat /\ 1 .. m \in SUBSET Nat
    OBVIOUS
  <2>3. <<1 .. j, 1 .. m>> \in StrictSubsetOrdering(Nat)
    BY <2>1, <2>2 DEF StrictSubsetOrdering
  <2> QED BY <1>3, <2>3
<1>5. \A j \in S : m <= j
  BY <1>4
<1> QED BY <1>5 DEF Min

\* A set of numbers in an interval that is not empty has a greatest element.
LEMMA MaxProperties ==
    ASSUME NEW n \in Nat, NEW S \in SUBSET (1 .. n), S # {}
    PROVE  Max(S) \in S /\ \A i \in S : Max(S) >= i
<1> DEFINE T == {n - i : i \in S}
<1>1. T \in SUBSET Nat
  <2>1. \A i \in S : n - i \in Nat
    OBVIOUS
  <2> QED BY <2>1
<1>2. T # {}
  OBVIOUS
<1>3. Min(T) \in T /\ \A j \in T : Min(T) <= j
  <2> HIDE DEF T
  <2> QED BY <1>1, <1>2, MinProperties
<1>4. PICK m \in S : Min(T) = n - m
  BY <1>3
<1>5. \A i \in S : n - m <= n - i
  BY <1>3, <1>4
<1>6. \A i \in S : m >= i
  BY <1>5
<1> QED BY <1>6 DEF Max

\* A property of 0 that passes from each number below n to the next holds up to n.
LEMMA Upward ==
    ASSUME NEW n \in Nat, NEW S, 0 \in S,
           \A k \in 0 .. n : k + 1 \in 0 .. n /\ k \in S => k + 1 \in S
    PROVE  0 .. n \subseteq S
<1> DEFINE left == (0 .. n) \ S
<1>1. left = {}
  <2> SUFFICES ASSUME left # {}
               PROVE  FALSE
    OBVIOUS
  <2>1. Min(left) \in left /\ \A i \in left : Min(left) <= i
    <3>1. left \in SUBSET Nat
      OBVIOUS
    <3> HIDE DEF left
    <3> QED BY <3>1, MinProperties
  <2>2. PICK k \in left : \A i \in left : k <= i
    BY <2>1
  <2>3. k \in 0 .. n /\ k # 0 /\ k - 1 \in 0 .. n /\ k - 1 \notin left /\ k - 1 + 1 = k
    BY <2>2
  <2> QED BY <2>3
<1> QED BY <1>1

\* f begins with that value, and each of its values comes of the one before.
Grows(f, n, first, next) ==
    f[0] = first /\ \A k \in 1 .. n : f[k] = next[k][f[k - 1]]

\* A function on 0 .. n may be defined by its first value and by what comes of each.
LEMMA Recursion ==
    ASSUME NEW n \in Nat, NEW V, NEW first \in V, NEW next \in [1 .. n -> [V -> V]]
    PROVE  \E f \in [0 .. n -> V] : Grows(f, n, first, next)
<1> DEFINE Solves(f, m) == f[0] = first /\ \A k \in 1 .. m : f[k] = next[k][f[k - 1]]
           S == {m \in 0 .. n : \E f \in [0 .. n -> V] : Solves(f, m)}
<1>1. 0 \in S
  <2>1. PICK f \in [0 .. n -> V] : f = [k \in 0 .. n |-> first]
    OBVIOUS
  <2>2. 0 \in 0 .. n /\ f[0] = first /\ 1 .. 0 = {}
    BY <2>1
  <2> QED BY <2>2
<1>2. ASSUME NEW m \in 0 .. n, m + 1 \in 0 .. n, m \in S
      PROVE  m + 1 \in S
  <2>1. PICK f \in [0 .. n -> V] : Solves(f, m)
    BY <1>2
  <2>2. m + 1 \in 1 .. n /\ f[m] \in V /\ next[m + 1][f[m]] \in V
    BY <1>2
  <2>3. PICK g : g = [f EXCEPT ![m + 1] = next[m + 1][f[m]]]
    OBVIOUS
  <2>4. /\ g \in [0 .. n -> V] /\ g[m + 1] = next[m + 1][f[m]]
        /\ \A k \in 0 .. m : g[k] = f[k]
    BY <1>2, <2>2, <2>3
  <2>5. ASSUME NEW k \in 1 .. m + 1
        PROVE  g[k] = next[k][g[k - 1]]
    <3>1. CASE k = m + 1
      BY <1>2, <2>4, <3>1
    <3>2. CASE k # m + 1
      <4>1. k \in 1 .. m /\ k \in 0 .. m /\ k - 1 \in 0 .. m
        BY <1>2, <3>2
      <4> QED BY <2>1, <2>4, <4>1
    <3> QED BY <3>1, <3>2
  <2>6. g[0] = first
    BY <1>2, <2>1, <2>4
  <2> QED BY <1>2, <2>4, <2>5, <2>6
<1>3. n \in S
  <2>1. 0 .. n \subseteq S
    <3> HIDE DEF S
    <3> QED BY <1>1, <1>2, Upward
  <2> QED BY <2>1
<1> QED BY <1>3 DEF Grows

\* A property of the numbers up to n that passes from each number to the next
\* smaller one, and holds of n, holds of all.
LEMMA Downward ==
    ASSUME NEW n \in Nat, NEW S, n \in S,
           \A k \in 1 .. n : k + 1 \in 1 .. n /\ k + 1 \in S => k \in S
    PROVE  1 .. n \subseteq S
<1> DEFINE left == (1 .. n) \ S
<1>1. left = {}
  <2> SUFFICES ASSUME left # {}
               PROVE  FALSE
    OBVIOUS
  <2>1. Max(left) \in left /\ \A i \in left : Max(left) >= i
    <3>1. left \in SUBSET (1 .. n)
      OBVIOUS
    <3> HIDE DEF left
    <3> QED BY <3>1, MaxProperties
  <2>2. PICK k \in left : \A i \in left : k >= i
    BY <2>1
  <2>3. k # n /\ k + 1 \in 1 .. n /\ k + 1 \notin left
    BY <2>2
  <2> QED BY <2>3
<1> QED BY <1>1

\* Dropping the last element of a sequence.
LEMMA PopProperties ==
    ASSUME NEW S, NEW seq \in Seq(S), seq # <<>>
    PROVE  /\ SubSeq(seq, 1, Len(seq) - 1) \in Seq(S)
           /\ Len(SubSeq(seq, 1, Len(seq) - 1)) = Len(seq) - 1
           /\ \A k \in 1 .. Len(seq) - 1 : SubSeq(seq, 1, Len(seq) - 1)[k] = seq[k]
<1>1. Len(seq) \in Nat \ {0} /\ \A k \in 1 .. Len(seq) - 1 : seq[k] \in S
  BY EmptySeq, ElementOfSeq
<1> DEFINE n == Len(seq) - 1
<1>2. n \in Nat /\ \A k \in 1 .. n : seq[k] \in S
  BY <1>1
<1>3. /\ SubSeq(seq, 1, n) \in Seq(S)
      /\ Len(SubSeq(seq, 1, n)) = n
      /\ \A k \in 1 .. n : SubSeq(seq, 1, n)[k] = seq[k]
  <2> HIDE DEF n
  <2>1. /\ SubSeq(seq, 1, n) \in Seq(S)
        /\ Len(SubSeq(seq, 1, n)) = IF 1 <= n THEN n - 1 + 1 ELSE 0
        /\ \A k \in 1 .. n - 1 + 1 : SubSeq(seq, 1, n)[k] = seq[1 + k - 1]
    BY <1>2, SubSeqProperties
  <2>2. n - 1 + 1 = n /\ \A k \in 1 .. n : 1 + k - 1 = k
    BY <1>2
  <2>3. Len(SubSeq(seq, 1, n)) = n
    BY <1>2, <2>1
  <2> QED BY <2>1, <2>2, <2>3
<1> QED BY <1>3

\* A sequence all of whose elements are in T is a sequence over T.
LEMMA SeqRetype ==
    ASSUME NEW S, NEW T, NEW seq \in Seq(S), \A i \in DOMAIN seq : seq[i] \in T
    PROVE  seq \in Seq(T)
<1>1. Len(seq) \in Int /\ \A i \in 1 .. Len(seq) : seq[i] \in T
  BY LenProperties
<1>2. SubSeq(seq, 1, Len(seq)) \in Seq(T)
  BY <1>1, SubSeqProperties
<1> QED BY <1>2, SubSeqFull

\* The places of a concatenation are those of its two parts.
LEMMA ConcatPlaces ==
    ASSUME NEW S, NEW s \in Seq(S), NEW t \in Seq(S), NEW u, u = s \o t
    PROVE  /\ u \in Seq(S) /\ Len(s) \in Nat /\ Len(u) = Len(s) + Len(t)
           /\ DOMAIN u = 1 .. Len(u) /\ DOMAIN s = 1 .. Len(s) /\ DOMAIN t = 1 .. Len(t)
           /\ \A i \in DOMAIN u : \/ i \in DOMAIN s /\ u[i] = s[i]
                                  \/ /\ i \notin DOMAIN s /\ i - Len(s) \in DOMAIN t
                                     /\ u[i] = t[i - Len(s)]
           /\ \A i \in DOMAIN s : i \in DOMAIN u /\ u[i] = s[i]
           /\ \A i \in DOMAIN t : i + Len(s) \in DOMAIN u /\ u[i + Len(s)] = t[i]
<1>1. /\ u \in Seq(S) /\ Len(u) = Len(s) + Len(t)
      /\ \A i \in 1 .. Len(s) + Len(t) : u[i] = IF i <= Len(s) THEN s[i] ELSE t[i - Len(s)]
  BY ConcatProperties
<1>2. /\ Len(s) \in Nat /\ Len(t) \in Nat
      /\ DOMAIN s = 1 .. Len(s) /\ DOMAIN t = 1 .. Len(t) /\ DOMAIN u = 1 .. Len(s) + Len(t)
  BY <1>1, LenProperties
<1>3. ASSUME NEW i \in DOMAIN t
      PROVE  i + Len(s) \in DOMAIN u /\ u[i + Len(s)] = t[i]
  <2>1. i + Len(s) \in 1 .. Len(s) + Len(t) /\ ~(i + Len(s) <= Len(s))
        /\ i + Len(s) - Len(s) = i
    BY <1>2
  <2> QED BY <1>1, <1>2, <2>1
<1> QED BY <1>1, <1>2, <1>3

\* The places of a list of work whose head is replaced by more work.
LEMMA ReplaceHead ==
    ASSUME NEW S, NEW s \in Seq(S), s # <<>>, NEW t \in Seq(S), NEW u, u = t \o Tail(s)
    PROVE  /\ u \in Seq(S) /\ Len(t) \in Nat /\ Len(u) = Len(t) + Len(s) - 1
           /\ DOMAIN u = 1 .. Len(u) /\ DOMAIN s = 1 .. Len(s) /\ DOMAIN t = 1 .. Len(t)
           /\ Head(s) = s[1] /\ 1 \in DOMAIN s
           /\ \A i \in DOMAIN u : \/ i \in DOMAIN t /\ u[i] = t[i]
                                  \/ /\ i > Len(t) /\ i - Len(t) + 1 \in DOMAIN s
                                     /\ u[i] = s[i - Len(t) + 1]
           /\ \A i \in DOMAIN t : i \in DOMAIN u /\ u[i] = t[i]
           /\ \A i \in DOMAIN s : i > 1 =>
                 i - 1 + Len(t) \in DOMAIN u /\ u[i - 1 + Len(t)] = s[i]
<1>1. /\ Tail(s) \in Seq(S) /\ Len(s) \in Nat \ {0} /\ Len(Tail(s)) = Len(s) - 1
      /\ \A i \in 1 .. Len(s) - 1 : Tail(s)[i] = s[i + 1]
  BY EmptySeq, HeadTailProperties
<1>2. PICK r \in Seq(S) : r = Tail(s)
  BY <1>1
<1>3. /\ u \in Seq(S) /\ Len(t) \in Nat /\ Len(u) = Len(t) + Len(r)
      /\ DOMAIN u = 1 .. Len(u) /\ DOMAIN t = 1 .. Len(t) /\ DOMAIN r = 1 .. Len(r)
      /\ \A i \in DOMAIN u : \/ i \in DOMAIN t /\ u[i] = t[i]
                             \/ /\ i \notin DOMAIN t /\ i - Len(t) \in DOMAIN r
                                /\ u[i] = r[i - Len(t)]
      /\ \A i \in DOMAIN t : i \in DOMAIN u /\ u[i] = t[i]
      /\ \A i \in DOMAIN r : i + Len(t) \in DOMAIN u /\ u[i + Len(t)] = r[i]
  BY <1>2, ConcatPlaces
<1>4. DOMAIN s = 1 .. Len(s) /\ Head(s) = s[1] /\ 1 \in DOMAIN s
  BY <1>1
<1>5. ASSUME NEW i \in DOMAIN u
      PROVE  \/ i \in DOMAIN t /\ u[i] = t[i]
             \/ /\ i > Len(t) /\ i - Len(t) + 1 \in DOMAIN s
                /\ u[i] = s[i - Len(t) + 1]
  <2>1. CASE i \in DOMAIN t
    BY <1>3, <2>1
  <2>2. CASE i \notin DOMAIN t
    <3>1. i - Len(t) \in DOMAIN r /\ u[i] = r[i - Len(t)] /\ i \in 1 .. Len(u)
      BY <1>3, <2>2
    <3>2. r[i - Len(t)] = s[i - Len(t) + 1]
      BY <1>1, <1>2, <1>3, <3>1
    <3>3. i > Len(t) /\ i - Len(t) + 1 \in 1 .. Len(s)
      BY <1>1, <1>2, <1>3, <3>1, <2>2
    <3> QED BY <1>4, <3>1, <3>2, <3>3
  <2> QED BY <2>1, <2>2
<1>6. ASSUME NEW i \in DOMAIN s, i > 1
      PROVE  i - 1 + Len(t) \in DOMAIN u /\ u[i - 1 + Len(t)] = s[i]
  <2>1. i - 1 \in 1 .. Len(r) /\ r[i - 1] = s[i]
    BY <1>1, <1>2, <1>4, <1>6
  <2> QED BY <1>3, <2>1
<1>7. Len(u) = Len(t) + Len(s) - 1
  BY <1>1, <1>2, <1>3
<1> QED BY <1>3, <1>4, <1>5, <1>6, <1>7

\* u is s with the elements of t in the place of its head.
HeadReplaced(u, s, t) ==
    /\ Len(t) \in Nat /\ Len(u) = Len(t) + Len(s) - 1
    /\ DOMAIN u = 1 .. Len(u) /\ DOMAIN s = 1 .. Len(s) /\ DOMAIN t = 1 .. Len(t)
    /\ Head(s) = s[1] /\ 1 \in DOMAIN s
    /\ \A i \in DOMAIN u : \/ i \in DOMAIN t /\ u[i] = t[i]
                           \/ /\ i > Len(t) /\ i - Len(t) + 1 \in DOMAIN s
                              /\ u[i] = s[i - Len(t) + 1]
    /\ \A i \in DOMAIN t : i \in DOMAIN u /\ u[i] = t[i]
    /\ \A i \in DOMAIN s : i > 1 =>
          i - 1 + Len(t) \in DOMAIN u /\ u[i - 1 + Len(t)] = s[i]

\* ReplaceHead as one fact.
LEMMA HeadIsReplaced ==
    ASSUME NEW S, NEW s \in Seq(S), s # <<>>, NEW t \in Seq(S), NEW u, u = t \o Tail(s)
    PROVE  HeadReplaced(u, s, t)
  BY ReplaceHead DEF HeadReplaced

-----------------------------------------------------------------------------
(* The numbers of children. *)

\* The children of a node are nodes, and have higher numbers.
LEMMA TreeFacts ==
    ASSUME NEW p, WellFormed(p)
    PROVE  /\ Len(p) \in Nat \ {0} /\ DOMAIN p = 1 .. Len(p)
           /\ p[1].type = "BLOCK_STAT"
           /\ \A n \in DOMAIN p :
                 /\ p[n] \in Node
                 /\ Len(p[n].kids) \in Nat /\ DOMAIN p[n].kids = 1 .. Len(p[n].kids)
                 /\ p[n].kids = <<>> <=> Len(p[n].kids) = 0
                 /\ \A i \in DOMAIN p[n].kids : p[n].kids[i] \in DOMAIN p /\ p[n].kids[i] > n
<1>1. p \in Seq(Node) /\ p # <<>> /\ p[1].type = "BLOCK_STAT"
      /\ \A n \in DOMAIN p : \A i \in DOMAIN p[n].kids :
            p[n].kids[i] \in DOMAIN p /\ p[n].kids[i] > n
  BY DEF WellFormed
<1>2. Len(p) \in Nat \ {0} /\ DOMAIN p = 1 .. Len(p) /\ \A n \in DOMAIN p : p[n] \in Node
  BY <1>1, EmptySeq, LenProperties, ElementOfSeq
<1>3. ASSUME NEW n \in DOMAIN p
      PROVE  /\ Len(p[n].kids) \in Nat /\ DOMAIN p[n].kids = 1 .. Len(p[n].kids)
             /\ p[n].kids = <<>> <=> Len(p[n].kids) = 0
  <2>1. p[n].kids \in Seq(Nat \ {0})
    BY <1>2 DEF Node
  <2> QED BY <2>1, EmptySeq, LenProperties
<1> QED BY <1>1, <1>2, <1>3

\* The equation that LastOf is defined by has a solution: one that holds of the
\* nodes from k on has an extension to k - 1.
LEMMA LastExists ==
    ASSUME NEW p, WellFormed(p)
    PROVE  \E last : last = [n \in DOMAIN p |->
              IF p[n].kids = <<>> THEN n ELSE last[p[n].kids[Len(p[n].kids)]]]
<1> DEFINE N == Len(p)
           Of(last, n) == IF p[n].kids = <<>> THEN n ELSE last[p[n].kids[Len(p[n].kids)]]
           Solves(last, k) == /\ last = [n \in 1 .. N |-> last[n]]
                              /\ \A n \in k .. N : last[n] = Of(last, n)
           S == {k \in 1 .. N + 1 : \E last : Solves(last, k)}
<1>1. N \in Nat \ {0} /\ DOMAIN p = 1 .. N
  BY TreeFacts
<1>2. N + 1 \in S
  <2>1. Solves([n \in 1 .. N |-> 0], N + 1)
    BY <1>1
  <2> QED BY <1>1, <2>1
<1>3. ASSUME NEW k \in 1 .. N, k + 1 \in S
      PROVE  k \in S
  <2>1. PICK last : Solves(last, k + 1)
    BY <1>3
  <2> DEFINE next == [n \in 1 .. N |-> IF n = k THEN Of(last, k) ELSE last[n]]
  <2>2. next = [n \in 1 .. N |-> next[n]] /\ next[k] = Of(last, k)
        /\ \A n \in k + 1 .. N : next[n] = last[n]
    BY <1>1, <2>1
  <2>3. ASSUME NEW n \in k .. N
        PROVE  Of(next, n) = Of(last, n)
    <3>1. n \in DOMAIN p /\ n >= k
      BY <1>1
    <3>2. CASE p[n].kids # <<>>
      <4>1. Len(p[n].kids) \in DOMAIN p[n].kids
        BY <3>1, <3>2, TreeFacts
      <4>2. p[n].kids[Len(p[n].kids)] \in k + 1 .. N
        <5>1. PICK kid \in 1 .. N : kid = p[n].kids[Len(p[n].kids)] /\ kid > n
          BY <1>1, <3>1, <4>1, TreeFacts
        <5> QED BY <1>1, <3>1, <5>1
      <4> HIDE DEF next, N
      <4> QED BY <2>2, <3>2, <4>2
    <3> QED BY <3>2
  <2>4. \A n \in k .. N : next[n] = Of(next, n)
    <3>1. ASSUME NEW n \in k .. N
          PROVE  next[n] = Of(last, n)
      <4>1. n = k \/ n \in k + 1 .. N
        BY <1>1
      <4> HIDE DEF next
      <4> QED BY <2>1, <2>2, <4>1
    <3> QED BY <2>3, <3>1
  <2>5. Solves(next, k)
    <3> HIDE DEF next, Of
    <3> QED BY <2>2, <2>4
  <2>6. k \in 1 .. N + 1
    BY <1>1
  <2> HIDE DEF next, Solves
  <2> QED BY <2>5, <2>6
<1>4. 1 \in S
  <2>1. 1 .. N + 1 \subseteq S
    <3>1. \A k \in 1 .. N + 1 : k + 1 \in 1 .. N + 1 /\ k + 1 \in S => k \in S
      <4> HIDE DEF S
      <4> QED BY <1>1, <1>3
    <3>2. N + 1 \in Nat
      BY <1>1
    <3> HIDE DEF S
    <3> QED BY <1>2, <3>1, <3>2, Downward
  <2>2. 1 \in 1 .. N + 1
    BY <1>1
  <2> QED BY <2>1, <2>2
<1>5. PICK last : Solves(last, 1)
  BY <1>4
<1>6. last = [n \in DOMAIN p |-> Of(last, n)]
  BY <1>1, <1>5
<1> QED BY <1>6

\* The last node of a subtree is that of the last child.
LEMMA LastDef ==
    ASSUME NEW p, WellFormed(p), NEW n \in DOMAIN p
    PROVE  LastOf(p)[n] = IF p[n].kids = <<>> THEN n ELSE LastOf(p)[p[n].kids[Len(p[n].kids)]]
<1> DEFINE Is(last) == last = [m \in DOMAIN p |->
              IF p[m].kids = <<>> THEN m ELSE last[p[m].kids[Len(p[m].kids)]]]
<1>1. \E last : Is(last)
  BY LastExists
<1>2. LastOf(p) = CHOOSE last : Is(last)
  BY DEF LastOf
<1>3. Is(LastOf(p))
  <2> HIDE DEF Is
  <2> QED BY <1>1, <1>2
<1> QED BY <1>3

-----------------------------------------------------------------------------
(* Subtrees are intervals. *)

\* It is a node, and not before the root of the subtree.
LEMMA LastBounds ==
    ASSUME NEW p, WellFormed(p)
    PROVE  \A n \in DOMAIN p : LastOf(p)[n] \in n .. Len(p)
<1> DEFINE N == Len(p)
           S == {n \in 1 .. N : \A m \in n .. N : LastOf(p)[m] \in m .. N}
<1>1. N \in Nat \ {0} /\ DOMAIN p = 1 .. N
  BY TreeFacts
<1>2. ASSUME NEW n \in 1 .. N, \A m \in n + 1 .. N : LastOf(p)[m] \in m .. N
      PROVE  n \in S
  <2>1. LastOf(p)[n] \in n .. N
    <3>1. n \in DOMAIN p
      BY <1>1
    <3>2. CASE p[n].kids = <<>>
      BY <1>1, <3>1, <3>2, LastDef
    <3>3. CASE p[n].kids # <<>>
      <4>1. PICK kid \in 1 .. N : kid = p[n].kids[Len(p[n].kids)] /\ kid > n
        <5>1. Len(p[n].kids) \in DOMAIN p[n].kids
          BY <3>1, <3>3, TreeFacts
        <5> QED BY <1>1, <3>1, <5>1, TreeFacts
      <4>2. LastOf(p)[n] = LastOf(p)[kid]
        BY <3>1, <3>3, <4>1, LastDef
      <4>3. LastOf(p)[kid] \in kid .. N
        BY <1>1, <1>2, <4>1
      <4> QED BY <1>1, <4>1, <4>2, <4>3
    <3> QED BY <3>2, <3>3
  <2>2. \A m \in n .. N : m = n \/ m \in n + 1 .. N
    BY <1>1
  <2> QED BY <1>2, <2>1, <2>2
<1>3. N \in S
  BY <1>1, <1>2
<1>4. 1 .. N \subseteq S
  <2>1. \A k \in 1 .. N : k + 1 \in 1 .. N /\ k + 1 \in S => k \in S
    BY <1>2
  <2> HIDE DEF S, N
  <2> QED BY <1>1, <1>3, <2>1, Downward
<1>5. \A n \in DOMAIN p : n \in n .. N
  BY <1>1
<1> QED BY <1>1, <1>4, <1>5

\* A node below n stands in the subtree of a child of n.
LEMMA BelowKid ==
    ASSUME NEW p, WellFormed(p), Preorder(p), NEW n \in DOMAIN p,
           NEW u \in DOMAIN p, n < u, u <= LastOf(p)[n]
    PROVE  \E i \in DOMAIN p[n].kids : p[n].kids[i] <= u /\ u <= LastOf(p)[p[n].kids[i]]
<1> DEFINE last == LastOf(p)
           kids == p[n].kids
           reach == {i \in DOMAIN kids : u <= last[kids[i]]}
<1>1. /\ n \in Nat /\ u \in Nat
      /\ Len(kids) \in Nat /\ DOMAIN kids = 1 .. Len(kids)
      /\ \A i \in DOMAIN kids : kids[i] \in DOMAIN p /\ kids[i] \in Nat
      /\ \A m \in DOMAIN p : last[m] \in Nat
  BY TreeFacts, LastBounds
<1>2. kids # <<>> /\ Len(kids) \in reach
  <2>1. kids # <<>>
    BY <1>1, LastDef
  <2>2. Len(kids) \in DOMAIN kids
    BY <1>1, <2>1, TreeFacts
  <2>3. last[n] = last[kids[Len(kids)]]
    BY <2>1, LastDef
  <2> QED BY <2>1, <2>2, <2>3
<1>3. PICK i \in reach : \A j \in reach : i <= j
  <2>1. reach \in SUBSET Nat /\ reach # {}
    BY <1>1, <1>2
  <2> HIDE DEF reach
  <2> QED BY <2>1, MinProperties
<1>4. kids[i] = IF i = 1 THEN n + 1 ELSE last[kids[i - 1]] + 1
  BY <1>3 DEF Preorder
<1>5. CASE i = 1
  BY <1>1, <1>3, <1>4, <1>5
<1>6. CASE i # 1
  <2>1. i - 1 \in DOMAIN kids /\ i - 1 \notin reach
    BY <1>1, <1>3, <1>6
  <2>2. last[kids[i - 1]] < u
    BY <1>1, <2>1
  <2> QED BY <1>1, <1>3, <1>4, <1>6, <2>1, <2>2
<1> QED BY <1>5, <1>6

\* The subtrees of the children follow each other up to the end of the tree.
LEMMA KidsFollow ==
    ASSUME NEW p, WellFormed(p), Preorder(p), NEW n \in DOMAIN p
    PROVE  /\ \A i \in DOMAIN p[n].kids : LastOf(p)[p[n].kids[i]] <= LastOf(p)[n]
           /\ \A i \in DOMAIN p[n].kids : \A j \in DOMAIN p[n].kids :
                 i < j => LastOf(p)[p[n].kids[i]] < p[n].kids[j]
           /\ \A i \in DOMAIN p[n].kids : i + 1 \in DOMAIN p[n].kids =>
                 p[n].kids[i + 1] = LastOf(p)[p[n].kids[i]] + 1
<1> DEFINE last == LastOf(p)
           kids == p[n].kids
           S == {i \in DOMAIN kids : /\ last[kids[i]] <= last[n]
                                     /\ \A j \in DOMAIN kids : i < j => last[kids[i]] < kids[j]}
<1>1. /\ Len(kids) \in Nat /\ DOMAIN kids = 1 .. Len(kids)
      /\ kids # <<>> => last[n] = last[kids[Len(kids)]]
      /\ \A i \in DOMAIN kids : kids[i] \in DOMAIN p /\ kids[i] \in Nat
      /\ \A m \in DOMAIN p : last[m] \in Nat /\ m <= last[m] /\ m \in Nat
  BY TreeFacts, LastBounds, LastDef
<1>2. \A i \in DOMAIN kids : i + 1 \in DOMAIN kids => kids[i + 1] = last[kids[i]] + 1
  <2>1. ASSUME NEW i \in DOMAIN kids, i + 1 \in DOMAIN kids
        PROVE  kids[i + 1] = last[kids[i]] + 1
    <3>1. PICK j \in DOMAIN kids : j = i + 1
      BY <2>1
    <3>2. kids[j] = IF j = 1 THEN n + 1 ELSE last[kids[j - 1]] + 1
      BY DEF Preorder
    <3>3. j # 1 /\ j - 1 = i
      BY <1>1, <3>1
    <3> QED BY <3>1, <3>2, <3>3
  <2> QED BY <2>1
<1>3. CASE kids # <<>>
  <2>1. Len(kids) \in S
    <3>1. Len(kids) \in DOMAIN kids
      BY <1>1, <1>3, TreeFacts
    <3> QED BY <1>1, <1>3, <3>1
  <2>2. ASSUME NEW k \in 1 .. Len(kids), k + 1 \in 1 .. Len(kids), k + 1 \in S
        PROVE  k \in S
    <3>1. PICK a \in DOMAIN p, b \in DOMAIN p : a = kids[k] /\ b = kids[k + 1]
      BY <1>1, <2>2
    <3>2. b = last[a] + 1 /\ last[b] <= last[n]
      BY <1>1, <1>2, <2>2, <3>1
    <3>4. last[kids[k]] <= last[n]
      <4>1. last[a] \in Nat /\ last[b] \in Nat /\ b <= last[b] /\ b \in Nat /\ last[n] \in Nat
        BY <1>1
      <4>2. last[a] <= last[n]
        BY <3>2, <4>1
      <4> QED BY <3>1, <4>2
    <3>3. ASSUME NEW j \in DOMAIN kids, k < j
          PROVE  last[kids[k]] < kids[j]
      <4>1. j = k + 1 \/ k + 1 < j
        BY <1>1, <3>3
      <4>2. PICK c \in DOMAIN p : c = kids[j]
        BY <1>1
      <4>3. k + 1 < j => last[b] < c
        BY <2>2, <3>1, <4>2
      <4>4. last[a] < c
        <5>1. last[a] \in Nat /\ last[b] \in Nat /\ b <= last[b] /\ b \in Nat /\ c \in Nat
          BY <1>1
        <5>2. last[a] < b
          BY <3>2, <5>1
        <5>3. b = c \/ last[b] < c
          BY <3>1, <4>1, <4>2, <4>3
        <5> QED BY <5>1, <5>2, <5>3
      <4> QED BY <3>1, <4>2, <4>4
    <3> QED BY <1>1, <3>3, <3>4
  <2>3. 1 .. Len(kids) \subseteq S
    <3>1. \A k \in 1 .. Len(kids) : k + 1 \in 1 .. Len(kids) /\ k + 1 \in S => k \in S
      BY <2>2
    <3> HIDE DEF S, kids
    <3> QED BY <1>1, <2>1, <3>1, Downward
  <2> QED BY <1>1, <1>2, <2>3
<1>4. CASE kids = <<>>
  <2>1. DOMAIN kids = {}
    BY <1>4
  <2> QED BY <2>1
<1> QED BY <1>3, <1>4

\* A subtree that contains a node contains its subtree.
LEMMA Laminar ==
    ASSUME NEW p, WellFormed(p), Preorder(p), NEW n \in DOMAIN p
    PROVE  \A m \in DOMAIN p : m <= n /\ n <= LastOf(p)[m] => LastOf(p)[n] <= LastOf(p)[m]
<1> DEFINE last == LastOf(p)
           S == {m \in 1 .. n : n <= last[m] => last[n] <= last[m]}
<1>1. /\ DOMAIN p = 1 .. Len(p) /\ Len(p) \in Nat
      /\ \A m \in DOMAIN p : last[m] \in Nat /\ m \in Nat /\ m <= last[m]
  BY TreeFacts, LastBounds
<1>2. n \in S
  BY <1>1
<1>3. ASSUME NEW m \in 1 .. n, \A k \in 1 .. n : m < k => k \in S
      PROVE  m \in S
  <2> SUFFICES ASSUME m # n, n <= last[m]
               PROVE  last[n] <= last[m]
    BY <1>1
  <2>1. m \in DOMAIN p /\ m < n
    BY <1>1
  <2>2. PICK i \in DOMAIN p[m].kids : p[m].kids[i] <= n /\ n <= last[p[m].kids[i]]
    BY <2>1, BelowKid
  <2>3. PICK kid \in DOMAIN p : kid = p[m].kids[i] /\ kid > m
    BY <2>1, TreeFacts
  <2>4. last[kid] <= last[m]
    BY <2>1, <2>3, KidsFollow
  <2>5. kid \in S
    BY <1>1, <1>3, <2>2, <2>3
  <2> QED BY <1>1, <2>1, <2>2, <2>3, <2>4, <2>5
<1>4. 1 .. n \subseteq S
  <2> DEFINE T == {m \in 1 .. n : \A k \in m .. n : k \in S}
  <2>1. n \in T
    BY <1>1, <1>2
  <2>2. ASSUME NEW k \in 1 .. n, k + 1 \in T
        PROVE  k \in T
    <3>1. \A j \in 1 .. n : k < j => j \in S
      BY <1>1, <2>2
    <3>2. k \in S
      BY <1>3, <3>1
    <3>3. \A j \in k .. n : j = k \/ (j \in 1 .. n /\ k < j)
      BY <1>1
    <3> QED BY <3>1, <3>2, <3>3
  <2>3. 1 .. n \subseteq T
    <3>1. \A k \in 1 .. n : k + 1 \in 1 .. n /\ k + 1 \in T => k \in T
      BY <2>2
    <3> HIDE DEF T
    <3> QED BY <1>1, <2>1, <3>1, Downward
  <2> QED BY <1>1, <2>3
<1> QED BY <1>1, <1>4

\* What a child stands in is its parent, or what the parent stands in.
LEMMA AboveKid ==
    ASSUME NEW p, WellFormed(p), Preorder(p), NEW n \in DOMAIN p, NEW i \in DOMAIN p[n].kids,
           NEW m \in DOMAIN p
    PROVE  (m < p[n].kids[i] /\ p[n].kids[i] <= LastOf(p)[m])
               <=> (m <= n /\ n <= LastOf(p)[m])
<1> DEFINE last == LastOf(p)
<1>1. PICK kid \in DOMAIN p : kid = p[n].kids[i] /\ kid > n
  BY TreeFacts
<1>2. /\ \A u \in DOMAIN p : last[u] \in Nat /\ u \in Nat /\ u <= last[u]
      /\ last[kid] <= last[n]
  BY <1>1, TreeFacts, LastBounds, KidsFollow
<1>3. ASSUME m <= n, n <= last[m]
      PROVE  m < kid /\ kid <= last[m]
  <2>1. last[n] <= last[m]
    BY <1>3, Laminar
  <2> QED BY <1>1, <1>2, <1>3, <2>1
<1>4. ASSUME m < kid, kid <= last[m], n < m
      PROVE  FALSE
  <2>1. m <= last[n]
    BY <1>1, <1>2, <1>4
  <2>2. PICK j \in DOMAIN p[n].kids : p[n].kids[j] <= m /\ m <= last[p[n].kids[j]]
    BY <1>4, <2>1, BelowKid
  <2>3. PICK other \in DOMAIN p : other = p[n].kids[j]
    BY TreeFacts
  <2>4. last[m] <= last[other]
    BY <2>2, <2>3, Laminar
  <2>5. other < kid /\ kid <= last[other]
    BY <1>1, <1>2, <1>4, <2>2, <2>3, <2>4
  <2>6. i \in Nat /\ j \in Nat
    BY TreeFacts
  <2>7. j < i => last[other] < kid
    BY <1>1, <2>3, KidsFollow
  <2>8. i < j => last[kid] < other
    BY <1>1, <2>3, KidsFollow
  <2>9. i = j => kid = other
    BY <1>1, <2>3
  <2> QED BY <1>2, <2>5, <2>6, <2>7, <2>8, <2>9
<1>5. ASSUME m < kid, kid <= last[m], m <= n
      PROVE  n <= last[m]
  BY <1>1, <1>2, <1>5
<1>6. m <= n \/ n < m
  BY <1>2
<1> QED BY <1>1, <1>3, <1>4, <1>5, <1>6

\* Every node but the first is the child of a node.
LEMMA ParentKnown ==
    ASSUME NEW p, WellFormed(p), Preorder(p), NEW n \in DOMAIN p, n # 1
    PROVE  \E m \in DOMAIN p : \E i \in DOMAIN p[m].kids : p[m].kids[i] = n
<1> DEFINE last  == LastOf(p)
           above == {m \in 1 .. n : m < n /\ n <= last[m]}
<1>1. /\ DOMAIN p = 1 .. Len(p) /\ Len(p) \in Nat \ {0}
      /\ \A u \in DOMAIN p : last[u] \in Nat /\ u \in Nat /\ u <= last[u]
  BY TreeFacts, LastBounds
<1>2. 1 \in above
  <2>1. last[1] = Len(p)
    BY DEF Preorder
  <2> QED BY <1>1, <2>1
<1>3. PICK m \in above : \A k \in above : m >= k
  <2>1. Max(above) \in above /\ \A k \in above : Max(above) >= k
    <3>1. above \in SUBSET (1 .. n) /\ n \in Nat /\ above # {}
      BY <1>1, <1>2
    <3> HIDE DEF above
    <3> QED BY <3>1, MaxProperties
  <2> QED BY <2>1
<1>4. m \in DOMAIN p /\ m < n /\ n <= last[m]
  BY <1>1, <1>3
<1>5. PICK i \in DOMAIN p[m].kids : p[m].kids[i] <= n /\ n <= last[p[m].kids[i]]
  BY <1>4, BelowKid
<1>6. PICK kid \in DOMAIN p : kid = p[m].kids[i] /\ kid > m
  BY <1>4, TreeFacts
<1>7. kid = n
  <2> SUFFICES ASSUME kid # n
               PROVE  FALSE
    OBVIOUS
  <2>1. kid \in above
    BY <1>1, <1>5, <1>6
  <2> QED BY <1>1, <1>3, <1>6, <2>1
<1> QED BY <1>4, <1>6, <1>7

\* An expression is made of expressions.
LEMMA OnlyExprs ==
    ASSUME NEW p, WellFormed(p), Preorder(p), NEW u \in DOMAIN p
    PROVE  \A n \in DOMAIN p : n <= u /\ u <= LastOf(p)[n] /\ IsExpr(p, n) => IsExpr(p, u)
<1> DEFINE last == LastOf(p)
           S == {m \in 1 .. u : \A k \in m .. u : u <= last[k] /\ IsExpr(p, k) => IsExpr(p, u)}
<1>1. /\ DOMAIN p = 1 .. Len(p) /\ Len(p) \in Nat \ {0}
      /\ \A m \in DOMAIN p : last[m] \in Nat /\ m \in Nat /\ m <= last[m]
  BY TreeFacts, LastBounds
<1>2. u \in S
  BY <1>1
<1>3. ASSUME NEW m \in 1 .. u, m + 1 \in 1 .. u, m + 1 \in S
      PROVE  m \in S
  <2>1. ASSUME u <= last[m], IsExpr(p, m)
        PROVE  IsExpr(p, u)
    <3>1. m \in DOMAIN p /\ m < u
      BY <1>1, <1>3
    <3>2. PICK i \in DOMAIN p[m].kids : p[m].kids[i] <= u /\ u <= last[p[m].kids[i]]
      BY <2>1, <3>1, BelowKid
    <3>3. PICK kid \in DOMAIN p : kid = p[m].kids[i] /\ kid > m
      BY <3>1, TreeFacts
    <3>4. IsExpr(p, kid)
      <4>1. ShapeOK(p, m) /\ p[m].kids # <<>> /\ DOMAIN p[m].kids = 1 .. Len(p[m].kids)
        BY <3>1, <3>2, TreeFacts DEF WellFormed
      <4>2. p[m].type = "BIN_OP"
        BY <2>1, <4>1 DEF ShapeOK, IsExpr, ExprTypes
      <4>3. Len(p[m].kids) = 2 /\ IsExpr(p, p[m].kids[1]) /\ IsExpr(p, p[m].kids[2])
        BY <4>1, <4>2 DEF ShapeOK
      <4>4. i = 1 \/ i = 2
        BY <4>1, <4>3
      <4> QED BY <3>3, <4>3, <4>4
    <3>5. kid \in m + 1 .. u
      BY <1>1, <3>2, <3>3
    <3> QED BY <1>3, <3>2, <3>3, <3>4, <3>5
  <2>2. \A k \in m .. u : k = m \/ k \in m + 1 .. u
    BY <1>1
  <2> QED BY <1>3, <2>1, <2>2
<1>4. 1 .. u \subseteq S
  <2>1. \A k \in 1 .. u : k + 1 \in 1 .. u /\ k + 1 \in S => k \in S
    BY <1>3
  <2> HIDE DEF S
  <2> QED BY <1>1, <1>2, <2>1, Downward
<1>5. ASSUME NEW n \in DOMAIN p, n <= u
      PROVE  n \in 1 .. u /\ n \in n .. u
  BY <1>1, <1>5
<1> QED BY <1>4, <1>5

\* Statements stand below function declarations only, not below those of variables.
LEMMA StatInDecl ==
    ASSUME NEW p, WellFormed(p), Preorder(p), NEW d \in DOMAIN p, p[d].type = "DECL_STAT",
           NEW u \in DOMAIN p, IsStat(p, u), d < u, u <= LastOf(p)[d]
    PROVE  p[d].is_func
<1> SUFFICES ASSUME ~p[d].is_func
             PROVE  FALSE
  OBVIOUS
<1>1. PICK i \in DOMAIN p[d].kids : p[d].kids[i] <= u /\ u <= LastOf(p)[p[d].kids[i]]
  BY BelowKid
<1>2. p[d].kids[i] \in DOMAIN p
  BY TreeFacts
<1>3. IsExpr(p, p[d].kids[i])
  BY DEF WellFormed, ShapeOK
<1>4. IsExpr(p, u)
  BY <1>1, <1>2, <1>3, OnlyExprs
<1> QED BY <1>4 DEF IsExpr, IsStat, ExprTypes, StatTypes

\* What stands before the j-th child, in expressions, is an expression.
LEMMA BeforeKid ==
    ASSUME NEW p, WellFormed(p), Preorder(p), NEW n \in DOMAIN p, NEW j \in Nat \ {0},
           \A i \in DOMAIN p[n].kids : i < j => IsExpr(p, p[n].kids[i]),
           NEW u \in DOMAIN p, n < u, u <= LastOf(p)[n],
           j \in DOMAIN p[n].kids => u < p[n].kids[j]
    PROVE  IsExpr(p, u)
<1>1. PICK i \in DOMAIN p[n].kids : p[n].kids[i] <= u /\ u <= LastOf(p)[p[n].kids[i]]
  BY BelowKid
<1>2. PICK kid \in DOMAIN p : kid = p[n].kids[i]
  BY TreeFacts
<1>3. /\ Len(p[n].kids) \in Nat /\ DOMAIN p[n].kids = 1 .. Len(p[n].kids)
      /\ \A m \in DOMAIN p : m \in Nat /\ LastOf(p)[m] \in Nat /\ m <= LastOf(p)[m]
  BY TreeFacts, LastBounds
<1>4. CASE i < j
  BY <1>1, <1>2, <1>4, OnlyExprs
<1>5. CASE j <= i
  <2>1. j \in DOMAIN p[n].kids
    BY <1>3, <1>5
  <2>2. PICK other \in DOMAIN p : other = p[n].kids[j]
    BY <2>1, TreeFacts
  <2>3. other <= kid
    <3>1. j = i \/ j < i
      BY <1>3, <1>5
    <3>2. j < i => LastOf(p)[other] < kid
      BY <1>2, <2>1, <2>2, KidsFollow
    <3> QED BY <1>2, <1>3, <2>2, <3>1, <3>2
  <2> QED BY <1>1, <1>2, <1>3, <2>1, <2>2, <2>3
<1> QED BY <1>3, <1>4, <1>5

\* A subtree that ends behind n, but before a node below n, stands below n.
LEMMA EndsWithin ==
    ASSUME NEW p, WellFormed(p), Preorder(p), NEW n \in DOMAIN p, NEW d \in DOMAIN p,
           NEW u \in DOMAIN p, n <= LastOf(p)[d], LastOf(p)[d] < u, u <= LastOf(p)[n]
    PROVE  n < d
<1>1. \A m \in DOMAIN p : m \in Nat /\ LastOf(p)[m] \in Nat /\ m <= LastOf(p)[m]
  BY TreeFacts, LastBounds
<1>2. d <= n => LastOf(p)[n] <= LastOf(p)[d]
  BY Laminar
<1> QED BY <1>1, <1>2
=============================================================================
