----------------------------- MODULE ListProofs -----------------------------
(***************************************************************************)
(* Theorems about List, for any number of elements and of lists.           *)
(***************************************************************************)
EXTENDS List, Integers, Sequences, FiniteSetsExt, SequenceTheorems, FiniteSetTheorems, TLAPS

-----------------------------------------------------------------------------
(* The inductive invariant. *)

\* The positions of the nodes of a list, its ends included.
Spots(l) == 0 .. Len(content[l]) + 1

\* No element stands at two places.
Distinct ==
    \A l, m \in Lists : \A i \in Places(l), j \in Places(m) :
        content[l][i] = content[m][j] => l = m /\ i = j

\* Nothing stands before a head or behind a tail.
Ends == \A l \in Lists : prev[HeadOf(l)] = NULL /\ next[TailOf(l)] = NULL

\* The links of a list that is not being reversed.
Straight(l) ==
    \A i \in 0 .. Len(content[l]) :
        next[At(l, i)] = At(l, i + 1) /\ prev[At(l, i + 1)] = At(l, i)

\* Those of a list that is, when the loop has come to position k: the elements
\* before k have their links swapped.
Turned(l, k) ==
    /\ content[l] # <<>>
    /\ next[HeadOf(l)] = At(l, 1) /\ prev[TailOf(l)] = At(l, Len(content[l]))
    /\ \A i \in Places(l) :
          IF i < k THEN next[At(l, i)] = At(l, i - 1) /\ prev[At(l, i)] = At(l, i + 1)
                   ELSE next[At(l, i)] = At(l, i + 1) /\ prev[At(l, i)] = At(l, i - 1)

Turning(l) ==
    \E k \in 1 .. Len(content[l]) + 1 : reversing = <<l, At(l, k)>> /\ Turned(l, k)

\* The list that is being reversed, if there is one.
InReverse(l) == reversing # NULL /\ reversing[1] = l

LinksOK == \A l \in Lists : IF InReverse(l) THEN Turning(l) ELSE Straight(l)

ListInv == ListTypeOK /\ ~aborted /\ Distinct /\ Ends /\ LinksOK

-----------------------------------------------------------------------------
(* Nodes and positions. *)

\* The ends of lists are nodes, and each has its own.
LEMMA SentinelFacts ==
    /\ \A l \in Lists : /\ HeadOf(l) \in Nodes /\ TailOf(l) \in Nodes
                        /\ HeadOf(l) \notin Elem /\ TailOf(l) \notin Elem
    /\ \A l, m \in Lists : /\ HeadOf(l) # TailOf(m)
                           /\ HeadOf(l) = HeadOf(m) => l = m
                           /\ TailOf(l) = TailOf(m) => l = m
    /\ Elem \subseteq Nodes /\ NULL \notin Nodes
BY NodesAssumption DEF Nodes, Sentinels, HeadOf, TailOf

\* What stands where.
LEMMA SpotFacts ==
    ASSUME ListTypeOK, NEW l \in Lists
    PROVE  /\ Len(content[l]) \in Nat /\ content[l] \in Seq(Elem)
           /\ DOMAIN content[l] = Places(l) /\ Places(l) = 1 .. Len(content[l])
           /\ At(l, 0) = HeadOf(l) /\ At(l, Len(content[l]) + 1) = TailOf(l)
           /\ \A i \in Places(l) : At(l, i) = content[l][i] /\ At(l, i) \in Elem
           /\ \A i \in Spots(l) : At(l, i) \in Nodes
<1>1. /\ content[l] \in Seq(Elem) /\ Len(content[l]) \in Nat
      /\ DOMAIN content[l] = 1 .. Len(content[l])
  BY DEF ListTypeOK
<1>2. \A i \in Places(l) : At(l, i) = content[l][i] /\ At(l, i) \in Elem
  BY <1>1 DEF At, Places
<1>3. At(l, 0) = HeadOf(l) /\ At(l, Len(content[l]) + 1) = TailOf(l)
  BY <1>1 DEF At
<1>4. \A i \in Spots(l) : At(l, i) \in Nodes
  <2> SUFFICES ASSUME NEW i \in Spots(l) PROVE At(l, i) \in Nodes
    OBVIOUS
  <2>1. i = 0 \/ i = Len(content[l]) + 1 \/ i \in Places(l)
    BY <1>1 DEF Spots, Places
  <2> QED BY <1>2, <1>3, <2>1, SentinelFacts
<1> QED BY <1>1, <1>2, <1>3, <1>4 DEF Places

\* A node stands at one position of one list.
LEMMA SpotsApart ==
    ASSUME ListTypeOK, Distinct,
           NEW l \in Lists, NEW m \in Lists, NEW i \in Spots(l), NEW j \in Spots(m),
           At(l, i) = At(m, j)
    PROVE  l = m /\ i = j
<1>1. /\ i = 0 \/ i = Len(content[l]) + 1 \/ i \in Places(l)
      /\ j = 0 \/ j = Len(content[m]) + 1 \/ j \in Places(m)
  <2>1. Len(content[l]) \in Nat /\ Len(content[m]) \in Nat
    BY SpotFacts
  <2> QED BY <2>1 DEF Spots, Places
<1>2. /\ i = 0 => At(l, i) = HeadOf(l)
      /\ i = Len(content[l]) + 1 => At(l, i) = TailOf(l)
      /\ i \in Places(l) => At(l, i) = content[l][i] /\ At(l, i) \in Elem
      /\ j = 0 => At(m, j) = HeadOf(m)
      /\ j = Len(content[m]) + 1 => At(m, j) = TailOf(m)
      /\ j \in Places(m) => At(m, j) = content[m][j] /\ At(m, j) \in Elem
  BY SpotFacts
<1>3. CASE i \in Places(l)
  <2>1. j \in Places(m)
    BY <1>1, <1>2, <1>3, SentinelFacts
  <2> QED BY <1>2, <1>3, <2>1 DEF Distinct
<1>4. CASE i = 0
  BY <1>1, <1>2, <1>4, SentinelFacts
<1>5. CASE i = Len(content[l]) + 1
  BY <1>1, <1>2, <1>5, SentinelFacts
<1> QED BY <1>1, <1>3, <1>4, <1>5

\* The same after a step.
LEMMA SpotFactsNext ==
    ASSUME ListTypeOK', NEW l \in Lists
    PROVE  /\ Len(content'[l]) \in Nat /\ content'[l] \in Seq(Elem)
           /\ Places(l)' = 1 .. Len(content'[l])
           /\ At(l, 0)' = HeadOf(l) /\ At(l, Len(content[l]) + 1)' = TailOf(l)
           /\ \A i \in Places(l)' : At(l, i)' = content'[l][i]
<1>1. content'[l] \in Seq(Elem) /\ Len(content'[l]) \in Nat
  BY DEF ListTypeOK
<1> QED BY <1>1 DEF At, Places

-----------------------------------------------------------------------------
(* Sequences made of pieces. *)

\* A piece of a sequence.
LEMMA Piece ==
    ASSUME NEW S, NEW s \in Seq(S), NEW a \in 1 .. Len(s) + 1, NEW b \in a - 1 .. Len(s)
    PROVE  /\ SubSeq(s, a, b) \in Seq(S) /\ Len(SubSeq(s, a, b)) = b - a + 1
           /\ \A k \in 1 .. b - a + 1 : SubSeq(s, a, b)[k] = s[a + k - 1]
<1>1. Len(s) \in Nat /\ \A k \in 1 .. Len(s) : s[k] \in S
  BY LenProperties, ElementOfSeq
<1>2. a \in Int /\ b \in Int /\ \A k \in a .. b : s[k] \in S
  BY <1>1
<1>3. /\ SubSeq(s, a, b) \in Seq(S)
      /\ Len(SubSeq(s, a, b)) = IF a <= b THEN b - a + 1 ELSE 0
      /\ \A k \in 1 .. b - a + 1 : SubSeq(s, a, b)[k] = s[a + k - 1]
  BY <1>2, SubSeqProperties
<1>4. Len(SubSeq(s, a, b)) = b - a + 1
  BY <1>1, <1>3
<1> QED BY <1>3, <1>4

\* Three sequences after each other.
LEMMA Three ==
    ASSUME NEW S, NEW s \in Seq(S), NEW t \in Seq(S), NEW u \in Seq(S)
    PROVE  /\ s \o t \o u \in Seq(S) /\ Len(s \o t \o u) = Len(s) + Len(t) + Len(u)
           /\ \A k \in 1 .. Len(s) : (s \o t \o u)[k] = s[k]
           /\ \A k \in 1 .. Len(t) : (s \o t \o u)[Len(s) + k] = t[k]
           /\ \A k \in 1 .. Len(u) : (s \o t \o u)[Len(s) + Len(t) + k] = u[k]
<1>1. Len(s) \in Nat /\ Len(t) \in Nat /\ Len(u) \in Nat
  BY LenProperties
<1>2. PICK v \in Seq(S) : v = s \o t
  BY ConcatProperties
<1>3. /\ Len(v) = Len(s) + Len(t)
      /\ \A k \in 1 .. Len(s) + Len(t) : v[k] = IF k <= Len(s) THEN s[k] ELSE t[k - Len(s)]
  BY <1>2, ConcatProperties
<1>4. /\ v \o u \in Seq(S) /\ Len(v \o u) = Len(v) + Len(u)
      /\ \A k \in 1 .. Len(v) + Len(u) : (v \o u)[k] = IF k <= Len(v) THEN v[k] ELSE u[k - Len(v)]
  BY ConcatProperties
<1>5. \A k \in 1 .. Len(s) : (v \o u)[k] = s[k]
  BY <1>1, <1>3, <1>4
<1>6. ASSUME NEW k \in 1 .. Len(t) PROVE (v \o u)[Len(s) + k] = t[k]
  <2>1. /\ Len(s) + k \in 1 .. Len(v) /\ Len(s) + k \in 1 .. Len(v) + Len(u)
        /\ ~(Len(s) + k <= Len(s)) /\ Len(s) + k - Len(s) = k
    BY <1>1, <1>3
  <2>2. v[Len(s) + k] = t[k]
    BY <1>3, <2>1
  <2> QED BY <1>4, <2>1, <2>2
<1>7. ASSUME NEW k \in 1 .. Len(u) PROVE (v \o u)[Len(s) + Len(t) + k] = u[k]
  <2>1. /\ Len(v) + k \in 1 .. Len(v) + Len(u)
        /\ ~(Len(v) + k <= Len(v)) /\ Len(v) + k - Len(v) = k
    BY <1>1, <1>3
  <2>2. (v \o u)[Len(v) + k] = u[k]
    BY <1>4, <2>1
  <2> QED BY <1>3, <2>2
<1> QED BY <1>2, <1>3, <1>4, <1>5, <1>6, <1>7

\* The beginning and the end of a sequence.
IsFront(p, s, n) == Len(p) = n /\ \A k \in 1 .. n : p[k] = s[k]
IsBack(q, s, n)  == Len(q) = Len(s) - n + 1 /\ \A k \in n .. Len(s) : q[k - n + 1] = s[k]

LEMMA FrontPiece ==
    ASSUME NEW S, NEW s \in Seq(S), NEW n \in 0 .. Len(s)
    PROVE  SubSeq(s, 1, n) \in Seq(S) /\ IsFront(SubSeq(s, 1, n), s, n)
<1>1. 1 \in 1 .. Len(s) + 1 /\ n \in 1 - 1 .. Len(s) /\ n - 1 + 1 = n
      /\ \A k \in 1 .. n : 1 + k - 1 = k
  BY LenProperties
<1>2. /\ SubSeq(s, 1, n) \in Seq(S) /\ Len(SubSeq(s, 1, n)) = n - 1 + 1
      /\ \A k \in 1 .. n - 1 + 1 : SubSeq(s, 1, n)[k] = s[1 + k - 1]
  BY <1>1, Piece
<1>3. PICK p : p = SubSeq(s, 1, n)
  OBVIOUS
<1>4. Len(p) = n /\ \A k \in 1 .. n : p[k] = s[k]
  BY <1>1, <1>2, <1>3
<1> QED BY <1>2, <1>3, <1>4 DEF IsFront

LEMMA BackPiece ==
    ASSUME NEW S, NEW s \in Seq(S), NEW n \in 1 .. Len(s) + 1
    PROVE  SubSeq(s, n, Len(s)) \in Seq(S) /\ IsBack(SubSeq(s, n, Len(s)), s, n)
<1>1. Len(s) \in Nat /\ Len(s) \in n - 1 .. Len(s)
      /\ \A k \in n .. Len(s) : k - n + 1 \in 1 .. Len(s) - n + 1 /\ n + (k - n + 1) - 1 = k
  BY LenProperties
<1>2. /\ SubSeq(s, n, Len(s)) \in Seq(S) /\ Len(SubSeq(s, n, Len(s))) = Len(s) - n + 1
      /\ \A k \in 1 .. Len(s) - n + 1 : SubSeq(s, n, Len(s))[k] = s[n + k - 1]
  BY <1>1, Piece
<1>3. PICK p : p = SubSeq(s, n, Len(s))
  OBVIOUS
<1>4. ASSUME NEW k \in n .. Len(s) PROVE p[k - n + 1] = s[k]
  BY <1>1, <1>2, <1>3
<1> QED BY <1>2, <1>3, <1>4 DEF IsBack

\* A sequence with something put in before position i.
IsPutIn(u, s, i, t) ==
    /\ Len(u) = Len(s) + Len(t)
    /\ \A k \in 1 .. i - 1 : u[k] = s[k]
    /\ \A k \in 1 .. Len(t) : u[i - 1 + k] = t[k]
    /\ \A k \in i .. Len(s) : u[k + Len(t)] = s[k]

LEMMA PutInParts ==
    ASSUME NEW S, NEW s \in Seq(S), NEW i \in 1 .. Len(s) + 1, NEW t \in Seq(S),
           NEW p \in Seq(S), IsFront(p, s, i - 1), NEW q \in Seq(S), IsBack(q, s, i),
           NEW u, u = p \o t \o q
    PROVE  u \in Seq(S) /\ IsPutIn(u, s, i, t)
<1>1. Len(s) \in Nat /\ Len(t) \in Nat /\ Len(p) = i - 1 /\ Len(q) = Len(s) - i + 1
  BY LenProperties DEF IsFront, IsBack
<1>2. /\ u \in Seq(S) /\ Len(u) = Len(p) + Len(t) + Len(q)
      /\ \A k \in 1 .. Len(p) : u[k] = p[k]
      /\ \A k \in 1 .. Len(t) : u[Len(p) + k] = t[k]
      /\ \A k \in 1 .. Len(q) : u[Len(p) + Len(t) + k] = q[k]
  BY Three, SMTT(30)
<1>3. Len(u) = Len(s) + Len(t)
  BY <1>1, <1>2
<1>4. \A k \in 1 .. i - 1 : u[k] = s[k]
  BY <1>1, <1>2 DEF IsFront
<1>5. ASSUME NEW k \in i .. Len(s) PROVE u[k + Len(t)] = s[k]
  <2>1. k - i + 1 \in 1 .. Len(q) /\ Len(p) + Len(t) + (k - i + 1) = k + Len(t)
    BY <1>1
  <2>2. u[k + Len(t)] = q[k - i + 1]
    BY <1>2, <2>1
  <2> QED BY <2>2 DEF IsBack
<1> QED BY <1>1, <1>2, <1>3, <1>4, <1>5 DEF IsPutIn

LEMMA PutIn ==
    ASSUME NEW S, NEW s \in Seq(S), NEW i \in 1 .. Len(s) + 1, NEW t \in Seq(S)
    PROVE  LET u == SubSeq(s, 1, i - 1) \o t \o SubSeq(s, i, Len(s))
           IN  u \in Seq(S) /\ IsPutIn(u, s, i, t)
<1>1. i - 1 \in 0 .. Len(s)
  BY LenProperties
<1>2. SubSeq(s, 1, i - 1) \in Seq(S) /\ IsFront(SubSeq(s, 1, i - 1), s, i - 1)
  BY <1>1, FrontPiece
<1>3. SubSeq(s, i, Len(s)) \in Seq(S) /\ IsBack(SubSeq(s, i, Len(s)), s, i)
  BY BackPiece
<1> QED BY <1>2, <1>3, PutInParts

\* A sequence without the positions from a to b - 1.
IsCutOut(u, s, a, b) ==
    /\ Len(u) = Len(s) - (b - a)
    /\ \A k \in 1 .. a - 1 : u[k] = s[k]
    /\ \A k \in a .. Len(u) : u[k] = s[k + (b - a)]

LEMMA CutOutParts ==
    ASSUME NEW S, NEW s \in Seq(S), NEW a \in 1 .. Len(s), NEW b \in a + 1 .. Len(s) + 1,
           NEW p \in Seq(S), IsFront(p, s, a - 1), NEW q \in Seq(S), IsBack(q, s, b),
           NEW u, u = p \o q
    PROVE  u \in Seq(S) /\ IsCutOut(u, s, a, b)
<1>1. Len(s) \in Nat /\ Len(p) = a - 1 /\ Len(q) = Len(s) - b + 1
  BY LenProperties DEF IsFront, IsBack
<1>2. /\ u \in Seq(S) /\ Len(u) = Len(p) + Len(q)
      /\ \A k \in 1 .. Len(p) + Len(q) : u[k] = IF k <= Len(p) THEN p[k] ELSE q[k - Len(p)]
  BY ConcatProperties
<1>3. Len(u) = Len(s) - (b - a)
  BY <1>1, <1>2
<1>4. \A k \in 1 .. a - 1 : u[k] = s[k]
  BY <1>1, <1>2, SMTT(30) DEF IsFront
<1>5. ASSUME NEW k \in a .. Len(u) PROVE u[k] = s[k + (b - a)]
  <2>1. /\ k \in 1 .. Len(p) + Len(q) /\ ~(k <= Len(p))
        /\ k + (b - a) \in b .. Len(s) /\ k + (b - a) - b + 1 = k - Len(p)
    BY <1>1, <1>2
  <2>2. u[k] = q[k - Len(p)]
    BY <1>2, <2>1
  <2>3. q[k + (b - a) - b + 1] = s[k + (b - a)]
    BY <2>1 DEF IsBack
  <2> QED BY <2>1, <2>2, <2>3
<1> QED BY <1>2, <1>3, <1>4, <1>5 DEF IsCutOut

LEMMA CutOut ==
    ASSUME NEW S, NEW s \in Seq(S), NEW a \in 1 .. Len(s), NEW b \in a + 1 .. Len(s) + 1
    PROVE  LET u == SubSeq(s, 1, a - 1) \o SubSeq(s, b, Len(s))
           IN  u \in Seq(S) /\ IsCutOut(u, s, a, b)
<1>1. a - 1 \in 0 .. Len(s) /\ b \in 1 .. Len(s) + 1
  BY LenProperties
<1>2. SubSeq(s, 1, a - 1) \in Seq(S) /\ IsFront(SubSeq(s, 1, a - 1), s, a - 1)
  BY <1>1, FrontPiece
<1>3. SubSeq(s, b, Len(s)) \in Seq(S) /\ IsBack(SubSeq(s, b, Len(s)), s, b)
  BY <1>1, BackPiece
<1> QED BY <1>2, <1>3, CutOutParts

-----------------------------------------------------------------------------
(* Lists that an operation leaves alone. *)

\* The nodes of a list with the same content.
LEMMA SameSpots ==
    ASSUME NEW m \in Lists, content'[m] = content[m]
    PROVE  /\ Spots(m)' = Spots(m) /\ Places(m)' = Places(m)
           /\ \A k \in Spots(m) : At(m, k)' = At(m, k)
BY DEF Spots, Places, At

\* A list whose content and links do not change.
LEMMA KeptStraight ==
    ASSUME ListTypeOK, NEW m \in Lists, content'[m] = content[m], Straight(m),
           \A k \in Spots(m) : /\ next'[At(m, k)] = next[At(m, k)]
                               /\ prev'[At(m, k)] = prev[At(m, k)]
    PROVE  Straight(m)'
<1>1. Len(content[m]) \in Nat
  BY SpotFacts
<1> SUFFICES ASSUME NEW k \in 0 .. Len(content[m])
             PROVE  next'[At(m, k)'] = At(m, k + 1)' /\ prev'[At(m, k + 1)'] = At(m, k)'
  BY DEF Straight
<1>2. k \in Spots(m) /\ k + 1 \in Spots(m)
  BY <1>1 DEF Spots
<1>3. At(m, k)' = At(m, k) /\ At(m, k + 1)' = At(m, k + 1)
  BY <1>2, SameSpots
<1>4. next[At(m, k)] = At(m, k + 1) /\ prev[At(m, k + 1)] = At(m, k)
  BY DEF Straight
<1> QED BY <1>2, <1>3, <1>4

\* The neighbours of a node, and what the assertions look at.
LEMMA Neighbours ==
    ASSUME ListTypeOK, NEW l \in Lists, Straight(l)
    PROVE  /\ \A i \in 1 .. Len(content[l]) + 1 :
                 /\ prev[At(l, i)] = At(l, i - 1) /\ prev[At(l, i)] # NULL
                 /\ IsInterior(At(l, i)) \/ IsTail(At(l, i))
           /\ \A i \in 0 .. Len(content[l]) :
                 next[At(l, i)] = At(l, i + 1) /\ next[At(l, i)] # NULL
           /\ \A i \in Places(l) : IsInterior(At(l, i))
<1>1. /\ Len(content[l]) \in Nat /\ Places(l) = 1 .. Len(content[l])
      /\ \A i \in Spots(l) : At(l, i) \in Nodes
  BY SpotFacts
<1>2. ASSUME NEW i \in 0 .. Len(content[l])
      PROVE  next[At(l, i)] = At(l, i + 1) /\ next[At(l, i)] # NULL
  <2>1. i + 1 \in Spots(l)
    BY <1>1 DEF Spots
  <2>2. next[At(l, i)] = At(l, i + 1)
    BY DEF Straight
  <2> QED BY <1>1, <2>1, <2>2, SentinelFacts
<1>3. ASSUME NEW i \in 1 .. Len(content[l]) + 1
      PROVE  prev[At(l, i)] = At(l, i - 1) /\ prev[At(l, i)] # NULL
  <2>1. i - 1 \in Spots(l) /\ i - 1 \in 0 .. Len(content[l]) /\ i - 1 + 1 = i
    BY <1>1 DEF Spots
  <2>2. prev[At(l, i)] = At(l, i - 1)
    BY <2>1 DEF Straight
  <2> QED BY <1>1, <2>1, <2>2, SentinelFacts
<1>4. \A i \in Places(l) : i \in 0 .. Len(content[l]) /\ i \in 1 .. Len(content[l]) + 1
  BY <1>1
<1> QED BY <1>2, <1>3, <1>4 DEF IsInterior, IsTail

-----------------------------------------------------------------------------
(* list_insert *)

\* An element that is in no list is none of the nodes of lists.
LEMMA LooseApart ==
    ASSUME ListTypeOK, NEW e \in Elem, Loose(e), NEW m \in Lists, NEW k \in Spots(m)
    PROVE  At(m, k) # e
<1>1. k = 0 \/ k = Len(content[m]) + 1 \/ k \in Places(m)
  <2>1. Len(content[m]) \in Nat
    BY SpotFacts
  <2> QED BY <2>1 DEF Spots, Places
<1>2. At(m, 0) \notin Elem /\ At(m, Len(content[m]) + 1) \notin Elem
  BY SpotFacts, SentinelFacts
<1>3. k \in Places(m) => At(m, k) = content[m][k]
  BY SpotFacts
<1> QED BY <1>1, <1>2, <1>3 DEF Loose

\* What LinkBefore does to the links.
LEMMA LinkBeforeLinks ==
    ASSUME ListTypeOK, NEW e \in Nodes, NEW q \in Nodes, NEW p \in Nodes, prev[q] = p,
           e # p, e # q, LinkBefore(q, e)
    PROVE  /\ prev' \in [Nodes -> Nodes \cup {NULL}] /\ next' \in [Nodes -> Nodes \cup {NULL}]
           /\ prev'[e] = p /\ prev'[q] = e /\ next'[e] = q /\ next'[p] = e
           /\ \A n \in Nodes : /\ n \notin {e, q} => prev'[n] = prev[n]
                               /\ n \notin {e, p} => next'[n] = next[n]
BY DEF ListTypeOK, LinkBefore

\* Only the content of list l changes.
OnlyList(l) ==
    /\ content' \in [Lists -> Seq(Elem)]
    /\ \A m \in Lists \ {l} : content'[m] = content[m]

\* Where the nodes are after an insertion.
LEMMA InsertSpots ==
    ASSUME ListTypeOK, NEW l \in Lists, NEW i \in 1 .. Len(content[l]) + 1, NEW e \in Elem,
           OnlyList(l), IsPutIn(content'[l], content[l], i, <<e>>)
    PROVE  /\ Len(content'[l]) = Len(content[l]) + 1
           /\ \A k \in 0 .. i - 1 : At(l, k)' = At(l, k)
           /\ At(l, i)' = e
           /\ \A k \in i + 1 .. Len(content[l]) + 2 : At(l, k)' = At(l, k - 1)
<1> DEFINE s == content[l]
           u == content'[l]
<1>1. Len(s) \in Nat /\ Len(<<e>>) = 1 /\ <<e>>[1] = e
  BY SpotFacts
<1> HIDE DEF s, u
<1>2. i \in 1 .. Len(s) + 1 /\ IsPutIn(u, s, i, <<e>>)
  BY DEF s, u
<1>3. Len(u) = Len(s) + 1
  BY <1>1, <1>2 DEF IsPutIn
<1>4. ASSUME NEW k \in 0 .. i - 1 PROVE At(l, k)' = At(l, k)
  <2>1. k # Len(s) + 1 /\ k # Len(u) + 1 /\ (k = 0 \/ k \in 1 .. i - 1)
    BY <1>1, <1>2, <1>3
  <2>2. k # 0 => u[k] = s[k]
    BY <1>2, <2>1 DEF IsPutIn
  <2> QED BY <2>1, <2>2 DEF At, s, u
<1>5. At(l, i)' = e
  <2>1. 1 \in 1 .. 1 /\ i - 1 + 1 = i /\ i # 0 /\ i # Len(u) + 1
    BY <1>1, <1>2, <1>3
  <2>2. u[i] = e
    BY <1>1, <1>2, <2>1 DEF IsPutIn
  <2> QED BY <2>1, <2>2 DEF At, u
<1>6. ASSUME NEW k \in i + 1 .. Len(s) + 2 PROVE At(l, k)' = At(l, k - 1)
  <2>1. /\ k # 0 /\ k - 1 # 0 /\ (k = Len(u) + 1 <=> k - 1 = Len(s) + 1)
        /\ k - 1 # Len(s) + 1 => k - 1 \in i .. Len(s)
        /\ k - 1 + 1 = k
    BY <1>1, <1>2, <1>3
  <2>2. k - 1 # Len(s) + 1 => u[k] = s[k - 1]
    BY <1>1, <1>2, <2>1 DEF IsPutIn
  <2> QED BY <2>1, <2>2 DEF At, s, u
<1> QED BY <1>3, <1>4, <1>5, <1>6 DEF s, u

\* The content after an insertion.
LEMMA InsertContent ==
    ASSUME ListTypeOK, NEW l \in Lists, NEW i \in 1 .. Len(content[l]) + 1, NEW e \in Elem,
           content' = [content EXCEPT ![l] =
                SubSeq(@, 1, i - 1) \o <<e>> \o SubSeq(@, i, Len(@))]
    PROVE  OnlyList(l) /\ IsPutIn(content'[l], content[l], i, <<e>>)
<1>1. content[l] \in Seq(Elem) /\ <<e>> \in Seq(Elem)
  BY SpotFacts
<1>2. LET u == SubSeq(content[l], 1, i - 1) \o <<e>> \o SubSeq(content[l], i, Len(content[l]))
      IN  u \in Seq(Elem) /\ IsPutIn(u, content[l], i, <<e>>)
  BY <1>1, PutIn
<1>3. PICK u \in Seq(Elem) : /\ content' = [content EXCEPT ![l] = u]
                             /\ IsPutIn(u, content[l], i, <<e>>)
  BY <1>2
<1>4. content \in [Lists -> Seq(Elem)]
  BY DEF ListTypeOK
<1> QED BY <1>3, <1>4 DEF OnlyList

\* No element stands twice after an insertion.
LEMMA InsertDistinct ==
    ASSUME ListTypeOK, Distinct, NEW l \in Lists, NEW i \in 1 .. Len(content[l]) + 1,
           NEW e \in Elem, Loose(e),
           ListTypeOK', OnlyList(l), IsPutIn(content'[l], content[l], i, <<e>>)
    PROVE  Distinct'
<1> DEFINE Was(m, k) == IF m = l /\ k > i THEN k - 1 ELSE k
<1>1. /\ Len(content'[l]) = Len(content[l]) + 1
      /\ \A k \in 0 .. i - 1 : At(l, k)' = At(l, k)
      /\ At(l, i)' = e
      /\ \A k \in i + 1 .. Len(content[l]) + 2 : At(l, k)' = At(l, k - 1)
  BY InsertSpots
<1>2. Len(content[l]) \in Nat
  BY SpotFacts
<1>3. ASSUME NEW m \in Lists, NEW k \in Places(m)', ~(m = l /\ k = i)
      PROVE  /\ Was(m, k) \in Places(m)
             /\ content'[m][k] = At(m, Was(m, k))
  <2>1. At(m, k)' = content'[m][k] /\ Places(m)' = 1 .. Len(content'[m])
    BY SpotFactsNext
  <2>2. CASE m = l
    <3>1. k \in 1 .. Len(content[l]) + 1 /\ Places(l) = 1 .. Len(content[l])
      BY <1>1, <2>1, <2>2, SpotFacts
    <3>2. CASE k < i
      BY <1>1, <1>2, <2>1, <2>2, <3>1, <3>2
    <3>3. CASE k > i
      BY <1>1, <1>2, <2>1, <2>2, <3>1, <3>3
    <3> QED BY <1>3, <2>2, <3>1, <3>2, <3>3
  <2>3. CASE m # l
    <3>1. content'[m] = content[m] /\ Was(m, k) = k
      BY <2>3 DEF OnlyList
    <3> QED BY <3>1, SpotFacts DEF Places
  <2> QED BY <2>2, <2>3
<1> SUFFICES ASSUME NEW m \in Lists, NEW n \in Lists, NEW j \in Places(m)', NEW k \in Places(n)',
                    content'[m][j] = content'[n][k]
             PROVE  m = n /\ j = k
  BY DEF Distinct
<1>4. content'[l][i] = e
  <2>1. i \in Places(l)'
    BY <1>1, <1>2 DEF Places
  <2> QED BY <1>1, <2>1, SpotFactsNext
<1>5. \A x \in Lists : \A y \in Places(x) : At(x, y) # e
  BY SpotFacts DEF Loose
<1>6. (m = l /\ j = i) <=> (n = l /\ k = i)
  BY <1>3, <1>4, <1>5
<1>7. CASE ~(m = l /\ j = i)
  <2>1. m = n /\ Was(m, j) = Was(n, k)
    <3>1. Was(m, j) \in Places(m) /\ Was(n, k) \in Places(n)
          /\ At(m, Was(m, j)) = At(n, Was(n, k))
      BY <1>3, <1>6, <1>7
    <3>2. PICK x \in Places(m), y \in Places(n) : x = Was(m, j) /\ y = Was(n, k)
      BY <3>1
    <3>3. content[m][x] = content[n][y]
      BY <3>1, <3>2, SpotFacts
    <3>4. m = n /\ x = y
      BY <3>3 DEF Distinct
    <3> QED BY <3>2, <3>4
  <2>2. j \in Nat /\ k \in Nat
    BY SpotFactsNext
  <2> QED BY <1>6, <1>7, <2>1, <2>2
<1> QED BY <1>6, <1>7

\* An insertion keeps the invariant.
LEMMA InsertKeepsInv ==
    ASSUME ListInv, reversing = NULL, NEW l \in Lists, NEW i \in 1 .. Len(content[l]) + 1,
           NEW e \in Elem, Loose(e), NEW before, before = At(l, i), Insert(l, i, before, e)
    PROVE  ListInv' /\ reversing' = NULL
<1> DEFINE p == At(l, i - 1)
           q == At(l, i)
<1>1. /\ ListTypeOK /\ Distinct /\ Ends /\ ~aborted
      /\ \A m \in Lists : Straight(m)
  BY DEF ListInv, LinksOK, InReverse
<1>2. /\ Len(content[l]) \in Nat /\ i \in Nat \ {0} /\ i \in Spots(l) /\ i - 1 \in Spots(l)
      /\ i - 1 \in 0 .. Len(content[l]) /\ i - 1 + 1 = i
  <2>1. Len(content[l]) \in Nat
    BY <1>1, SpotFacts
  <2> QED BY <2>1 DEF Spots
<1>3. prev[q] = p /\ (IsInterior(q) \/ IsTail(q))
  BY <1>1, Neighbours
<1>4. LinkBefore(q, e) /\ reversing' = NULL /\ aborted' = FALSE
  BY <1>1, <1>3 DEF Insert, ListTypeOK
<1>5. \A m \in Lists : \A k \in Spots(m) : At(m, k) \in Nodes /\ At(m, k) # e
  BY <1>1, LooseApart, SpotFacts
<1>6. p \in Nodes /\ q \in Nodes /\ e \in Nodes /\ e # p /\ e # q
  BY <1>2, <1>5, SentinelFacts
<1>7. OnlyList(l) /\ IsPutIn(content'[l], content[l], i, <<e>>)
  <2>1. content' = [content EXCEPT ![l] =
              SubSeq(@, 1, i - 1) \o <<e>> \o SubSeq(@, i, Len(@))]
    BY <1>3 DEF Insert
  <2> QED BY <1>1, <2>1, InsertContent
<1>8. /\ Len(content'[l]) = Len(content[l]) + 1
      /\ \A k \in 0 .. i - 1 : At(l, k)' = At(l, k)
      /\ At(l, i)' = e
      /\ \A k \in i + 1 .. Len(content[l]) + 2 : At(l, k)' = At(l, k - 1)
  BY <1>1, <1>7, InsertSpots
<1>9. /\ prev' \in [Nodes -> Nodes \cup {NULL}] /\ next' \in [Nodes -> Nodes \cup {NULL}]
      /\ prev'[e] = p /\ prev'[q] = e /\ next'[e] = q /\ next'[p] = e
      /\ \A n \in Nodes : /\ n \notin {e, q} => prev'[n] = prev[n]
                          /\ n \notin {e, p} => next'[n] = next[n]
  <2> HIDE DEF p, q
  <2> QED BY <1>1, <1>3, <1>4, <1>6, LinkBeforeLinks
<1>10. \A m \in Lists : \A k \in Spots(m) : /\ At(m, k) = q => m = l /\ k = i
                                            /\ At(m, k) = p => m = l /\ k = i - 1
  BY <1>1, <1>2, SpotsApart
<1> HIDE DEF p, q
<1>11. ListTypeOK'
  BY <1>4, <1>7, <1>9 DEF ListTypeOK, OnlyList
<1>12. Distinct'
  BY <1>1, <1>7, <1>11, InsertDistinct
<1>13. Ends'
  <2> SUFFICES ASSUME NEW m \in Lists
               PROVE  prev'[HeadOf(m)] = NULL /\ next'[TailOf(m)] = NULL
    BY DEF Ends
  <2>1. /\ 0 \in Spots(m) /\ Len(content[m]) + 1 \in Spots(m) /\ Len(content[m]) + 1 # 0
        /\ At(m, 0) = HeadOf(m) /\ At(m, Len(content[m]) + 1) = TailOf(m)
    <3>1. Len(content[m]) \in Nat
      BY <1>1, SpotFacts
    <3> QED BY <1>1, <3>1, SpotFacts DEF Spots
  <2>2. HeadOf(m) # q /\ HeadOf(m) # e
    BY <1>2, <1>5, <1>10, <2>1
  <2>3. TailOf(m) # p /\ TailOf(m) # e
    <3>1. m = l => Len(content[m]) + 1 # i - 1
      BY <1>2
    <3> QED BY <1>5, <1>10, <2>1, <3>1
  <2>4. prev'[HeadOf(m)] = prev[HeadOf(m)] /\ next'[TailOf(m)] = next[TailOf(m)]
    BY <1>9, <2>2, <2>3, SentinelFacts
  <2> QED BY <1>1, <2>4 DEF Ends
<1>14. ASSUME NEW m \in Lists \ {l} PROVE Straight(m)'
  <2>1. \A k \in Spots(m) : next'[At(m, k)] = next[At(m, k)] /\ prev'[At(m, k)] = prev[At(m, k)]
    BY <1>5, <1>9, <1>10
  <2> QED BY <1>1, <1>7, <2>1, KeptStraight DEF OnlyList
<1>15. Straight(l)'
  <2> SUFFICES ASSUME NEW k \in 0 .. Len(content'[l])
               PROVE  next'[At(l, k)'] = At(l, k + 1)' /\ prev'[At(l, k + 1)'] = At(l, k)'
    BY DEF Straight
  <2>1. k \in 0 .. Len(content[l]) + 1
    BY <1>8
  <2>2. CASE k < i - 1
    <3>1. k \in 0 .. i - 1 /\ k + 1 \in 0 .. i - 1 /\ k \in 0 .. Len(content[l])
          /\ k \in Spots(l) /\ k + 1 \in Spots(l) /\ k # i - 1 /\ k + 1 # i
      BY <1>2, <2>1, <2>2 DEF Spots
    <3>2. At(l, k)' = At(l, k) /\ At(l, k + 1)' = At(l, k + 1)
      BY <1>8, <3>1
    <3>3. next[At(l, k)] = At(l, k + 1) /\ prev[At(l, k + 1)] = At(l, k)
      BY <1>1, <3>1 DEF Straight
    <3> QED BY <1>5, <1>9, <1>10, <3>1, <3>2, <3>3
  <2>3. CASE k = i - 1
    <3>1. At(l, k)' = p /\ At(l, k + 1)' = e
      BY <1>2, <1>8, <2>3 DEF p
    <3> QED BY <1>9, <3>1
  <2>4. CASE k = i
    <3>1. At(l, k)' = e /\ At(l, k + 1)' = q
      <4>1. k + 1 \in i + 1 .. Len(content[l]) + 2 /\ k + 1 - 1 = i
        BY <1>2, <2>4
      <4> QED BY <1>8, <2>4, <4>1 DEF q
    <3> QED BY <1>9, <3>1
  <2>5. CASE k > i
    <3>1. k \in i + 1 .. Len(content[l]) + 2 /\ k + 1 \in i + 1 .. Len(content[l]) + 2
          /\ k - 1 \in 0 .. Len(content[l]) /\ k + 1 - 1 = k /\ k - 1 + 1 = k
          /\ k - 1 \in Spots(l) /\ k \in Spots(l) /\ k - 1 # i - 1 /\ k # i
      BY <1>2, <2>1, <2>5 DEF Spots
    <3>2. At(l, k)' = At(l, k - 1) /\ At(l, k + 1)' = At(l, k)
      BY <1>8, <3>1
    <3>3. next[At(l, k - 1)] = At(l, k) /\ prev[At(l, k)] = At(l, k - 1)
      BY <1>1, <3>1 DEF Straight
    <3> QED BY <1>5, <1>9, <1>10, <3>1, <3>2, <3>3
  <2> QED BY <1>2, <2>1, <2>2, <2>3, <2>4, <2>5
<1> QED BY <1>4, <1>11, <1>12, <1>13, <1>14, <1>15 DEF ListInv, LinksOK, InReverse

-----------------------------------------------------------------------------
(* list_remove *)

\* Where the nodes are after positions a to b - 1 have been cut out.
LEMMA CutSpots ==
    ASSUME ListTypeOK, NEW l \in Lists, NEW a \in Places(l),
           NEW b \in a + 1 .. Len(content[l]) + 1, IsCutOut(content'[l], content[l], a, b)
    PROVE  /\ Len(content'[l]) = Len(content[l]) - (b - a)
           /\ \A k \in 0 .. a - 1 : At(l, k)' = At(l, k)
           /\ \A k \in a .. Len(content'[l]) + 1 : At(l, k)' = At(l, k + (b - a))
<1> DEFINE s == content[l]
           u == content'[l]
<1>1. Len(s) \in Nat /\ a \in 1 .. Len(s)
  BY SpotFacts
<1> HIDE DEF s, u
<1>2. b \in a + 1 .. Len(s) + 1 /\ IsCutOut(u, s, a, b)
  BY DEF s, u
<1>3. Len(u) = Len(s) - (b - a)
  BY <1>2 DEF IsCutOut
<1>4. ASSUME NEW k \in 0 .. a - 1 PROVE At(l, k)' = At(l, k)
  <2>1. k # Len(s) + 1 /\ k # Len(u) + 1 /\ (k = 0 \/ k \in 1 .. a - 1)
    BY <1>1, <1>2, <1>3
  <2>2. k # 0 => u[k] = s[k]
    BY <1>2, <2>1 DEF IsCutOut
  <2> QED BY <2>1, <2>2 DEF At, s, u
<1>5. ASSUME NEW k \in a .. Len(u) + 1 PROVE At(l, k)' = At(l, k + (b - a))
  <2>1. /\ k # 0 /\ k + (b - a) # 0 /\ (k = Len(u) + 1 <=> k + (b - a) = Len(s) + 1)
        /\ k # Len(u) + 1 => k \in a .. Len(u)
    BY <1>1, <1>2, <1>3
  <2>2. k # Len(u) + 1 => u[k] = s[k + (b - a)]
    BY <1>2, <2>1 DEF IsCutOut
  <2> QED BY <2>1, <2>2 DEF At, s, u
<1> QED BY <1>3, <1>4, <1>5 DEF s, u

\* The same for one position.
LEMMA RemoveSpots ==
    ASSUME ListTypeOK, NEW l \in Lists, NEW i \in Places(l),
           IsCutOut(content'[l], content[l], i, i + 1)
    PROVE  /\ Len(content'[l]) = Len(content[l]) - 1
           /\ \A k \in 0 .. i - 1 : At(l, k)' = At(l, k)
           /\ \A k \in i .. Len(content'[l]) + 1 : At(l, k)' = At(l, k + 1)
<1>1. Len(content[l]) \in Nat /\ i \in 1 .. Len(content[l])
  BY SpotFacts
<1>2. PICK b \in i + 1 .. Len(content[l]) + 1 : b = i + 1
  BY <1>1
<1>3. /\ Len(content'[l]) = Len(content[l]) - (b - i)
      /\ \A k \in 0 .. i - 1 : At(l, k)' = At(l, k)
      /\ \A k \in i .. Len(content'[l]) + 1 : At(l, k)' = At(l, k + (b - i))
  BY <1>2, CutSpots
<1> QED BY <1>1, <1>2, <1>3

\* The content after a removal.
LEMMA RemoveContent ==
    ASSUME ListTypeOK, NEW l \in Lists, NEW i \in Places(l),
           content' = [content EXCEPT ![l] = SubSeq(@, 1, i - 1) \o SubSeq(@, i + 1, Len(@))]
    PROVE  OnlyList(l) /\ IsCutOut(content'[l], content[l], i, i + 1)
<1>1. content[l] \in Seq(Elem) /\ Len(content[l]) \in Nat /\ i \in 1 .. Len(content[l])
  BY SpotFacts
<1>2. i + 1 \in i + 1 .. Len(content[l]) + 1
  BY <1>1
<1>3. LET u == SubSeq(content[l], 1, i - 1) \o SubSeq(content[l], i + 1, Len(content[l]))
      IN  u \in Seq(Elem) /\ IsCutOut(u, content[l], i, i + 1)
  BY <1>1, <1>2, CutOut
<1>4. PICK u \in Seq(Elem) : /\ content' = [content EXCEPT ![l] = u]
                             /\ IsCutOut(u, content[l], i, i + 1)
  BY <1>3
<1>5. content \in [Lists -> Seq(Elem)]
  BY DEF ListTypeOK
<1> QED BY <1>4, <1>5 DEF OnlyList

\* What Unlink does to the links.
LEMMA UnlinkLinks ==
    ASSUME ListTypeOK, NEW e \in Nodes, NEW q \in Nodes, NEW p \in Nodes,
           prev[e] = p, next[e] = q, Unlink(e)
    PROVE  /\ prev' \in [Nodes -> Nodes \cup {NULL}] /\ next' \in [Nodes -> Nodes \cup {NULL}]
           /\ prev'[q] = p /\ next'[p] = q
           /\ \A n \in Nodes : /\ n # q => prev'[n] = prev[n]
                               /\ n # p => next'[n] = next[n]
BY DEF ListTypeOK, Unlink

\* No element stands twice after a removal.
LEMMA RemoveDistinct ==
    ASSUME ListTypeOK, Distinct, NEW l \in Lists, NEW i \in Places(l),
           ListTypeOK', OnlyList(l), IsCutOut(content'[l], content[l], i, i + 1)
    PROVE  Distinct'
<1> DEFINE Was(m, k) == IF m = l /\ k >= i THEN k + 1 ELSE k
<1>1. Len(content[l]) \in Nat /\ i \in 1 .. Len(content[l])
  BY SpotFacts
<1>2. /\ Len(content'[l]) = Len(content[l]) - 1
      /\ \A k \in 0 .. i - 1 : At(l, k)' = At(l, k)
      /\ \A k \in i .. Len(content'[l]) + 1 : At(l, k)' = At(l, k + 1)
  BY RemoveSpots
<1>3. ASSUME NEW m \in Lists, NEW k \in Places(m)'
      PROVE  Was(m, k) \in Places(m) /\ content'[m][k] = content[m][Was(m, k)]
  <2>1. At(m, k)' = content'[m][k] /\ Places(m)' = 1 .. Len(content'[m])
    BY SpotFactsNext
  <2>2. CASE m = l
    <3>1. k \in 1 .. Len(content[l]) - 1 /\ Places(l) = 1 .. Len(content[l])
      BY <1>2, <2>1, <2>2, SpotFacts
    <3>2. CASE k < i
      <4>1. k \in 0 .. i - 1 /\ k \in Places(l) /\ Was(m, k) = k
        BY <1>1, <3>1, <3>2
      <4> QED BY <1>2, <2>1, <2>2, <4>1, SpotFacts
    <3>3. CASE k >= i
      <4>1. k \in i .. Len(content'[l]) + 1 /\ k + 1 \in Places(l) /\ Was(m, k) = k + 1
        BY <1>1, <1>2, <2>2, <3>1, <3>3
      <4> QED BY <1>2, <2>1, <2>2, <4>1, SpotFacts
    <3> QED BY <1>1, <3>1, <3>2, <3>3
  <2>3. CASE m # l
    <3>1. content'[m] = content[m] /\ Was(m, k) = k
      BY <2>3 DEF OnlyList
    <3> QED BY <3>1 DEF Places
  <2> QED BY <2>2, <2>3
<1> SUFFICES ASSUME NEW m \in Lists, NEW n \in Lists, NEW j \in Places(m)', NEW k \in Places(n)',
                    content'[m][j] = content'[n][k]
             PROVE  m = n /\ j = k
  BY DEF Distinct
<1>4. PICK x \in Places(m), y \in Places(n) : x = Was(m, j) /\ y = Was(n, k)
  BY <1>3
<1>5. content[m][x] = content[n][y]
  BY <1>3, <1>4
<1>6. m = n /\ x = y
  BY <1>5 DEF Distinct
<1>7. j \in Nat /\ k \in Nat
  BY SpotFactsNext
<1> QED BY <1>1, <1>4, <1>6, <1>7

\* A removal keeps the invariant.
LEMMA RemoveKeepsInv ==
    ASSUME ListInv, reversing = NULL, NEW l \in Lists, NEW i \in Places(l),
           NEW e, e = At(l, i), RemoveNode(l, i, e)
    PROVE  ListInv' /\ reversing' = NULL
<1> DEFINE p == At(l, i - 1)
           q == At(l, i + 1)
<1>1. /\ ListTypeOK /\ Distinct /\ Ends /\ ~aborted
      /\ \A m \in Lists : Straight(m)
  BY DEF ListInv, LinksOK, InReverse
<1>2. /\ Len(content[l]) \in Nat /\ i \in 1 .. Len(content[l])
      /\ i \in Spots(l) /\ i - 1 \in Spots(l) /\ i + 1 \in Spots(l)
      /\ i - 1 \in 0 .. Len(content[l]) /\ i - 1 + 1 = i /\ i \in 0 .. Len(content[l])
      /\ i \in 1 .. Len(content[l]) + 1
  <2>1. Len(content[l]) \in Nat /\ i \in 1 .. Len(content[l])
    BY <1>1, SpotFacts
  <2> QED BY <2>1 DEF Spots
<1>3. prev[e] = p /\ next[e] = q /\ IsInterior(e)
  BY <1>1, <1>2, Neighbours
<1>4. Unlink(e) /\ reversing' = NULL /\ aborted' = FALSE
  BY <1>1, <1>3 DEF RemoveNode, ListTypeOK
<1>5. \A m \in Lists : \A k \in Spots(m) : At(m, k) \in Nodes
  BY <1>1, SpotFacts
<1>6. p \in Nodes /\ q \in Nodes /\ e \in Nodes
  BY <1>2, <1>5
<1>7. OnlyList(l) /\ IsCutOut(content'[l], content[l], i, i + 1)
  <2>1. content' = [content EXCEPT ![l] = SubSeq(@, 1, i - 1) \o SubSeq(@, i + 1, Len(@))]
    BY <1>3 DEF RemoveNode
  <2> QED BY <1>1, <2>1, RemoveContent
<1>8. /\ Len(content'[l]) = Len(content[l]) - 1
      /\ \A k \in 0 .. i - 1 : At(l, k)' = At(l, k)
      /\ \A k \in i .. Len(content'[l]) + 1 : At(l, k)' = At(l, k + 1)
  BY <1>1, <1>7, RemoveSpots
<1>9. /\ prev' \in [Nodes -> Nodes \cup {NULL}] /\ next' \in [Nodes -> Nodes \cup {NULL}]
      /\ prev'[q] = p /\ next'[p] = q
      /\ \A n \in Nodes : /\ n # q => prev'[n] = prev[n]
                          /\ n # p => next'[n] = next[n]
  <2> HIDE DEF p, q
  <2> QED BY <1>1, <1>3, <1>4, <1>6, UnlinkLinks
<1>10. \A m \in Lists : \A k \in Spots(m) : /\ At(m, k) = q => m = l /\ k = i + 1
                                            /\ At(m, k) = p => m = l /\ k = i - 1
  BY <1>1, <1>2, SpotsApart
<1> HIDE DEF p, q
<1>11. ListTypeOK'
  BY <1>4, <1>7, <1>9 DEF ListTypeOK, OnlyList
<1>12. Distinct'
  BY <1>1, <1>7, <1>11, RemoveDistinct
<1>13. Ends'
  <2> SUFFICES ASSUME NEW m \in Lists
               PROVE  prev'[HeadOf(m)] = NULL /\ next'[TailOf(m)] = NULL
    BY DEF Ends
  <2>1. /\ 0 \in Spots(m) /\ Len(content[m]) + 1 \in Spots(m) /\ Len(content[m]) + 1 # 0
        /\ At(m, 0) = HeadOf(m) /\ At(m, Len(content[m]) + 1) = TailOf(m)
    <3>1. Len(content[m]) \in Nat
      BY <1>1, SpotFacts
    <3> QED BY <1>1, <3>1, SpotFacts DEF Spots
  <2>2. HeadOf(m) # q
    BY <1>2, <1>10, <2>1
  <2>3. TailOf(m) # p
    <3>1. m = l => Len(content[m]) + 1 # i - 1
      BY <1>2
    <3> QED BY <1>10, <2>1, <3>1
  <2>4. prev'[HeadOf(m)] = prev[HeadOf(m)] /\ next'[TailOf(m)] = next[TailOf(m)]
    BY <1>9, <2>2, <2>3, SentinelFacts
  <2> QED BY <1>1, <2>4 DEF Ends
<1>14. ASSUME NEW m \in Lists \ {l} PROVE Straight(m)'
  <2>1. \A k \in Spots(m) : next'[At(m, k)] = next[At(m, k)] /\ prev'[At(m, k)] = prev[At(m, k)]
    BY <1>5, <1>9, <1>10
  <2> QED BY <1>1, <1>7, <2>1, KeptStraight DEF OnlyList
<1>15. Straight(l)'
  <2> SUFFICES ASSUME NEW k \in 0 .. Len(content'[l])
               PROVE  next'[At(l, k)'] = At(l, k + 1)' /\ prev'[At(l, k + 1)'] = At(l, k)'
    BY DEF Straight
  <2>1. k \in 0 .. Len(content[l]) - 1
    BY <1>8
  <2>2. CASE k < i - 1
    <3>1. k \in 0 .. i - 1 /\ k + 1 \in 0 .. i - 1 /\ k \in 0 .. Len(content[l])
          /\ k \in Spots(l) /\ k + 1 \in Spots(l) /\ k # i - 1 /\ k + 1 # i + 1
      BY <1>2, <2>1, <2>2 DEF Spots
    <3>2. At(l, k)' = At(l, k) /\ At(l, k + 1)' = At(l, k + 1)
      BY <1>8, <3>1
    <3>3. next[At(l, k)] = At(l, k + 1) /\ prev[At(l, k + 1)] = At(l, k)
      BY <1>1, <3>1 DEF Straight
    <3> QED BY <1>5, <1>9, <1>10, <3>1, <3>2, <3>3
  <2>3. CASE k = i - 1
    <3>1. k \in 0 .. i - 1 /\ k + 1 = i /\ i \in i .. Len(content'[l]) + 1
      BY <1>2, <1>8, <2>1, <2>3
    <3>2. At(l, k)' = p /\ At(l, k + 1)' = q
      BY <1>8, <2>3, <3>1 DEF p, q
    <3> QED BY <1>9, <3>2
  <2>4. CASE k >= i
    <3>1. k \in i .. Len(content'[l]) + 1 /\ k + 1 \in i .. Len(content'[l]) + 1
          /\ k + 1 \in 0 .. Len(content[l])
          /\ k + 1 \in Spots(l) /\ k + 1 + 1 \in Spots(l) /\ k + 1 # i - 1 /\ k + 1 + 1 # i + 1
      BY <1>2, <1>8, <2>1, <2>4 DEF Spots
    <3>2. At(l, k)' = At(l, k + 1) /\ At(l, k + 1)' = At(l, k + 1 + 1)
      BY <1>8, <3>1
    <3>3. next[At(l, k + 1)] = At(l, k + 1 + 1) /\ prev[At(l, k + 1 + 1)] = At(l, k + 1)
      BY <1>1, <3>1 DEF Straight
    <3> QED BY <1>5, <1>9, <1>10, <3>1, <3>2, <3>3
  <2> QED BY <1>2, <2>1, <2>2, <2>3, <2>4
<1> QED BY <1>4, <1>11, <1>12, <1>13, <1>14, <1>15 DEF ListInv, LinksOK, InReverse

-----------------------------------------------------------------------------
(* list_reverse *)

\* What is being reversed.
LEMMA ReversingFacts ==
    ASSUME NEW l \in Lists, NEW n \in Nodes
    PROVE  <<l, n>> # NULL /\ <<l, n>>[1] = l /\ <<l, n>>[2] = n
<1>1. <<l, n>> \in Lists \X Nodes
  OBVIOUS
<1> QED BY <1>1, NodesAssumption

\* The loop starts with all links straight.
LEMMA ReverseStartKeepsInv ==
    ASSUME ListInv, reversing = NULL, NEW l \in Lists, ReverseStart(l)
    PROVE  ListInv'
<1>1. /\ ListTypeOK /\ Distinct /\ Ends /\ ~aborted
      /\ \A m \in Lists : Straight(m)
  BY DEF ListInv, LinksOK, InReverse
<1>2. /\ Len(content[l]) \in Nat /\ Places(l) = 1 .. Len(content[l])
      /\ At(l, 0) = HeadOf(l) /\ At(l, Len(content[l]) + 1) = TailOf(l)
      /\ \A k \in Spots(l) : At(l, k) \in Nodes
  BY <1>1, SpotFacts
<1>3. UNCHANGED <<prev, next, content, aborted>> /\ reversing' = <<l, next[HeadOf(l)]>>
      /\ next[HeadOf(l)] # TailOf(l)
  BY DEF ReverseStart, IsEmpty
<1>4. next[HeadOf(l)] = At(l, 1)
  BY <1>1, <1>2 DEF Straight
<1>5. Len(content[l]) # 0 /\ content[l] # <<>>
  BY <1>2, <1>3, <1>4
<1>6. 1 \in Spots(l) /\ 1 \in 1 .. Len(content[l]) + 1
  BY <1>2, <1>5 DEF Spots
<1>7. reversing' = <<l, At(l, 1)>> /\ reversing' # NULL /\ reversing'[1] = l
      /\ reversing' \in Lists \X Nodes
  <2>1. At(l, 1) \in Nodes
    BY <1>2, <1>6
  <2> QED BY <1>3, <1>4, <2>1, ReversingFacts
<1>8. Turned(l, 1)
  <2>1. \A i \in Places(l) : ~(i < 1)
    BY <1>2
  <2>2. prev[TailOf(l)] = At(l, Len(content[l]))
    BY <1>1, <1>2 DEF Straight
  <2>3. \A i \in Places(l) : next[At(l, i)] = At(l, i + 1) /\ prev[At(l, i)] = At(l, i - 1)
    <3>1. \A i \in Places(l) : i \in 0 .. Len(content[l]) /\ i \in 1 .. Len(content[l]) + 1
      BY <1>2
    <3> QED BY <1>1, <3>1, Neighbours
  <2> QED BY <1>4, <1>5, <2>1, <2>2, <2>3 DEF Turned
<1>9. LinksOK'
  <2>1. Turning(l)'
    <3>1. Turned(l, 1)'
      BY <1>3, <1>8 DEF Turned, At, Places
    <3>2. reversing' = <<l, At(l, 1)'>> /\ 1 \in 1 .. Len(content'[l]) + 1
      BY <1>3, <1>6, <1>7 DEF At
    <3> QED BY <3>1, <3>2 DEF Turning
  <2>2. \A m \in Lists : Straight(m)'
    BY <1>1, <1>3 DEF Straight, At
  <2> QED BY <1>7, <2>1, <2>2 DEF LinksOK, InReverse
<1>10. ListTypeOK' /\ Distinct' /\ Ends'
  BY <1>1, <1>3, <1>7 DEF ListTypeOK, Distinct, Places, Ends
<1> QED BY <1>1, <1>3, <1>9, <1>10 DEF ListInv

\* What SwapLinks does to the links.
LEMMA SwapLinksLinks ==
    ASSUME ListTypeOK, NEW e \in Nodes, SwapLinks(e)
    PROVE  /\ prev' \in [Nodes -> Nodes \cup {NULL}] /\ next' \in [Nodes -> Nodes \cup {NULL}]
           /\ prev'[e] = next[e] /\ next'[e] = prev[e]
           /\ \A n \in Nodes \ {e} : prev'[n] = prev[n] /\ next'[n] = next[n]
BY DEF ListTypeOK, SwapLinks

\* The list that is being reversed, and how far the loop has come.
LEMMA PickTurned ==
    ASSUME ListInv, reversing # NULL
    PROVE  \E l \in Lists : \E k \in 1 .. Len(content[l]) + 1 :
              /\ reversing = <<l, At(l, k)>> /\ reversing[1] = l /\ reversing[2] = At(l, k)
              /\ Turned(l, k)
              /\ \A m \in Lists \ {l} : Straight(m)
<1>1. reversing \in Lists \X Nodes
  BY DEF ListInv, ListTypeOK
<1>2. PICK l \in Lists : l = reversing[1]
  BY <1>1
<1>3. Turning(l) /\ \A m \in Lists \ {l} : Straight(m)
  BY <1>2 DEF ListInv, LinksOK, InReverse
<1>4. PICK k \in 1 .. Len(content[l]) + 1 : reversing = <<l, At(l, k)>> /\ Turned(l, k)
  BY <1>3 DEF Turning
<1> QED BY <1>3, <1>4

\* A round of the loop swaps the links of one more element.
LEMMA ReverseStepKeepsInv ==
    ASSUME ListInv, ReverseStep
    PROVE  ListInv'
<1>1. ListTypeOK /\ Distinct /\ Ends /\ ~aborted /\ reversing # NULL
  BY DEF ListInv, ReverseStep
<1>2. PICK l \in Lists : \E k \in 1 .. Len(content[l]) + 1 :
              /\ reversing = <<l, At(l, k)>> /\ reversing[1] = l /\ reversing[2] = At(l, k)
              /\ Turned(l, k)
              /\ \A m \in Lists \ {l} : Straight(m)
  BY <1>1, PickTurned
<1>3. PICK k \in 1 .. Len(content[l]) + 1 :
              /\ reversing[1] = l /\ reversing[2] = At(l, k)
              /\ Turned(l, k)
              /\ \A m \in Lists \ {l} : Straight(m)
  BY <1>2
<1>4. /\ Len(content[l]) \in Nat /\ Places(l) = 1 .. Len(content[l])
      /\ At(l, 0) = HeadOf(l) /\ At(l, Len(content[l]) + 1) = TailOf(l)
  BY <1>1, SpotFacts
<1>5. k \in Places(l) /\ k \in Spots(l) /\ k + 1 \in Spots(l) /\ k + 1 \in 1 .. Len(content[l]) + 1
  <2>1. At(l, k) # TailOf(l)
    BY <1>3 DEF ReverseStep
  <2> QED BY <1>4, <2>1 DEF Spots
<1>6. PICK e \in Nodes : e = At(l, k)
  BY <1>1, <1>5, SpotFacts
<1>7. SwapLinks(e) /\ UNCHANGED <<content, aborted>> /\ reversing' = <<l, prev'[e]>>
  BY <1>3, <1>6 DEF ReverseStep
<1>8. next[e] = At(l, k + 1) /\ prev[e] = At(l, k - 1)
  BY <1>4, <1>3, <1>5, <1>6 DEF Turned
<1>9. /\ prev' \in [Nodes -> Nodes \cup {NULL}] /\ next' \in [Nodes -> Nodes \cup {NULL}]
      /\ prev'[e] = At(l, k + 1) /\ next'[e] = At(l, k - 1)
      /\ \A n \in Nodes \ {e} : prev'[n] = prev[n] /\ next'[n] = next[n]
  BY <1>1, <1>7, <1>8, SwapLinksLinks
<1>10. \A m \in Lists : \A i \in Spots(m) : /\ At(m, i) \in Nodes /\ At(m, i)' = At(m, i)
                                            /\ At(m, i) = e => m = l /\ i = k
  BY <1>1, <1>5, <1>6, <1>7, SpotFacts, SpotsApart DEF At
<1>11. reversing' = <<l, At(l, k + 1)>> /\ reversing' # NULL /\ reversing'[1] = l
       /\ reversing' \in Lists \X Nodes
  BY <1>5, <1>7, <1>9, <1>10, ReversingFacts
<1>12. e \in Elem
  BY <1>1, <1>5, <1>6, SpotFacts
<1>13. ListTypeOK' /\ Distinct'
  BY <1>1, <1>7, <1>9, <1>11 DEF ListTypeOK, Distinct, Places
<1>14. Ends'
  BY <1>1, <1>9, <1>12, SentinelFacts DEF Ends
<1>15. ASSUME NEW m \in Lists \ {l} PROVE Straight(m)'
  <2>1. \A i \in Spots(m) : next'[At(m, i)] = next[At(m, i)] /\ prev'[At(m, i)] = prev[At(m, i)]
    BY <1>9, <1>10
  <2> QED BY <1>1, <1>3, <1>7, <2>1, KeptStraight
<1>16. Turned(l, k + 1)'
  <2>1. /\ content'[l] # <<>> /\ Places(l)' = Places(l)
        /\ next'[HeadOf(l)] = At(l, 1) /\ prev'[TailOf(l)] = At(l, Len(content[l]))
    BY <1>3, <1>7, <1>9, <1>12, SentinelFacts DEF Turned, Places
  <2>2. ASSUME NEW i \in Places(l)
        PROVE  IF i < k + 1 THEN next'[At(l, i)] = At(l, i - 1) /\ prev'[At(l, i)] = At(l, i + 1)
                            ELSE next'[At(l, i)] = At(l, i + 1) /\ prev'[At(l, i)] = At(l, i - 1)
    <3>1. i \in Spots(l) /\ i \in Int /\ k \in Int
      BY <1>4, <1>5 DEF Spots
    <3>2. CASE i = k
      BY <1>6, <1>9, <3>1, <3>2
    <3>3. CASE i # k
      <4>1. next'[At(l, i)] = next[At(l, i)] /\ prev'[At(l, i)] = prev[At(l, i)]
        BY <1>9, <1>10, <3>1, <3>3
      <4>2. i < k + 1 <=> i < k
        BY <3>1, <3>3
      <4> QED BY <1>3, <4>1, <4>2 DEF Turned
    <3> QED BY <3>2, <3>3
  <2>3. \A i : At(l, i)' = At(l, i)
    BY <1>7 DEF At
  <2> QED BY <1>7, <2>1, <2>2, <2>3 DEF Turned
<1>17. Turning(l)'
  <2>1. reversing' = <<l, At(l, k + 1)'>> /\ k + 1 \in 1 .. Len(content'[l]) + 1
    BY <1>5, <1>7, <1>11 DEF At
  <2> QED BY <1>16, <2>1 DEF Turning
<1>18. LinksOK'
  BY <1>11, <1>15, <1>17 DEF LinksOK, InReverse
<1> QED BY <1>1, <1>7, <1>13, <1>14, <1>18 DEF ListInv

\* What the two swaps after the loop do to the links.
EndSwaps(h, t, first, last) ==
    /\ next' = [next EXCEPT ![h] = last, ![first] = prev[last]]
    /\ prev' = [prev EXCEPT ![t] = first, ![last] = next[first]]

LEMMA LastSwaps ==
    ASSUME ListTypeOK, NEW h \in Nodes, NEW t \in Nodes, NEW first \in Nodes, NEW last \in Nodes,
           h # first, t # last, prev[last] = t, next[first] = h,
           EndSwaps(h, t, first, last)
    PROVE  /\ prev' \in [Nodes -> Nodes \cup {NULL}] /\ next' \in [Nodes -> Nodes \cup {NULL}]
           /\ next'[h] = last /\ next'[first] = t /\ prev'[t] = first /\ prev'[last] = h
           /\ \A n \in Nodes : /\ n \notin {h, first} => next'[n] = next[n]
                               /\ n \notin {t, last} => prev'[n] = prev[n]
BY DEF ListTypeOK, EndSwaps

\* Where the nodes are after a reversal.
LEMMA ReverseSpots ==
    ASSUME ListTypeOK, NEW l \in Lists,
           content' = [content EXCEPT ![l] = [i \in 1 .. Len(@) |-> @[Len(@) + 1 - i]]]
    PROVE  /\ OnlyList(l) /\ Len(content'[l]) = Len(content[l])
           /\ \A k \in Places(l) : At(l, k)' = At(l, Len(content[l]) + 1 - k)
           /\ At(l, 0)' = HeadOf(l) /\ At(l, Len(content[l]) + 1)' = TailOf(l)
<1>1. content \in [Lists -> Seq(Elem)]
  BY DEF ListTypeOK
<1>2. /\ Len(content[l]) \in Nat /\ Places(l) = 1 .. Len(content[l])
      /\ \A i \in Places(l) : At(l, i) = content[l][i] /\ At(l, i) \in Elem
  BY SpotFacts
<1>3. PICK u : u = [i \in 1 .. Len(content[l]) |-> content[l][Len(content[l]) + 1 - i]]
  OBVIOUS
<1>4. content' = [content EXCEPT ![l] = u]
  BY <1>3
<1>5. \A i \in Places(l) : Len(content[l]) + 1 - i \in Places(l)
  BY <1>2
<1>6. u \in [1 .. Len(content[l]) -> Elem]
  BY <1>2, <1>3, <1>5
<1>7. u \in Seq(Elem) /\ Len(u) = Len(content[l])
  BY <1>2, <1>6
<1>8. content'[l] = u /\ OnlyList(l)
  BY <1>1, <1>4, <1>7 DEF OnlyList
<1>9. ASSUME NEW k \in Places(l) PROVE At(l, k)' = At(l, Len(content[l]) + 1 - k)
  <2>1. k # 0 /\ k # Len(content[l]) + 1 /\ k \in 1 .. Len(content[l])
    BY <1>2
  <2>2. u[k] = content[l][Len(content[l]) + 1 - k]
    BY <1>3, <2>1
  <2>3. At(l, k)' = u[k]
    BY <1>7, <1>8, <2>1 DEF At
  <2> QED BY <1>2, <1>5, <2>2, <2>3
<1>10. At(l, 0)' = HeadOf(l) /\ At(l, Len(content[l]) + 1)' = TailOf(l)
  BY <1>2, <1>7, <1>8 DEF At
<1> QED BY <1>7, <1>8, <1>9, <1>10

\* After the loop, the swaps at the ends turn the list round.
LEMMA ReverseEndKeepsInv ==
    ASSUME ListInv, ReverseEnd
    PROVE  ListInv'
<1>1. ListTypeOK /\ Distinct /\ Ends /\ ~aborted /\ reversing # NULL
  BY DEF ListInv, ReverseEnd
<1>2. PICK l \in Lists : \E k \in 1 .. Len(content[l]) + 1 :
              /\ reversing = <<l, At(l, k)>> /\ reversing[1] = l /\ reversing[2] = At(l, k)
              /\ Turned(l, k)
              /\ \A m \in Lists \ {l} : Straight(m)
  BY <1>1, PickTurned
<1>3. PICK k \in 1 .. Len(content[l]) + 1 :
              /\ reversing[1] = l /\ reversing[2] = At(l, k)
              /\ Turned(l, k)
              /\ \A m \in Lists \ {l} : Straight(m)
  BY <1>2
<1>4. PICK n \in Nat : n = Len(content[l])
  BY <1>1, SpotFacts
<1>5. /\ Places(l) = 1 .. n /\ At(l, 0) = HeadOf(l) /\ At(l, n + 1) = TailOf(l)
      /\ \A i \in Places(l) : At(l, i) \in Elem /\ At(l, i) \in Nodes
  BY <1>1, <1>4, SpotFacts, SentinelFacts
<1>6. n # 0
  BY <1>3, <1>4, EmptySeq, <1>1, SpotFacts DEF Turned
<1>7. k = n + 1
  <2>1. k \in Spots(l) /\ n + 1 \in Spots(l)
    BY <1>4 DEF Spots
  <2>2. At(l, k) = At(l, n + 1)
    BY <1>3, <1>5 DEF ReverseEnd
  <2> QED BY <1>1, <2>1, <2>2, SpotsApart
<1>8. /\ next[HeadOf(l)] = At(l, 1) /\ prev[TailOf(l)] = At(l, n)
      /\ \A i \in Places(l) : next[At(l, i)] = At(l, i - 1) /\ prev[At(l, i)] = At(l, i + 1)
  <2>1. \A i \in Places(l) : i < k
    BY <1>5, <1>7
  <2> QED BY <1>3, <1>4, <2>1 DEF Turned
<1>9. 1 \in Places(l) /\ n \in Places(l) /\ 1 - 1 = 0
  BY <1>5, <1>6
<1>10. PICK first \in Nodes, last \in Nodes : first = At(l, 1) /\ last = At(l, n)
  BY <1>5, <1>9
<1>11. first \in Elem /\ last \in Elem /\ next[first] = HeadOf(l) /\ prev[last] = TailOf(l)
  BY <1>5, <1>8, <1>9, <1>10
<1>12. /\ next' = [next EXCEPT ![HeadOf(l)] = last, ![first] = prev[last]]
       /\ prev' = [prev EXCEPT ![TailOf(l)] = first, ![last] = next[first]]
  BY <1>3, <1>8, <1>10 DEF ReverseEnd
<1>13. /\ prev' \in [Nodes -> Nodes \cup {NULL}] /\ next' \in [Nodes -> Nodes \cup {NULL}]
       /\ next'[HeadOf(l)] = last /\ next'[first] = TailOf(l)
       /\ prev'[TailOf(l)] = first /\ prev'[last] = HeadOf(l)
       /\ \A x \in Nodes : /\ x \notin {HeadOf(l), first} => next'[x] = next[x]
                           /\ x \notin {TailOf(l), last} => prev'[x] = prev[x]
  <2>1. PICK h \in Nodes, t \in Nodes : h = HeadOf(l) /\ t = TailOf(l) /\ h # first /\ t # last
    BY <1>11, SentinelFacts
  <2>2. EndSwaps(h, t, first, last)
    BY <1>12, <2>1 DEF EndSwaps
  <2>3. next[first] = h /\ prev[last] = t
    BY <1>11, <2>1
  <2>4. /\ prev' \in [Nodes -> Nodes \cup {NULL}] /\ next' \in [Nodes -> Nodes \cup {NULL}]
        /\ next'[h] = last /\ next'[first] = t /\ prev'[t] = first /\ prev'[last] = h
        /\ \A x \in Nodes : /\ x \notin {h, first} => next'[x] = next[x]
                            /\ x \notin {t, last} => prev'[x] = prev[x]
    BY <1>1, <2>1, <2>2, <2>3, LastSwaps
  <2> QED BY <2>1, <2>4
<1>14. /\ OnlyList(l) /\ Len(content'[l]) = n
       /\ \A i \in Places(l) : At(l, i)' = At(l, n + 1 - i)
       /\ At(l, 0)' = HeadOf(l) /\ At(l, n + 1)' = TailOf(l)
  <2>1. content' = [content EXCEPT ![l] = [i \in 1 .. Len(@) |-> @[Len(@) + 1 - i]]]
    BY <1>3 DEF ReverseEnd
  <2> QED BY <1>1, <1>4, <2>1, ReverseSpots
<1>15. reversing' = NULL /\ aborted' = FALSE
  BY <1>1 DEF ReverseEnd, ListTypeOK
<1>16. ListTypeOK'
  BY <1>13, <1>14, <1>15 DEF ListTypeOK, OnlyList
<1>17. Distinct'
  <2> SUFFICES ASSUME NEW x \in Lists, NEW y \in Lists, NEW i \in Places(x)', NEW j \in Places(y)',
                      content'[x][i] = content'[y][j]
               PROVE  x = y /\ i = j
    BY DEF Distinct
  <2>1. ASSUME NEW z \in Lists, NEW r \in Places(z)'
        PROVE  LET was == IF z = l THEN n + 1 - r ELSE r
               IN  was \in Places(z) /\ content'[z][r] = content[z][was] /\ r \in Int
    <3>1. At(z, r)' = content'[z][r] /\ Places(z)' = 1 .. Len(content'[z])
      BY <1>16, SpotFactsNext
    <3>2. CASE z = l
      <4>1. r \in Places(l) /\ n + 1 - r \in Places(l) /\ r \in Int
        BY <1>5, <1>14, <3>1, <3>2
      <4>2. At(l, n + 1 - r) = content[l][n + 1 - r]
        BY <1>1, <4>1, SpotFacts
      <4> QED BY <1>14, <3>1, <3>2, <4>1, <4>2
    <3>3. CASE z # l
      <4>1. content'[z] = content[z]
        BY <1>14, <3>3 DEF OnlyList
      <4> QED BY <3>1, <3>3, <4>1 DEF Places
    <3> QED BY <3>2, <3>3
  <2>2. PICK a \in Places(x), b \in Places(y) :
           /\ a = (IF x = l THEN n + 1 - i ELSE i) /\ b = (IF y = l THEN n + 1 - j ELSE j)
           /\ content[x][a] = content[y][b]
    BY <2>1
  <2>3. x = y /\ a = b
    BY <1>1, <2>2 DEF Distinct
  <2>4. i \in Int /\ j \in Int
    BY <2>1
  <2> QED BY <2>2, <2>3, <2>4
<1>18. Ends'
  <2> SUFFICES ASSUME NEW m \in Lists
               PROVE  prev'[HeadOf(m)] = NULL /\ next'[TailOf(m)] = NULL
    BY DEF Ends
  <2>1. HeadOf(m) \notin {TailOf(l), last} /\ TailOf(m) \notin {HeadOf(l), first}
    BY <1>11, SentinelFacts
  <2> QED BY <1>1, <1>13, <2>1, SentinelFacts DEF Ends
<1>19. ASSUME NEW m \in Lists \ {l} PROVE Straight(m)'
  <2>1. ASSUME NEW i \in Spots(m)
        PROVE  At(m, i) \in Nodes /\ At(m, i) \notin {HeadOf(l), TailOf(l), first, last}
    <3>1. 0 \in Spots(l) /\ n + 1 \in Spots(l) /\ 1 \in Spots(l) /\ n \in Spots(l)
      BY <1>4, <1>6 DEF Spots
    <3> QED BY <1>1, <1>5, <1>10, <3>1, SpotsApart, SpotFacts
  <2>2. \A i \in Spots(m) : next'[At(m, i)] = next[At(m, i)] /\ prev'[At(m, i)] = prev[At(m, i)]
    BY <1>13, <2>1
  <2> QED BY <1>1, <1>3, <1>14, <2>2, KeptStraight DEF OnlyList
<1>20. Straight(l)'
  <2> SUFFICES ASSUME NEW i \in 0 .. n
               PROVE  next'[At(l, i)'] = At(l, i + 1)' /\ prev'[At(l, i + 1)'] = At(l, i)'
    BY <1>14 DEF Straight
  <2>1. next'[At(l, i)'] = At(l, i + 1)'
    <3>1. CASE i = 0
      <4>1. At(l, 1)' = last
        BY <1>9, <1>10, <1>14
      <4> QED BY <1>13, <1>14, <3>1, <4>1
    <3>2. CASE i = n
      <4>1. At(l, i)' = first
        <5>1. n + 1 - n = 1
          OBVIOUS
        <5> QED BY <1>9, <1>10, <1>14, <3>2, <5>1
      <4> QED BY <1>13, <1>14, <3>2, <4>1
    <3>3. CASE i # 0 /\ i # n
      <4>1. i \in Places(l) /\ i + 1 \in Places(l) /\ n + 1 - i \in Places(l)
            /\ n + 1 - (i + 1) = n + 1 - i - 1 /\ n + 1 - i # 1
        BY <1>5, <3>3
      <4>2. PICK x \in Nodes : x = At(l, n + 1 - i) /\ x \in Elem
        BY <1>5, <4>1
      <4>3. x # first
        <5>1. n + 1 - i \in Spots(l) /\ 1 \in Spots(l)
          BY <1>4, <1>5, <1>9, <4>1 DEF Spots
        <5> QED BY <1>1, <1>10, <4>1, <4>2, <5>1, SpotsApart
      <4>4. next'[x] = next[x]
        BY <1>13, <4>2, <4>3, SentinelFacts
      <4>5. next[x] = At(l, n + 1 - i - 1)
        BY <1>8, <4>1, <4>2
      <4>6. At(l, i)' = x /\ At(l, i + 1)' = At(l, n + 1 - i - 1)
        BY <1>14, <4>1, <4>2
      <4> QED BY <4>4, <4>5, <4>6
    <3> QED BY <3>1, <3>2, <3>3
  <2>2. prev'[At(l, i + 1)'] = At(l, i)'
    <3>1. CASE i = n
      <4>1. At(l, i)' = first
        <5>1. n + 1 - n = 1
          OBVIOUS
        <5> QED BY <1>9, <1>10, <1>14, <3>1, <5>1
      <4> QED BY <1>13, <1>14, <3>1, <4>1
    <3>2. CASE i = 0
      <4>1. At(l, 1)' = last
        BY <1>9, <1>10, <1>14
      <4> QED BY <1>13, <1>14, <3>2, <4>1
    <3>3. CASE i # 0 /\ i # n
      <4>1. i \in Places(l) /\ i + 1 \in Places(l) /\ n + 1 - (i + 1) \in Places(l)
            /\ n + 1 - (i + 1) + 1 = n + 1 - i /\ n + 1 - (i + 1) # n
        BY <1>5, <3>3
      <4>2. PICK x \in Nodes : x = At(l, n + 1 - (i + 1)) /\ x \in Elem
        BY <1>5, <4>1
      <4>3. x # last
        <5>1. n + 1 - (i + 1) \in 1 .. n /\ n \in 0 .. n + 1
          BY <1>5, <4>1
        <5>2. n + 1 - (i + 1) \in 0 .. n + 1
          BY <5>1
        <5>3. n + 1 - (i + 1) \in Spots(l) /\ n \in Spots(l)
          BY <1>4, <5>1, <5>2 DEF Spots
        <5> QED BY <1>1, <1>10, <4>1, <4>2, <5>3, SpotsApart
      <4>4. prev'[x] = prev[x]
        BY <1>13, <4>2, <4>3, SentinelFacts
      <4>5. prev[x] = At(l, n + 1 - i)
        BY <1>8, <4>1, <4>2
      <4>6. At(l, i + 1)' = x /\ At(l, i)' = At(l, n + 1 - i)
        BY <1>14, <4>1, <4>2
      <4> QED BY <4>4, <4>5, <4>6
    <3> QED BY <3>1, <3>2, <3>3
  <2> QED BY <2>1, <2>2
<1> QED BY <1>15, <1>16, <1>17, <1>18, <1>19, <1>20 DEF ListInv, LinksOK, InReverse

-----------------------------------------------------------------------------
(* list_splice *)

\* The piece of s from position c to d - 1.
IsPiece(p, s, c, d) == Len(p) = d - c /\ \A k \in 1 .. d - c : p[k] = s[c + k - 1]

LEMMA PieceOf ==
    ASSUME NEW S, NEW s \in Seq(S), NEW c \in 1 .. Len(s) + 1, NEW d \in c .. Len(s) + 1
    PROVE  SubSeq(s, c, d - 1) \in Seq(S) /\ IsPiece(SubSeq(s, c, d - 1), s, c, d)
<1>1. Len(s) \in Nat
  BY LenProperties
<1>2. PICK b \in c - 1 .. Len(s) : b = d - 1
  BY <1>1
<1>3. /\ SubSeq(s, c, b) \in Seq(S) /\ Len(SubSeq(s, c, b)) = b - c + 1
      /\ \A k \in 1 .. b - c + 1 : SubSeq(s, c, b)[k] = s[c + k - 1]
  BY <1>2, Piece
<1>4. b - c + 1 = d - c
  BY <1>1, <1>2
<1> QED BY <1>2, <1>3, <1>4 DEF IsPiece

\* Position k of a sequence in which the pieces between the positions c1, c2 and
\* c3 have changed places is this one of the sequence before.
SwapPos(c1, c2, c3, k) ==
    IF k < c1 \/ k >= c3 THEN k
    ELSE IF k < c1 + (c3 - c2) THEN k - c1 + c2 ELSE k - (c3 - c2)

LEMMA SwapBlocks ==
    ASSUME NEW S, NEW s \in Seq(S), NEW c1 \in 1 .. Len(s) + 1,
           NEW c2 \in c1 .. Len(s) + 1, NEW c3 \in c2 .. Len(s) + 1
    PROVE  LET u == SubSeq(s, 1, c1 - 1) \o SubSeq(s, c2, c3 - 1)
                       \o SubSeq(s, c1, c2 - 1) \o SubSeq(s, c3, Len(s))
           IN  /\ u \in Seq(S) /\ Len(u) = Len(s)
               /\ \A k \in 1 .. Len(s) : u[k] = s[SwapPos(c1, c2, c3, k)]
<1>1. /\ 1 \in 1 .. Len(s) + 1 /\ c2 \in 1 .. Len(s) + 1 /\ c3 \in 1 .. Len(s) + 1
      /\ c1 \in 1 .. Len(s) + 1
  BY LenProperties
<1>2. SubSeq(s, 1, c1 - 1) \in Seq(S) /\ IsPiece(SubSeq(s, 1, c1 - 1), s, 1, c1)
  BY <1>1, PieceOf
<1>3. SubSeq(s, c2, c3 - 1) \in Seq(S) /\ IsPiece(SubSeq(s, c2, c3 - 1), s, c2, c3)
  BY <1>1, PieceOf
<1>4. SubSeq(s, c1, c2 - 1) \in Seq(S) /\ IsPiece(SubSeq(s, c1, c2 - 1), s, c1, c2)
  BY <1>1, PieceOf
<1>5. SubSeq(s, c3, Len(s)) \in Seq(S) /\ IsBack(SubSeq(s, c3, Len(s)), s, c3)
  BY <1>1, BackPiece
<1>6. PICK p \in Seq(S), q \in Seq(S), r \in Seq(S), t \in Seq(S) :
      /\ p = SubSeq(s, 1, c1 - 1) /\ IsPiece(p, s, 1, c1)
      /\ q = SubSeq(s, c2, c3 - 1) /\ IsPiece(q, s, c2, c3)
      /\ r = SubSeq(s, c1, c2 - 1) /\ IsPiece(r, s, c1, c2)
      /\ t = SubSeq(s, c3, Len(s)) /\ IsBack(t, s, c3)
  BY <1>2, <1>3, <1>4, <1>5
<1>7. /\ Len(s) \in Nat /\ Len(p) = c1 - 1 /\ Len(q) = c3 - c2 /\ Len(r) = c2 - c1
      /\ Len(t) = Len(s) - c3 + 1
  BY <1>6, LenProperties DEF IsPiece, IsBack
<1>8. PICK v : v = p \o q \o r
  OBVIOUS
<1>9. PICK u : u = v \o t
  OBVIOUS
<1>10. IsPiece(p, s, 1, c1) /\ IsPiece(q, s, c2, c3) /\ IsPiece(r, s, c1, c2) /\ IsBack(t, s, c3)
  BY <1>6
<1>11. /\ v \in Seq(S) /\ Len(v) = Len(p) + Len(q) + Len(r)
       /\ \A k \in 1 .. Len(p) : v[k] = p[k]
       /\ \A k \in 1 .. Len(q) : v[Len(p) + k] = q[k]
       /\ \A k \in 1 .. Len(r) : v[Len(p) + Len(q) + k] = r[k]
  <2>1. /\ p \o q \o r \in Seq(S) /\ Len(p \o q \o r) = Len(p) + Len(q) + Len(r)
        /\ \A k \in 1 .. Len(p) : (p \o q \o r)[k] = p[k]
        /\ \A k \in 1 .. Len(q) : (p \o q \o r)[Len(p) + k] = q[k]
        /\ \A k \in 1 .. Len(r) : (p \o q \o r)[Len(p) + Len(q) + k] = r[k]
    BY Three, SMTT(30)
  <2> QED BY <1>8, <2>1
<1>12. Len(v) = c3 - 1
  BY <1>7, <1>11
<1>13. /\ u \in Seq(S) /\ Len(u) = Len(v) + Len(t)
       /\ \A k \in 1 .. Len(v) + Len(t) : u[k] = IF k <= Len(v) THEN v[k] ELSE t[k - Len(v)]
  <2>1. PICK w \in Seq(S) : w = v
    BY <1>11
  <2>2. /\ w \o t \in Seq(S) /\ Len(w \o t) = Len(w) + Len(t)
        /\ \A k \in 1 .. Len(w) + Len(t) : (w \o t)[k] = IF k <= Len(w) THEN w[k] ELSE t[k - Len(w)]
    BY ConcatProperties
  <2> QED BY <1>9, <2>1, <2>2
<1>14. Len(u) = Len(s)
  BY <1>7, <1>12, <1>13
<1>15. ASSUME NEW k \in 1 .. Len(s) PROVE u[k] = s[SwapPos(c1, c2, c3, k)]
  <2>1. CASE k < c1
    <3>1. k \in 1 .. Len(p) /\ k <= Len(v) /\ k \in 1 .. Len(v) + Len(t) /\ k \in 1 .. c1 - 1
          /\ 1 + k - 1 = k
      BY <1>7, <1>12, <2>1
    <3>2. u[k] = p[k]
      BY <1>11, <1>13, <3>1
    <3>3. p[k] = s[1 + k - 1]
      BY <1>10, <3>1 DEF IsPiece
    <3> QED BY <2>1, <3>1, <3>2, <3>3 DEF SwapPos
  <2>2. CASE k >= c1 /\ k < c1 + (c3 - c2)
    <3>1. PICK h \in 1 .. c3 - c2 : h = k - c1 + 1
      BY <1>7, <2>2
    <3>2. h \in 1 .. Len(q) /\ Len(p) + h = k /\ k <= Len(v) /\ k \in 1 .. Len(v) + Len(t)
          /\ c2 + h - 1 = k - c1 + c2 /\ ~(k < c1 \/ k >= c3)
      BY <1>7, <1>12, <2>2, <3>1
    <3>3. u[k] = q[h]
      BY <1>11, <1>13, <3>2
    <3>4. q[h] = s[c2 + h - 1]
      BY <1>10, <3>1 DEF IsPiece
    <3> QED BY <2>2, <3>2, <3>3, <3>4 DEF SwapPos
  <2>3. CASE k >= c1 + (c3 - c2) /\ k < c3
    <3>1. PICK h \in 1 .. c2 - c1 : h = k - c1 - (c3 - c2) + 1
      BY <1>7, <2>3
    <3>2. h \in 1 .. Len(r) /\ Len(p) + Len(q) + h = k /\ k <= Len(v) /\ k \in 1 .. Len(v) + Len(t)
          /\ c1 + h - 1 = k - (c3 - c2) /\ ~(k < c1 \/ k >= c3) /\ ~(k < c1 + (c3 - c2))
      BY <1>7, <1>12, <2>3, <3>1
    <3>3. u[k] = r[h]
      BY <1>11, <1>13, <3>2
    <3>4. r[h] = s[c1 + h - 1]
      BY <1>10, <3>1 DEF IsPiece
    <3> QED BY <3>2, <3>3, <3>4 DEF SwapPos
  <2>4. CASE k >= c3
    <3>1. ~(k <= Len(v)) /\ k \in 1 .. Len(v) + Len(t) /\ k - Len(v) = k - c3 + 1 /\ k \in c3 .. Len(s)
      BY <1>7, <1>12, <2>4
    <3>2. u[k] = t[k - c3 + 1]
      BY <1>13, <3>1
    <3>3. t[k - c3 + 1] = s[k]
      BY <1>10, <3>1 DEF IsBack
    <3> QED BY <2>4, <3>2, <3>3 DEF SwapPos
  <2>5. \/ k < c1
        \/ k >= c1 /\ k < c1 + (c3 - c2)
        \/ k >= c1 + (c3 - c2) /\ k < c3
        \/ k >= c3
    BY <1>7
  <2> QED BY <2>1, <2>2, <2>3, <2>4, <2>5
<1> QED BY <1>6, <1>8, <1>9, <1>13, <1>14, <1>15

\* What Relink does to the links, when the elements do not stay where they are:
\* F to Z go from between A and E to between Y and B.
Relinked(A, F, Z, E, Y, B) ==
    /\ prev' \in [Nodes -> Nodes \cup {NULL}] /\ next' \in [Nodes -> Nodes \cup {NULL}]
    /\ next'[A] = E /\ next'[Z] = B /\ next'[Y] = F
    /\ prev'[E] = A /\ prev'[B] = Z /\ prev'[F] = Y
    /\ \A n \in Nodes : /\ n \notin {A, Z, Y} => next'[n] = next[n]
                        /\ n \notin {E, B, F} => prev'[n] = prev[n]

LEMMA RelinkLinks ==
    ASSUME ListTypeOK, NEW A \in Nodes, NEW F \in Nodes, NEW Z \in Nodes, NEW E \in Nodes,
           NEW Y \in Nodes, NEW B \in Nodes,
           prev[F] = A, prev[E] = Z, next[Z] = E, prev[B] = Y,
           A # Z, A # Y, Y # Z, E # F, E # B, B # F, Relink(B, F, E)
    PROVE  Relinked(A, F, Z, E, Y, B)
<1>1. PICK prev1 : prev1 = [prev EXCEPT ![E] = A]
  OBVIOUS
<1>2. PICK next1 : next1 = [next EXCEPT ![A] = E]
  OBVIOUS
<1>3. /\ prev1 \in [Nodes -> Nodes \cup {NULL}] /\ next1 \in [Nodes -> Nodes \cup {NULL}]
      /\ prev1[E] = A /\ \A n \in Nodes \ {E} : prev1[n] = prev[n]
      /\ next1[A] = E /\ \A n \in Nodes \ {A} : next1[n] = next[n]
  BY <1>1, <1>2 DEF ListTypeOK
<1>4. prev1[B] = Y
  BY <1>3
<1>5. /\ prev' = [prev1 EXCEPT ![F] = Y, ![B] = Z]
      /\ next' = [next1 EXCEPT ![Z] = B, ![Y] = F]
  BY <1>1, <1>2, <1>4 DEF Relink
<1> QED BY <1>3, <1>5 DEF Relinked

\* When they do, nothing changes.
LEMMA RelinkInPlace ==
    ASSUME ListTypeOK, NEW A \in Nodes, NEW F \in Nodes, NEW Z \in Nodes, NEW E \in Nodes,
           prev[F] = A, next[A] = F, prev[E] = Z, next[Z] = E, A # Z, E # F, Relink(E, F, E)
    PROVE  /\ prev' \in [Nodes -> Nodes \cup {NULL}] /\ next' \in [Nodes -> Nodes \cup {NULL}]
           /\ \A n \in Nodes : next'[n] = next[n] /\ prev'[n] = prev[n]
<1>1. PICK prev1 : prev1 = [prev EXCEPT ![E] = A]
  OBVIOUS
<1>2. PICK next1 : next1 = [next EXCEPT ![A] = E]
  OBVIOUS
<1>3. /\ prev1 \in [Nodes -> Nodes \cup {NULL}] /\ next1 \in [Nodes -> Nodes \cup {NULL}]
      /\ prev1[E] = A /\ \A n \in Nodes \ {E} : prev1[n] = prev[n]
      /\ next1[A] = E /\ \A n \in Nodes \ {A} : next1[n] = next[n]
  BY <1>1, <1>2 DEF ListTypeOK
<1>4. /\ prev' = [prev1 EXCEPT ![F] = A, ![E] = Z]
      /\ next' = [next1 EXCEPT ![Z] = E, ![A] = F]
  BY <1>1, <1>2, <1>3 DEF Relink
<1> QED BY <1>3, <1>4

\* The two nodes are linked to each other after the step.
Joined(n, o) == next'[n] = o /\ prev'[o] = n

\* What list_splice does to the links, unless it puts the elements back where
\* they are: three pairs of nodes are joined anew and the others stay joined.
Spliced(l, a, b, m, j) ==
    /\ Joined(At(l, a - 1), At(l, b))
    /\ Joined(At(l, b - 1), At(m, j))
    /\ Joined(At(m, j - 1), At(l, a))
    /\ \A x \in Lists : \A k \in 0 .. Len(content[x]) :
          ~(x = l /\ k \in {a - 1, b - 1}) /\ ~(x = m /\ k = j - 1)
             => Joined(At(x, k), At(x, k + 1))

LEMMA SpliceLinks ==
    ASSUME ListTypeOK, Distinct, \A x \in Lists : Straight(x),
           NEW l \in Lists, NEW m \in Lists, NEW a \in Places(l),
           NEW b \in a + 1 .. Len(content[l]) + 1, NEW j \in 1 .. Len(content[m]) + 1,
           l = m => j < a \/ j > b, Relink(At(m, j), At(l, a), At(l, b))
    PROVE  /\ prev' \in [Nodes -> Nodes \cup {NULL}] /\ next' \in [Nodes -> Nodes \cup {NULL}]
           /\ Spliced(l, a, b, m, j)
           /\ \A x \in Lists : /\ prev'[HeadOf(x)] = prev[HeadOf(x)]
                               /\ next'[TailOf(x)] = next[TailOf(x)]
<1>1. /\ Len(content[l]) \in Nat /\ Len(content[m]) \in Nat /\ a \in 1 .. Len(content[l])
      /\ \A x \in Lists : \A k \in Spots(x) : At(x, k) \in Nodes
  BY SpotFacts
<1>2. /\ a - 1 \in Spots(l) /\ a \in Spots(l) /\ b - 1 \in Spots(l) /\ b \in Spots(l)
      /\ j - 1 \in Spots(m) /\ j \in Spots(m)
      /\ a \in 1 .. Len(content[l]) + 1 /\ b \in 1 .. Len(content[l]) + 1
      /\ b - 1 \in 0 .. Len(content[l]) /\ b - 1 + 1 = b
  BY <1>1 DEF Spots
<1>3. PICK A \in Nodes, F \in Nodes, Z \in Nodes, E \in Nodes, Y \in Nodes, B \in Nodes :
         /\ A = At(l, a - 1) /\ F = At(l, a) /\ Z = At(l, b - 1) /\ E = At(l, b)
         /\ Y = At(m, j - 1) /\ B = At(m, j)
  BY <1>1, <1>2
<1>4. prev[F] = A /\ prev[E] = Z /\ prev[B] = Y /\ next[Z] = E
  BY <1>2, <1>3, Neighbours
<1>5. /\ \A x \in Lists : \A k \in Spots(x) : At(x, k) = A => x = l /\ k = a - 1
      /\ \A x \in Lists : \A k \in Spots(x) : At(x, k) = F => x = l /\ k = a
      /\ \A x \in Lists : \A k \in Spots(x) : At(x, k) = Z => x = l /\ k = b - 1
      /\ \A x \in Lists : \A k \in Spots(x) : At(x, k) = E => x = l /\ k = b
      /\ \A x \in Lists : \A k \in Spots(x) : At(x, k) = Y => x = m /\ k = j - 1
      /\ \A x \in Lists : \A k \in Spots(x) : At(x, k) = B => x = m /\ k = j
  BY <1>2, <1>3, SpotsApart
<1>6. A # Z /\ A # Y /\ Y # Z /\ E # F /\ E # B /\ B # F
  <2>1. a - 1 # b - 1 /\ b # a
    BY <1>1
  <2>2. l = m => a - 1 # j - 1 /\ j - 1 # b - 1 /\ b # j /\ j # a
    BY <1>1
  <2> QED BY <1>2, <1>3, <1>5, <2>1, <2>2
<1>7. /\ prev' \in [Nodes -> Nodes \cup {NULL}] /\ next' \in [Nodes -> Nodes \cup {NULL}]
      /\ next'[A] = E /\ next'[Z] = B /\ next'[Y] = F
      /\ prev'[E] = A /\ prev'[B] = Z /\ prev'[F] = Y
      /\ \A n \in Nodes : /\ n \notin {A, Z, Y} => next'[n] = next[n]
                          /\ n \notin {E, B, F} => prev'[n] = prev[n]
  <2>1. /\ Relink(B, F, E)
        /\ A \in Nodes /\ F \in Nodes /\ Z \in Nodes /\ E \in Nodes /\ Y \in Nodes /\ B \in Nodes
    BY <1>3
  <2>2. Relinked(A, F, Z, E, Y, B)
    BY <1>4, <1>6, <2>1, RelinkLinks
  <2> QED BY <2>2 DEF Relinked
<1>8. Joined(A, E) /\ Joined(Z, B) /\ Joined(Y, F)
  BY <1>7 DEF Joined
<1>9. ASSUME NEW x \in Lists, NEW k \in 0 .. Len(content[x]),
             ~(x = l /\ k \in {a - 1, b - 1}), ~(x = m /\ k = j - 1)
      PROVE  Joined(At(x, k), At(x, k + 1))
  <2>1. Len(content[x]) \in Nat
    BY SpotFacts
  <2>2. k \in Spots(x) /\ k + 1 \in Spots(x)
    BY <2>1 DEF Spots
  <2>3. At(x, k) \notin {A, Z, Y}
    BY <1>5, <1>9, <2>2
  <2>4. At(x, k + 1) \notin {E, B, F}
    <3>1. /\ x = l => k + 1 # a /\ k + 1 # b
          /\ x = m => k + 1 # j
      BY <1>1, <1>9, <2>1
    <3> QED BY <1>5, <2>2, <3>1
  <2>5. next[At(x, k)] = At(x, k + 1) /\ prev[At(x, k + 1)] = At(x, k)
    BY DEF Straight
  <2> QED BY <1>1, <1>7, <2>2, <2>3, <2>4, <2>5 DEF Joined
<1>10. ASSUME NEW x \in Lists
       PROVE  prev'[HeadOf(x)] = prev[HeadOf(x)] /\ next'[TailOf(x)] = next[TailOf(x)]
  <2>1. /\ Len(content[x]) \in Nat
        /\ At(x, 0) = HeadOf(x) /\ At(x, Len(content[x]) + 1) = TailOf(x)
    BY SpotFacts
  <2>2. 0 \in Spots(x) /\ Len(content[x]) + 1 \in Spots(x)
    BY <2>1 DEF Spots
  <2>3. HeadOf(x) \notin {E, B, F}
    <3>1. 0 # b /\ 0 # j /\ 0 # a
      BY <1>1
    <3> QED BY <1>5, <2>1, <2>2, <3>1
  <2>4. TailOf(x) \notin {A, Z, Y}
    <3>1. /\ x = l => Len(content[x]) + 1 # a - 1 /\ Len(content[x]) + 1 # b - 1
          /\ x = m => Len(content[x]) + 1 # j - 1
      BY <1>1
    <3> QED BY <1>5, <2>1, <2>2, <3>1
  <2> QED BY <1>7, <2>3, <2>4, SentinelFacts
<1> QED BY <1>3, <1>7, <1>8, <1>9, <1>10 DEF Spliced

\* The nodes of a list in which two pieces have changed places.
IsSwapped(u, s, c1, c2, c3) ==
    Len(u) = Len(s) /\ \A k \in 1 .. Len(s) : u[k] = s[SwapPos(c1, c2, c3, k)]

LEMMA SwapSpots ==
    ASSUME ListTypeOK, NEW l \in Lists, NEW c1 \in 1 .. Len(content[l]) + 1,
           NEW c2 \in c1 .. Len(content[l]) + 1, NEW c3 \in c2 .. Len(content[l]) + 1,
           IsSwapped(content'[l], content[l], c1, c2, c3)
    PROVE  \A k \in Spots(l) : At(l, k)' = At(l, SwapPos(c1, c2, c3, k))
<1> SUFFICES ASSUME NEW k \in Spots(l)
             PROVE  At(l, k)' = At(l, SwapPos(c1, c2, c3, k))
  OBVIOUS
<1>1. PICK n \in Nat : n = Len(content[l])
  BY SpotFacts
<1>2. /\ \A i \in 1 .. n : SwapPos(c1, c2, c3, i) \in 1 .. n
      /\ SwapPos(c1, c2, c3, 0) = 0 /\ SwapPos(c1, c2, c3, n + 1) = n + 1
  <2>1. c1 \in 1 .. n + 1 /\ c2 \in c1 .. n + 1 /\ c3 \in c2 .. n + 1 /\ n \in Nat
    BY <1>1
  <2> QED BY <2>1 DEF SwapPos
<1>3. Len(content'[l]) = n /\ \A i \in 1 .. n : content'[l][i] = content[l][SwapPos(c1, c2, c3, i)]
  BY <1>1 DEF IsSwapped
<1>4. CASE k \in 1 .. n
  <2>1. PICK h \in 1 .. n : h = SwapPos(c1, c2, c3, k)
    BY <1>2, <1>4
  <2>2. h # 0 /\ h # n + 1 /\ k # 0 /\ k # n + 1
    BY <1>4
  <2> QED BY <1>1, <1>3, <1>4, <2>1, <2>2 DEF At
<1>5. CASE k = 0
  BY <1>2, <1>5 DEF At
<1>6. CASE k = n + 1
  BY <1>1, <1>2, <1>3, <1>6 DEF At
<1>7. k \in 1 .. n \/ k = 0 \/ k = n + 1
  BY <1>1 DEF Spots
<1> QED BY <1>4, <1>5, <1>6, <1>7

LEMMA SwapDistinct ==
    ASSUME ListTypeOK, Distinct, NEW l \in Lists, NEW c1 \in 1 .. Len(content[l]) + 1,
           NEW c2 \in c1 .. Len(content[l]) + 1, NEW c3 \in c2 .. Len(content[l]) + 1,
           OnlyList(l), IsSwapped(content'[l], content[l], c1, c2, c3)
    PROVE  Distinct'
<1>1. PICK n \in Nat : n = Len(content[l]) /\ Places(l) = 1 .. n
  BY SpotFacts
<1>2. /\ \A i \in 1 .. n : SwapPos(c1, c2, c3, i) \in 1 .. n
      /\ \A i, h \in 1 .. n : SwapPos(c1, c2, c3, i) = SwapPos(c1, c2, c3, h) => i = h
  <2>1. c1 \in 1 .. n + 1 /\ c2 \in c1 .. n + 1 /\ c3 \in c2 .. n + 1 /\ n \in Nat
    BY <1>1
  <2> QED BY <2>1 DEF SwapPos
<1> DEFINE Was(x, k) == IF x = l THEN SwapPos(c1, c2, c3, k) ELSE k
<1>3. ASSUME NEW x \in Lists, NEW k \in Places(x)'
      PROVE  /\ Was(x, k) \in Places(x) /\ content'[x][k] = content[x][Was(x, k)]
             /\ x = l => k \in 1 .. n
  <2>1. CASE x = l
    <3>1. k \in 1 .. n /\ content'[l][k] = content[l][SwapPos(c1, c2, c3, k)]
      BY <1>1, <2>1 DEF IsSwapped, Places
    <3> QED BY <1>1, <1>2, <2>1, <3>1
  <2>2. CASE x # l
    BY <2>2 DEF OnlyList, Places
  <2> QED BY <2>1, <2>2
<1> SUFFICES ASSUME NEW x \in Lists, NEW y \in Lists, NEW i \in Places(x)', NEW k \in Places(y)',
                    content'[x][i] = content'[y][k]
             PROVE  x = y /\ i = k
  BY DEF Distinct
<1>4. PICK v \in Places(x), w \in Places(y) :
         v = Was(x, i) /\ w = Was(y, k) /\ content[x][v] = content[y][w]
  BY <1>3
<1>5. x = y /\ v = w
  BY <1>4 DEF Distinct
<1> QED BY <1>2, <1>3, <1>4, <1>5

\* The content after a splice within a list: two neighbouring pieces have
\* changed places.
LEMMA MovedWithin ==
    ASSUME ListTypeOK, NEW l \in Lists, NEW a \in Places(l),
           NEW b \in a + 1 .. Len(content[l]) + 1, NEW j \in 1 .. Len(content[l]) + 1,
           j < a \/ j >= b, content' = Moved(l, a, b, l, j)
    PROVE  /\ OnlyList(l)
           /\ j < a  => IsSwapped(content'[l], content[l], j, a, b)
           /\ j >= b => IsSwapped(content'[l], content[l], a, b, j)
<1>1. /\ content[l] \in Seq(Elem) /\ Len(content[l]) \in Nat /\ a \in 1 .. Len(content[l])
      /\ content \in [Lists -> Seq(Elem)]
  BY SpotFacts DEF ListTypeOK
<1>2. PICK s \in Seq(Elem) : s = content[l]
  BY <1>1
<1>3. Len(s) \in Nat /\ a \in 1 .. Len(s) /\ b \in a + 1 .. Len(s) + 1 /\ j \in 1 .. Len(s) + 1
      /\ s \in Seq(Elem)
  BY <1>1, <1>2
<1>4. CASE j < a
  <2>1. a \in j .. Len(s) + 1 /\ b \in a .. Len(s) + 1
    BY <1>3, <1>4
  <2>2. LET u == SubSeq(s, 1, j - 1) \o SubSeq(s, a, b - 1)
                    \o SubSeq(s, j, a - 1) \o SubSeq(s, b, Len(s))
        IN  u \in Seq(Elem) /\ Len(u) = Len(s)
            /\ \A k \in 1 .. Len(s) : u[k] = s[SwapPos(j, a, b, k)]
    BY <1>3, <2>1, SwapBlocks
  <2>3. PICK u \in Seq(Elem) :
           /\ u = SubSeq(s, 1, j - 1) \o SubSeq(s, a, b - 1)
                    \o SubSeq(s, j, a - 1) \o SubSeq(s, b, Len(s))
           /\ IsSwapped(u, s, j, a, b)
    BY <2>2 DEF IsSwapped
  <2>4. content' = [content EXCEPT ![l] = u]
    BY <1>2, <1>4, <2>3 DEF Moved
  <2>5. u \in Seq(Elem) /\ IsSwapped(u, s, j, a, b)
    BY <2>3
  <2>6. content'[l] = u /\ OnlyList(l)
    BY <1>1, <2>4, <2>5 DEF OnlyList
  <2>7. ~(j >= b)
    BY <1>3, <1>4
  <2> QED BY <1>2, <2>5, <2>6, <2>7
<1>5. CASE j >= b
  <2>1. b \in a .. Len(s) + 1 /\ j \in b .. Len(s) + 1 /\ a \in 1 .. Len(s) + 1 /\ ~(j < a)
    BY <1>3, <1>5
  <2>2. LET u == SubSeq(s, 1, a - 1) \o SubSeq(s, b, j - 1)
                    \o SubSeq(s, a, b - 1) \o SubSeq(s, j, Len(s))
        IN  u \in Seq(Elem) /\ Len(u) = Len(s)
            /\ \A k \in 1 .. Len(s) : u[k] = s[SwapPos(a, b, j, k)]
    BY <1>3, <2>1, SwapBlocks
  <2>3. PICK u \in Seq(Elem) :
           /\ u = SubSeq(s, 1, a - 1) \o SubSeq(s, b, j - 1)
                    \o SubSeq(s, a, b - 1) \o SubSeq(s, j, Len(s))
           /\ IsSwapped(u, s, a, b, j)
    BY <2>2 DEF IsSwapped
  <2>4. content' = [content EXCEPT ![l] = u]
    BY <1>2, <2>1, <2>3 DEF Moved
  <2>5. u \in Seq(Elem) /\ IsSwapped(u, s, a, b, j)
    BY <2>3
  <2>6. content'[l] = u /\ OnlyList(l)
    BY <1>1, <2>4, <2>5 DEF OnlyList
  <2> QED BY <1>2, <2>1, <2>5, <2>6
<1> QED BY <1>4, <1>5

\* The content after a splice from one list to another: the elements are cut out
\* of the one and put in the other.
LEMMA MovedAcross ==
    ASSUME ListTypeOK, NEW l \in Lists, NEW m \in Lists, l # m, NEW a \in Places(l),
           NEW b \in a + 1 .. Len(content[l]) + 1, NEW j \in 1 .. Len(content[m]) + 1,
           content' = Moved(l, a, b, m, j)
    PROVE  /\ content' \in [Lists -> Seq(Elem)]
           /\ \A x \in Lists \ {l, m} : content'[x] = content[x]
           /\ IsCutOut(content'[l], content[l], a, b)
           /\ \E part \in Seq(Elem) : /\ IsPiece(part, content[l], a, b)
                                      /\ IsPutIn(content'[m], content[m], j, part)
<1>1. /\ content[l] \in Seq(Elem) /\ Len(content[l]) \in Nat /\ a \in 1 .. Len(content[l])
      /\ content[m] \in Seq(Elem) /\ content \in [Lists -> Seq(Elem)]
  BY SpotFacts DEF ListTypeOK
<1>2. PICK s \in Seq(Elem), t \in Seq(Elem) : s = content[l] /\ t = content[m]
  BY <1>1
<1>3. Len(s) \in Nat /\ a \in 1 .. Len(s) /\ a \in 1 .. Len(s) + 1 /\ b \in a .. Len(s) + 1
      /\ b \in a + 1 .. Len(s) + 1 /\ j \in 1 .. Len(t) + 1
      /\ s \in Seq(Elem) /\ t \in Seq(Elem)
  BY <1>1, <1>2
<1>4. SubSeq(s, a, b - 1) \in Seq(Elem) /\ IsPiece(SubSeq(s, a, b - 1), s, a, b)
  BY <1>3, PieceOf
<1>5. PICK part \in Seq(Elem) : part = SubSeq(s, a, b - 1) /\ IsPiece(part, s, a, b)
  BY <1>4
<1>6. LET u == SubSeq(s, 1, a - 1) \o SubSeq(s, b, Len(s))
      IN  u \in Seq(Elem) /\ IsCutOut(u, s, a, b)
  BY <1>3, CutOut
<1>7. PICK u \in Seq(Elem) : /\ u = SubSeq(s, 1, a - 1) \o SubSeq(s, b, Len(s))
                             /\ IsCutOut(u, s, a, b)
  BY <1>6
<1>8. part \in Seq(Elem)
  BY <1>5
<1>9. LET v == SubSeq(t, 1, j - 1) \o part \o SubSeq(t, j, Len(t))
      IN  v \in Seq(Elem) /\ IsPutIn(v, t, j, part)
  BY <1>3, <1>8, PutIn
<1>10. PICK v \in Seq(Elem) : /\ v = SubSeq(t, 1, j - 1) \o part \o SubSeq(t, j, Len(t))
                              /\ IsPutIn(v, t, j, part)
  BY <1>9
<1>11. content' = [content EXCEPT ![l] = u, ![m] = v]
  BY <1>2, <1>5, <1>7, <1>10 DEF Moved
<1>12. /\ IsCutOut(u, s, a, b) /\ IsPutIn(v, t, j, part) /\ IsPiece(part, s, a, b)
       /\ u \in Seq(Elem) /\ v \in Seq(Elem)
  BY <1>5, <1>7, <1>10
<1>13. /\ content'[l] = u /\ content'[m] = v /\ content' \in [Lists -> Seq(Elem)]
       /\ \A x \in Lists \ {l, m} : content'[x] = content[x]
  BY <1>1, <1>11, <1>12
<1> QED BY <1>2, <1>8, <1>12, <1>13

\* Where the nodes are in the list the elements go to.
LEMMA PutInSpots ==
    ASSUME ListTypeOK, NEW l \in Lists, NEW m \in Lists, NEW a \in Places(l),
           NEW b \in a + 1 .. Len(content[l]) + 1, NEW j \in 1 .. Len(content[m]) + 1,
           NEW part \in Seq(Elem), IsPiece(part, content[l], a, b),
           IsPutIn(content'[m], content[m], j, part)
    PROVE  /\ Len(content'[m]) = Len(content[m]) + (b - a)
           /\ \A k \in 0 .. j - 1 : At(m, k)' = At(m, k)
           /\ \A k \in j .. j + (b - a) - 1 : At(m, k)' = At(l, a + (k - j))
           /\ \A k \in j + (b - a) .. Len(content[m]) + (b - a) + 1 :
                 At(m, k)' = At(m, k - (b - a))
<1>1. PICK n \in Nat, r \in Nat : n = Len(content[l]) /\ r = Len(content[m])
  BY SpotFacts
<1>2. PICK d \in Nat : d = b - a
  BY <1>1, SpotFacts
<1>3. /\ a \in 1 .. n /\ b \in a + 1 .. n + 1 /\ j \in 1 .. r + 1 /\ d >= 1 /\ a + d = b
      /\ n \in Nat /\ r \in Nat /\ d \in Nat
  BY <1>1, <1>2, SpotFacts
<1>4. /\ Len(part) = d /\ \A k \in 1 .. d : part[k] = content[l][a + k - 1]
      /\ Len(content'[m]) = r + d
      /\ \A k \in 1 .. j - 1 : content'[m][k] = content[m][k]
      /\ \A k \in 1 .. d : content'[m][j - 1 + k] = part[k]
      /\ \A k \in j .. r : content'[m][k + d] = content[m][k]
  BY <1>1, <1>2 DEF IsPiece, IsPutIn
<1>5. ASSUME NEW k \in 0 .. j - 1 PROVE At(m, k)' = At(m, k)
  <2>1. k # r + 1 /\ k # r + d + 1 /\ (k = 0 \/ k \in 1 .. j - 1)
    BY <1>3
  <2> QED BY <1>1, <1>4, <2>1 DEF At
<1>6. ASSUME NEW k \in j .. j + d - 1 PROVE At(m, k)' = At(l, a + (k - j))
  <2>1. PICK h \in 1 .. d : h = k - j + 1
    BY <1>3
  <2>2. k = j - 1 + h /\ a + (k - j) = a + h - 1 /\ k # 0 /\ k # r + d + 1 /\ a + h - 1 # 0
        /\ a + h - 1 # n + 1
    BY <1>3, <2>1
  <2>3. content'[m][k] = content[l][a + h - 1]
    BY <1>4, <2>1, <2>2
  <2> QED BY <1>1, <1>4, <2>2, <2>3 DEF At
<1>7. ASSUME NEW k \in j + d .. r + d + 1 PROVE At(m, k)' = At(m, k - d)
  <2>1. k # 0 /\ k - d # 0 /\ (k = r + d + 1 <=> k - d = r + 1)
        /\ (k - d # r + 1 => k - d \in j .. r /\ (k - d) + d = k)
    BY <1>3, SMTT(30)
  <2>2. k - d # r + 1 => content'[m][k] = content[m][k - d]
    BY <1>4, <2>1
  <2> QED BY <1>1, <1>4, <2>1, <2>2 DEF At
<1> QED BY <1>1, <1>2, <1>4, <1>5, <1>6, <1>7

\* No element stands twice after elements went from one list to another.
LEMMA AcrossDistinct ==
    ASSUME ListTypeOK, Distinct, NEW l \in Lists, NEW m \in Lists, l # m, NEW a \in Places(l),
           NEW b \in a + 1 .. Len(content[l]) + 1, NEW j \in 1 .. Len(content[m]) + 1,
           \A x \in Lists \ {l, m} : content'[x] = content[x],
           IsCutOut(content'[l], content[l], a, b),
           NEW part \in Seq(Elem), IsPiece(part, content[l], a, b),
           IsPutIn(content'[m], content[m], j, part)
    PROVE  Distinct'
<1>1. PICK n \in Nat, r \in Nat, d \in Nat :
         n = Len(content[l]) /\ r = Len(content[m]) /\ d = b - a
  <2>1. Len(content[l]) \in Nat /\ Len(content[m]) \in Nat /\ b - a \in Nat
    BY SpotFacts
  <2> QED BY <2>1
<1>2. /\ a \in 1 .. n /\ b \in a + 1 .. n + 1 /\ j \in 1 .. r + 1 /\ d >= 1 /\ a + d = b
      /\ n \in Nat /\ r \in Nat /\ d \in Nat /\ Places(l) = 1 .. n /\ Places(m) = 1 .. r
  BY <1>1, SpotFacts, SMTT(30)
<1>3. /\ Len(content'[l]) = n - d /\ Len(content'[m]) = r + d
      /\ \A k \in 1 .. a - 1 : content'[l][k] = content[l][k]
      /\ \A k \in a .. n - d : content'[l][k] = content[l][k + d]
      /\ \A k \in 1 .. j - 1 : content'[m][k] = content[m][k]
      /\ \A k \in 1 .. d : content'[m][j - 1 + k] = content[l][a + k - 1]
      /\ \A k \in j .. r : content'[m][k + d] = content[m][k]
  BY <1>1 DEF IsCutOut, IsPiece, IsPutIn
<1> DEFINE Of(x, k)  == IF x = m /\ k >= j /\ k < j + d THEN l ELSE x
           Was(x, k) == IF x = l THEN IF k < a THEN k ELSE k + d
                        ELSE IF x = m THEN IF k < j THEN k
                                           ELSE IF k < j + d THEN a + (k - j) ELSE k - d
                        ELSE k
<1>4. ASSUME NEW x \in Lists, NEW k \in Places(x)'
      PROVE  /\ k \in Int /\ Of(x, k) \in Lists /\ Was(x, k) \in Places(Of(x, k))
             /\ content'[x][k] = content[Of(x, k)][Was(x, k)]
  <2>1. CASE x = l
    <3>1. k \in 1 .. n - d
      BY <1>3, <2>1 DEF Places
    <3>2. CASE k < a
      <4>1. k \in 1 .. a - 1 /\ k \in 1 .. n
        BY <1>2, <3>1, <3>2
      <4> QED BY <1>2, <1>3, <2>1, <3>1, <3>2, <4>1
    <3>3. CASE ~(k < a)
      <4>1. k \in a .. n - d /\ k + d \in 1 .. n
        BY <1>2, <3>1, <3>3
      <4> QED BY <1>2, <1>3, <2>1, <3>1, <3>3, <4>1
    <3> QED BY <3>2, <3>3
  <2>2. CASE x = m
    <3>1. k \in 1 .. r + d
      BY <1>3, <2>2 DEF Places
    <3>2. CASE k < j
      <4>1. k \in 1 .. j - 1 /\ k \in 1 .. r /\ ~(k >= j)
        BY <1>2, <3>1, <3>2
      <4> QED BY <1>2, <1>3, <2>2, <3>1, <3>2, <4>1
    <3>3. CASE k >= j /\ k < j + d
      <4>1. PICK h \in 1 .. d : h = k - j + 1
        BY <1>2, <3>1, <3>3
      <4>2. j - 1 + h = k /\ a + h - 1 = a + (k - j) /\ a + (k - j) \in 1 .. n /\ ~(k < j)
        BY <1>2, <3>1, <3>3, <4>1
      <4>3. content'[m][k] = content[l][a + (k - j)]
        BY <1>3, <4>1, <4>2
      <4> QED BY <1>2, <2>2, <3>1, <3>3, <4>2, <4>3
    <3>4. CASE k >= j + d
      <4>1. PICK h \in j .. r : h = k - d
        BY <1>2, <3>1, <3>4
      <4>2. h + d = k /\ h \in 1 .. r /\ ~(k < j) /\ ~(k < j + d)
        BY <1>2, <3>1, <3>4, <4>1
      <4>3. content'[m][k] = content[m][h]
        BY <1>3, <4>1, <4>2
      <4> QED BY <1>2, <2>2, <3>1, <4>1, <4>2, <4>3
    <3> QED BY <1>2, <3>1, <3>2, <3>3, <3>4
  <2>3. CASE x # l /\ x # m
    <3>1. content'[x] = content[x] /\ Places(x)' = Places(x) /\ k \in Int
      BY <2>3 DEF Places
    <3> QED BY <2>3, <3>1
  <2> QED BY <2>1, <2>2, <2>3
<1> SUFFICES ASSUME NEW x \in Lists, NEW y \in Lists, NEW i \in Places(x)', NEW k \in Places(y)',
                    content'[x][i] = content'[y][k]
             PROVE  x = y /\ i = k
  BY DEF Distinct
<1>5. PICK f \in Lists, g \in Lists : f = Of(x, i) /\ g = Of(y, k)
  BY <1>4
<1>6. PICK v \in Places(f), w \in Places(g) :
         v = Was(x, i) /\ w = Was(y, k) /\ content[f][v] = content[g][w]
  <2> HIDE DEF Of, Was
  <2>1. /\ Was(x, i) \in Places(f) /\ content'[x][i] = content[f][Was(x, i)]
        /\ Was(y, k) \in Places(g) /\ content'[y][k] = content[g][Was(y, k)]
    BY <1>4, <1>5
  <2> QED BY <2>1
<1>7. f = g /\ v = w
  BY <1>6 DEF Distinct
<1>8. i \in Int /\ k \in Int
  BY <1>4
<1>9. Of(x, i) = Of(y, k) /\ Was(x, i) = Was(y, k)
  BY <1>5, <1>6, <1>7
<1>10. x = y /\ i = k
  <2>1. CASE x = l /\ y = m
    BY <1>2, <1>8, <1>9, <2>1
  <2>2. CASE x = m /\ y = l
    BY <1>2, <1>8, <1>9, <2>2
  <2>3. CASE x = l /\ y = l
    BY <1>2, <1>8, <1>9, <2>3
  <2>4. CASE x = m /\ y = m
    BY <1>2, <1>8, <1>9, <2>4
  <2>5. CASE x \notin {l, m} \/ y \notin {l, m}
    BY <1>9, <2>5
  <2> QED BY <2>1, <2>2, <2>3, <2>4, <2>5
<1> QED BY <1>10

\* The links of a list in which two neighbouring pieces have changed places.
LEMMA WithinStraight ==
    ASSUME ListTypeOK, NEW l \in Lists, NEW c1 \in 1 .. Len(content[l]) + 1,
           NEW c2 \in c1 + 1 .. Len(content[l]) + 1, NEW c3 \in c2 + 1 .. Len(content[l]) + 1,
           IsSwapped(content'[l], content[l], c1, c2, c3),
           Joined(At(l, c1 - 1), At(l, c2)), Joined(At(l, c3 - 1), At(l, c1)),
           Joined(At(l, c2 - 1), At(l, c3)),
           \A k \in 0 .. Len(content[l]) :
              k \notin {c1 - 1, c2 - 1, c3 - 1} => Joined(At(l, k), At(l, k + 1))
    PROVE  Straight(l)'
<1>1. PICK n \in Nat : n = Len(content[l])
  BY SpotFacts
<1>2. n \in Nat /\ c1 \in 1 .. n + 1 /\ c2 \in c1 + 1 .. n + 1 /\ c3 \in c2 + 1 .. n + 1
  BY <1>1
<1>3. Len(content'[l]) = n
  BY <1>1 DEF IsSwapped
<1>4. \A k \in Spots(l) : At(l, k)' = At(l, SwapPos(c1, c2, c3, k))
  <2>1. c2 \in c1 .. Len(content[l]) + 1 /\ c3 \in c2 .. Len(content[l]) + 1
    BY <1>1, <1>2
  <2> QED BY <2>1, SwapSpots
<1> SUFFICES ASSUME NEW k \in 0 .. n
             PROVE  next'[At(l, k)'] = At(l, k + 1)' /\ prev'[At(l, k + 1)'] = At(l, k)'
  BY <1>3 DEF Straight
<1>5. PICK i, h : i = SwapPos(c1, c2, c3, k) /\ h = SwapPos(c1, c2, c3, k + 1)
  OBVIOUS
<1>6. \/ i = c1 - 1 /\ h = c2
      \/ i = c3 - 1 /\ h = c1
      \/ i = c2 - 1 /\ h = c3
      \/ h = i + 1 /\ i \in 0 .. n /\ i \notin {c1 - 1, c2 - 1, c3 - 1}
  BY <1>2, <1>5 DEF SwapPos
<1>7. At(l, k)' = At(l, i) /\ At(l, k + 1)' = At(l, h)
  <2>1. k \in Spots(l) /\ k + 1 \in Spots(l)
    BY <1>1 DEF Spots
  <2> QED BY <1>4, <1>5, <2>1
<1>8. Joined(At(l, i), At(l, h))
  BY <1>1, <1>6
<1> QED BY <1>7, <1>8 DEF Joined

\* The links of the list that elements were cut out of.
LEMMA FromStraight ==
    ASSUME ListTypeOK, NEW l \in Lists, NEW a \in Places(l),
           NEW b \in a + 1 .. Len(content[l]) + 1, IsCutOut(content'[l], content[l], a, b),
           Joined(At(l, a - 1), At(l, b)),
           \A k \in 0 .. Len(content[l]) :
              k \notin {a - 1, b - 1} => Joined(At(l, k), At(l, k + 1))
    PROVE  Straight(l)'
<1>1. PICK n \in Nat : n = Len(content[l])
  BY SpotFacts
<1>2. n \in Nat /\ a \in 1 .. n /\ b \in a + 1 .. n + 1
  BY <1>1, SpotFacts
<1>3. /\ Len(content'[l]) = n - (b - a)
      /\ \A k \in 0 .. a - 1 : At(l, k)' = At(l, k)
      /\ \A k \in a .. n - (b - a) + 1 : At(l, k)' = At(l, k + (b - a))
  BY <1>1, CutSpots
<1> SUFFICES ASSUME NEW k \in 0 .. n - (b - a)
             PROVE  next'[At(l, k)'] = At(l, k + 1)' /\ prev'[At(l, k + 1)'] = At(l, k)'
  BY <1>3 DEF Straight
<1>4. CASE k < a - 1
  <2>1. k \in 0 .. a - 1 /\ k + 1 \in 0 .. a - 1 /\ k \notin {a - 1, b - 1} /\ k \in 0 .. n
    BY <1>2, <1>4
  <2> QED BY <1>1, <1>3, <2>1 DEF Joined
<1>5. CASE k = a - 1
  <2>1. k \in 0 .. a - 1 /\ k + 1 \in a .. n - (b - a) + 1 /\ k + 1 + (b - a) = b
    BY <1>2, <1>5
  <2> QED BY <1>3, <1>5, <2>1 DEF Joined
<1>6. CASE k >= a
  <2>1. k \in a .. n - (b - a) + 1 /\ k + 1 \in a .. n - (b - a) + 1
    BY <1>2, <1>6
  <2>2. PICK i \in 0 .. n : i = k + (b - a) /\ i \notin {a - 1, b - 1} /\ k + 1 + (b - a) = i + 1
    BY <1>2, <1>6
  <2> QED BY <1>1, <1>3, <2>1, <2>2 DEF Joined
<1> QED BY <1>2, <1>4, <1>5, <1>6

\* The links of the list that the elements went to.
LEMMA ToStraight ==
    ASSUME ListTypeOK, NEW l \in Lists, NEW m \in Lists, l # m, NEW a \in Places(l),
           NEW b \in a + 1 .. Len(content[l]) + 1, NEW j \in 1 .. Len(content[m]) + 1,
           NEW part \in Seq(Elem), IsPiece(part, content[l], a, b),
           IsPutIn(content'[m], content[m], j, part), Spliced(l, a, b, m, j)
    PROVE  Straight(m)'
<1>1. PICK n \in Nat, r \in Nat, d \in Nat :
         n = Len(content[l]) /\ r = Len(content[m]) /\ d = b - a
  <2>1. Len(content[l]) \in Nat /\ Len(content[m]) \in Nat /\ b - a \in Nat
    BY SpotFacts
  <2> QED BY <2>1
<1>2. /\ a \in 1 .. n /\ b \in a + 1 .. n + 1 /\ j \in 1 .. r + 1 /\ d >= 1 /\ a + d = b
      /\ n \in Nat /\ r \in Nat /\ d \in Nat
  BY <1>1, SpotFacts
<1>3. /\ Len(content'[m]) = r + d
      /\ \A k \in 0 .. j - 1 : At(m, k)' = At(m, k)
      /\ \A k \in j .. j + d - 1 : At(m, k)' = At(l, a + (k - j))
      /\ \A k \in j + d .. r + d + 1 : At(m, k)' = At(m, k - d)
  BY <1>1, PutInSpots, SMTT(30)
<1>4. /\ Joined(At(l, b - 1), At(m, j)) /\ Joined(At(m, j - 1), At(l, a))
      /\ \A k \in 0 .. n : k \notin {a - 1, b - 1} => Joined(At(l, k), At(l, k + 1))
      /\ \A k \in 0 .. r : k # j - 1 => Joined(At(m, k), At(m, k + 1))
  BY <1>1 DEF Spliced
<1> SUFFICES ASSUME NEW k \in 0 .. r + d
             PROVE  next'[At(m, k)'] = At(m, k + 1)' /\ prev'[At(m, k + 1)'] = At(m, k)'
  BY <1>3 DEF Straight
<1>5. CASE k < j - 1
  <2>1. k \in 0 .. j - 1 /\ k + 1 \in 0 .. j - 1 /\ k \in 0 .. r /\ k # j - 1
    BY <1>2, <1>5
  <2> QED BY <1>3, <1>4, <2>1 DEF Joined
<1>6. CASE k = j - 1
  <2>1. k \in 0 .. j - 1 /\ k + 1 \in j .. j + d - 1 /\ a + (k + 1 - j) = a
    BY <1>2, <1>6
  <2> QED BY <1>3, <1>4, <1>6, <2>1, SMTT(30) DEF Joined
<1>7. CASE k >= j /\ k < j + d - 1
  <2>1. k \in j .. j + d - 1 /\ k + 1 \in j .. j + d - 1
    BY <1>2, <1>7, SMTT(30)
  <2>2. PICK i \in 0 .. n : i = a + (k - j) /\ a + (k + 1 - j) = i + 1 /\ i \notin {a - 1, b - 1}
    BY <1>2, <1>7
  <2> QED BY <1>3, <1>4, <2>1, <2>2, SMTT(30) DEF Joined
<1>8. CASE k = j + d - 1
  <2>1. k \in j .. j + d - 1 /\ k + 1 \in j + d .. r + d + 1
    <3>1. k \in Int /\ j <= k /\ k <= j + d - 1 /\ k + 1 = j + d /\ j + d <= r + d + 1
      BY <1>2, <1>8
    <3> QED BY <1>2, <3>1, SMTT(30)
  <2>2. a + (k - j) = b - 1 /\ k + 1 - d = j
    BY <1>2, <1>8
  <2>3. At(m, k)' = At(l, b - 1) /\ At(m, k + 1)' = At(m, j)
    BY <1>3, <2>1, <2>2
  <2> QED BY <1>4, <2>3 DEF Joined
<1>9. CASE k >= j + d
  <2>1. k \in j + d .. r + d + 1 /\ k + 1 \in j + d .. r + d + 1
    <3>1. k \in Int /\ j + d \in Int /\ r + d + 1 \in Int /\ k <= r + d
      BY <1>2
    <3> QED BY <1>9, <3>1, SMTT(30)
  <2>2. PICK i \in 0 .. r : i = k - d /\ k + 1 - d = i + 1 /\ i # j - 1
    BY <1>2, <1>9
  <2> QED BY <1>3, <1>4, <2>1, <2>2, SMTT(30) DEF Joined
<1> QED BY <1>2, <1>5, <1>6, <1>7, <1>8, <1>9

\* The invariant after a step that changes neither the ends of lists nor runs
\* into an assertion.
LEMMA InvFromParts ==
    ASSUME Ends, reversing' = NULL, aborted' = FALSE,
           prev' \in [Nodes -> Nodes \cup {NULL}], next' \in [Nodes -> Nodes \cup {NULL}],
           content' \in [Lists -> Seq(Elem)], Distinct',
           \A x \in Lists : /\ prev'[HeadOf(x)] = prev[HeadOf(x)]
                            /\ next'[TailOf(x)] = next[TailOf(x)],
           \A x \in Lists : Straight(x)'
    PROVE  ListInv' /\ reversing' = NULL
<1>1. ListTypeOK'
  BY DEF ListTypeOK
<1>2. Ends'
  BY DEF Ends
<1> QED BY <1>1, <1>2 DEF ListInv, LinksOK, InReverse

\* Elements put back where they are.
LEMMA InPlaceKeepsInv ==
    ASSUME ListInv, reversing = NULL, NEW l \in Lists, NEW a \in Places(l),
           NEW b \in a + 1 .. Len(content[l]) + 1, Relink(At(l, b), At(l, a), At(l, b)),
           content' = Moved(l, a, b, l, b), UNCHANGED <<reversing, aborted>>
    PROVE  ListInv' /\ reversing' = NULL
<1>1. /\ ListTypeOK /\ Distinct /\ Ends /\ ~aborted
      /\ \A x \in Lists : Straight(x)
  BY DEF ListInv, LinksOK, InReverse
<1>2. PICK n \in Nat : n = Len(content[l])
  BY <1>1, SpotFacts
<1>3. n \in Nat /\ a \in 1 .. n /\ b \in a + 1 .. n + 1 /\ b \in 1 .. n + 1 /\ b >= b
  BY <1>1, <1>2, SpotFacts
<1>4. OnlyList(l) /\ IsSwapped(content'[l], content[l], a, b, b)
  BY <1>1, <1>2, <1>3, MovedWithin
<1>5. a \in 1 .. Len(content[l]) + 1 /\ b \in a .. Len(content[l]) + 1 /\ b \in b .. Len(content[l]) + 1
  BY <1>2, <1>3
<1>6. Distinct'
  BY <1>1, <1>4, <1>5, SwapDistinct
<1>7. /\ a - 1 \in Spots(l) /\ a \in Spots(l) /\ b - 1 \in Spots(l) /\ b \in Spots(l)
      /\ a - 1 \in 0 .. n /\ a - 1 + 1 = a /\ b - 1 \in 0 .. n /\ b - 1 + 1 = b
  BY <1>2, <1>3 DEF Spots
<1>8. /\ next[At(l, a - 1)] = At(l, a) /\ prev[At(l, a)] = At(l, a - 1)
      /\ next[At(l, b - 1)] = At(l, b) /\ prev[At(l, b)] = At(l, b - 1)
  BY <1>1, <1>2, <1>7 DEF Straight
<1>9. PICK A \in Nodes, F \in Nodes, Z \in Nodes, E \in Nodes :
         A = At(l, a - 1) /\ F = At(l, a) /\ Z = At(l, b - 1) /\ E = At(l, b)
  BY <1>1, <1>7, SpotFacts
<1>10. A # Z /\ E # F
  <2>1. a - 1 # b - 1 /\ b # a
    BY <1>3
  <2> QED BY <1>1, <1>7, <1>9, <2>1, SpotsApart
<1>11. /\ prev' \in [Nodes -> Nodes \cup {NULL}] /\ next' \in [Nodes -> Nodes \cup {NULL}]
       /\ \A x \in Nodes : next'[x] = next[x] /\ prev'[x] = prev[x]
  <2>1. /\ A \in Nodes /\ F \in Nodes /\ Z \in Nodes /\ E \in Nodes /\ Relink(E, F, E)
        /\ prev[F] = A /\ next[A] = F /\ prev[E] = Z /\ next[Z] = E
    BY <1>8, <1>9
  <2> QED BY <1>1, <1>10, <2>1, RelinkInPlace
<1>12. \A k \in Spots(l) : At(l, k)' = At(l, k)
  <2>1. \A k \in Spots(l) : At(l, k)' = At(l, SwapPos(a, b, b, k))
    BY <1>1, <1>4, <1>5, SwapSpots
  <2>2. \A k \in Spots(l) : SwapPos(a, b, b, k) = k
    BY <1>2, <1>3 DEF Spots, SwapPos
  <2> QED BY <2>1, <2>2
<1>13. ASSUME NEW x \in Lists PROVE Straight(x)'
  <2>1. \A k \in Spots(x) : At(x, k)' = At(x, k) /\ At(x, k) \in Nodes
    BY <1>1, <1>4, <1>12, SameSpots, SpotFacts DEF OnlyList
  <2>2. Len(content'[x]) = Len(content[x]) /\ Len(content[x]) \in Nat
    BY <1>1, <1>4, SpotFacts DEF OnlyList, IsSwapped
  <2> SUFFICES ASSUME NEW k \in 0 .. Len(content[x])
               PROVE  next'[At(x, k)'] = At(x, k + 1)' /\ prev'[At(x, k + 1)'] = At(x, k)'
    BY <2>2 DEF Straight
  <2>3. k \in Spots(x) /\ k + 1 \in Spots(x)
    BY <2>2 DEF Spots
  <2>4. next[At(x, k)] = At(x, k + 1) /\ prev[At(x, k + 1)] = At(x, k)
    BY <1>1 DEF Straight
  <2> QED BY <1>11, <2>1, <2>3, <2>4
<1>14. /\ reversing' = NULL /\ aborted' = FALSE /\ content' \in [Lists -> Seq(Elem)]
       /\ \A x \in Lists : /\ prev'[HeadOf(x)] = prev[HeadOf(x)]
                           /\ next'[TailOf(x)] = next[TailOf(x)]
  BY <1>1, <1>4, <1>11, SentinelFacts DEF OnlyList, ListTypeOK
<1> QED BY <1>1, <1>6, <1>11, <1>13, <1>14, InvFromParts

\* Elements moved within their list.
LEMMA WithinKeepsInv ==
    ASSUME ListInv, reversing = NULL, NEW l \in Lists, NEW a \in Places(l),
           NEW b \in a + 1 .. Len(content[l]) + 1, NEW j \in 1 .. Len(content[l]) + 1,
           j < a \/ j > b, Relink(At(l, j), At(l, a), At(l, b)),
           content' = Moved(l, a, b, l, j), UNCHANGED <<reversing, aborted>>
    PROVE  ListInv' /\ reversing' = NULL
<1>1. /\ ListTypeOK /\ Distinct /\ Ends /\ ~aborted
      /\ \A x \in Lists : Straight(x)
  BY DEF ListInv, LinksOK, InReverse
<1>2. PICK n \in Nat : n = Len(content[l])
  BY <1>1, SpotFacts
<1>3. n \in Nat /\ a \in 1 .. n /\ b \in a + 1 .. n + 1 /\ j \in 1 .. n + 1 /\ (j < a \/ j >= b)
  BY <1>1, <1>2, SpotFacts
<1>4. /\ OnlyList(l)
      /\ j < a  => IsSwapped(content'[l], content[l], j, a, b)
      /\ j >= b => IsSwapped(content'[l], content[l], a, b, j)
  BY <1>1, <1>2, <1>3, MovedWithin
<1>5. /\ prev' \in [Nodes -> Nodes \cup {NULL}] /\ next' \in [Nodes -> Nodes \cup {NULL}]
      /\ Spliced(l, a, b, l, j)
      /\ \A x \in Lists : /\ prev'[HeadOf(x)] = prev[HeadOf(x)]
                          /\ next'[TailOf(x)] = next[TailOf(x)]
  BY <1>1, SpliceLinks
<1>6. /\ Joined(At(l, a - 1), At(l, b)) /\ Joined(At(l, b - 1), At(l, j))
      /\ Joined(At(l, j - 1), At(l, a))
      /\ \A k \in 0 .. n : k \notin {a - 1, b - 1, j - 1} => Joined(At(l, k), At(l, k + 1))
  BY <1>2, <1>5 DEF Spliced
<1>7. Distinct' /\ Straight(l)'
  <2>1. CASE j < a
    <3>1. /\ j \in 1 .. Len(content[l]) + 1 /\ a \in j + 1 .. Len(content[l]) + 1
          /\ b \in a + 1 .. Len(content[l]) + 1
          /\ a \in j .. Len(content[l]) + 1 /\ b \in a .. Len(content[l]) + 1
      BY <1>2, <1>3, <2>1
    <3>2. IsSwapped(content'[l], content[l], j, a, b)
      BY <1>4, <2>1
    <3>3. \A k \in 0 .. Len(content[l]) :
             k \notin {j - 1, a - 1, b - 1} => Joined(At(l, k), At(l, k + 1))
      BY <1>2, <1>6
    <3>4. Straight(l)'
      BY <1>1, <1>6, <3>1, <3>2, <3>3, WithinStraight
    <3> QED BY <1>1, <1>4, <3>1, <3>2, <3>4, SwapDistinct
  <2>2. CASE j > b
    <3>1. /\ a \in 1 .. Len(content[l]) + 1 /\ b \in a + 1 .. Len(content[l]) + 1
          /\ j \in b + 1 .. Len(content[l]) + 1
          /\ b \in a .. Len(content[l]) + 1 /\ j \in b .. Len(content[l]) + 1 /\ j >= b
      BY <1>2, <1>3, <2>2
    <3>2. IsSwapped(content'[l], content[l], a, b, j)
      BY <1>4, <3>1
    <3>3. \A k \in 0 .. Len(content[l]) :
             k \notin {a - 1, b - 1, j - 1} => Joined(At(l, k), At(l, k + 1))
      BY <1>2, <1>6
    <3>4. Straight(l)'
      BY <1>1, <1>6, <3>1, <3>2, <3>3, WithinStraight
    <3> QED BY <1>1, <1>4, <3>1, <3>2, <3>4, SwapDistinct
  <2> QED BY <2>1, <2>2
<1>8. ASSUME NEW x \in Lists \ {l} PROVE Straight(x)'
  <2>1. content'[x] = content[x] /\ Len(content[x]) \in Nat
    BY <1>1, <1>4, SpotFacts DEF OnlyList
  <2>2. \A k \in 0 .. Len(content[x]) : Joined(At(x, k), At(x, k + 1))
    BY <1>5 DEF Spliced
  <2> QED BY <2>1, <2>2 DEF Straight, Joined, At
<1>9. reversing' = NULL /\ aborted' = FALSE /\ content' \in [Lists -> Seq(Elem)]
  BY <1>1, <1>4 DEF OnlyList, ListTypeOK
<1> QED BY <1>1, <1>5, <1>7, <1>8, <1>9, InvFromParts

\* Elements moved to another list.
LEMMA AcrossKeepsInv ==
    ASSUME ListInv, reversing = NULL, NEW l \in Lists, NEW m \in Lists, l # m, NEW a \in Places(l),
           NEW b \in a + 1 .. Len(content[l]) + 1, NEW j \in 1 .. Len(content[m]) + 1,
           Relink(At(m, j), At(l, a), At(l, b)),
           content' = Moved(l, a, b, m, j), UNCHANGED <<reversing, aborted>>
    PROVE  ListInv' /\ reversing' = NULL
<1>1. /\ ListTypeOK /\ Distinct /\ Ends /\ ~aborted
      /\ \A x \in Lists : Straight(x)
  BY DEF ListInv, LinksOK, InReverse
<1>2. /\ content' \in [Lists -> Seq(Elem)]
      /\ \A x \in Lists \ {l, m} : content'[x] = content[x]
      /\ IsCutOut(content'[l], content[l], a, b)
      /\ \E part \in Seq(Elem) : /\ IsPiece(part, content[l], a, b)
                                 /\ IsPutIn(content'[m], content[m], j, part)
  BY <1>1, MovedAcross
<1>3. PICK part \in Seq(Elem) : /\ IsPiece(part, content[l], a, b)
                                /\ IsPutIn(content'[m], content[m], j, part)
  BY <1>2
<1>4. /\ prev' \in [Nodes -> Nodes \cup {NULL}] /\ next' \in [Nodes -> Nodes \cup {NULL}]
      /\ Spliced(l, a, b, m, j)
      /\ \A x \in Lists : /\ prev'[HeadOf(x)] = prev[HeadOf(x)]
                          /\ next'[TailOf(x)] = next[TailOf(x)]
  BY <1>1, SpliceLinks
<1>5. Distinct'
  BY <1>1, <1>2, <1>3, AcrossDistinct
<1>6. Straight(l)'
  <2>1. /\ Joined(At(l, a - 1), At(l, b))
        /\ \A k \in 0 .. Len(content[l]) :
              k \notin {a - 1, b - 1} => Joined(At(l, k), At(l, k + 1))
    BY <1>4 DEF Spliced
  <2> QED BY <1>1, <1>2, <2>1, FromStraight
<1>7. Straight(m)'
  BY <1>1, <1>3, <1>4, ToStraight
<1>8. ASSUME NEW x \in Lists \ {l, m} PROVE Straight(x)'
  <2>1. content'[x] = content[x] /\ Len(content[x]) \in Nat
    BY <1>1, <1>2, SpotFacts
  <2>2. \A k \in 0 .. Len(content[x]) : Joined(At(x, k), At(x, k + 1))
    BY <1>4 DEF Spliced
  <2> QED BY <2>1, <2>2 DEF Straight, Joined, At
<1>9. reversing' = NULL /\ aborted' = FALSE
  BY <1>1 DEF ListTypeOK
<1>10. \A x \in Lists : Straight(x)'
  BY <1>6, <1>7, <1>8
<1> QED BY <1>1, <1>2, <1>4, <1>5, <1>9, <1>10, InvFromParts

\* A splice keeps the invariant.
LEMMA SpliceKeepsInv ==
    ASSUME ListInv, reversing = NULL, NEW l \in Lists, NEW m \in Lists, NEW a \in Places(l),
           NEW b \in 1 .. Len(content[l]) + 1, NEW j \in 1 .. Len(content[m]) + 1,
           Splice(l, a, b, m, j)
    PROVE  ListInv' /\ reversing' = NULL
<1>1. ListTypeOK /\ \A x \in Lists : Straight(x)
  BY DEF ListInv, LinksOK, InReverse
<1>2. Len(content[l]) \in Nat /\ a \in 1 .. Len(content[l]) /\ a < b /\ (l = m => j \notin a .. b - 1)
  BY <1>1, SpotFacts DEF Splice
<1>3. b \in a + 1 .. Len(content[l]) + 1 /\ b - 1 \in Places(l) /\ a \in Places(l)
  <2>1. b - 1 \in 1 .. Len(content[l])
    BY <1>2
  <2> QED BY <1>1, <1>2, <2>1, SpotFacts
<1>4. /\ IsInterior(At(m, j)) \/ IsTail(At(m, j))
      /\ IsInterior(At(l, b)) \/ IsTail(At(l, b))
      /\ IsInterior(At(l, a)) /\ IsInterior(At(l, b - 1)) /\ prev[At(l, b)] = At(l, b - 1)
  BY <1>1, <1>3, Neighbours
<1>5. /\ Relink(At(m, j), At(l, a), At(l, b)) /\ content' = Moved(l, a, b, m, j)
      /\ UNCHANGED <<reversing, aborted>>
  BY <1>4 DEF Splice
<1>6. CASE l # m
  BY <1>3, <1>5, <1>6, AcrossKeepsInv
<1>7. CASE l = m /\ j = b
  BY <1>3, <1>5, <1>7, InPlaceKeepsInv
<1>8. CASE l = m /\ j # b
  <2>1. j \in 1 .. Len(content[l]) + 1 /\ (j < a \/ j > b)
    BY <1>2, <1>8
  <2> QED BY <1>3, <1>5, <1>8, <2>1, WithinKeepsInv
<1> QED BY <1>6, <1>7, <1>8

-----------------------------------------------------------------------------
(* The steps together. *)

\* The ends of a list are an insertion or a removal at its first or last
\* position.
LEMMA EndOperations ==
    ASSUME ListInv, reversing = NULL, NEW l \in Lists
    PROVE  /\ \A e \in Elem : PushFront(l, e) \/ PushBack(l, e) => ListInv' /\ reversing' = NULL
           /\ PopFront(l) \/ PopBack(l) => ListInv' /\ reversing' = NULL
<1>1. ListTypeOK /\ Distinct /\ \A x \in Lists : Straight(x)
  BY DEF ListInv, LinksOK, InReverse
<1>2. PICK n \in Nat : n = Len(content[l])
  BY <1>1, SpotFacts
<1>3. /\ content[l] \in Seq(Elem) /\ Places(l) = 1 .. n
      /\ At(l, 0) = HeadOf(l) /\ At(l, n + 1) = TailOf(l)
  BY <1>1, <1>2, SpotFacts
<1>4. next[HeadOf(l)] = At(l, 1) /\ prev[TailOf(l)] = At(l, n)
  <2>1. 0 \in 0 .. n /\ n \in 0 .. n /\ 0 + 1 = 1
    OBVIOUS
  <2> QED BY <1>1, <1>2, <1>3, <2>1 DEF Straight
<1>5. 1 \in 1 .. Len(content[l]) + 1 /\ Len(content[l]) + 1 \in 1 .. Len(content[l]) + 1
  BY <1>2
<1>6. ASSUME NEW e \in Elem, PushFront(l, e) PROVE ListInv' /\ reversing' = NULL
  BY <1>4, <1>5, <1>6, InsertKeepsInv DEF PushFront
<1>7. ASSUME NEW e \in Elem, PushBack(l, e) PROVE ListInv' /\ reversing' = NULL
  BY <1>2, <1>3, <1>5, <1>7, InsertKeepsInv DEF PushBack
<1>8. content[l] # <<>> => 1 \in Places(l) /\ n \in Places(l) /\ ~IsEmpty(l)
  <2> SUFFICES ASSUME content[l] # <<>> PROVE 1 \in Places(l) /\ n \in Places(l) /\ ~IsEmpty(l)
    OBVIOUS
  <2>1. n # 0
    BY <1>2, <1>3, EmptySeq
  <2>2. 1 \in Places(l) /\ n \in Places(l)
    BY <1>3, <2>1
  <2>3. At(l, 1) \in Elem
    BY <1>1, <2>2, SpotFacts
  <2> QED BY <1>4, <2>2, <2>3, SentinelFacts DEF IsEmpty
<1>9. ASSUME PopFront(l) PROVE ListInv' /\ reversing' = NULL
  <2>1. 1 \in Places(l) /\ RemoveNode(l, 1, At(l, 1))
    BY <1>4, <1>8, <1>9 DEF PopFront
  <2> QED BY <2>1, RemoveKeepsInv
<1>10. ASSUME PopBack(l) PROVE ListInv' /\ reversing' = NULL
  <2>1. n \in Places(l) /\ RemoveNode(l, n, At(l, n))
    BY <1>2, <1>4, <1>8, <1>10 DEF PopBack
  <2> QED BY <2>1, RemoveKeepsInv
<1> QED BY <1>6, <1>7, <1>9, <1>10

\* The empty lists satisfy the invariant.
LEMMA InitHasInv ==
    ASSUME Init
    PROVE  ListInv
<1>1. /\ \A l \in Lists : HeadOf(l) \in Sentinels /\ TailOf(l) \in Sentinels
      /\ \A l \in Lists : /\ HeadOf(l)[1] = l /\ HeadOf(l)[2] = "head"
                          /\ TailOf(l)[1] = l /\ TailOf(l)[2] = "tail"
      /\ \A n \in Sentinels : n[1] \in Lists
  BY DEF HeadOf, TailOf, Sentinels
<1>2. Sentinels \subseteq Nodes
  BY DEF Nodes
<1>3. ListTypeOK
  <2>1. \A n \in Sentinels : HeadOf(n[1]) \in Nodes /\ TailOf(n[1]) \in Nodes
    BY <1>1, <1>2
  <2>2. /\ next \in [Nodes -> Nodes \cup {NULL}]
        /\ prev \in [Nodes -> Nodes \cup {NULL}]
    BY <2>1 DEF Init
  <2>3. content \in [Lists -> Seq(Elem)]
    <3>1. <<>> \in Seq(Elem)
      OBVIOUS
    <3> QED BY <3>1 DEF Init
  <2> QED BY <2>2, <2>3 DEF Init, ListTypeOK
<1>4. \A l \in Lists : content[l] = <<>> /\ Len(content[l]) = 0 /\ Places(l) = {}
  BY DEF Init, Places
<1>5. /\ \A l \in Lists : /\ next[HeadOf(l)] = TailOf(l) /\ prev[TailOf(l)] = HeadOf(l)
                          /\ next[TailOf(l)] = NULL /\ prev[HeadOf(l)] = NULL
  BY <1>1, <1>2 DEF Init
<1>6. ASSUME NEW l \in Lists PROVE Straight(l)
  <2>1. At(l, 0) = HeadOf(l) /\ At(l, 1) = TailOf(l)
    BY <1>4 DEF At
  <2> QED BY <1>4, <1>5, <2>1 DEF Straight
<1>7. Distinct
  BY <1>4 DEF Distinct
<1> QED BY <1>3, <1>5, <1>6, <1>7 DEF ListInv, Ends, LinksOK, InReverse, Init

\* Every step keeps it.
LEMMA NextKeepsInv ==
    ASSUME ListInv, [Next]_vars
    PROVE  ListInv'
<1>1. CASE Operation
  <2>1. reversing = NULL
    BY <1>1 DEF Operation
  <2>2. PICK l \in Lists :
        \/ \E e \in Elem : \/ PushFront(l, e) \/ PushBack(l, e)
                           \/ \E i \in 1 .. Len(content[l]) + 1 : InsertBefore(l, i, e)
        \/ \E i \in Places(l) : Remove(l, i)
        \/ PopFront(l) \/ PopBack(l) \/ ReverseStart(l)
        \/ \E m \in Lists : \E a \in Places(l), b \in 1 .. Len(content[l]) + 1,
                               j \in 1 .. Len(content[m]) + 1 : Splice(l, a, b, m, j)
    BY <1>1 DEF Operation
  <2>3. ASSUME NEW e \in Elem, PushFront(l, e) \/ PushBack(l, e) PROVE ListInv'
    BY <2>1, <2>3, EndOperations
  <2>4. ASSUME NEW e \in Elem, NEW i \in 1 .. Len(content[l]) + 1, InsertBefore(l, i, e)
        PROVE  ListInv'
    BY <2>1, <2>4, InsertKeepsInv DEF InsertBefore
  <2>5. ASSUME NEW i \in Places(l), Remove(l, i) PROVE ListInv'
    <3>1. ListTypeOK
      BY DEF ListInv
    <3>2. content[l][i] = At(l, i)
      BY <3>1, SpotFacts
    <3> QED BY <2>1, <2>5, <3>2, RemoveKeepsInv DEF Remove
  <2>6. CASE PopFront(l) \/ PopBack(l)
    BY <2>1, <2>6, EndOperations
  <2>7. CASE ReverseStart(l)
    BY <2>1, <2>7, ReverseStartKeepsInv
  <2>8. ASSUME NEW m \in Lists, NEW a \in Places(l), NEW b \in 1 .. Len(content[l]) + 1,
               NEW j \in 1 .. Len(content[m]) + 1, Splice(l, a, b, m, j)
        PROVE  ListInv'
    BY <2>1, <2>8, SpliceKeepsInv
  <2> QED BY <2>2, <2>3, <2>4, <2>5, <2>6, <2>7, <2>8
<1>2. CASE ReverseStep
  BY <1>2, ReverseStepKeepsInv
<1>3. CASE ReverseEnd
  BY <1>3, ReverseEndKeepsInv
<1>4. CASE UNCHANGED vars
  BY <1>4 DEF vars, ListInv, ListTypeOK, Distinct, Places, Ends, LinksOK, InReverse,
              Turning, Turned, Straight, At
<1> QED BY <1>1, <1>2, <1>3, <1>4 DEF Next, Reversing

LEMMA InvAlways == Spec => []ListInv
<1>1. Init => ListInv
  BY InitHasInv
<1>2. ListInv /\ [Next]_vars => ListInv'
  BY NextKeepsInv
<1> QED BY <1>1, <1>2, PTL DEF Spec

-----------------------------------------------------------------------------
(* The theorems. *)

\* Links lead from nodes to nodes (the structure list_elem of list.h), whatever
\* operations of list.c have been called.
THEOREM ListTypes == Spec => []ListTypeOK
<1>1. ListInv => ListTypeOK
  BY DEF ListInv
<1> QED BY <1>1, InvAlways, PTL

\* However many elements and lists there are, and whatever list_insert,
\* list_remove, list_splice, list_reverse and the operations on the ends have
\* done, the links of every list lead through its elements in order, forwards
\* and backwards.
THEOREM LinksHold == Spec => []Linked
<1>1. ListInv => Linked
  BY DEF ListInv, Linked, Ends, LinksOK, InReverse, Straight
<1> QED BY <1>1, InvAlways, PTL

\* No assertion of list.c fails for a client that keeps to its comments.
THEOREM AssertionsNeverFail == Spec => []AssertionsHold
<1>1. ListInv => AssertionsHold
  BY DEF ListInv, AssertionsHold
<1> QED BY <1>1, InvAlways, PTL
=============================================================================
