---------------------------- MODULE FrontProofs ----------------------------
(***************************************************************************)
(* Theorems about the lexer, for every text, every size of its arrays and  *)
(* every width of an int, and about the parser, for every list of tokens.  *)
(*                                                                         *)
(* tokenize returns the tokens of the longest lexemes, and leaves its      *)
(* arrays on the texts that do not fit and on no others.  The invariant    *)
(* says how far the text has been read: up to there it is cut into its     *)
(* longest lexemes, the array holds what they stand for, and behind it are *)
(* the characters of a lexeme that has begun.                              *)
(*                                                                         *)
(* parse returns a tree whose nodes have the children that their kinds     *)
(* need.  What is still to be done is typed: every task needs trees of     *)
(* certain kinds on top of the stack, and leaves trees of certain kinds    *)
(* there.  The invariant says that the trees built so far and the tasks    *)
(* left fit together.                                                      *)
(*                                                                         *)
(* The trees that the grammar gives are defined part by part: a rule looks *)
(* only at parts that are smaller, so every part of a list has the trees   *)
(* that its rule says, and they are trees of the kind of the part.         *)
(***************************************************************************)
EXTENDS Lexemes, Grammar, AstProofs

\* The tokens of characters that are tokens of their own.
OwnTokens == TokenTypes \ {"INVALID_TOK", "IDENT_TOK", "INT_LIT_TOK", "PROGRAM_END_TOK"}

Single == {EOF, "(", ")", "+", "-", "*", "/", "{", "}", ";", "=", "<", ">"}

\* The tables of the switch in next_token.
LEMMA SymbolFacts ==
    /\ DOMAIN SymbolOf = Single
    /\ \A c \in Single \ {EOF} : SymbolOf[c] \in OwnTokens
    /\ SymbolOf[EOF] = "PROGRAM_END_TOK"
BY DEF SymbolOf, Single, OwnTokens, TokenTypes, EOF

\* The symbols of two characters.
LEMMA WideFacts ==
    /\ DOMAIN WideOf = {"=", "<", ">"}
    /\ \A c \in DOMAIN WideOf : WideOf[c] \in OwnTokens
BY DEF WideOf, OwnTokens, TokenTypes

\* The keywords are tokens without a name or a value.
LEMMA KeywordFacts == \A c \in DOMAIN KeywordOf : KeywordOf[c] \in OwnTokens
BY DEF KeywordOf, OwnTokens, TokenTypes

\* The digits and what they are worth.
LEMMA DigitFacts ==
    /\ Digits = {"0", "1", "2", "3", "4", "5", "6", "7", "8", "9"}
    /\ \A c \in Digits : DigitValue(c) \in 0 .. 9
<1>1. DOMAIN Numerals = 1 .. 10
  BY DEF Numerals
<1>2. Digits = {"0", "1", "2", "3", "4", "5", "6", "7", "8", "9"}
  BY DEF Digits, Numerals
<1>3. ASSUME NEW c \in Digits
      PROVE  DigitValue(c) \in 0 .. 9
  <2>1. \E i \in 1 .. 10 : Numerals[i] = c
    BY <1>1 DEF Digits
  <2>2. PICK k \in 1 .. 10 : k = CHOOSE i \in DOMAIN Numerals : Numerals[i] = c
    BY <1>1, <2>1
  <2> QED BY <2>2 DEF DigitValue
<1> QED BY <1>2, <1>3

-----------------------------------------------------------------------------
(* Lists that are made element by element. *)

\* How Kept goes along a list.
KeptUpTo(list, valid, f) ==
    /\ f[0] = <<>>
    /\ \A n \in 1 .. Len(list) :
          f[n] = IF n \in valid THEN Append(f[n - 1], list[n]) ELSE f[n - 1]
    /\ Kept(list, valid) = f[Len(list)]

\* The function that Kept is defined by goes along the list.
LEMMA KeptDef ==
    ASSUME NEW S, NEW list \in Seq(S), NEW valid
    PROVE  \E f \in [0 .. Len(list) -> Seq(S)] : KeptUpTo(list, valid, f)
<1> DEFINE N == Len(list)
           Next(f, n) == IF n \in valid THEN Append(f[n - 1], list[n]) ELSE f[n - 1]
           Unwinds(f) == f = [n \in 0 .. N |-> IF n = 0 THEN <<>> ELSE Next(f, n)]
           step == [n \in 1 .. N |->
                      [s \in Seq(S) |-> IF n \in valid THEN Append(s, list[n]) ELSE s]]
<1>1. N \in Nat /\ \A n \in 1 .. N : list[n] \in S
  BY ElementOfSeq, LenProperties
<1>2. step \in [1 .. N -> [Seq(S) -> Seq(S)]]
  <2>1. \A n \in 1 .. N : \A s \in Seq(S) : Append(s, list[n]) \in Seq(S)
    BY <1>1, AppendProperties
  <2> QED BY <2>1
<1>3. <<>> \in Seq(S)
  BY EmptySeq
<1>4. PICK f \in [0 .. N -> Seq(S)] : Grows(f, N, <<>>, step)
  <2> HIDE DEF step, N
  <2> QED BY <1>1, <1>2, <1>3, Recursion
<1>5. ASSUME NEW n \in 1 .. N
      PROVE  f[n] = Next(f, n)
  <2>1. n - 1 \in 0 .. N /\ f[n - 1] \in Seq(S)
    <3>1. n - 1 \in 0 .. N
      BY <1>1
    <3> HIDE DEF N
    <3> QED BY <1>4, <3>1
  <2> QED BY <1>4, <2>1 DEF Grows
<1>6. Unwinds(f)
  <2> HIDE DEF Next
  <2>1. \A n \in 0 .. N : f[n] = IF n = 0 THEN <<>> ELSE Next(f, n)
    <3>1. \A n \in 0 .. N : n = 0 \/ n \in 1 .. N
      BY <1>1
    <3> QED BY <1>4, <1>5, <3>1 DEF Grows
  <2> QED BY <2>1
<1>7. Kept(list, valid) = (CHOOSE g : Unwinds(g))[Len(list)]
  BY DEF Kept
<1>8. PICK g : Unwinds(g) /\ Kept(list, valid) = g[Len(list)]
  <2> HIDE DEF Unwinds
  <2> QED BY <1>6, <1>7
<1>9. /\ g[0] = <<>> /\ \A n \in 1 .. N : g[n] = Next(g, n)
  <2>1. 0 \in 0 .. N /\ \A n \in 1 .. N : n \in 0 .. N /\ n # 0
    BY <1>1
  <2> HIDE DEF Next, N
  <2> QED BY <1>8, <2>1
<1>10. \A n \in 0 .. N : g[n] = f[n]
  <2> DEFINE T == {n \in 0 .. N : g[n] = f[n]}
  <2>1. 0 \in T
    BY <1>1, <1>4, <1>9 DEF Grows
  <2>2. ASSUME NEW k \in 0 .. N, k + 1 \in 0 .. N, k \in T
        PROVE  k + 1 \in T
    <3>1. k + 1 \in 1 .. N /\ k + 1 - 1 = k /\ g[k] = f[k]
      BY <1>1, <2>2
    <3> QED BY <1>5, <1>9, <2>2, <3>1
  <2>3. 0 .. N \subseteq T
    <3> HIDE DEF T
    <3> QED BY <1>1, <2>1, <2>2, Upward
  <2> QED BY <2>3
<1>11. KeptUpTo(list, valid, f)
  BY <1>1, <1>4, <1>5, <1>8, <1>10 DEF KeptUpTo, Grows
<1> QED BY <1>11

\* Two sets with the same places of a list, and what Kept makes of one more element.
AsFar(list, valid, wider) == \A i \in 1 .. Len(list) : i \in wider <=> i \in valid

KeepsNext(S, list, e, valid, wider) ==
    /\ Kept(list, valid) \in Seq(S)
    /\ Kept(Append(list, e), wider) =
          IF Len(list) + 1 \in wider THEN Append(Kept(list, valid), e) ELSE Kept(list, valid)

\* Kept of a list with one more element.
LEMMA KeptAppend ==
    ASSUME NEW S, NEW list \in Seq(S), NEW e \in S, NEW valid, NEW wider,
           AsFar(list, valid, wider)
    PROVE  KeepsNext(S, list, e, valid, wider)
<1>0. PICK more : more = Append(list, e)
  OBVIOUS
<1>1. /\ more \in Seq(S) /\ Len(list) \in Nat /\ Len(more) = Len(list) + 1
      /\ \A i \in 1 .. Len(list) : more[i] = list[i]
      /\ more[Len(list) + 1] = e
  BY <1>0, AppendProperties, LenProperties
<1>2. PICK n \in Nat : n = Len(list)
  BY <1>1
<1>3. PICK f \in [0 .. n -> Seq(S)] : KeptUpTo(list, valid, f)
  BY <1>2, KeptDef
<1>4. PICK g \in [0 .. n + 1 -> Seq(S)] : KeptUpTo(more, wider, g)
  BY <1>1, <1>2, KeptDef
<1>5. \A k \in 0 .. n : g[k] = f[k]
  <2> DEFINE T == {k \in 0 .. n : g[k] = f[k]}
  <2>1. 0 \in T
    BY <1>3, <1>4 DEF KeptUpTo
  <2>2. ASSUME NEW k \in 0 .. n, k + 1 \in 0 .. n, k \in T
        PROVE  k + 1 \in T
    <3>1. k + 1 \in 1 .. n /\ k + 1 \in 1 .. n + 1 /\ k + 1 - 1 = k /\ g[k] = f[k]
      BY <2>2
    <3>2. f[k + 1] = IF k + 1 \in valid THEN Append(f[k], list[k + 1]) ELSE f[k]
      BY <1>2, <1>3, <3>1 DEF KeptUpTo
    <3>3. g[k + 1] = IF k + 1 \in wider THEN Append(g[k], more[k + 1]) ELSE g[k]
      <4>1. k + 1 \in 1 .. Len(more)
        BY <1>1, <1>2, <3>1
      <4>2. g[k + 1] = IF k + 1 \in wider THEN Append(g[k + 1 - 1], more[k + 1])
                                          ELSE g[k + 1 - 1]
        BY <1>4, <4>1 DEF KeptUpTo
      <4>3. k + 1 - 1 = k
        BY <3>1
      <4> QED BY <4>2, <4>3
    <3>4. more[k + 1] = list[k + 1] /\ (k + 1 \in wider <=> k + 1 \in valid)
      BY <1>1, <1>2, <3>1 DEF AsFar
    <3> QED BY <2>2, <3>1, <3>2, <3>3, <3>4
  <2>3. 0 .. n \subseteq T
    <3> HIDE DEF T
    <3> QED BY <2>1, <2>2, Upward
  <2> QED BY <2>3
<1>6. n \in 0 .. n /\ n + 1 \in 1 .. n + 1 /\ n + 1 - 1 = n
  OBVIOUS
<1>7. g[n + 1] = IF n + 1 \in wider THEN Append(g[n], more[n + 1]) ELSE g[n]
  BY <1>1, <1>2, <1>4, <1>6 DEF KeptUpTo
<1>8. Kept(list, valid) = f[n] /\ Kept(more, wider) = g[n + 1]
  BY <1>1, <1>2, <1>3, <1>4 DEF KeptUpTo
<1> QED BY <1>0, <1>1, <1>2, <1>3, <1>5, <1>6, <1>7, <1>8 DEF KeepsNext

\* Kept of a list that goes on is not shorter.
LEMMA KeptLonger ==
    ASSUME NEW S, NEW list \in Seq(S), NEW more \in Seq(S), Len(list) <= Len(more),
           \A i \in 1 .. Len(list) : more[i] = list[i],
           NEW valid, NEW wider, \A i \in 1 .. Len(list) : i \in wider <=> i \in valid
    PROVE  Len(Kept(list, valid)) <= Len(Kept(more, wider))
<1>1. PICK n \in Nat, m \in Nat : n = Len(list) /\ m = Len(more) /\ n <= m
  BY LenProperties
<1>3. PICK f \in [0 .. n -> Seq(S)] : KeptUpTo(list, valid, f)
  BY <1>1, KeptDef
<1>4. PICK g \in [0 .. m -> Seq(S)] : KeptUpTo(more, wider, g)
  BY <1>1, KeptDef
<1> DEFINE T == {k \in 0 .. m : IF k <= n THEN g[k] = f[k] ELSE Len(f[n]) <= Len(g[k])}
<1>5. 0 \in T
  BY <1>3, <1>4 DEF KeptUpTo
<1>6. ASSUME NEW k \in 0 .. m, k + 1 \in 0 .. m, k \in T
      PROVE  k + 1 \in T
  <2>1. k + 1 \in 1 .. m /\ k + 1 - 1 = k
    BY <1>6
  <2>2. g[k + 1] = IF k + 1 \in wider THEN Append(g[k], more[k + 1]) ELSE g[k]
    BY <1>1, <1>4, <2>1 DEF KeptUpTo
  <2>3. CASE k + 1 <= n
    <3>1. k + 1 \in 1 .. n /\ k <= n
      BY <2>1, <2>3
    <3>2. f[k + 1] = IF k + 1 \in valid THEN Append(f[k], list[k + 1]) ELSE f[k]
      BY <1>1, <1>3, <2>1, <3>1 DEF KeptUpTo
    <3>3. more[k + 1] = list[k + 1] /\ (k + 1 \in wider <=> k + 1 \in valid)
      BY <1>1, <3>1
    <3> QED BY <1>6, <2>2, <2>3, <3>1, <3>2, <3>3
  <2>4. CASE k + 1 > n
    <3>1. k >= n /\ n \in 0 .. n
      BY <2>4
    <3>2. Len(f[n]) <= Len(g[k]) /\ g[k] \in Seq(S) /\ more[k + 1] \in S /\ f[n] \in Seq(S)
      <4>1. g[k] \in Seq(S) /\ more[k + 1] \in S /\ f[n] \in Seq(S)
        BY <1>1, <1>3, <1>4, <2>1, <3>1, ElementOfSeq
      <4>2. CASE k = n
        <5>1. g[k] = f[n]
          BY <1>6, <4>2
        <5> QED BY <4>1, <5>1, LenProperties
      <4>3. CASE k # n
        BY <1>6, <3>1, <4>1, <4>3
      <4> QED BY <4>1, <4>2, <4>3
    <3>3. Len(g[k + 1]) >= Len(g[k]) /\ Len(g[k]) \in Nat /\ Len(f[n]) \in Nat /\ Len(g[k + 1]) \in Nat
      BY <2>2, <3>2, AppendProperties, LenProperties
    <3>4. Len(f[n]) <= Len(g[k + 1])
      BY <3>2, <3>3
    <3> QED BY <1>6, <2>4, <3>4
  <2> QED BY <2>3, <2>4
<1>7. m \in T
  <2>1. 0 .. m \subseteq T
    <3> HIDE DEF T
    <3> QED BY <1>5, <1>6, Upward
  <2> QED BY <2>1
<1>8. Kept(list, valid) = f[n] /\ Kept(more, wider) = g[m]
  BY <1>1, <1>3, <1>4 DEF KeptUpTo
<1>9. f[n] \in Seq(S) /\ Len(f[n]) \in Nat
  BY <1>3, LenProperties
<1> QED BY <1>1, <1>7, <1>8, <1>9

-----------------------------------------------------------------------------
(* The values of literals. *)

\* Division with a rest, and what is a multiple.
LEMMA Division ==
    ASSUME NEW K \in Nat \ {0}, NEW a \in Int
    PROVE  /\ a \div K \in Int /\ a = (a \div K) * K + (a % K)
           /\ a % K \in 0 .. K - 1
<1>1. a \div K \in Int /\ a = (a \div K) * K + (a % K)
  OBVIOUS
<1>2. a % K \in 0 .. K - 1
  OBVIOUS
<1> QED BY <1>1, <1>2

\* Nothing is left of a multiple.
LEMMA Multiple ==
    ASSUME NEW K \in Nat \ {0}, NEW q \in Int, NEW a, a = q * K
    PROVE  a % K = 0
OBVIOUS

\* An int between -H and H, and a number it differs from by a multiple of K.
WrapsTo(w, H, K, n) == w \in Int /\ -H <= w /\ w < H /\ (w - n) % K = 0

\* What Digit computes of the value of a number and one more digit.
LEMMA WrapStep ==
    ASSUME NEW H \in Nat \ {0}, NEW K, K = 2 * H, NEW v \in Int, NEW D \in Int, NEW d \in Int,
           (v - D) % K = 0, NEW w, w = ((d + v * 10 + H) % K) - H
    PROVE  WrapsTo(w, H, K, 10 * D + d)
<1>1. K \in Nat \ {0}
  OBVIOUS
<1>2. PICK x \in Int, y \in Int : x = d + v * 10 + H /\ y = v - D
  OBVIOUS
<1>3. PICK p \in Int : y = p * K
  <2>1. y % K = 0 /\ y \div K \in Int /\ y = (y \div K) * K + (y % K)
    BY <1>1, <1>2, Division
  <2>2. PICK p \in Int : p = y \div K
    BY <2>1
  <2>3. y = p * K
    BY <2>1, <2>2
  <2> QED BY <2>3
<1>4. PICK q \in Int, r \in 0 .. K - 1 : r = x % K /\ x = q * K + r
  <2>1. x \div K \in Int /\ x % K \in 0 .. K - 1 /\ x = (x \div K) * K + (x % K)
    BY <1>1, Division
  <2> QED BY <2>1
<1>5. w = r - H
  BY <1>2, <1>4
<1>6. w - (10 * D + d) = (10 * p - q) * K
  <2>1. 10 * v - 10 * D = 10 * (p * K)
    BY <1>2, <1>3
  <2>2. w - (10 * D + d) = 10 * (p * K) - q * K
    BY <2>1, <1>2, <1>4, <1>5
  <2> QED BY <2>2
<1>7. 10 * p - q \in Int /\ w \in Int /\ -H <= w /\ w < H
  BY <1>4, <1>5
<1> QED BY <1>1, <1>6, <1>7, Multiple DEF WrapsTo

\* How Decimal goes along a number.
ReadUpTo(s, f) ==
    /\ f[0] = 0
    /\ \A n \in 1 .. Len(s) : f[n] = 10 * f[n - 1] + DigitValue(s[n])
    /\ Decimal(s) = f[Len(s)]

\* The function that Decimal is defined by goes along the number.
LEMMA DecimalDef ==
    ASSUME NEW s \in Seq(Digits)
    PROVE  \E f \in [0 .. Len(s) -> Int] : ReadUpTo(s, f)
<1> DEFINE N == Len(s)
           Next(f, n) == 10 * f[n - 1] + DigitValue(s[n])
           Unwinds(f) == f = [n \in 0 .. N |-> IF n = 0 THEN 0 ELSE Next(f, n)]
           step == [n \in 1 .. N |-> [v \in Int |-> 10 * v + DigitValue(s[n])]]
<1>1. N \in Nat /\ \A n \in 1 .. N : DigitValue(s[n]) \in Int
  <2>1. \A n \in 1 .. N : s[n] \in Digits
    BY ElementOfSeq
  <2>2. \A c \in Digits : DigitValue(c) \in Int
    <3>1. 0 .. 9 \subseteq Int
      OBVIOUS
    <3> QED BY <3>1, DigitFacts
  <2> QED BY <2>1, <2>2, LenProperties
<1>2. step \in [1 .. N -> [Int -> Int]]
  <2>1. \A n \in 1 .. N : \A v \in Int : 10 * v + DigitValue(s[n]) \in Int
    BY <1>1
  <2> QED BY <2>1
<1>3. PICK f \in [0 .. N -> Int] : Grows(f, N, 0, step)
  <2> HIDE DEF step, N
  <2>1. 0 \in Int
    OBVIOUS
  <2> QED BY <1>1, <1>2, <2>1, Recursion, Zenon
<1>4. ASSUME NEW n \in 1 .. N
      PROVE  f[n] = Next(f, n)
  <2>1. n - 1 \in 0 .. N /\ f[n - 1] \in Int
    <3>1. n - 1 \in 0 .. N
      BY <1>1
    <3> HIDE DEF N
    <3> QED BY <1>3, <3>1
  <2> QED BY <1>3, <2>1 DEF Grows
<1>5. Unwinds(f)
  <2> HIDE DEF Next
  <2>1. \A n \in 0 .. N : f[n] = IF n = 0 THEN 0 ELSE Next(f, n)
    <3>1. \A n \in 0 .. N : n = 0 \/ n \in 1 .. N
      BY <1>1
    <3> QED BY <1>3, <1>4, <3>1 DEF Grows
  <2> QED BY <2>1
<1>6. Decimal(s) = (CHOOSE g : Unwinds(g))[Len(s)]
  BY DEF Decimal
<1>7. PICK g : Unwinds(g) /\ Decimal(s) = g[Len(s)]
  <2> HIDE DEF Unwinds
  <2> QED BY <1>5, <1>6
<1>8. /\ g[0] = 0 /\ \A n \in 1 .. N : g[n] = Next(g, n)
  <2>1. 0 \in 0 .. N /\ \A n \in 1 .. N : n \in 0 .. N /\ n # 0
    BY <1>1
  <2> HIDE DEF Next, N
  <2> QED BY <1>7, <2>1
<1>9. \A n \in 0 .. N : g[n] = f[n]
  <2> DEFINE T == {n \in 0 .. N : g[n] = f[n]}
  <2>1. 0 \in T
    BY <1>1, <1>3, <1>8 DEF Grows
  <2>2. ASSUME NEW k \in 0 .. N, k + 1 \in 0 .. N, k \in T
        PROVE  k + 1 \in T
    <3>1. k + 1 \in 1 .. N /\ k + 1 - 1 = k /\ g[k] = f[k]
      BY <1>1, <2>2
    <3> QED BY <1>4, <1>8, <2>2, <3>1
  <2>3. 0 .. N \subseteq T
    <3> HIDE DEF T
    <3> QED BY <1>1, <2>1, <2>2, Upward
  <2> QED BY <2>3
<1>10. ReadUpTo(s, f)
  BY <1>1, <1>3, <1>4, <1>7, <1>9 DEF ReadUpTo, Grows
<1> QED BY <1>10

\* A number with one more digit.
LEMMA DecimalAppend ==
    ASSUME NEW s \in Seq(Digits), NEW c \in Digits
    PROVE  /\ Decimal(<<>>) = 0 /\ Decimal(s) \in Int
           /\ Decimal(Append(s, c)) = 10 * Decimal(s) + DigitValue(c)
<1> DEFINE more == Append(s, c)
<1>1. /\ more \in Seq(Digits) /\ Len(s) \in Nat /\ Len(more) = Len(s) + 1
      /\ \A i \in 1 .. Len(s) : more[i] = s[i]
      /\ more[Len(s) + 1] = c
  BY AppendProperties, LenProperties
<1> HIDE DEF more
<1>2. PICK n \in Nat : n = Len(s)
  BY <1>1
<1>3. PICK f \in [0 .. n -> Int] : ReadUpTo(s, f)
  BY <1>2, DecimalDef
<1>4. PICK g \in [0 .. n + 1 -> Int] : ReadUpTo(more, g)
  BY <1>1, <1>2, DecimalDef
<1>5. \A k \in 0 .. n : g[k] = f[k]
  <2> DEFINE T == {k \in 0 .. n : g[k] = f[k]}
  <2>1. 0 \in T
    BY <1>3, <1>4 DEF ReadUpTo
  <2>2. ASSUME NEW k \in 0 .. n, k + 1 \in 0 .. n, k \in T
        PROVE  k + 1 \in T
    <3>1. k + 1 \in 1 .. n /\ k + 1 \in 1 .. n + 1 /\ k + 1 - 1 = k /\ g[k] = f[k]
      BY <2>2
    <3>2. f[k + 1] = 10 * f[k] + DigitValue(s[k + 1])
      BY <1>2, <1>3, <3>1 DEF ReadUpTo
    <3>3. g[k + 1] = 10 * g[k] + DigitValue(more[k + 1])
      BY <1>1, <1>2, <1>4, <3>1 DEF ReadUpTo
    <3>4. more[k + 1] = s[k + 1]
      BY <1>1, <1>2, <3>1
    <3> QED BY <2>2, <3>1, <3>2, <3>3, <3>4
  <2>3. 0 .. n \subseteq T
    <3> HIDE DEF T
    <3> QED BY <2>1, <2>2, Upward
  <2> QED BY <2>3
<1>6. n \in 0 .. n /\ n + 1 \in 1 .. n + 1 /\ n + 1 - 1 = n
  OBVIOUS
<1>7. g[n + 1] = 10 * g[n] + DigitValue(more[n + 1])
  BY <1>1, <1>2, <1>4, <1>6 DEF ReadUpTo
<1>8. Decimal(s) = f[n] /\ Decimal(more) = g[n + 1]
  BY <1>1, <1>2, <1>3, <1>4 DEF ReadUpTo
<1>9. Decimal(<<>>) = 0
  <2>1. <<>> \in Seq(Digits) /\ Len(<<>>) = 0
    BY EmptySeq
  <2> QED BY <2>1, DecimalDef DEF ReadUpTo
<1>10. f[n] \in Int
  BY <1>3, <1>6
<1>11. Decimal(more) = 10 * Decimal(s) + DigitValue(c)
  BY <1>1, <1>2, <1>5, <1>6, <1>7, <1>8
<1> QED BY <1>8, <1>9, <1>10, <1>11 DEF more

-----------------------------------------------------------------------------
(* The lexemes of a text. *)

\* The places of a part of a text.
LEMMA PartFacts ==
    ASSUME IsText(text), NEW i \in 1 .. Len(text), NEW k \in i .. Len(text)
    PROVE  /\ SubSeq(text, i, k) \in Seq(STRING) /\ Len(SubSeq(text, i, k)) = k - i + 1
           /\ DOMAIN SubSeq(text, i, k) = 1 .. k - i + 1
           /\ \A n \in 1 .. k - i + 1 : SubSeq(text, i, k)[n] = text[i + n - 1]
<1>1. text \in Seq(STRING) /\ Len(text) \in Nat /\ DOMAIN text = 1 .. Len(text)
  BY LenProperties DEF IsText
<1>2. \A n \in i .. k : text[n] \in STRING
  BY <1>1, ElementOfSeq
<1> QED BY <1>1, <1>2, SubSeqProperties, LenProperties

\* A character on its own is a lexeme, so there is a longest one.
LEMMA EndFacts ==
    ASSUME IsText(text), NEW i \in 1 .. Len(text)
    PROVE  /\ EndOf(i) \in i .. Len(text) /\ IsLexeme(SubSeq(text, i, EndOf(i)))
           /\ \A k \in i .. Len(text) : IsLexeme(SubSeq(text, i, k)) => k <= EndOf(i)
<1> DEFINE S == {k \in i .. Len(text) : IsLexeme(SubSeq(text, i, k))}
<1>1. Len(text) \in Nat
  BY LenProperties DEF IsText
<1>2. i \in S
  <2>1. i \in i .. Len(text) /\ i - i + 1 = 1
    BY <1>1
  <2> QED BY <2>1, PartFacts DEF IsLexeme
<1>3. S \in SUBSET (1 .. Len(text))
  BY <1>1
<1>4. Max(S) \in S /\ \A k \in S : Max(S) >= k
  <2> HIDE DEF S
  <2> QED BY <1>1, <1>2, <1>3, MaxProperties
<1>5. EndOf(i) = Max(S)
  BY DEF EndOf
<1>6. \A k \in S : k \in Int /\ Max(S) \in Int
  BY <1>1, <1>4
<1> QED BY <1>4, <1>5, <1>6

\* The equation that LexemesFrom is defined by has a solution.
LEMMA LexemesExist ==
    ASSUME IsText(text)
    PROVE  \E f : f = [i \in 1 .. Len(text) + 1 |->
              IF i > Len(text) THEN <<>> ELSE <<SubSeq(text, i, EndOf(i))>> \o f[EndOf(i) + 1]]
<1>1. PICK N \in Nat : N = Len(text)
  BY LenProperties DEF IsText
<1> DEFINE Of(f, i) == IF i > N THEN <<>> ELSE <<SubSeq(text, i, EndOf(i))>> \o f[EndOf(i) + 1]
           Solves(f, k) == /\ f = [i \in 1 .. N + 1 |-> f[i]]
                           /\ \A i \in k .. N + 1 : f[i] = Of(f, i)
           S == {k \in 1 .. N + 1 : \E f : Solves(f, k)}
<1>2. N + 1 \in S
  <2>1. PICK f : f = [i \in 1 .. N + 1 |-> <<>>]
    OBVIOUS
  <2>2. f = [i \in 1 .. N + 1 |-> f[i]] /\ \A i \in N + 1 .. N + 1 : f[i] = Of(f, i)
    BY <2>1
  <2>3. N + 1 \in 1 .. N + 1
    OBVIOUS
  <2> HIDE DEF Of
  <2> QED BY <2>2, <2>3
<1>3. ASSUME NEW k \in 1 .. N + 1, k + 1 \in 1 .. N + 1, k + 1 \in S
      PROVE  k \in S
  <2>1. PICK f : Solves(f, k + 1)
    BY <1>3
  <2> DEFINE g == [i \in 1 .. N + 1 |-> IF i = k THEN Of(f, k) ELSE f[i]]
  <2>2. g = [i \in 1 .. N + 1 |-> g[i]] /\ g[k] = Of(f, k)
        /\ \A i \in k + 1 .. N + 1 : g[i] = f[i]
    <3> HIDE DEF Of
    <3> QED BY <2>1
  <2>3. ASSUME NEW i \in k .. N + 1
        PROVE  Of(g, i) = Of(f, i)
    <3>1. CASE i > N
      BY <3>1
    <3>2. CASE ~(i > N)
      <4>1. EndOf(i) \in i .. N
        <5>1. i \in 1 .. Len(text)
          BY <1>1, <3>2
        <5> QED BY <1>1, <5>1, EndFacts
      <4>2. EndOf(i) + 1 \in k + 1 .. N + 1
        BY <4>1
      <4> HIDE DEF g
      <4> QED BY <2>2, <3>2, <4>2
    <3> QED BY <3>1, <3>2
  <2>4. \A i \in k .. N + 1 : g[i] = Of(g, i)
    <3>1. ASSUME NEW i \in k .. N + 1
          PROVE  g[i] = Of(f, i)
      <4>1. i = k \/ i \in k + 1 .. N + 1
        OBVIOUS
      <4> HIDE DEF g, Of
      <4> QED BY <2>1, <2>2, <4>1
    <3> HIDE DEF g, Of
    <3> QED BY <2>3, <3>1
  <2>5. Solves(g, k)
    <3> HIDE DEF g, Of
    <3> QED BY <2>2, <2>4
  <2> HIDE DEF g, Solves
  <2> QED BY <2>5
<1>4. 1 \in S
  <2>1. 1 .. N + 1 \subseteq S
    <3> HIDE DEF S
    <3>1. N + 1 \in Nat
      OBVIOUS
    <3> QED BY <1>2, <1>3, <3>1, Downward
  <2> QED BY <2>1
<1>5. PICK f : Solves(f, 1)
  <2> HIDE DEF Solves
  <2> QED BY <1>4
<1>6. f = [i \in 1 .. N + 1 |-> Of(f, i)]
  <2> HIDE DEF Of
  <2> QED BY <1>5
<1> QED BY <1>1, <1>6

\* The lexemes from a place on.
LEMMA LexemesDef ==
    ASSUME IsText(text), NEW j \in 1 .. Len(text) + 1
    PROVE  LexemesFrom(j) = IF j > Len(text) THEN <<>>
                            ELSE <<SubSeq(text, j, EndOf(j))>> \o LexemesFrom(EndOf(j) + 1)
<1>1. PICK N \in Nat : N = Len(text)
  BY LenProperties DEF IsText
<1> DEFINE Of(f, i) == IF i > Len(text) THEN <<>>
                       ELSE <<SubSeq(text, i, EndOf(i))>> \o f[EndOf(i) + 1]
           Unwinds(f) == f = [i \in 1 .. Len(text) + 1 |-> Of(f, i)]
           from == CHOOSE f : Unwinds(f)
<1>2. \E f : Unwinds(f)
  BY LexemesExist
<1>3. Unwinds(from)
  <2> HIDE DEF Unwinds
  <2> QED BY <1>2
<1>4. \A i : LexemesFrom(i) = from[i]
  BY DEF LexemesFrom
<1>5. from[j] = Of(from, j)
  <2> HIDE DEF from, Of
  <2> QED BY <1>3
<1> HIDE DEF from
<1> QED BY <1>4, <1>5

\* Lexemes are sequences of characters, from every place on.
LEMMA LexemesType ==
    ASSUME IsText(text), NEW j \in 1 .. Len(text) + 1
    PROVE  LexemesFrom(j) \in Seq(Seq(STRING))
<1>1. PICK N \in Nat : N = Len(text)
  BY LenProperties DEF IsText
<1> DEFINE S == {k \in 1 .. N + 1 : \A i \in k .. N + 1 : LexemesFrom(i) \in Seq(Seq(STRING))}
<1>2. <<>> \in Seq(Seq(STRING))
  BY EmptySeq
<1>3. N + 1 \in S
  <2>1. \A i \in N + 1 .. N + 1 : i \in 1 .. Len(text) + 1 /\ i > Len(text)
    BY <1>1
  <2>2. N + 1 \in 1 .. N + 1
    OBVIOUS
  <2> QED BY <1>2, <2>1, <2>2, LexemesDef
<1>4. ASSUME NEW k \in 1 .. N + 1, k + 1 \in 1 .. N + 1, k + 1 \in S
      PROVE  k \in S
  <2>1. k \in 1 .. Len(text) /\ k \in 1 .. Len(text) + 1 /\ ~(k > Len(text))
    BY <1>1, <1>4
  <2>2. EndOf(k) \in k .. Len(text) /\ SubSeq(text, k, EndOf(k)) \in Seq(STRING)
    BY <2>1, EndFacts, PartFacts
  <2>3. EndOf(k) + 1 \in k + 1 .. N + 1
    BY <1>1, <2>2
  <2>4. LexemesFrom(EndOf(k) + 1) \in Seq(Seq(STRING))
    BY <1>4, <2>3
  <2>5. PICK s \in Seq(STRING) : s = SubSeq(text, k, EndOf(k))
    BY <2>2
  <2>6. LexemesFrom(k) = <<s>> \o LexemesFrom(EndOf(k) + 1)
    BY <2>1, <2>5, LexemesDef
  <2>7. <<s>> \in Seq(Seq(STRING))
    OBVIOUS
  <2>8. LexemesFrom(k) \in Seq(Seq(STRING))
    BY <2>4, <2>6, <2>7, ConcatProperties
  <2>9. \A i \in k .. N + 1 : i = k \/ i \in k + 1 .. N + 1
    OBVIOUS
  <2> QED BY <1>4, <2>8, <2>9
<1>5. 1 .. N + 1 \subseteq S
  <2> HIDE DEF S
  <2>1. N + 1 \in Nat
    OBVIOUS
  <2> QED BY <1>3, <1>4, <2>1, Downward
<1>6. j \in S /\ j \in j .. N + 1
  BY <1>1, <1>5
<1> QED BY <1>6

\* The kinds of characters.
LEMMA Classes ==
    /\ DOMAIN SymbolOf = Single /\ DOMAIN WideOf = {"=", "<", ">"}
    /\ Letters \cap Digits = {} /\ Letters \cap Whitespace = {} /\ Letters \cap Single = {}
    /\ Digits \cap Whitespace = {} /\ Digits \cap Single = {} /\ Whitespace \cap Single = {}
    /\ {"=", "<", ">", "/", EOF} \subseteq Single /\ "\n" \in Whitespace
    /\ EOF # "=" /\ EOF # "/" /\ EOF # "\n" /\ EOF \notin Whitespace
<1>1. DOMAIN SymbolOf = Single /\ DOMAIN WideOf = {"=", "<", ">"}
  BY SymbolFacts, WideFacts
<1>2. Letters \cap Digits = {} /\ Letters \cap Whitespace = {} /\ Letters \cap Single = {}
  BY <1>1, LettersAssumption
<1>3. /\ Digits \cap Whitespace = {} /\ Digits \cap Single = {} /\ Whitespace \cap Single = {}
      /\ {"=", "<", ">", "/", EOF} \subseteq Single /\ "\n" \in Whitespace
      /\ EOF # "=" /\ EOF # "/" /\ EOF # "\n" /\ EOF \notin Whitespace
  BY DigitFacts DEF Whitespace, Single, EOF
<1> QED BY <1>1, <1>2, <1>3

\* What kind of lexeme s is, the text from i to k.
LexemeKinds(s, i, k) ==
    /\ IsWord(s) <=> text[i] \in Letters /\ \A n \in i .. k : text[n] \in Letters \cup Digits
    /\ IsNumber(s) <=> \A n \in i .. k : text[n] \in Digits
    /\ IsPair(s) <=> k = i + 1 /\ text[i] \in {"=", "<", ">"} /\ text[i + 1] = "="
    /\ IsRemark(s) <=> /\ k > i + 1 /\ text[i] = "/" /\ text[i + 1] = "/" /\ text[k] = "\n"
                       /\ \A n \in i .. k - 1 : text[n] # "\n"
    /\ s[1] = text[i] /\ Len(s) = k - i + 1

\* The kind of a part of the text can be told from the text.
LEMMA PartKinds ==
    ASSUME IsText(text), NEW i \in 1 .. Len(text), NEW k \in i .. Len(text),
           NEW s, s = SubSeq(text, i, k)
    PROVE  LexemeKinds(s, i, k)
<1>1. PICK N \in Nat : N = Len(text)
  BY LenProperties DEF IsText
<1>2. i \in 1 .. N /\ k \in i .. N /\ i \in Nat /\ k \in Nat /\ i <= k
  BY <1>1
<1>3. /\ Len(s) = k - i + 1 /\ DOMAIN s = 1 .. k - i + 1
      /\ \A n \in 1 .. k - i + 1 : s[n] = text[i + n - 1]
  BY PartFacts
<1>4. \A n \in i .. k : n - i + 1 \in 1 .. k - i + 1 /\ s[n - i + 1] = text[n]
  <2>1. \A n \in i .. k : n - i + 1 \in 1 .. k - i + 1 /\ i + (n - i + 1) - 1 = n
    BY <1>2
  <2> QED BY <1>3, <2>1
<1>5. \A n \in 1 .. k - i + 1 : i + n - 1 \in i .. k
  BY <1>2
<1>6. s[1] = text[i] /\ (k > i => s[2] = text[i + 1]) /\ s[Len(s)] = text[k]
  <2>1. i - i + 1 = 1 /\ i \in i .. k /\ k \in i .. k
    BY <1>2
  <2>2. k > i => i + 1 \in i .. k /\ i + 1 - i + 1 = 2
    BY <1>2
  <2> QED BY <1>3, <1>4, <2>1, <2>2
<1>7. \A S : AllIn(s, S) <=> \A n \in i .. k : text[n] \in S
  BY <1>3, <1>4, <1>5 DEF AllIn
<1>8. IsPair(s) <=> k = i + 1 /\ text[i] \in {"=", "<", ">"} /\ text[i + 1] = "="
  <2>1. Len(s) = 2 <=> k = i + 1
    BY <1>2, <1>3
  <2>2. k = i + 1 => k > i
    BY <1>2
  <2> QED BY <1>6, <2>1, <2>2, WideFacts DEF IsPair
<1>9. IsRemark(s) <=> /\ k > i + 1 /\ text[i] = "/" /\ text[i + 1] = "/" /\ text[k] = "\n"
                      /\ \A n \in i .. k - 1 : text[n] # "\n"
  <2>1. (Len(s) > 2 <=> k > i + 1) /\ (k > i + 1 => k > i)
    BY <1>2, <1>3
  <2>2. (\A n \in 1 .. Len(s) - 1 : s[n] # "\n") <=> \A n \in i .. k - 1 : text[n] # "\n"
    <3>1. \A n \in 1 .. Len(s) - 1 : n \in 1 .. k - i + 1 /\ i + n - 1 \in i .. k - 1
      BY <1>2, <1>3
    <3>2. \A n \in i .. k - 1 : n \in i .. k /\ n - i + 1 \in 1 .. Len(s) - 1
      BY <1>2, <1>3
    <3>3. ASSUME \A n \in i .. k - 1 : text[n] # "\n", NEW n \in 1 .. Len(s) - 1
          PROVE  s[n] # "\n"
      <4>1. s[n] = text[i + n - 1]
        BY <1>3, <3>1
      <4> QED BY <3>1, <3>3, <4>1
    <3>4. ASSUME \A n \in 1 .. Len(s) - 1 : s[n] # "\n", NEW n \in i .. k - 1
          PROVE  text[n] # "\n"
      <4>1. s[n - i + 1] = text[n]
        BY <1>4, <3>2
      <4> QED BY <3>2, <3>4, <4>1
    <3> QED BY <3>3, <3>4
  <2> QED BY <1>6, <2>1, <2>2 DEF IsRemark
<1> QED BY <1>3, <1>6, <1>7, <1>8, <1>9 DEF IsWord, IsNumber, LexemeKinds

\* The longest lexeme is one that is, with none that is longer.
LEMMA EndIs ==
    ASSUME IsText(text), NEW i \in 1 .. Len(text), NEW e \in i .. Len(text),
           e = i \/ IsLexeme(SubSeq(text, i, e)),
           \A k \in i .. Len(text) : IsLexeme(SubSeq(text, i, k)) => k <= e
    PROVE  EndOf(i) = e
<1>1. EndOf(i) \in i .. Len(text) /\ EndOf(i) <= e
  BY EndFacts
<1>2. Len(text) \in Nat
  BY LenProperties DEF IsText
<1>3. e = i => e <= EndOf(i)
  BY <1>1, <1>2
<1>4. e <= EndOf(i)
  BY <1>3, EndFacts
<1> QED BY <1>1, <1>2, <1>4

\* A character that begins nothing longer.
LEMMA SingleEnd ==
    ASSUME IsText(text), NEW i \in 1 .. Len(text), text[i] \notin Letters \cup Digits,
           ~(text[i] \in {"=", "<", ">"} /\ CharAt(i + 1) = "="),
           ~(text[i] = "/" /\ CharAt(i + 1) = "/" /\ \E n \in i .. Len(text) : text[n] = "\n")
    PROVE  EndOf(i) = i
<1>1. PICK N \in Nat : N = Len(text) /\ DOMAIN text = 1 .. N
  BY LenProperties DEF IsText
<1>2. ASSUME NEW k \in i .. Len(text), IsLexeme(SubSeq(text, i, k))
      PROVE  k <= i
  <2>1. i \in i .. k /\ (k > i => i + 1 \in 1 .. N) /\ i \in Nat /\ k \in Nat
        /\ (k = i + 1 => k > i) /\ (k > i + 1 => k > i) /\ (k - i + 1 = 1 => k <= i)
    BY <1>1
  <2>2. k > i => CharAt(i + 1) = text[i + 1]
    BY <1>1, <2>1 DEF CharAt
  <2>3. PICK s : s = SubSeq(text, i, k)
    OBVIOUS
  <2>4. LexemeKinds(s, i, k)
    BY <2>3, PartKinds
  <2>5. ~IsWord(s) /\ ~IsNumber(s)
    BY <2>1, <2>4 DEF LexemeKinds
  <2>6. Len(s) = 1 => k <= i
    BY <2>1, <2>4 DEF LexemeKinds
  <2>7. ~IsPair(s)
    BY <2>1, <2>2, <2>4 DEF LexemeKinds
  <2>8. ~IsRemark(s)
    BY <2>1, <2>2, <2>4 DEF LexemeKinds
  <2> QED BY <1>2, <2>3, <2>5, <2>6, <2>7, <2>8 DEF IsLexeme
<1>3. i \in i .. Len(text)
  BY <1>1
<1> QED BY <1>2, <1>3, EndIs

\* Runs of letters and digits, of digits; two characters; a comment.
LEMMA LongEnd ==
    ASSUME IsText(text), NEW i \in 1 .. Len(text), NEW e \in i .. Len(text),
           \/ /\ text[i] \in Letters /\ \A n \in i .. e : text[n] \in Letters \cup Digits
              /\ CharAt(e + 1) \notin Letters \cup Digits
           \/ (\A n \in i .. e : text[n] \in Digits) /\ CharAt(e + 1) \notin Digits
           \/ e = i + 1 /\ text[i] \in {"=", "<", ">"} /\ text[e] = "="
           \/ /\ e > i + 1 /\ text[i] = "/" /\ text[i + 1] = "/" /\ text[e] = "\n"
              /\ \A n \in i .. e - 1 : text[n] # "\n"
    PROVE  EndOf(i) = e
<1>1. PICK N \in Nat : N = Len(text) /\ DOMAIN text = 1 .. N
  BY LenProperties DEF IsText
<1>2. i \in Nat /\ e \in Nat /\ i \in i .. e /\ e \in i .. N /\ (e = i + 1 => text[i + 1] = text[e])
  BY <1>1
<1>3. e = i \/ IsLexeme(SubSeq(text, i, e))
  <2>1. PICK s : s = SubSeq(text, i, e)
    OBVIOUS
  <2>2. IsWord(s) \/ IsNumber(s) \/ IsPair(s) \/ IsRemark(s)
    BY <1>2, <2>1, PartKinds DEF LexemeKinds
  <2> QED BY <2>1, <2>2 DEF IsLexeme
<1>4. ASSUME NEW k \in i .. Len(text), IsLexeme(SubSeq(text, i, k)), ~(k <= e)
      PROVE  FALSE
  <2>1. /\ k \in Nat /\ e + 1 \in i .. k /\ e + 1 \in 1 .. N /\ i \in i .. k
        /\ CharAt(e + 1) = text[e + 1] /\ k # i /\ k - i + 1 # 1
        /\ (k = i + 1 => e = i)
        /\ (k > i + 1 => i + 1 \in i .. k)
    BY <1>1, <1>2, <1>4 DEF CharAt
  <2>2. PICK s : s = SubSeq(text, i, k)
    OBVIOUS
  <2>3. LexemeKinds(s, i, k)
    BY <2>2, PartKinds
  <2>4. {"=", "<", ">", "/"} \subseteq Single /\ \A c \in Single : c \notin Letters /\ c \notin Digits
    BY Classes
  <2>5. \A c \in Letters : c \notin Digits
    BY Classes
  <2>6. ~IsWord(s)
    BY <1>2, <2>1, <2>3, <2>4, <2>5 DEF LexemeKinds
  <2>7. ~IsNumber(s)
    BY <1>2, <2>1, <2>3, <2>4, <2>5 DEF LexemeKinds
  <2>8. ~IsPair(s)
    BY <1>2, <2>1, <2>3, <2>4, <2>5 DEF LexemeKinds
  <2>9. ~IsRemark(s)
    <3>1. k > i + 1 => e \in i .. k - 1
      BY <1>2, <1>4, <2>1
    <3> QED BY <1>2, <2>1, <2>3, <2>4, <2>5, <3>1 DEF LexemeKinds
  <2> QED BY <1>4, <2>1, <2>2, <2>3, <2>6, <2>7, <2>8, <2>9 DEF IsLexeme, LexemeKinds
<1> QED BY <1>3, <1>4, EndIs

-----------------------------------------------------------------------------
(* A list of lexemes and the array of filled that goes with it. *)

\* A token of the program itself.
Inner(t) == /\ t \in Token /\ t.type \notin {"INVALID_TOK", "PROGRAM_END_TOK"}
            /\ t.type = "IDENT_TOK" <=> t.name # NULL

\* What a list of n elements is with one more.
Grown(list, e, n, more) ==
    Len(more) = n + 1 /\ more[n + 1] = e /\ \A i \in 1 .. n : more[i] = list[i]

\* Append makes a list grow.
LEMMA GrownIs ==
    ASSUME NEW S, NEW list \in Seq(S), NEW e \in S
    PROVE  Grown(list, e, Len(list), Append(list, e))
BY AppendProperties DEF Grown

\* Each token that is kept belongs to a lexeme.
Paired(filled, list) ==
    /\ Len(filled) = Len(list)
    /\ \A i \in 1 .. Len(list) : Inner(filled[i]) /\ Agree(filled[i], TokenOf(list[i]))

\* The names that are not too long.
Short(list) ==
    \A i \in 1 .. Len(list) : IsWord(list[i]) => Len(list[i]) + 1 <= MAX_STRING_SIZE

\* The array and the warnings after the lexemes of the list.
Matches(list, filled, warned) ==
    /\ list \in Seq(Seq(STRING)) /\ filled \in Seq(Token)
    /\ Len(filled) = Len(Taken(list)) /\ Len(filled) <= MAX_TOKENS
    /\ Paired(Valid(filled), Proper(list))
    /\ warned = Len(Odd(list))
    /\ Short(list) /\ ~Unclosed(list)

\* The lexemes of a list with one more.
LEMMA LexemeAppend ==
    ASSUME NEW list \in Seq(Seq(STRING)), NEW s \in Seq(STRING), NEW more, more = Append(list, s)
    PROVE  /\ Taken(list) \in Seq(Seq(STRING)) /\ Proper(list) \in Seq(Seq(STRING))
           /\ Odd(list) \in Seq(Seq(STRING))
           /\ Taken(more) = IF IsBlank(s) THEN Taken(list) ELSE Append(Taken(list), s)
           /\ Proper(more) = IF IsBlank(s) \/ IsUnknown(s) \/ IsRemark(s) THEN Proper(list)
                             ELSE Append(Proper(list), s)
           /\ Odd(more) = IF IsUnknown(s) THEN Append(Odd(list), s) ELSE Odd(list)
<1> DEFINE take(l) == {i \in DOMAIN l : ~IsBlank(l[i])}
           prop(l) == {i \in DOMAIN l : ~IsBlank(l[i]) /\ ~IsUnknown(l[i]) /\ ~IsRemark(l[i])}
           odd(l) == {i \in DOMAIN l : IsUnknown(l[i])}
<1>1. /\ more \in Seq(Seq(STRING)) /\ Len(list) \in Nat /\ Len(more) = Len(list) + 1
      /\ \A i \in 1 .. Len(list) : more[i] = list[i]
      /\ more[Len(list) + 1] = s
      /\ DOMAIN list = 1 .. Len(list) /\ DOMAIN more = 1 .. Len(list) + 1
  BY AppendProperties, LenProperties
<1>2. Len(more) \in DOMAIN more /\ \A i \in 1 .. Len(list) : i \in DOMAIN more
  BY <1>1
<1>3. /\ \A i \in 1 .. Len(list) : i \in take(more) <=> i \in take(list)
      /\ Len(more) \in take(more) <=> ~IsBlank(s)
  BY <1>1, <1>2
<1>4. /\ \A i \in 1 .. Len(list) : i \in prop(more) <=> i \in prop(list)
      /\ Len(more) \in prop(more) <=> ~IsBlank(s) /\ ~IsUnknown(s) /\ ~IsRemark(s)
  BY <1>1, <1>2
<1>5. /\ \A i \in 1 .. Len(list) : i \in odd(more) <=> i \in odd(list)
      /\ Len(more) \in odd(more) <=> IsUnknown(s)
  BY <1>1, <1>2
<1>6. /\ Taken(list) = Kept(list, take(list)) /\ Taken(more) = Kept(more, take(more))
      /\ Proper(list) = Kept(list, prop(list)) /\ Proper(more) = Kept(more, prop(more))
      /\ Odd(list) = Kept(list, odd(list)) /\ Odd(more) = Kept(more, odd(more))
  BY DEF Taken, Proper, Odd
<1> HIDE DEF take, prop, odd
<1>7. /\ Taken(list) \in Seq(Seq(STRING))
      /\ Taken(more) = IF IsBlank(s) THEN Taken(list) ELSE Append(Taken(list), s)
  <2>1. PICK a, b : a = take(list) /\ b = take(more)
    OBVIOUS
  <2>2. KeepsNext(Seq(STRING), list, s, a, b)
    <3>1. AsFar(list, a, b)
      BY <1>3, <2>1 DEF AsFar
    <3> QED BY <3>1, KeptAppend, Zenon
  <2> QED BY <1>3, <1>1, <1>6, <2>1, <2>2 DEF KeepsNext
<1>8. /\ Proper(list) \in Seq(Seq(STRING))
      /\ Proper(more) = IF IsBlank(s) \/ IsUnknown(s) \/ IsRemark(s) THEN Proper(list)
                             ELSE Append(Proper(list), s)
  <2>1. PICK a, b : a = prop(list) /\ b = prop(more)
    OBVIOUS
  <2>2. KeepsNext(Seq(STRING), list, s, a, b)
    <3>1. AsFar(list, a, b)
      BY <1>4, <2>1 DEF AsFar
    <3> QED BY <3>1, KeptAppend, Zenon
  <2> QED BY <1>4, <1>1, <1>6, <2>1, <2>2 DEF KeepsNext
<1>9. /\ Odd(list) \in Seq(Seq(STRING))
      /\ Odd(more) = IF IsUnknown(s) THEN Append(Odd(list), s) ELSE Odd(list)
  <2>1. PICK a, b : a = odd(list) /\ b = odd(more)
    OBVIOUS
  <2>2. KeepsNext(Seq(STRING), list, s, a, b)
    <3>1. AsFar(list, a, b)
      BY <1>5, <2>1 DEF AsFar
    <3> QED BY <3>1, KeptAppend, Zenon
  <2> QED BY <1>5, <1>1, <1>6, <2>1, <2>2 DEF KeepsNext
<1> QED BY <1>7, <1>8, <1>9

\* The selections of a list of lexemes are lists of lexemes.
LEMMA LexemeLists ==
    ASSUME NEW list \in Seq(Seq(STRING))
    PROVE  /\ Taken(list) \in Seq(Seq(STRING)) /\ Proper(list) \in Seq(Seq(STRING))
           /\ Odd(list) \in Seq(Seq(STRING)) /\ Len(Taken(list)) \in Nat
<1>1. PICK s \in Seq(STRING) : s = <<>>
  BY EmptySeq
<1> QED BY LexemeAppend, LenProperties

\* The tokens of an array with one more.
LEMMA ValidAppend ==
    ASSUME NEW filled \in Seq(Token), NEW t \in Token, NEW more, more = Append(filled, t)
    PROVE  /\ Valid(filled) \in Seq(Token)
           /\ Valid(more) = IF t.type = "INVALID_TOK" THEN Valid(filled)
                                                      ELSE Append(Valid(filled), t)
<1> DEFINE valid(l) == {i \in DOMAIN l : l[i].type # "INVALID_TOK"}
<1>1. /\ more \in Seq(Token) /\ Len(filled) \in Nat /\ Len(more) = Len(filled) + 1
      /\ \A i \in 1 .. Len(filled) : more[i] = filled[i]
      /\ more[Len(filled) + 1] = t
      /\ DOMAIN filled = 1 .. Len(filled) /\ DOMAIN more = 1 .. Len(filled) + 1
  BY AppendProperties, LenProperties
<1>2. Len(more) \in DOMAIN more /\ \A i \in 1 .. Len(filled) : i \in DOMAIN more
  BY <1>1
<1>3. /\ \A i \in 1 .. Len(filled) : i \in valid(more) <=> i \in valid(filled)
      /\ Len(more) \in valid(more) <=> t.type # "INVALID_TOK"
  BY <1>1, <1>2
<1>4. Valid(filled) = Kept(filled, valid(filled)) /\ Valid(more) = Kept(more, valid(more))
  BY DEF Valid
<1> HIDE DEF valid
<1>5. PICK a, b : a = valid(filled) /\ b = valid(more)
  OBVIOUS
<1>6. KeepsNext(Token, filled, t, a, b)
  <2>1. AsFar(filled, a, b)
    BY <1>3, <1>5 DEF AsFar
  <2> QED BY <2>1, KeptAppend, Zenon
<1> QED BY <1>1, <1>3, <1>4, <1>5, <1>6 DEF KeepsNext

\* A list with nothing in it.
LEMMA MatchesNothing == Matches(<<>>, <<>>, 0)
<1>1. /\ <<>> \in Seq(Seq(STRING)) /\ <<>> \in Seq(Token) /\ Len(<<>>) = 0 /\ 1 .. 0 = {}
  BY EmptySeq
<1>2. \A valid : Kept(<<>>, valid) = <<>>
  <2> TAKE valid
  <2>1. \E f \in [0 .. Len(<<>>) -> Seq(Token)] : KeptUpTo(<<>>, valid, f)
    BY <1>1, KeptDef
  <2> QED BY <1>1, <2>1 DEF KeptUpTo
<1>3. /\ Taken(<<>>) = <<>> /\ Proper(<<>>) = <<>> /\ Odd(<<>>) = <<>> /\ Valid(<<>>) = <<>>
  BY <1>2 DEF Taken, Proper, Odd, Valid
<1>4. ~Unclosed(<<>>)
  BY <1>1 DEF Unclosed
<1> QED BY <1>1, <1>3, <1>4, BoundsAssumption DEF Matches, Paired, Short

\* What a list of lexemes is not made by one more.
LEMMA StillClosed ==
    ASSUME NEW list \in Seq(Seq(STRING)), NEW s \in Seq(STRING), NEW more, more = Append(list, s),
           Short(list), ~Unclosed(list), IsWord(s) => Len(s) + 1 <= MAX_STRING_SIZE,
           list # <<>> /\ list[Len(list)] = <<"/">> => s # <<"/">>
    PROVE  Short(more) /\ ~Unclosed(more)
<1>1. PICK n \in Nat : n = Len(list)
  BY LenProperties
<1>2. /\ Len(more) = n + 1 /\ more[n + 1] = s /\ \A i \in 1 .. n : more[i] = list[i]
  BY <1>1, AppendProperties
<1>3. Short(more)
  <2>1. \A i \in 1 .. n + 1 : i \in 1 .. n \/ i = n + 1
    OBVIOUS
  <2> QED BY <1>1, <1>2, <2>1 DEF Short
<1>4. ASSUME NEW i \in 1 .. Len(more) - 1, more[i] = <<"/">>, more[i + 1] = <<"/">>
      PROVE  FALSE
  <2>1. i \in 1 .. n
    BY <1>2, <1>4
  <2>2. CASE i = n
    <3>1. list # <<>>
      BY <1>1, <2>1, EmptySeq
    <3>2. list[n] = <<"/">> /\ s = <<"/">>
      BY <1>2, <1>4, <2>1, <2>2
    <3> QED BY <1>1, <3>1, <3>2
  <2>3. CASE i # n
    <3>1. i \in 1 .. n - 1 /\ i + 1 \in 1 .. n
      BY <2>1, <2>3
    <3>2. list[i] = <<"/">> /\ list[i + 1] = <<"/">>
      BY <1>2, <1>4, <2>1, <3>1
    <3> QED BY <1>1, <3>1, <3>2 DEF Unclosed
  <2> QED BY <2>2, <2>3
<1> QED BY <1>3, <1>4 DEF Unclosed

\* White space takes no room in the array.
LEMMA MatchesBlank ==
    ASSUME NEW list, NEW filled, NEW warned, Matches(list, filled, warned), NEW s \in Seq(STRING),
           IsBlank(s), ~IsUnknown(s), ~IsWord(s), s # <<"/">>
    PROVE  Matches(Append(list, s), filled, warned)
<1>1. PICK more : more = Append(list, s)
  OBVIOUS
<1>2. list \in Seq(Seq(STRING)) /\ Short(list) /\ ~Unclosed(list)
  BY DEF Matches
<1>3. more \in Seq(Seq(STRING))
  BY <1>1, <1>2, AppendProperties
<1>4. Short(more) /\ ~Unclosed(more)
  BY <1>1, <1>2, StillClosed
<1>5. Taken(more) = Taken(list) /\ Proper(more) = Proper(list) /\ Odd(more) = Odd(list)
  BY <1>1, <1>2, LexemeAppend
<1> QED BY <1>1, <1>3, <1>4, <1>5 DEF Matches

\* What is dropped later takes room in the array.
LEMMA MatchesInvalid ==
    ASSUME NEW list, NEW filled, NEW warned, Matches(list, filled, warned), NEW s \in Seq(STRING),
           ~IsBlank(s), IsUnknown(s) \/ IsRemark(s), ~IsWord(s), s # <<"/">>,
           Len(filled) < MAX_TOKENS
    PROVE  Matches(Append(list, s), Append(filled, Tk("INVALID_TOK")),
                   IF IsUnknown(s) THEN warned + 1 ELSE warned)
<1>1. PICK more : more = Append(list, s)
  OBVIOUS
<1>2. /\ list \in Seq(Seq(STRING)) /\ Short(list) /\ ~Unclosed(list) /\ filled \in Seq(Token)
      /\ Len(filled) = Len(Taken(list)) /\ warned = Len(Odd(list))
      /\ Paired(Valid(filled), Proper(list))
  BY DEF Matches
<1>3. more \in Seq(Seq(STRING))
  BY <1>1, <1>2, AppendProperties
<1>4. Short(more) /\ ~Unclosed(more)
  BY <1>1, <1>2, StillClosed
<1>5. /\ Taken(more) = Append(Taken(list), s) /\ Proper(more) = Proper(list)
      /\ Odd(more) = IF IsUnknown(s) THEN Append(Odd(list), s) ELSE Odd(list)
      /\ Taken(list) \in Seq(Seq(STRING)) /\ Odd(list) \in Seq(Seq(STRING))
  BY <1>1, <1>2, LexemeAppend
<1>6. PICK t \in Token : t = Tk("INVALID_TOK") /\ t.type = "INVALID_TOK"
  <2>1. Tk("INVALID_TOK") \in Token /\ Tk("INVALID_TOK").type = "INVALID_TOK"
    BY DEF Tk, Token, TokenTypes
  <2> QED BY <2>1
<1>7. PICK all : all = Append(filled, t)
  OBVIOUS
<1>8. Valid(all) = Valid(filled)
  BY <1>2, <1>6, <1>7, ValidAppend
<1>9. /\ all \in Seq(Token) /\ Len(all) = Len(filled) + 1 /\ Len(filled) \in Nat
      /\ Len(Taken(more)) = Len(Taken(list)) + 1
  <2>1. all \in Seq(Token) /\ Len(all) = Len(filled) + 1 /\ Len(filled) \in Nat
    BY <1>2, <1>7, AppendProperties, LenProperties
  <2>2. PICK taken \in Seq(Seq(STRING)) :
           taken = Taken(list) /\ Taken(more) = Append(taken, s)
    BY <1>5
  <2>3. Len(Append(taken, s)) = Len(taken) + 1
    BY AppendProperties
  <2> QED BY <2>1, <2>2, <2>3
<1>10. Len(Odd(more)) = IF IsUnknown(s) THEN warned + 1 ELSE warned
  BY <1>2, <1>5, AppendProperties
<1>11. Len(all) <= MAX_TOKENS
  BY <1>9, BoundsAssumption
<1> QED BY <1>1, <1>2, <1>3, <1>4, <1>5, <1>6, <1>7, <1>8, <1>9, <1>10, <1>11 DEF Matches

\* A token of the program is kept.
LEMMA MatchesToken ==
    ASSUME NEW list, NEW filled, NEW warned, Matches(list, filled, warned), NEW s \in Seq(STRING),
           ~IsBlank(s), ~IsUnknown(s), ~IsRemark(s),
           IsWord(s) => Len(s) + 1 <= MAX_STRING_SIZE,
           list # <<>> /\ list[Len(list)] = <<"/">> => s # <<"/">>,
           Len(filled) < MAX_TOKENS, NEW t, Inner(t), Agree(t, TokenOf(s))
    PROVE  Matches(Append(list, s), Append(filled, t), warned)
<1>1. PICK more : more = Append(list, s)
  OBVIOUS
<1>2. /\ list \in Seq(Seq(STRING)) /\ Short(list) /\ ~Unclosed(list) /\ filled \in Seq(Token)
      /\ Len(filled) = Len(Taken(list)) /\ warned = Len(Odd(list))
      /\ Paired(Valid(filled), Proper(list))
  BY DEF Matches
<1>3. more \in Seq(Seq(STRING))
  BY <1>1, <1>2, AppendProperties
<1>4. Short(more) /\ ~Unclosed(more)
  BY <1>1, <1>2, StillClosed
<1>5. /\ Taken(more) = Append(Taken(list), s) /\ Proper(more) = Append(Proper(list), s)
      /\ Odd(more) = Odd(list)
      /\ Taken(list) \in Seq(Seq(STRING)) /\ Proper(list) \in Seq(Seq(STRING))
  BY <1>1, <1>2, LexemeAppend
<1>6. PICK all : all = Append(filled, t)
  OBVIOUS
<1>7. t \in Token /\ t.type # "INVALID_TOK"
  BY DEF Inner
<1>8. Valid(all) = Append(Valid(filled), t) /\ Valid(filled) \in Seq(Token)
  BY <1>2, <1>6, <1>7, ValidAppend
<1>9. /\ all \in Seq(Token) /\ Len(all) = Len(filled) + 1 /\ Len(filled) \in Nat
      /\ Len(Taken(more)) = Len(Taken(list)) + 1
  <2>1. all \in Seq(Token) /\ Len(all) = Len(filled) + 1 /\ Len(filled) \in Nat
    BY <1>2, <1>6, <1>7, AppendProperties, LenProperties
  <2>2. PICK taken \in Seq(Seq(STRING)) :
           taken = Taken(list) /\ Taken(more) = Append(taken, s)
    BY <1>5
  <2>3. Len(Append(taken, s)) = Len(taken) + 1
    BY AppendProperties
  <2> QED BY <2>1, <2>2, <2>3
<1>10. Len(all) <= MAX_TOKENS
  BY <1>9, BoundsAssumption
<1>11. Paired(Valid(all), Proper(more))
  <2>1. PICK kept \in Seq(Token), words \in Seq(Seq(STRING)) :
           kept = Valid(filled) /\ words = Proper(list)
    BY <1>5, <1>8
  <2>2. PICK n \in Nat : n = Len(words) /\ n = Len(kept)
    BY <1>2, <2>1, LenProperties DEF Paired
  <2>3. PICK kept2, words2 : kept2 = Append(kept, t) /\ words2 = Append(words, s)
    OBVIOUS
  <2>4. /\ Len(kept2) = n + 1 /\ Len(words2) = n + 1 /\ kept2[n + 1] = t /\ words2[n + 1] = s
        /\ \A i \in 1 .. n : kept2[i] = kept[i] /\ words2[i] = words[i]
    <3>1. Len(kept2) = n + 1 /\ kept2[n + 1] = t /\ \A i \in 1 .. n : kept2[i] = kept[i]
      BY <1>7, <2>2, <2>3, AppendProperties
    <3>2. Len(words2) = n + 1 /\ words2[n + 1] = s /\ \A i \in 1 .. n : words2[i] = words[i]
      <4>1. Grown(words, s, Len(words), Append(words, s))
        BY GrownIs, Zenon
      <4> QED BY <2>2, <2>3, <4>1 DEF Grown
    <3> QED BY <3>1, <3>2
  <2>5. \A i \in 1 .. n + 1 : i \in 1 .. n \/ i = n + 1
    OBVIOUS
  <2>6. \A i \in 1 .. n : Inner(kept[i]) /\ Agree(kept[i], TokenOf(words[i]))
    BY <1>2, <2>1, <2>2 DEF Paired
  <2>7. ASSUME NEW i \in 1 .. n + 1
        PROVE  Inner(kept2[i]) /\ Agree(kept2[i], TokenOf(words2[i]))
    <3>1. CASE i \in 1 .. n
      BY <2>4, <2>6, <3>1
    <3>2. CASE i = n + 1
      BY <2>4, <3>2
    <3> QED BY <2>5, <3>1, <3>2
  <2>8. Paired(kept2, words2)
    BY <2>4, <2>7 DEF Paired
  <2> QED BY <1>5, <1>8, <2>1, <2>3, <2>8
<1> QED BY <1>1, <1>2, <1>3, <1>4, <1>5, <1>6, <1>9, <1>10, <1>11 DEF Matches

\* At the end of the text all tokens are there.
LEMMA MatchesEnd ==
    ASSUME NEW list, NEW warned, Matches(list, found, warned), NEW all,
           all = Append(found, Tk("PROGRAM_END_TOK")), Len(found) < MAX_TOKENS
    PROVE  /\ IsTokenList(Valid(all)) /\ Len(Valid(all)) = Len(TokensOf(list))
           /\ \A i \in DOMAIN Valid(all) : Agree(Valid(all)[i], TokensOf(list)[i])
           /\ warned = Len(Odd(list)) /\ ~Unclosed(list) /\ Fits(list)
<1>1. /\ list \in Seq(Seq(STRING)) /\ Short(list) /\ ~Unclosed(list) /\ found \in Seq(Token)
      /\ Len(found) = Len(Taken(list)) /\ warned = Len(Odd(list))
      /\ Paired(Valid(found), Proper(list))
  BY DEF Matches
<1>2. PICK t \in Token : t = Tk("PROGRAM_END_TOK") /\ t.type = "PROGRAM_END_TOK"
                         /\ t.name = NULL /\ t.ival = 0
  BY DEF Tk, Token, TokenTypes
<1>3. Valid(all) = Append(Valid(found), t) /\ Valid(found) \in Seq(Token)
  BY <1>1, <1>2, ValidAppend
<1>4. PICK kept \in Seq(Token), words \in Seq(Seq(STRING)) :
           kept = Valid(found) /\ words = Proper(list)
  BY <1>1, <1>3, LexemeLists
<1>5. PICK n \in Nat : n = Len(words) /\ n = Len(kept)
  BY <1>1, <1>4, LenProperties DEF Paired
<1>6. PICK v, e : v = Append(kept, t) /\ e = TokensOf(list) /\ v = Valid(all)
  BY <1>3, <1>4
<1>7. /\ v \in Seq(Token) /\ Len(v) = n + 1 /\ v[n + 1] = t /\ DOMAIN v = 1 .. n + 1
      /\ \A i \in 1 .. n : v[i] = kept[i]
  <2>1. v = Append(kept, t)
    BY <1>6
  <2>2. v \in Seq(Token) /\ Len(v) = n + 1 /\ v[n + 1] = t /\ \A i \in 1 .. n : v[i] = kept[i]
    <3> HIDE <1>6
    <3> QED BY <1>5, <2>1, AppendProperties
  <2> QED BY <2>2, LenProperties
<1>8. /\ Len(e) = n + 1 /\ e[n + 1] = t /\ \A i \in 1 .. n : e[i] = TokenOf(words[i])
  <2>1. PICK r : r = [i \in DOMAIN words |-> TokenOf(words[i])]
    OBVIOUS
  <2>2. r = [i \in 1 .. n |-> TokenOf(words[i])] /\ \A i \in 1 .. n : r[i] = TokenOf(words[i])
    BY <1>5, <2>1, LenProperties
  <2>3. PICK S : S = {TokenOf(words[i]) : i \in 1 .. n} \cup {t}
    OBVIOUS
  <2>4. r \in [1 .. n -> S] /\ t \in S
    BY <2>2, <2>3
  <2>5. r \in Seq(S) /\ Len(r) = n
    BY <2>4
  <2>6. e = Append(r, t)
    BY <1>2, <1>4, <1>6, <2>1 DEF TokensOf
  <2> QED BY <2>2, <2>4, <2>5, <2>6, AppendProperties
<1>9. \A i \in 1 .. n + 1 : (i \in 1 .. n /\ i # n + 1) \/ i = n + 1
  OBVIOUS
<1>10. \A i \in 1 .. n : Inner(kept[i]) /\ Agree(kept[i], TokenOf(words[i]))
  BY <1>1, <1>4, <1>5 DEF Paired
<1>11. Agree(t, t)
  BY <1>2, BoundsAssumption DEF Agree
<1>12. \A i \in DOMAIN v : Agree(v[i], e[i])
  BY <1>7, <1>8, <1>9, <1>10, <1>11
<1>13. IsTokenList(v)
  <2>1. v # <<>>
    BY <1>7, EmptySeq
  <2>2. ASSUME NEW i \in 1 .. n + 1
        PROVE  /\ v[i].type # "INVALID_TOK"
               /\ v[i].type = "PROGRAM_END_TOK" <=> i = n + 1
               /\ v[i].type = "IDENT_TOK" <=> v[i].name # NULL
    <3>1. CASE i \in 1 .. n /\ i # n + 1
      BY <1>7, <1>10, <3>1 DEF Inner
    <3>2. CASE i = n + 1
      BY <1>2, <1>7, <3>2
    <3> QED BY <1>9, <3>1, <3>2
  <2> QED BY <1>7, <2>1, <2>2 DEF IsTokenList
<1>14. Fits(list)
  <2>1. DOMAIN list = 1 .. Len(list) /\ Len(found) \in Nat
    BY <1>1, LenProperties
  <2> QED BY <1>1, <2>1, BoundsAssumption DEF Fits, Short
<1> QED BY <1>1, <1>6, <1>7, <1>8, <1>12, <1>13, <1>14

\* An array that is full has no room for what a longer list needs.
LEMMA NoRoom ==
    ASSUME NEW list, NEW filled, NEW warned, Matches(list, filled, warned),
           NEW s \in Seq(STRING), ~IsBlank(s), ~(Len(filled) < MAX_TOKENS),
           NEW rest \in Seq(Seq(STRING))
    PROVE  ~Fits(Append(list, s) \o rest)
<1>1. /\ list \in Seq(Seq(STRING)) /\ filled \in Seq(Token) /\ Len(filled) = Len(Taken(list))
  BY DEF Matches
<1>2. PICK more : more = Append(list, s) /\ more \in Seq(Seq(STRING))
  BY <1>1, AppendProperties
<1>3. PICK all \in Seq(Seq(STRING)) : all = more \o rest
  <2>1. more \o rest \in Seq(Seq(STRING))
    BY <1>2, ConcatProperties, Zenon
  <2> QED BY <2>1
<1>4. Len(Taken(more)) = Len(filled) + 1 /\ Len(filled) \in Nat
  <2>1. Taken(more) = Append(Taken(list), s) /\ Taken(list) \in Seq(Seq(STRING))
    <3>1. more = Append(list, s) /\ list \in Seq(Seq(STRING))
      BY <1>1, <1>2
    <3> QED BY <3>1, LexemeAppend
  <2> QED BY <1>1, <2>1, AppendProperties, LenProperties
<1>5. Len(Taken(more)) <= Len(Taken(all))
  <2> DEFINE take(l) == {i \in DOMAIN l : ~IsBlank(l[i])}
  <2>1. /\ Len(more) <= Len(all) /\ \A i \in 1 .. Len(more) : all[i] = more[i]
        /\ DOMAIN more = 1 .. Len(more) /\ DOMAIN all = 1 .. Len(all)
        /\ Len(more) \in Nat /\ Len(all) \in Nat
    BY <1>3, ConcatProperties, LenProperties
  <2>2. \A i \in 1 .. Len(more) : i \in take(all) <=> i \in take(more)
    BY <2>1
  <2>3. Taken(more) = Kept(more, take(more)) /\ Taken(all) = Kept(all, take(all))
    BY DEF Taken
  <2>4. PICK a, b : a = take(more) /\ b = take(all)
    OBVIOUS
  <2> HIDE DEF take
  <2>5. Len(Kept(more, a)) <= Len(Kept(all, b))
    <3>1. \A i \in 1 .. Len(more) : i \in b <=> i \in a
      BY <2>2, <2>4
    <3> HIDE <1>1, <1>2, <1>3
    <3> QED BY <1>2, <2>1, <3>1, KeptLonger, ZenonT(20)
  <2> QED BY <2>3, <2>4, <2>5
<1>6. Taken(all) \in Seq(Seq(STRING)) /\ Len(Taken(all)) \in Nat
  BY LexemeLists
<1>7. ~(Len(Taken(all)) + 1 <= MAX_TOKENS)
  BY <1>4, <1>5, <1>6, BoundsAssumption
<1> QED BY <1>2, <1>3, <1>7 DEF Fits

-----------------------------------------------------------------------------
(* How far the text has been read. *)

\* The list holds the lexemes in front of a place, and the array goes with it.  Behind
\* a slash that is a lexeme there is no other one.
ReadTo(list, start) ==
    /\ start \in 1 .. Len(text) + 1
    /\ Matches(list, found, warnings)
    /\ Lexemes = list \o LexemesFrom(start)
    /\ list # <<>> /\ list[Len(list)] = <<"/">> => CharAt(start) # "/"

\* A name, a number and a comment that begin there.
WordFrom(start) ==
    /\ start \in 1 .. Len(text) /\ at \in start .. Len(text) + 1
    /\ text[start] \in Letters /\ \A n \in start .. at - 1 : text[n] \in Letters \cup Digits
    /\ word = SubSeq(text, start, at - 1) /\ Len(word) <= MAX_STRING_SIZE

NumberFrom(start) ==
    /\ start \in 1 .. Len(text) /\ at \in start .. Len(text) + 1
    /\ text[start] \in Digits /\ \A n \in start .. at - 1 : text[n] \in Digits
    /\ val \in Int /\ -(2 ^ (IntBits - 1)) <= val /\ val < 2 ^ (IntBits - 1)
    /\ (val - Decimal(SubSeq(text, start, at - 1))) % (2 ^ IntBits) = 0

LineFrom(start) ==
    /\ start + 1 \in 1 .. Len(text) /\ start \in 1 .. Len(text) /\ at \in start .. Len(text) + 1
    /\ text[start] = "/" /\ text[start + 1] = "/"
    /\ \A n \in start .. at - 1 : text[n] # "\n"

Inside(start) ==
    /\ mode = "next" => start = at
    /\ mode = "string" => WordFrom(start)
    /\ mode = "number" => NumberFrom(start)
    /\ mode = "line" => LineFrom(start)

Reading == \E list, start : ReadTo(list, start) /\ Inside(start)

\* The inductive invariant of the lexer.
LexInv ==
    /\ IsText(text)
    /\ mode \in {"next", "string", "number", "line"} => Reading
    /\ mode = "done" => Tokenized(Lexemes) /\ ~Unclosed(Lexemes) /\ Fits(Lexemes)
    /\ mode = "overrun" => ~Fits(Lexemes)

\* Nothing writes the text.
LEMMA SameText ==
    ASSUME text' = text
    PROVE  /\ Lexemes' = Lexemes /\ IsText(text)' = IsText(text)
           /\ \A i : LexemesFrom(i)' = LexemesFrom(i) /\ CharAt(i)' = CharAt(i)
<1>1. \A i : EndOf(i)' = EndOf(i)
  BY DEF EndOf
<1>2. \A i : LexemesFrom(i)' = LexemesFrom(i)
  BY <1>1 DEF LexemesFrom, EndOf
<1> QED BY <1>2 DEF Lexemes, CharAt, IsText

\* An element may stand at the end of a list or at the front of the next one, and a
\* part of a list from a place to that place is one element.
Shifts(list, e, rest) == Append(list, e) \o rest = list \o (<<e>> \o rest)

\* Append and concatenation.
LEMMA Shift ==
    ASSUME NEW S, NEW list \in Seq(S), NEW e \in S, NEW rest \in Seq(S)
    PROVE  Shifts(list, e, rest)
<1>1. Append(list, e) = list \o <<e>>
  BY AppendIsConcat
<1>2. <<e>> \in Seq(S)
  OBVIOUS
<1>3. (list \o <<e>>) \o rest = list \o (<<e>> \o rest)
  BY <1>2, ConcatAssociative
<1> QED BY <1>1, <1>3 DEF Shifts

\* A part from a place to the same place.
LEMMA PartOfOne ==
    ASSUME NEW S, NEW list \in Seq(S), NEW i \in 1 .. Len(list)
    PROVE  SubSeq(list, i, i) = <<list[i]>>
<1>1. Len(list) \in Nat /\ i \in Int /\ list[i] \in S
  BY LenProperties, ElementOfSeq
<1>2. i \in i .. Len(list) /\ i - 1 < i
  BY <1>1
<1>3. SubSeq(list, i, i) = SubSeq(list, i, i - 1) \o <<list[i]>>
  BY <1>2, SubSeqRecursiveSecond
<1>4. SubSeq(list, i, i - 1) = <<>>
  BY <1>1, <1>2, SubSeqEmpty
<1>5. <<list[i]>> \in Seq(S)
  BY <1>1
<1>6. <<>> \o <<list[i]>> = <<list[i]>>
  BY <1>5, ConcatEmptySeq
<1> QED BY <1>3, <1>4, <1>6

\* One more lexeme.
LEMMA ReadLexeme ==
    ASSUME IsText(text), NEW list \in Seq(Seq(STRING)), NEW start \in 1 .. Len(text),
           Lexemes = list \o LexemesFrom(start),
           NEW e, e = EndOf(start), NEW s, s = SubSeq(text, start, e)
    PROVE  /\ s \in Seq(STRING) /\ e \in start .. Len(text) /\ e + 1 \in 1 .. Len(text) + 1
           /\ LexemesFrom(e + 1) \in Seq(Seq(STRING))
           /\ Lexemes = Append(list, s) \o LexemesFrom(e + 1)
<1>1. PICK N \in Nat : N = Len(text)
  BY LenProperties DEF IsText
<1>2. e \in start .. Len(text) /\ s \in Seq(STRING)
  BY EndFacts, PartFacts
<1>3. e + 1 \in 1 .. Len(text) + 1 /\ start \in 1 .. Len(text) + 1 /\ ~(start > Len(text))
  BY <1>1, <1>2
<1>4. PICK rest : rest = LexemesFrom(e + 1)
  OBVIOUS
<1>5. rest \in Seq(Seq(STRING))
  BY <1>3, <1>4, LexemesType
<1>6. LexemesFrom(start) = <<s>> \o rest
  BY <1>3, <1>4, LexemesDef
<1>7. Append(list, s) \o rest = list \o (<<s>> \o rest)
  <2>1. Shifts(list, s, rest)
    BY <1>2, <1>5, Shift, Zenon
  <2> QED BY <2>1 DEF Shifts
<1> QED BY <1>2, <1>3, <1>4, <1>5, <1>6, <1>7

\* At the end of the text the list is whole.
LEMMA ReadAll ==
    ASSUME IsText(text), NEW list, NEW start, ReadTo(list, start), start > Len(text)
    PROVE  Lexemes = list
<1>1. list \in Seq(Seq(STRING)) /\ start \in 1 .. Len(text) + 1
  BY DEF ReadTo, Matches
<1>2. LexemesFrom(start) = <<>>
  BY <1>1, LexemesDef
<1>3. list \o <<>> = list
  BY <1>1, ConcatEmptySeq, Zenon
<1> QED BY <1>2, <1>3 DEF ReadTo

\* Where the element between two lists is.
StandsIn(list, e, rest) ==
    /\ Len(list) + 1 \in DOMAIN (Append(list, e) \o rest)
    /\ (Append(list, e) \o rest)[Len(list) + 1] = e

\* The element is behind the first list.
LEMMA InTheMiddle ==
    ASSUME NEW S, NEW list \in Seq(S), NEW e \in S, NEW rest \in Seq(S)
    PROVE  StandsIn(list, e, rest)
<1>1. PICK more, n : more = Append(list, e) /\ n = Len(list)
  OBVIOUS
<1>2. more \in Seq(S) /\ Len(more) = n + 1 /\ more[n + 1] = e /\ n \in Nat /\ Len(rest) \in Nat
  BY <1>1, AppendProperties, LenProperties
<1>3. /\ more \o rest \in Seq(S) /\ Len(more \o rest) = n + 1 + Len(rest)
  BY <1>2, ConcatProperties
<1>4. n + 1 \in 1 .. Len(more) + Len(rest) /\ n + 1 <= Len(more)
  BY <1>2
<1>5. (more \o rest)[n + 1] = more[n + 1]
  BY <1>2, <1>4, ConcatProperties
<1>6. n + 1 \in DOMAIN (more \o rest)
  BY <1>2, <1>3, LenProperties
<1> QED BY <1>1, <1>2, <1>5, <1>6 DEF StandsIn

\* The lexer goes on behind a lexeme.
LEMMA NextLexeme ==
    ASSUME IsText(text), NEW list, NEW start \in 1 .. Len(text), ReadTo(list, start),
           NEW e, e = EndOf(start), NEW s, s = SubSeq(text, start, e),
           s = <<"/">> => CharAt(e + 1) # "/",
           text' = text, mode' = "next", at' = e + 1,
           Matches(Append(list, s), found, warnings)'
    PROVE  LexInv'
<1>1. list \in Seq(Seq(STRING)) /\ Lexemes = list \o LexemesFrom(start)
  BY DEF ReadTo, Matches
<1>2. s \in Seq(STRING) /\ e + 1 \in 1 .. Len(text) + 1
      /\ Lexemes = Append(list, s) \o LexemesFrom(e + 1)
  BY <1>1, ReadLexeme
<1>3. PICK more : more = Append(list, s)
  OBVIOUS
<1>4. more[Len(more)] = s
  <2>1. Grown(list, s, Len(list), more)
    BY <1>1, <1>2, <1>3, GrownIs
  <2> QED BY <1>1, <2>1, LenProperties DEF Grown
<1>5. PICK after : after = e + 1
  OBVIOUS
<1>6. Matches(more, found', warnings')
  BY <1>3
<1>7. ReadTo(more, after)'
  BY <1>2, <1>3, <1>4, <1>5, <1>6, SameText DEF ReadTo
<1>8. Inside(after)'
  BY <1>5 DEF Inside
<1>9. Reading'
  BY <1>7, <1>8 DEF Reading
<1> QED BY <1>9, SameText DEF LexInv

\* There is no room for the token of a lexeme.
LEMMA ArrayFull ==
    ASSUME IsText(text), NEW list, NEW start \in 1 .. Len(text), ReadTo(list, start),
           NEW e, e = EndOf(start), NEW s, s = SubSeq(text, start, e), ~IsBlank(s),
           ~(Len(found) < MAX_TOKENS), text' = text, mode' = "overrun"
    PROVE  LexInv'
<1>1. list \in Seq(Seq(STRING)) /\ Lexemes = list \o LexemesFrom(start)
      /\ Matches(list, found, warnings)
  BY DEF ReadTo, Matches
<1>2. PICK rest : rest = LexemesFrom(e + 1)
  OBVIOUS
<1>3. s \in Seq(STRING) /\ rest \in Seq(Seq(STRING)) /\ Lexemes = Append(list, s) \o rest
  BY <1>1, <1>2, ReadLexeme
<1>4. ~Fits(Append(list, s) \o rest)
  BY <1>1, <1>3, NoRoom
<1>5. ~Fits(Lexemes')
  BY <1>3, <1>4, SameText
<1> QED BY <1>5, SameText DEF LexInv

\* next_token returns a token of the program.
LEMMA GiveToken ==
    ASSUME IsText(text), NEW list, NEW start \in 1 .. Len(text), ReadTo(list, start),
           NEW e, e = EndOf(start), NEW s, s = SubSeq(text, start, e),
           NEW t, PutToken(t), Inner(t), Agree(t, TokenOf(s)),
           ~IsBlank(s), ~IsUnknown(s), ~IsRemark(s),
           IsWord(s) => Len(s) + 1 <= MAX_STRING_SIZE,
           s = <<"/">> => CharAt(e + 1) # "/",
           text' = text, at' = e + 1, warnings' = warnings
    PROVE  LexInv'
<1>1. /\ list \in Seq(Seq(STRING)) /\ Lexemes = list \o LexemesFrom(start)
      /\ Matches(list, found, warnings)
      /\ list # <<>> /\ list[Len(list)] = <<"/">> => CharAt(start) # "/"
  BY DEF ReadTo, Matches
<1>2. CASE Len(found) < MAX_TOKENS
  <2>1. mode' = "next" /\ found' = Append(found, t)
    BY <1>2 DEF PutToken, Inner
  <2>2. s \in Seq(STRING) /\ e \in start .. Len(text)
    BY <1>1, ReadLexeme
  <2>3. s = <<"/">> => CharAt(start) = "/"
    <3>1. s[1] = text[start]
      BY <2>2, PartKinds DEF LexemeKinds
    <3>2. start \in DOMAIN text
      BY LenProperties DEF IsText
    <3> QED BY <3>1, <3>2 DEF CharAt
  <2>4. Matches(Append(list, s), Append(found, t), warnings)
    BY <1>1, <1>2, <2>2, <2>3, MatchesToken
  <2>5. Matches(Append(list, s), found, warnings)'
    BY <2>1, <2>4
  <2> QED BY <2>1, <2>5, NextLexeme
<1>3. CASE ~(Len(found) < MAX_TOKENS)
  BY <1>3, ArrayFull DEF PutToken
<1> QED BY <1>2, <1>3

\* next_token returns what is dropped later.
LEMMA GiveInvalid ==
    ASSUME IsText(text), NEW list, NEW start \in 1 .. Len(text), ReadTo(list, start),
           NEW e, e = EndOf(start), NEW s, s = SubSeq(text, start, e),
           PutToken(Tk("INVALID_TOK")), ~IsBlank(s), IsUnknown(s) \/ IsRemark(s), ~IsWord(s),
           s # <<"/">>, text' = text, at' = e + 1,
           warnings' = IF IsUnknown(s) THEN warnings + 1 ELSE warnings
    PROVE  LexInv'
<1>1. /\ list \in Seq(Seq(STRING)) /\ Lexemes = list \o LexemesFrom(start)
      /\ Matches(list, found, warnings)
  BY DEF ReadTo, Matches
<1>2. CASE Len(found) < MAX_TOKENS
  <2>1. mode' = "next" /\ found' = Append(found, Tk("INVALID_TOK"))
    BY <1>2 DEF PutToken, Tk
  <2>2. s \in Seq(STRING)
    BY <1>1, ReadLexeme
  <2>3. Matches(Append(list, s), Append(found, Tk("INVALID_TOK")),
                IF IsUnknown(s) THEN warnings + 1 ELSE warnings)
    BY <1>1, <1>2, <2>2, MatchesInvalid
  <2>4. Matches(Append(list, s), found, warnings)'
    BY <2>1, <2>3
  <2> QED BY <2>1, <2>4, NextLexeme
<1>3. CASE ~(Len(found) < MAX_TOKENS)
  BY <1>3, ArrayFull DEF PutToken
<1> QED BY <1>2, <1>3

\* next_token returns the end of the program.
LEMMA GiveEnd ==
    ASSUME IsText(text), NEW list, NEW start, ReadTo(list, start), start > Len(text),
           PutToken(Tk("PROGRAM_END_TOK")), text' = text, warnings' = warnings
    PROVE  LexInv'
<1>1. Lexemes = list /\ Matches(list, found, warnings)
  BY ReadAll DEF ReadTo
<1>2. CASE Len(found) < MAX_TOKENS
  <2>1. mode' = "done" /\ found' = Append(found, Tk("PROGRAM_END_TOK"))
    BY <1>2 DEF PutToken, Tk
  <2>2. PICK all : all = found'
    OBVIOUS
  <2>3. /\ IsTokenList(Valid(all)) /\ Len(Valid(all)) = Len(TokensOf(list))
        /\ \A i \in DOMAIN Valid(all) : Agree(Valid(all)[i], TokensOf(list)[i])
        /\ warnings = Len(Odd(list)) /\ ~Unclosed(list) /\ Fits(list)
    BY <1>1, <1>2, <2>1, <2>2, MatchesEnd
  <2>4. Delivered' = Valid(all) /\ Lexemes' = list
    BY <1>1, <2>2, SameText DEF Delivered
  <2>5. Tokenized(Lexemes)' /\ ~Unclosed(Lexemes)' /\ Fits(Lexemes)'
    BY <2>3, <2>4 DEF Tokenized
  <2> QED BY <2>1, <2>5, SameText DEF LexInv
<1>3. CASE ~(Len(found) < MAX_TOKENS)
  <2>1. mode' = "overrun"
    BY <1>3 DEF PutToken
  <2>2. /\ found \in Seq(Token) /\ Len(found) = Len(Taken(list))
    BY <1>1 DEF Matches
  <2>3. ~Fits(list)
    BY <1>3, <2>2, LenProperties, BoundsAssumption DEF Fits
  <2>4. ~Fits(Lexemes')
    BY <1>1, <2>3, SameText
  <2> QED BY <2>1, <2>4, SameText DEF LexInv
<1> QED BY <1>2, <1>3

\* A name has no room in the buffer.
LEMMA BufferFull ==
    ASSUME IsText(text), NEW list, NEW start \in 1 .. Len(text), ReadTo(list, start),
           WordFrom(start), Len(word) >= MAX_STRING_SIZE, text' = text, mode' = "overrun"
    PROVE  LexInv'
<1>1. list \in Seq(Seq(STRING)) /\ Lexemes = list \o LexemesFrom(start)
  BY DEF ReadTo, Matches
<1>2. PICK e, s : e = EndOf(start) /\ s = SubSeq(text, start, e)
  OBVIOUS
<1>3. /\ s \in Seq(STRING) /\ e \in start .. Len(text)
      /\ LexemesFrom(e + 1) \in Seq(Seq(STRING))
      /\ Lexemes = Append(list, s) \o LexemesFrom(e + 1)
  BY <1>1, <1>2, ReadLexeme
<1>4. Len(text) \in Nat /\ start \in Nat /\ e \in Nat /\ at \in Nat
  BY <1>3, LenProperties DEF IsText, WordFrom
<1>5. text[start] \in Letters /\ at \in start .. Len(text) + 1
  BY DEF WordFrom
<1>6. IsWord(s)
  <2>1. LexemeKinds(s, start, e) /\ IsLexeme(s)
    BY <1>2, <1>3, PartKinds, EndFacts
  <2>2. start \in start .. e /\ text[start] \notin Digits
        /\ text[start] # "/" /\ text[start] \notin {"=", "<", ">"}
    BY <1>3, <1>4, <1>5, Classes
  <2>3. ~IsNumber(s) /\ ~IsPair(s) /\ ~IsRemark(s)
    BY <2>1, <2>2 DEF LexemeKinds
  <2>4. CASE Len(s) = 1
    <3>1. e = start
      <4>1. Len(s) = e - start + 1
        BY <2>1 DEF LexemeKinds
      <4>2. e - start + 1 = 1
        BY <2>4, <4>1
      <4>3. e \in Nat /\ start \in Nat
        BY <1>4
      <4> QED BY <4>2, <4>3
    <3>2. \A n \in start .. e : n = start
      BY <1>4, <3>1
    <3> QED BY <1>5, <2>1, <3>2 DEF LexemeKinds
  <2> QED BY <2>1, <2>3, <2>4 DEF IsLexeme
<1>7. Len(s) >= Len(word) /\ Len(s) \in Nat /\ Len(word) \in Nat
  <2>1. Len(s) = e - start + 1
    BY <1>2, <1>3, PartKinds DEF LexemeKinds
  <2>2. CASE at = start
    <3>1. word = <<>>
      BY <1>4, <2>2, SubSeqEmpty DEF WordFrom
    <3> QED BY <1>3, <1>4, <2>1, <3>1
  <2>3. CASE at # start
    <3>1. at - 1 \in start .. Len(text)
      BY <1>4, <1>5, <2>3
    <3>2. PICK k \in start .. Len(text) : k = at - 1
      BY <3>1
    <3>3. PICK w : w = word /\ w = SubSeq(text, start, k)
      BY <3>2 DEF WordFrom
    <3>4. LexemeKinds(w, start, k)
      BY <3>3, PartKinds
    <3>5. \A n \in start .. k : text[n] \in Letters \cup Digits
      BY <3>2 DEF WordFrom
    <3>6. IsLexeme(w)
      BY <1>5, <3>4, <3>5 DEF LexemeKinds, IsLexeme
    <3>7. k <= e
      BY <1>2, <3>3, <3>6, EndFacts
    <3>8. Len(w) = k - start + 1
      BY <3>4 DEF LexemeKinds
    <3> QED BY <1>3, <1>4, <2>1, <3>3, <3>7, <3>8
  <2> QED BY <2>2, <2>3
<1>8. ~(Len(s) + 1 <= MAX_STRING_SIZE)
  BY <1>7, BoundsAssumption
<1>9. Len(list) + 1 \in DOMAIN Lexemes /\ Lexemes[Len(list) + 1] = s
  <2>1. PICK rest : rest = LexemesFrom(e + 1)
    OBVIOUS
  <2>2. StandsIn(list, s, rest)
    BY <1>1, <1>3, <2>1, InTheMiddle, Zenon
  <2> QED BY <1>3, <2>1, <2>2 DEF StandsIn
<1>10. ~Fits(Lexemes)
  BY <1>6, <1>8, <1>9 DEF Fits
<1>11. ~Fits(Lexemes')
  BY <1>10, SameText
<1> QED BY <1>11, SameText DEF LexInv

-----------------------------------------------------------------------------
(* The steps. *)

\* What is at a place: a character of the text, or the end of it.
LEMMA CharFacts ==
    ASSUME IsText(text), NEW i \in Nat
    PROVE  /\ i \in 1 .. Len(text) => CharAt(i) = text[i] /\ text[i] # EOF
           /\ i > Len(text) => CharAt(i) = EOF
           /\ i \in Nat /\ Len(text) \in Nat
<1>1. DOMAIN text = 1 .. Len(text) /\ Len(text) \in Nat
  BY LenProperties DEF IsText
<1> QED BY <1>1 DEF IsText, CharAt

\* Tokens agree with themselves.
LEMMA PlainToken ==
    ASSUME NEW type \in OwnTokens
    PROVE  Inner(Tk(type)) /\ Agree(Tk(type), Tk(type))
<1>1. Tk(type) \in Token
  BY DEF Tk, Token, OwnTokens
<1>2. Tk(type).type = type /\ Tk(type).name = NULL /\ Tk(type).ival = 0
  BY DEF Tk
<1>3. type \notin {"INVALID_TOK", "PROGRAM_END_TOK", "IDENT_TOK"}
  BY DEF OwnTokens
<1>4. PICK t : t = Tk(type)
  OBVIOUS
<1>5. Inner(t)
  BY <1>1, <1>2, <1>3, <1>4 DEF Inner
<1>6. Agree(t, t)
  BY <1>2, <1>4, BoundsAssumption DEF Agree
<1> QED BY <1>4, <1>5, <1>6

\* A token of a name that fits into the buffer.
LEMMA NameToken ==
    ASSUME NEW name \in Names
    PROVE  Inner(NameTk(name)) /\ Agree(NameTk(name), NameTk(name))
<1>1. NameTk(name) \in Token
  BY DEF NameTk, Tk, Token, TokenTypes
<1>2. NameTk(name).type = "IDENT_TOK" /\ NameTk(name).name = name /\ NameTk(name).ival = 0
  BY DEF NameTk, Tk
<1>3. PICK t : t = NameTk(name)
  OBVIOUS
<1>4. Inner(t)
  BY <1>1, <1>2, <1>3, NoNameAssumption DEF Inner
<1>5. Agree(t, t)
  BY <1>2, <1>3, BoundsAssumption DEF Agree
<1> QED BY <1>3, <1>4, <1>5

\* A token of a value that differs from that of the literal by a multiple.
LEMMA IntToken ==
    ASSUME NEW v \in Int, NEW d, -(2 ^ (IntBits - 1)) <= v, v < 2 ^ (IntBits - 1),
           (v - d) % (2 ^ IntBits) = 0
    PROVE  Inner(IntTk(v)) /\ Agree(IntTk(v), IntTk(d))
<1>1. IntTk(v) \in Token
  BY DEF IntTk, Tk, Token, TokenTypes
<1>2. \A n : IntTk(n).type = "INT_LIT_TOK" /\ IntTk(n).name = NULL /\ IntTk(n).ival = n
  BY DEF IntTk, Tk
<1> QED BY <1>1, <1>2 DEF Inner, Agree

\* A character on its own.
OneAt(i, s) ==
    /\ s = SubSeq(text, i, i) /\ s = <<text[i]>> /\ LexemeKinds(s, i, i) /\ s \in Seq(STRING)
    /\ ~IsPair(s) /\ ~IsRemark(s)
    /\ IsWord(s) <=> text[i] \in Letters
    /\ IsNumber(s) <=> text[i] \in Digits
    /\ IsBlank(s) <=> text[i] \in Whitespace
    /\ IsUnknown(s) <=> text[i] \notin Whitespace \cup Letters \cup Digits \cup Single

\* What a character is on its own follows from its class.
LEMMA OneFacts ==
    ASSUME IsText(text), NEW i \in 1 .. Len(text)
    PROVE  \E s : OneAt(i, s)
<1>1. PICK s : s = SubSeq(text, i, i)
  OBVIOUS
<1>2. Len(text) \in Nat /\ text \in Seq(STRING)
  BY LenProperties DEF IsText
<1>3. i \in i .. Len(text) /\ \A n \in i .. i : n = i
  BY <1>2
<1>4. LexemeKinds(s, i, i) /\ s \in Seq(STRING)
  BY <1>1, <1>3, PartKinds, PartFacts
<1>5. s = <<text[i]>>
  BY <1>1, <1>2, PartOfOne
<1>6. i \in i .. i /\ i \in Nat
  BY <1>2
<1>7. ~IsPair(s) /\ ~IsRemark(s) /\ s[1] = text[i]
  BY <1>4, <1>6 DEF LexemeKinds
<1>8. (IsWord(s) <=> text[i] \in Letters) /\ (IsNumber(s) <=> text[i] \in Digits)
  BY <1>3, <1>4, <1>6 DEF LexemeKinds
<1> QED BY <1>1, <1>4, <1>5, <1>7, <1>8, Classes DEF OneAt, IsBlank, IsUnknown

\* skip_whitespace takes a lexeme that stands for nothing.
LEMMA BlankSkipped ==
    ASSUME LexInv, SkipBlank
    PROVE  LexInv'
<1>1. PICK list, start : ReadTo(list, start) /\ start = at /\ IsText(text)
  BY DEF SkipBlank, LexInv, Reading, Inside
<1>2. start \in 1 .. Len(text) + 1 /\ Matches(list, found, warnings) /\ Len(text) \in Nat
  BY <1>1, LenProperties DEF ReadTo, IsText
<1>3. start \in 1 .. Len(text) /\ text[start] \in Whitespace /\ at' = start + 1
  BY <1>1, <1>2, CharFacts, Classes DEF SkipBlank, Char, Consume
<1>4. PICK s : OneAt(start, s)
  BY <1>1, <1>3, OneFacts
<1>5. EndOf(start) = start
  <2>1. text[start] \notin Letters \cup Digits /\ text[start] \notin {"=", "<", ">", "/"}
    BY <1>3, Classes
  <2> QED BY <1>1, <1>3, <2>1, SingleEnd
<1>6. Matches(Append(list, s), found, warnings)
  <2>1. IsBlank(s) /\ ~IsUnknown(s) /\ ~IsWord(s)
    BY <1>3, <1>4, Classes DEF OneAt
  <2>2. s # <<"/">> /\ s \in Seq(STRING)
    BY <1>3, <1>4, Classes DEF OneAt
  <2> QED BY <1>2, <2>1, <2>2, MatchesBlank
<1>7. Matches(Append(list, s), found, warnings)'
  BY <1>6 DEF SkipBlank
<1>8. s # <<"/">> /\ s = SubSeq(text, start, start)
  BY <1>3, <1>4, Classes DEF OneAt
<1>9. text' = text /\ mode' = "next"
  BY DEF SkipBlank
<1> QED BY <1>1, <1>3, <1>5, <1>7, <1>8, <1>9, NextLexeme

\* consume_string begins where a lexeme begins.
LEMMA StringStarted ==
    ASSUME LexInv, StartString
    PROVE  LexInv'
<1>1. PICK list, start : ReadTo(list, start) /\ start = at /\ IsText(text)
  BY DEF StartString, LexInv, Reading, Inside
<1>2. start \in 1 .. Len(text) + 1 /\ Len(text) \in Nat
  BY <1>1, LenProperties DEF ReadTo, IsText
<1>3. start \in 1 .. Len(text) /\ text[start] \in Letters
  BY <1>1, <1>2, CharFacts, Classes DEF StartString, Char
<1>4. /\ text' = text /\ at' = start /\ mode' = "string" /\ word' = <<>>
      /\ found' = found /\ warnings' = warnings
  BY <1>1 DEF StartString
<1>5. WordFrom(start)'
  <2>1. start \in start .. Len(text) + 1 /\ start .. start - 1 = {}
    BY <1>2, <1>3
  <2>2. SubSeq(text, start, start - 1) = <<>>
    BY <1>2, <1>3, SubSeqEmpty
  <2> QED BY <1>3, <1>4, <2>1, <2>2, BoundsAssumption DEF WordFrom
<1>6. Inside(start)'
  BY <1>4, <1>5 DEF Inside
<1>7. ReadTo(list, start)'
  BY <1>1, <1>4, SameText DEF ReadTo
<1>8. Reading'
  BY <1>6, <1>7 DEF Reading
<1> QED BY <1>1, <1>4, <1>8, SameText DEF LexInv

\* A part of the text with one more character.
LEMMA PartAppend ==
    ASSUME NEW S, NEW q \in Seq(S), NEW i \in 1 .. Len(q), NEW k \in i .. Len(q)
    PROVE  SubSeq(q, i, k) = Append(SubSeq(q, i, k - 1), q[k]) /\ SubSeq(q, i, k - 1) \in Seq(S)
<1>1. Len(q) \in Nat /\ i \in Nat /\ k \in Nat /\ k - 1 \in Int /\ q[k] \in S
  <2>1. Len(q) \in Nat
    BY LenProperties
  <2>2. k \in 1 .. Len(q)
    BY <2>1
  <2> QED BY <2>1, <2>2, ElementOfSeq
<1>2. \A n \in i .. k - 1 : n \in 1 .. Len(q) /\ q[n] \in S
  BY <1>1, ElementOfSeq
<1>3. SubSeq(q, i, k - 1) \in Seq(S)
  BY <1>1, <1>2, SubSeqProperties
<1>4. SubSeq(q, i, k) = SubSeq(q, i, k - 1) \o <<q[k]>>
  BY SubSeqRecursiveSecond
<1>5. Append(SubSeq(q, i, k - 1), q[k]) = SubSeq(q, i, k - 1) \o <<q[k]>>
  BY <1>1, <1>3, AppendIsConcat
<1> QED BY <1>3, <1>4, <1>5

\* A letter or digit more in the buffer, or none that has room.
LEMMA StringRead ==
    ASSUME LexInv, StringChar
    PROVE  LexInv'
<1>1. PICK list, start : ReadTo(list, start) /\ WordFrom(start) /\ IsText(text)
  BY DEF StringChar, LexInv, Reading, Inside
<1>2. /\ start \in 1 .. Len(text) /\ at \in start .. Len(text) + 1 /\ Len(text) \in Nat
      /\ text[start] \in Letters /\ word = SubSeq(text, start, at - 1)
      /\ Len(word) <= MAX_STRING_SIZE /\ text \in Seq(STRING)
  BY <1>1, LenProperties DEF WordFrom, IsText
<1>3. at \in start .. Len(text) /\ text[at] = Char /\ text[at] \in Letters \cup Digits
      /\ Char # EOF
  <2>1. at \in Nat /\ Char \in Letters \cup Digits
    BY <1>2 DEF StringChar
  <2>2. EOF \notin Letters \cup Digits
    BY Classes
  <2> QED BY <1>1, <1>2, <2>1, <2>2, CharFacts DEF Char
<1>4. PICK k : k = at
  OBVIOUS
<1>5. SubSeq(text, start, k) = Append(word, text[k]) /\ word \in Seq(STRING)
  <2>1. k \in start .. Len(text)
    BY <1>3, <1>4
  <2> QED BY <1>2, <1>4, <2>1, PartAppend
<1>6. CASE Len(word) < MAX_STRING_SIZE
  <2>1. /\ text' = text /\ at' = k + 1 /\ mode' = "string" /\ word' = Append(word, text[k])
        /\ found' = found /\ warnings' = warnings
    BY <1>3, <1>4, <1>6 DEF StringChar, Consume
  <2>2. Len(word') <= MAX_STRING_SIZE
    <3>1. text[k] \in STRING /\ Len(word) \in Nat
      <4>1. k \in 1 .. Len(text)
        BY <1>2, <1>3, <1>4
      <4> QED BY <1>2, <1>5, <4>1, ElementOfSeq, LenProperties
    <3>2. Len(word') = Len(word) + 1
      BY <1>5, <2>1, <3>1, AppendProperties
    <3> QED BY <1>6, <3>1, <3>2, BoundsAssumption
  <2>3. k + 1 \in start .. Len(text) + 1 /\ k + 1 - 1 = k /\ start .. k = (start .. k - 1) \cup {k}
    BY <1>2, <1>3, <1>4
  <2>4. \A n \in start .. k - 1 : text[n] \in Letters \cup Digits
    BY <1>1, <1>4 DEF WordFrom
  <2>5. \A n \in start .. k : text[n] \in Letters \cup Digits
    BY <1>3, <1>4, <2>3, <2>4
  <2>6. WordFrom(start)'
    <3>1. at' - 1 = k /\ at' \in start .. Len(text) + 1
      BY <2>1, <2>3
    <3>2. word' = SubSeq(text, start, at' - 1)
      BY <1>5, <2>1, <3>1
    <3>3. \A n \in start .. at' - 1 : text[n] \in Letters \cup Digits
      BY <2>5, <3>1
    <3> QED BY <1>2, <2>1, <2>2, <3>1, <3>2, <3>3 DEF WordFrom
  <2>7. Inside(start)'
    BY <2>1, <2>6 DEF Inside
  <2>8. ReadTo(list, start)'
    BY <1>1, <2>1, SameText DEF ReadTo
  <2>9. Reading'
    BY <2>7, <2>8 DEF Reading
  <2> QED BY <1>1, <2>1, <2>9, SameText DEF LexInv
<1>7. CASE ~(Len(word) < MAX_STRING_SIZE)
  <2>1. text' = text /\ mode' = "overrun"
    BY <1>7 DEF StringChar
  <2>2. Len(word) >= MAX_STRING_SIZE
    BY <1>5, <1>7, LenProperties, BoundsAssumption
  <2> QED BY <1>1, <1>2, <2>1, <2>2, BufferFull
<1> QED BY <1>6, <1>7

\* The token of a name or keyword.
LEMMA WordEnds ==
    ASSUME LexInv, EndString
    PROVE  LexInv'
<1>1. PICK list, start : ReadTo(list, start) /\ WordFrom(start) /\ IsText(text)
  BY DEF EndString, LexInv, Reading, Inside
<1>2. /\ start \in 1 .. Len(text) /\ at \in start .. Len(text) + 1 /\ Len(text) \in Nat
      /\ text[start] \in Letters /\ word = SubSeq(text, start, at - 1)
      /\ \A n \in start .. at - 1 : text[n] \in Letters \cup Digits
  BY <1>1, LenProperties DEF WordFrom, IsText
<1>3. Char \notin Letters \cup Digits /\ text' = text /\ warnings' = warnings /\ at' = at
  BY DEF EndString
<1>4. at # start
  <2>1. start \in Nat
    BY <1>2
  <2>2. CharAt(start) = text[start]
    BY <1>1, <1>2, <2>1, CharFacts
  <2> QED BY <1>2, <1>3, <2>2 DEF Char
<1>5. PICK e \in start .. Len(text) : e = at - 1
  BY <1>2, <1>4
<1>6. e + 1 = at /\ e \in Nat /\ start \in Nat
  BY <1>2, <1>5
<1>7. e = EndOf(start)
  <2>1. CharAt(e + 1) \notin Letters \cup Digits
    BY <1>3, <1>6 DEF Char
  <2>2. \A n \in start .. e : text[n] \in Letters \cup Digits
    BY <1>2, <1>5
  <2> QED BY <1>1, <1>2, <2>1, <2>2, LongEnd
<1>8. word = SubSeq(text, start, e) /\ LexemeKinds(word, start, e)
  BY <1>1, <1>2, <1>5, PartKinds
<1>9. /\ IsWord(word) /\ ~IsNumber(word) /\ ~IsPair(word) /\ ~IsRemark(word)
      /\ word[1] = text[start] /\ Len(word) = e - start + 1
  <2>1. start \in start .. e
    BY <1>6
  <2>2. text[start] \notin Digits /\ text[start] # "/" /\ text[start] \notin {"=", "<", ">"}
    BY <1>2, Classes
  <2>3. \A n \in start .. e : text[n] \in Letters \cup Digits
    BY <1>2, <1>5
  <2> QED BY <1>2, <1>8, <2>1, <2>2, <2>3 DEF LexemeKinds
<1>10. ~IsBlank(word) /\ ~IsUnknown(word) /\ word # <<"/">>
  <2>1. word[1] # "/"
    BY <1>2, <1>9, Classes
  <2>2. word # <<"/">>
    BY <2>1
  <2>3. word[1] \in Letters /\ word[1] \notin Whitespace
    BY <1>2, <1>9, Classes
  <2> QED BY <2>2, <2>3 DEF IsBlank, IsUnknown
<1>11. CASE Len(word) < MAX_STRING_SIZE
  <2>1. PutToken(WordTk)
    BY <1>11 DEF EndString
  <2>2. TokenOf(word) = WordTk
    BY <1>9 DEF TokenOf, WordTk
  <2>3. Len(word) \in 1 .. MAX_STRING_SIZE - 1
    BY <1>5, <1>6, <1>9, <1>11, BoundsAssumption
  <2>4. Inner(WordTk) /\ Agree(WordTk, WordTk)
    <3>1. CASE Len(word) = 1 /\ word[1] \in DOMAIN KeywordOf
      <4>1. PICK type \in OwnTokens : type = KeywordOf[word[1]]
        BY <3>1, KeywordFacts
      <4>2. WordTk = Tk(type)
        BY <3>1, <4>1 DEF WordTk
      <4> QED BY <4>2, PlainToken
    <3>2. CASE ~(Len(word) = 1 /\ word[1] \in DOMAIN KeywordOf)
      <4>1. WordTk = NameTk(word)
        BY <3>2 DEF WordTk
      <4>2. word \in Names
        <5>1. word \in Seq(STRING) /\ DOMAIN word = 1 .. Len(word)
          BY <1>1, <1>2, <1>8, PartFacts, LenProperties
        <5>2. \A i \in DOMAIN word : word[i] \in Letters \cup Digits
          BY <1>9 DEF IsWord, AllIn
        <5>3. word \in [1 .. Len(word) -> STRING]
          BY <5>1, LenProperties
        <5>4. word \in [1 .. Len(word) -> Letters \cup Digits]
          BY <5>1, <5>2, <5>3
        <5> QED BY <1>2, <1>9, <2>3, <5>4, NamesAssumption
      <4> QED BY <4>1, <4>2, NameToken
    <3> QED BY <3>1, <3>2
  <2>5. PICK s, t : s = word /\ t = WordTk
    OBVIOUS
  <2>6. Len(s) + 1 <= MAX_STRING_SIZE
    BY <2>3, <2>5, BoundsAssumption
  <2>7. s = SubSeq(text, start, e) /\ ~IsBlank(s) /\ ~IsUnknown(s) /\ ~IsRemark(s) /\ s # <<"/">>
    BY <1>8, <1>9, <1>10, <2>5
  <2>8. PutToken(t) /\ Inner(t) /\ Agree(t, TokenOf(s))
    BY <2>1, <2>2, <2>4, <2>5
  <2>9. at' = e + 1
    BY <1>3, <1>6
  <2> QED BY <1>1, <1>2, <1>3, <1>7, <2>6, <2>7, <2>8, <2>9, GiveToken
<1>12. CASE ~(Len(word) < MAX_STRING_SIZE)
  <2>1. mode' = "overrun"
    BY <1>12 DEF EndString
  <2>2. Len(word) >= MAX_STRING_SIZE
    BY <1>6, <1>9, <1>12, BoundsAssumption
  <2> QED BY <1>1, <1>2, <1>3, <2>1, <2>2, BufferFull
<1> QED BY <1>11, <1>12

\* consume_int_literal begins where a lexeme begins.
LEMMA NumberStarted ==
    ASSUME LexInv, StartNumber
    PROVE  LexInv'
<1>1. PICK list, start : ReadTo(list, start) /\ start = at /\ IsText(text)
  BY DEF StartNumber, LexInv, Reading, Inside
<1>2. start \in 1 .. Len(text) + 1 /\ Len(text) \in Nat
  BY <1>1, LenProperties DEF ReadTo, IsText
<1>3. start \in 1 .. Len(text) /\ text[start] \in Digits
  BY <1>1, <1>2, CharFacts, Classes DEF StartNumber, Char
<1>4. /\ text' = text /\ at' = start /\ mode' = "number" /\ val' = 0
      /\ found' = found /\ warnings' = warnings
  BY <1>1 DEF StartNumber
<1>5. NumberFrom(start)'
  <2>1. start \in start .. Len(text) + 1 /\ start .. start - 1 = {}
    BY <1>2, <1>3
  <2>2. SubSeq(text, start, start - 1) = <<>>
    BY <1>2, <1>3, SubSeqEmpty
  <2>3. Decimal(<<>>) = 0
    <3>1. <<>> \in Seq(Digits) /\ "0" \in Digits
      BY EmptySeq, DigitFacts
    <3> QED BY <3>1, DecimalAppend
  <2>4. PICK H \in Nat \ {0}, K \in Nat \ {0} : H = 2 ^ (IntBits - 1) /\ K = 2 ^ IntBits
    BY BoundsAssumption
  <2>5. -H <= 0 /\ 0 < H /\ (0 - 0) % K = 0
    BY <2>4
  <2>6. PICK D : D = Decimal(SubSeq(text, start, start - 1)) /\ D = 0
    BY <2>2, <2>3
  <2>7. (val' - Decimal(SubSeq(text', start, at' - 1))) % (2 ^ IntBits) = 0
    BY <1>4, <2>4, <2>5, <2>6
  <2>8. val' \in Int /\ -(2 ^ (IntBits - 1)) <= val' /\ val' < 2 ^ (IntBits - 1)
    BY <1>4, <2>4, <2>5
  <2> QED BY <1>3, <1>4, <2>1, <2>7, <2>8 DEF NumberFrom
<1>6. Inside(start)'
  BY <1>4, <1>5 DEF Inside
<1>7. ReadTo(list, start)'
  BY <1>1, <1>4, SameText DEF ReadTo
<1>8. Reading'
  BY <1>6, <1>7 DEF Reading
<1> QED BY <1>1, <1>4, <1>8, SameText DEF LexInv

\* The text from one place to another holds nothing but digits.
LEMMA DigitPart ==
    ASSUME IsText(text), NEW i \in 1 .. Len(text), NEW k \in i - 1 .. Len(text),
           \A n \in i .. k : text[n] \in Digits
    PROVE  SubSeq(text, i, k) \in Seq(Digits)
<1>1. i \in Int /\ k \in Int
  BY LenProperties DEF IsText
<1> QED BY <1>1, SubSeqProperties

\* A digit more: the value stays that of the literal but for multiples of 2 ^ IntBits.
LEMMA DigitRead ==
    ASSUME LexInv, Digit
    PROVE  LexInv'
<1>1. PICK list, start : ReadTo(list, start) /\ NumberFrom(start) /\ IsText(text)
  BY DEF Digit, LexInv, Reading, Inside
<1>2. /\ start \in 1 .. Len(text) /\ at \in start .. Len(text) + 1 /\ Len(text) \in Nat
      /\ text[start] \in Digits /\ \A n \in start .. at - 1 : text[n] \in Digits
  BY <1>1, LenProperties DEF NumberFrom, IsText
<1>3. at \in start .. Len(text) /\ text[at] = Char /\ text[at] \in Digits /\ Char # EOF
  <2>1. at \in Nat /\ Char \in Digits
    BY <1>2 DEF Digit
  <2>2. EOF \notin Digits
    BY Classes
  <2> QED BY <1>1, <1>2, <2>1, <2>2, CharFacts DEF Char
<1>4. PICK k : k = at
  OBVIOUS
<1>5. /\ text' = text /\ at' = k + 1 /\ mode' = "number"
      /\ val' = Wrap(DigitValue(text[k]) + val * 10)
      /\ found' = found /\ warnings' = warnings
  BY <1>3, <1>4 DEF Digit, Consume
<1>6. /\ k + 1 \in start .. Len(text) + 1 /\ k + 1 - 1 = k
      /\ start .. k = (start .. k - 1) \cup {k} /\ k \in start .. Len(text)
      /\ k - 1 \in start - 1 .. Len(text)
  BY <1>2, <1>3, <1>4
<1>7. \A n \in start .. k : text[n] \in Digits
  BY <1>2, <1>3, <1>4, <1>6
<1>8. PICK s \in Seq(Digits) : s = SubSeq(text, start, k - 1)
  BY <1>1, <1>2, <1>4, <1>6, DigitPart
<1>9. SubSeq(text, start, k) = Append(s, text[k])
  BY <1>1, <1>2, <1>6, <1>8, PartAppend DEF IsText
<1>10. PICK D \in Int, d \in Int : D = Decimal(s) /\ d = DigitValue(text[k])
                                  /\ Decimal(Append(s, text[k])) = 10 * D + d
  <2>1. text[k] \in Digits
    BY <1>3, <1>4
  <2>2. DigitValue(text[k]) \in Int
    <3>1. 0 .. 9 \subseteq Int
      OBVIOUS
    <3> QED BY <2>1, <3>1, DigitFacts
  <2> QED BY <1>8, <2>1, <2>2, DecimalAppend
<1>11. PICK H \in Nat \ {0}, K \in Nat : H = 2 ^ (IntBits - 1) /\ K = 2 ^ IntBits /\ K = 2 * H
  BY BoundsAssumption
<1>12. PICK v \in Int : v = val /\ (v - D) % K = 0
  BY <1>1, <1>4, <1>8, <1>10, <1>11 DEF NumberFrom
<1>13. PICK w : w = val' /\ w = ((d + v * 10 + H) % K) - H
  BY <1>5, <1>10, <1>11, <1>12 DEF Wrap
<1>14. w \in Int /\ -H <= w /\ w < H /\ (w - (10 * D + d)) % K = 0
  <2>1. WrapsTo(w, H, K, 10 * D + d)
    BY <1>11, <1>12, <1>13, WrapStep, Zenon
  <2> QED BY <2>1 DEF WrapsTo
<1>15. NumberFrom(start)'
  <2>1. at' - 1 = k /\ at' \in start .. Len(text) + 1
    BY <1>5, <1>6
  <2>2. (val' - Decimal(SubSeq(text, start, at' - 1))) % (2 ^ IntBits) = 0
    BY <1>9, <1>10, <1>11, <1>13, <1>14, <2>1
  <2>3. val' \in Int /\ -(2 ^ (IntBits - 1)) <= val' /\ val' < 2 ^ (IntBits - 1)
    BY <1>11, <1>13, <1>14
  <2>4. \A n \in start .. at' - 1 : text[n] \in Digits
    BY <1>7, <2>1
  <2> QED BY <1>2, <1>5, <2>1, <2>2, <2>3, <2>4 DEF NumberFrom
<1>16. Inside(start)'
  BY <1>5, <1>15 DEF Inside
<1>17. ReadTo(list, start)'
  BY <1>1, <1>5, SameText DEF ReadTo
<1>18. Reading'
  BY <1>16, <1>17 DEF Reading
<1> QED BY <1>1, <1>5, <1>18, SameText DEF LexInv

\* The token of a number.
LEMMA NumberEnds ==
    ASSUME LexInv, EndNumber
    PROVE  LexInv'
<1>1. PICK list, start : ReadTo(list, start) /\ NumberFrom(start) /\ IsText(text)
  BY DEF EndNumber, LexInv, Reading, Inside
<1>2. /\ start \in 1 .. Len(text) /\ at \in start .. Len(text) + 1 /\ Len(text) \in Nat
      /\ text[start] \in Digits /\ \A n \in start .. at - 1 : text[n] \in Digits
  BY <1>1, LenProperties DEF NumberFrom, IsText
<1>3. /\ Char \notin Digits /\ text' = text /\ warnings' = warnings /\ at' = at
      /\ PutToken(IntTk(val))
  BY DEF EndNumber
<1>4. at # start
  <2>1. start \in Nat
    BY <1>2
  <2>2. CharAt(start) = text[start]
    BY <1>1, <1>2, <2>1, CharFacts
  <2> QED BY <1>2, <1>3, <2>2 DEF Char
<1>5. PICK e \in start .. Len(text) : e = at - 1
  BY <1>2, <1>4
<1>6. e + 1 = at /\ e \in Nat /\ start \in Nat
  BY <1>2, <1>5
<1>7. e = EndOf(start)
  <2>1. CharAt(e + 1) \notin Digits
    BY <1>3, <1>6 DEF Char
  <2>2. \A n \in start .. e : text[n] \in Digits
    BY <1>2, <1>5
  <2> QED BY <1>1, <1>2, <2>1, <2>2, LongEnd
<1>8. PICK s : s = SubSeq(text, start, e)
  OBVIOUS
<1>9. /\ ~IsWord(s) /\ IsNumber(s) /\ ~IsRemark(s) /\ s[1] = text[start]
  <2>1. start \in start .. e /\ \A n \in start .. e : text[n] \in Digits
    BY <1>2, <1>5, <1>6
  <2>2. text[start] \notin Letters /\ text[start] # "/"
    BY <1>2, Classes
  <2>3. LexemeKinds(s, start, e)
    BY <1>1, <1>2, <1>8, PartKinds
  <2> QED BY <2>1, <2>2, <2>3 DEF LexemeKinds
<1>10. ~IsBlank(s) /\ ~IsUnknown(s) /\ s # <<"/">>
  <2>1. s[1] # "/" /\ s[1] \in Digits /\ s[1] \notin Whitespace
    BY <1>2, <1>9, Classes
  <2>2. s # <<"/">>
    BY <2>1
  <2> QED BY <2>1, <2>2 DEF IsBlank, IsUnknown
<1>11. PICK t, D : t = IntTk(val) /\ D = Decimal(s) /\ TokenOf(s) = IntTk(D)
  <2>1. ~IsPair(s)
    <3>1. text[start] \notin DOMAIN WideOf
      BY <1>2, Classes
    <3> QED BY <1>9, <3>1 DEF IsPair
  <2>2. TokenOf(s) = IntTk(Decimal(s))
    BY <1>9, <2>1 DEF TokenOf
  <2> QED BY <2>2
<1>12. Inner(t) /\ Agree(t, IntTk(D))
  <2>1. /\ val \in Int /\ -(2 ^ (IntBits - 1)) <= val /\ val < 2 ^ (IntBits - 1)
        /\ (val - D) % (2 ^ IntBits) = 0
    BY <1>1, <1>5, <1>8, <1>11 DEF NumberFrom
  <2> QED BY <1>11, <2>1, IntToken
<1>13. PutToken(t) /\ at' = e + 1 /\ Agree(t, TokenOf(s))
  BY <1>3, <1>6, <1>11, <1>12
<1> QED BY <1>1, <1>2, <1>3, <1>7, <1>8, <1>9, <1>10, <1>12, <1>13, GiveToken

\* A character that is a token, or the end of the text.
LEMMA SymbolGiven ==
    ASSUME LexInv, Sign
    PROVE  LexInv'
<1>1. PICK list, start : ReadTo(list, start) /\ start = at /\ IsText(text)
  BY DEF Sign, LexInv, Reading, Inside
<1>2. start \in 1 .. Len(text) + 1 /\ Len(text) \in Nat /\ start \in Nat
  BY <1>1, LenProperties DEF ReadTo, IsText
<1>3. /\ CharAt(start) \in Single /\ PutToken(Tk(SymbolOf[CharAt(start)]))
      /\ text' = text /\ warnings' = warnings
      /\ ~(CharAt(start) \in {"=", "<", ">"} /\ CharAt(start + 1) = "=")
      /\ ~(CharAt(start) = "/" /\ CharAt(start + 1) = "/")
      /\ at' = IF CharAt(start) = EOF THEN start ELSE start + 1
  BY <1>1, Classes DEF Sign, Char, IsWide, IsComment, peek, Consume
<1>4. CASE start > Len(text)
  <2>1. PutToken(Tk("PROGRAM_END_TOK"))
    BY <1>1, <1>2, <1>3, <1>4, CharFacts, SymbolFacts
  <2> QED BY <1>1, <1>3, <1>4, <2>1, GiveEnd
<1>5. CASE ~(start > Len(text))
  <2>1. start \in 1 .. Len(text) /\ CharAt(start) = text[start] /\ text[start] # EOF
    BY <1>1, <1>2, <1>5, CharFacts
  <2>2. PICK s : OneAt(start, s)
    BY <1>1, <2>1, OneFacts
  <2>3. /\ text[start] \in Single \ {EOF} /\ text[start] \notin Letters \cup Digits
        /\ text[start] \notin Whitespace
    BY <1>3, <2>1, Classes
  <2>4. EndOf(start) = start
    BY <1>1, <1>3, <2>1, <2>3, SingleEnd
  <2>5. /\ ~IsWord(s) /\ ~IsNumber(s) /\ ~IsPair(s) /\ ~IsRemark(s) /\ ~IsBlank(s)
        /\ ~IsUnknown(s) /\ s[1] = text[start] /\ s = SubSeq(text, start, start)
    BY <2>2, <2>3 DEF OneAt
  <2>6. s = <<"/">> => CharAt(start + 1) # "/"
    BY <1>3, <2>1, <2>5
  <2>7. PICK type \in OwnTokens : type = SymbolOf[text[start]]
    BY <2>3, SymbolFacts
  <2>8. PICK t : t = Tk(type)
    OBVIOUS
  <2>9. TokenOf(s) = t /\ PutToken(t) /\ Inner(t) /\ Agree(t, t)
    BY <1>3, <2>1, <2>5, <2>7, <2>8, PlainToken DEF TokenOf
  <2>10. at' = start + 1
    BY <1>3, <2>1
  <2> QED BY <1>1, <1>3, <2>1, <2>4, <2>5, <2>6, <2>9, <2>10, GiveToken
<1> QED BY <1>4, <1>5

\* Two characters that are a token.
LEMMA WideGiven ==
    ASSUME LexInv, WideSymbol
    PROVE  LexInv'
<1>1. PICK list, start : ReadTo(list, start) /\ start = at /\ IsText(text)
  BY DEF WideSymbol, LexInv, Reading, Inside
<1>2. start \in 1 .. Len(text) + 1 /\ Len(text) \in Nat /\ start \in Nat
  BY <1>1, LenProperties DEF ReadTo, IsText
<1>3. /\ CharAt(start) \in {"=", "<", ">"} /\ CharAt(start + 1) = "="
      /\ PutToken(Tk(WideOf[CharAt(start)])) /\ text' = text /\ warnings' = warnings
      /\ CharAt(start) # EOF => at' = start + 2
  BY <1>1, Classes DEF WideSymbol, Char, IsWide, peek, Consume
<1>4. PICK e : e = start + 1
  OBVIOUS
<1>5. /\ e \in 1 .. Len(text) /\ CharAt(e) = text[e]
  <2>1. e \in Nat /\ CharAt(e) # EOF
    BY <1>2, <1>3, <1>4, Classes
  <2> QED BY <1>1, <1>2, <1>4, <2>1, CharFacts
<1>6. start \in 1 .. Len(text) /\ e \in start .. Len(text) /\ at' = e + 1 /\ start \in start .. e
  <2>1. start \in 1 .. Len(text) /\ e \in start .. Len(text) /\ start \in start .. e
    BY <1>2, <1>4, <1>5
  <2>2. CharAt(start) # EOF
    BY <1>3 DEF EOF
  <2>3. at' = start + 2 /\ start + 2 = e + 1
    BY <1>2, <1>3, <1>4, <2>2
  <2> QED BY <2>1, <2>3
<1>7. CharAt(start) = text[start]
  BY <1>1, <1>2, <1>6, CharFacts
<1>8. text[start] \in {"=", "<", ">"} /\ text[e] = "=" /\ text[start + 1] = "="
  BY <1>3, <1>4, <1>5, <1>7
<1>9. EndOf(start) = e
  BY <1>1, <1>4, <1>6, <1>8, LongEnd
<1>10. PICK s : s = SubSeq(text, start, e)
  OBVIOUS
<1>11. LexemeKinds(s, start, e)
  BY <1>1, <1>6, <1>10, PartKinds
<1>12. text[start] \notin Letters \cup Digits \cup Whitespace /\ text[start] \in Single
  BY <1>8, Classes
<1>13. /\ ~IsWord(s) /\ ~IsNumber(s) /\ IsPair(s) /\ s[1] = text[start]
  BY <1>4, <1>6, <1>8, <1>11, <1>12 DEF LexemeKinds
<1>14. ~IsRemark(s) /\ s # <<"/">>
  <2>1. s[1] # "/"
    BY <1>8, <1>13
  <2> QED BY <2>1 DEF IsRemark
<1>15. ~IsBlank(s) /\ ~IsUnknown(s)
  BY <1>12, <1>13, Classes DEF IsBlank, IsUnknown
<1>16. PICK type \in OwnTokens : type = WideOf[text[start]]
  BY <1>8, WideFacts
<1>17. PICK t : t = Tk(type)
  OBVIOUS
<1>18. TokenOf(s) = t /\ PutToken(t) /\ Inner(t) /\ Agree(t, t)
  BY <1>3, <1>7, <1>13, <1>16, <1>17, PlainToken DEF TokenOf
<1> QED BY <1>1, <1>3, <1>6, <1>9, <1>10, <1>13, <1>14, <1>15, <1>18, GiveToken

\* skip_line begins behind a slash that another one follows.
LEMMA LineStarted ==
    ASSUME LexInv, StartLine
    PROVE  LexInv'
<1>1. PICK list, start : ReadTo(list, start) /\ start = at /\ IsText(text)
  BY DEF StartLine, LexInv, Reading, Inside
<1>2. start \in 1 .. Len(text) + 1 /\ Len(text) \in Nat /\ start \in Nat
  BY <1>1, LenProperties DEF ReadTo, IsText
<1>3. CharAt(start) = "/" /\ CharAt(start + 1) = "/"
  BY <1>1 DEF StartLine, IsComment, Char, peek
<1>4. /\ text' = text /\ at' = start /\ mode' = "line"
      /\ found' = found /\ warnings' = warnings
  BY <1>1 DEF StartLine
<1>5. start + 1 \in 1 .. Len(text) /\ start \in 1 .. Len(text)
      /\ text[start] = "/" /\ text[start + 1] = "/"
  <2>1. start + 1 \in Nat /\ "/" # EOF
    BY <1>2, Classes
  <2> QED BY <1>1, <1>2, <1>3, <2>1, CharFacts
<1>6. start \in start .. Len(text) + 1 /\ start .. start - 1 = {}
  BY <1>2, <1>5
<1>7. LineFrom(start)'
  BY <1>4, <1>5, <1>6 DEF LineFrom
<1>8. Inside(start)'
  BY <1>4, <1>7 DEF Inside
<1>9. ReadTo(list, start)'
  BY <1>1, <1>4, SameText DEF ReadTo
<1>10. Reading'
  BY <1>8, <1>9 DEF Reading
<1> QED BY <1>1, <1>4, <1>10, SameText DEF LexInv

\* skip_line goes on to the line break, or stays at the end of the text.
LEMMA CharSkipped ==
    ASSUME LexInv, SkipChar
    PROVE  LexInv'
<1>1. PICK list, start : ReadTo(list, start) /\ LineFrom(start) /\ IsText(text)
  BY DEF SkipChar, LexInv, Reading, Inside
<1>2. /\ start \in 1 .. Len(text) /\ at \in start .. Len(text) + 1 /\ Len(text) \in Nat
      /\ at \in Nat /\ \A n \in start .. at - 1 : text[n] # "\n"
  BY <1>1, LenProperties DEF LineFrom, IsText
<1>3. /\ CharAt(at) # "\n" /\ text' = text /\ mode' = "line" /\ found' = found
      /\ warnings' = warnings
      /\ at' = IF CharAt(at) = EOF THEN at ELSE at + 1
  BY DEF SkipChar, Char, Consume
<1>4. LineFrom(start)'
  <2>1. CASE CharAt(at) = EOF
    BY <1>1, <1>3, <2>1 DEF LineFrom
  <2>2. CASE CharAt(at) # EOF
    <3>1. at \in 1 .. Len(text) /\ CharAt(at) = text[at]
      BY <1>1, <1>2, <2>2, CharFacts
    <3>2. at' = at + 1 /\ at' \in start .. Len(text) + 1 /\ at' - 1 = at
          /\ start .. at = (start .. at - 1) \cup {at}
      BY <1>2, <1>3, <2>2, <3>1
    <3>3. \A n \in start .. at' - 1 : text[n] # "\n"
      BY <1>2, <1>3, <3>1, <3>2
    <3> QED BY <1>1, <1>3, <3>2, <3>3 DEF LineFrom
  <2> QED BY <2>1, <2>2
<1>5. Inside(start)'
  BY <1>3, <1>4 DEF Inside
<1>6. ReadTo(list, start)'
  BY <1>1, <1>3, SameText DEF ReadTo
<1>7. Reading'
  BY <1>5, <1>6 DEF Reading
<1> QED BY <1>1, <1>3, <1>7, SameText DEF LexInv

\* A comment with its line break is one lexeme, and takes room in the array.
LEMMA LineEnds ==
    ASSUME LexInv, EndLine
    PROVE  LexInv'
<1>1. PICK list, start : ReadTo(list, start) /\ LineFrom(start) /\ IsText(text)
  BY DEF EndLine, LexInv, Reading, Inside
<1>2. /\ start \in 1 .. Len(text) /\ at \in start .. Len(text) + 1 /\ Len(text) \in Nat
      /\ at \in Nat /\ \A n \in start .. at - 1 : text[n] # "\n"
      /\ text[start] = "/" /\ text[start + 1] = "/"
  BY <1>1, LenProperties DEF LineFrom, IsText
<1>3. PICK e : e = at
  OBVIOUS
<1>4. /\ CharAt(e) = "\n" /\ text' = text /\ warnings' = warnings
      /\ PutToken(Tk("INVALID_TOK")) /\ at' = e + 1
  BY <1>3, Classes DEF EndLine, Char, Consume
<1>5. e \in 1 .. Len(text) /\ text[e] = "\n"
  BY <1>1, <1>2, <1>3, <1>4, CharFacts, Classes
<1>6. e \in start .. Len(text) /\ e > start + 1
  <2>1. e # start /\ e # start + 1
    BY <1>2, <1>5
  <2> QED BY <1>2, <1>3, <1>5, <2>1
<1>7. \A n \in start .. e - 1 : text[n] # "\n"
  BY <1>2, <1>3
<1>8. EndOf(start) = e
  BY <1>1, <1>2, <1>5, <1>6, <1>7, LongEnd
<1>9. PICK s : s = SubSeq(text, start, e)
  OBVIOUS
<1>10. LexemeKinds(s, start, e)
  BY <1>1, <1>2, <1>6, <1>9, PartKinds
<1>11. IsRemark(s) /\ s[1] = "/"
  BY <1>2, <1>5, <1>6, <1>7, <1>10 DEF LexemeKinds
<1>12. "/" \notin Letters /\ "/" \notin Whitespace /\ "/" \in DOMAIN SymbolOf
  BY Classes
<1>13. ~IsWord(s) /\ ~IsBlank(s) /\ ~IsUnknown(s)
  BY <1>11, <1>12 DEF IsWord, IsBlank, IsUnknown
<1>14. s # <<"/">>
  <2>1. Len(<<"/">>) = 1
    OBVIOUS
  <2>2. Len(s) > 2
    BY <1>11 DEF IsRemark
  <2>3. ~(1 > 2)
    OBVIOUS
  <2> QED BY <2>1, <2>2, <2>3
<1>15. warnings' = IF IsUnknown(s) THEN warnings + 1 ELSE warnings
  BY <1>4, <1>13
<1> QED BY <1>1, <1>2, <1>4, <1>8, <1>9, <1>11, <1>13, <1>14, <1>15, GiveInvalid

\* A character that means nothing takes room and is reported.
LEMMA UnknownDropped ==
    ASSUME LexInv, Unknown
    PROVE  LexInv'
<1>1. PICK list, start : ReadTo(list, start) /\ start = at /\ IsText(text)
  BY DEF Unknown, LexInv, Reading, Inside
<1>2. start \in 1 .. Len(text) + 1 /\ Len(text) \in Nat /\ start \in Nat
  BY <1>1, LenProperties DEF ReadTo, IsText
<1>3. /\ CharAt(start) \notin Whitespace \cup Letters \cup Digits \cup Single
      /\ PutToken(Tk("INVALID_TOK")) /\ text' = text /\ warnings' = warnings + 1
      /\ CharAt(start) # EOF => at' = start + 1
  BY <1>1, Classes DEF Unknown, Char, Consume
<1>4. CharAt(start) # EOF
  BY <1>3, Classes
<1>5. start \in 1 .. Len(text) /\ CharAt(start) = text[start]
  BY <1>1, <1>2, <1>4, CharFacts
<1>6. PICK s : OneAt(start, s)
  BY <1>1, <1>5, OneFacts
<1>7. EndOf(start) = start
  <2>1. text[start] \notin Letters \cup Digits /\ text[start] \notin {"=", "<", ">", "/"}
    BY <1>3, <1>5, Classes
  <2> QED BY <1>1, <1>5, <2>1, SingleEnd
<1>8. IsUnknown(s) /\ ~IsBlank(s) /\ ~IsWord(s) /\ s = SubSeq(text, start, start)
  BY <1>3, <1>5, <1>6 DEF OneAt
<1>9. s # <<"/">>
  <2>1. text[start] # "/"
    BY <1>3, <1>5, Classes
  <2> QED BY <1>6, <2>1 DEF OneAt
<1>10. warnings' = IF IsUnknown(s) THEN warnings + 1 ELSE warnings
  BY <1>3, <1>8
<1>11. at' = start + 1
  BY <1>3, <1>4
<1> QED BY <1>1, <1>3, <1>5, <1>7, <1>8, <1>9, <1>10, <1>11, GiveInvalid

-----------------------------------------------------------------------------
(* The theorems. *)

\* Nothing has been read.
LEMMA LexStarts ==
    ASSUME LexInit, IsText(text)
    PROVE  LexInv
<1>1. text \in Seq(STRING) /\ Len(text) \in Nat
  BY LenProperties DEF IsText
<1>2. PICK list, start : list = <<>> /\ start = 1
  OBVIOUS
<1>3. start \in 1 .. Len(text) + 1
  BY <1>1, <1>2
<1>4. LexemesFrom(start) \in Seq(Seq(STRING))
  BY <1>3, LexemesType
<1>5. list \o LexemesFrom(start) = LexemesFrom(start)
  BY <1>2, <1>4, ConcatEmptySeq, Zenon
<1>6. ReadTo(list, start)
  BY <1>2, <1>3, <1>5, MatchesNothing DEF ReadTo, LexInit, Lexemes
<1>7. Inside(start)
  BY <1>2 DEF Inside, LexInit
<1> QED BY <1>6, <1>7 DEF LexInv, Reading, LexInit

\* Each step of next_token, and the return of tokenize.
LEMMA LexKeeps ==
    ASSUME LexInv, [LexStep \/ Deliver]_lexVars
    PROVE  LexInv'
<1>1. CASE LexStep
  BY <1>1, BlankSkipped, StringStarted, StringRead, WordEnds, NumberStarted, DigitRead,
     NumberEnds, SymbolGiven, WideGiven, LineStarted, CharSkipped, LineEnds, UnknownDropped
     DEF LexStep
<1>2. CASE Deliver
  <2>1. text' = text /\ mode' = "returned"
    BY <1>2 DEF Deliver
  <2> QED BY <2>1, SameText DEF LexInv
<1>3. CASE UNCHANGED lexVars
  <2>1. /\ text' = text /\ at' = at /\ mode' = mode /\ word' = word /\ val' = val
        /\ found' = found /\ warnings' = warnings
    BY <1>3 DEF lexVars
  <2>2. \A list, start : ReadTo(list, start)' = ReadTo(list, start)
    BY <2>1, SameText DEF ReadTo
  <2>3. \A start : Inside(start)' = Inside(start)
    BY <2>1 DEF Inside, WordFrom, NumberFrom, LineFrom
  <2>4. Reading' = Reading
    BY <2>2, <2>3 DEF Reading
  <2>5. Delivered' = Delivered
    BY <2>1 DEF Delivered
  <2> QED BY <2>1, <2>4, <2>5, SameText DEF LexInv, Tokenized
<1> QED BY <1>1, <1>2, <1>3

\* A comment that goes to the end of the text is no lexeme: its slashes are.
LEMMA EndlessUnclosed ==
    ASSUME LexInv, Endless
    PROVE  Unclosed(Lexemes)
<1>1. PICK list, i : ReadTo(list, i) /\ LineFrom(i) /\ IsText(text)
  BY DEF Endless, LexInv, Reading, Inside
<1>2. /\ i \in 1 .. Len(text) /\ i + 1 \in 1 .. Len(text) /\ Len(text) \in Nat
      /\ text[i] = "/" /\ text[i + 1] = "/"
      /\ list \in Seq(Seq(STRING)) /\ Lexemes = list \o LexemesFrom(i)
  BY <1>1, LenProperties DEF LineFrom, IsText, ReadTo, Matches
<1>3. \A n \in i .. Len(text) : text[n] # "\n"
  <2>1. at = Len(text) + 1 /\ at - 1 = Len(text)
    <3>1. PICK n \in Nat : n = Len(text)
      BY <1>2
    <3>2. at \in i .. n + 1 /\ at > n /\ i \in 1 .. n
      BY <1>1, <1>2, <3>1 DEF Endless, LineFrom
    <3>3. at = n + 1 /\ at - 1 = n
      BY <3>2
    <3> QED BY <3>1, <3>3
  <2> QED BY <1>1, <2>1 DEF LineFrom
<1>4. "/" \notin Letters \cup Digits
  BY Classes
<1>5. EndOf(i) = i
  BY <1>1, <1>2, <1>3, <1>4, SingleEnd
<1>6. EndOf(i + 1) = i + 1
  <2>1. \A n \in i + 1 .. Len(text) : n \in i .. Len(text)
    BY <1>2
  <2>2. PICK k \in 1 .. Len(text) : k = i + 1
    BY <1>2
  <2> QED BY <1>1, <1>2, <1>3, <1>4, <2>1, <2>2, SingleEnd
<1>7. PICK a : OneAt(i, a)
  BY <1>1, <1>2, OneFacts
<1>8. PICK k \in 1 .. Len(text) : k = i + 1
  BY <1>2
<1>9. PICK b : OneAt(k, b)
  BY <1>1, OneFacts
<1>10. a = <<"/">> /\ b = <<"/">> /\ a \in Seq(STRING) /\ b \in Seq(STRING)
       /\ a = SubSeq(text, i, i) /\ b = SubSeq(text, k, k)
  BY <1>2, <1>7, <1>8, <1>9 DEF OneAt
<1>11. PICK front : front = Append(list, a) /\ front \in Seq(Seq(STRING))
                    /\ Lexemes = front \o LexemesFrom(k)
  <2>1. Lexemes = Append(list, a) \o LexemesFrom(i + 1)
    BY <1>1, <1>2, <1>5, <1>10, ReadLexeme
  <2>2. Append(list, a) \in Seq(Seq(STRING))
    BY <1>2, <1>10, AppendProperties
  <2> QED BY <1>8, <2>1, <2>2
<1>12. PICK rest : rest = LexemesFrom(k + 1)
  OBVIOUS
<1>13. Lexemes = Append(front, b) \o rest /\ rest \in Seq(Seq(STRING))
  BY <1>1, <1>6, <1>8, <1>10, <1>11, <1>12, ReadLexeme
<1>14. Lexemes[Len(front) + 1] = b /\ Len(front) + 1 \in DOMAIN Lexemes
  <2>1. StandsIn(front, b, rest)
    BY <1>10, <1>11, <1>13, InTheMiddle, Zenon
  <2> QED BY <1>13, <2>1 DEF StandsIn
<1>15. Lexemes[Len(list) + 1] = a /\ Len(front) = Len(list) + 1
  <2>1. PICK back : back = LexemesFrom(i + 1) /\ back \in Seq(Seq(STRING))
                    /\ Lexemes = Append(list, a) \o back
    <3>1. /\ LexemesFrom(i + 1) \in Seq(Seq(STRING))
          /\ Lexemes = Append(list, a) \o LexemesFrom(i + 1)
      BY <1>1, <1>2, <1>5, <1>10, ReadLexeme
    <3> QED BY <3>1
  <2>2. StandsIn(list, a, back)
    BY <1>2, <1>10, <2>1, InTheMiddle, Zenon
  <2>3. Grown(list, a, Len(list), front)
    BY <1>2, <1>10, <1>11, GrownIs
  <2> QED BY <2>1, <2>2, <2>3 DEF StandsIn, Grown
<1>16. Lexemes \in Seq(Seq(STRING)) /\ Len(list) \in Nat
  <2>1. 1 \in 1 .. Len(text) + 1
    BY <1>2
  <2> QED BY <1>1, <1>2, <2>1, LexemesType, LenProperties DEF Lexemes
<1>17. PICK n \in Nat : n = Len(list) + 1 /\ n \in 1 .. Len(Lexemes) - 1
                       /\ Lexemes[n] = a /\ Lexemes[n + 1] = b
  <2>1. DOMAIN Lexemes = 1 .. Len(Lexemes) /\ Len(Lexemes) \in Nat
    BY <1>16, LenProperties
  <2>2. PICK n \in Nat : n = Len(list) + 1
    BY <1>16
  <2>3. n + 1 \in 1 .. Len(Lexemes) /\ Lexemes[n] = a /\ Lexemes[n + 1] = b
    BY <1>14, <1>15, <2>1, <2>2
  <2>4. n \in 1 .. Len(Lexemes) - 1
    BY <1>16, <2>1, <2>2, <2>3
  <2> QED BY <2>2, <2>3, <2>4
<1> QED BY <1>10, <1>17 DEF Unclosed

\* The lexer keeps its invariant.
LEMMA LexInvHolds == LexerSpec => []LexInv
<1>1. LexInit /\ IsText(text) => LexInv
  BY LexStarts
<1>2. LexInv /\ [LexStep \/ Deliver]_lexVars => LexInv'
  BY LexKeeps
<1> QED BY <1>1, <1>2, PTL DEF LexerSpec

\* tokenize returns the longest-match tokens of every text, whatever the sizes of its
\* arrays and the width of an int, and goes on for ever on an open comment only.
THEOREM TokensAreRight == LexerSpec => []LexCorrect
<1>1. LexInv => LexCorrect
  BY EndlessUnclosed DEF LexInv, LexCorrect
<1> QED BY <1>1, LexInvHolds, PTL

\* tokenize writes outside its arrays on no text that fits, and stops on no other.
THEOREM ArraysLeftRightly == LexerSpec => []BoundsExact
<1>1. LexInv => BoundsExact
  BY DEF LexInv, BoundsExact
<1> QED BY <1>1, LexInvHolds, PTL

-----------------------------------------------------------------------------
(* The parser: what a tree is, and what the tasks need and leave. *)

Kinds == {"expr", "stat", "block"}

TypesOf(kind) == CASE kind = "expr"  -> ExprNodes
                   [] kind = "stat"  -> StatNodes
                   [] kind = "block" -> {"BLOCK_STAT"}

\* The kinds of the children that parser.h provides for in such a node.
Children(node, kinds) ==
    \/ /\ node.type \in {"INVALID_EXPR", "INT_LIT", "VAR_REF", "FUNC_CALL",
                         "INVALID_STAT", "SKIP_STAT"}
       /\ kinds = <<>>
    \/ node.type = "BIN_OP" /\ node.op \in Operators /\ kinds = <<"expr", "expr">>
    \/ node.type \in {"RETURN_STAT", "EXPR_STAT"} /\ kinds = <<"expr">>
    \/ node.type = "IF_STAT" /\ kinds \in {<<"expr", "stat">>, <<"expr", "stat", "stat">>}
    \/ node.type = "WHILE_STAT" /\ kinds = <<"expr", "stat">>
    \/ node.type = "FOR_STAT" /\ kinds = <<"expr", "expr", "expr", "stat">>
    \/ node.type = "BLOCK_STAT" /\ kinds \in Seq({"stat"})
    \/ node.type = "DECL_STAT" /\ kinds \in {<<>>, <<IF node.is_func THEN "block" ELSE "expr">>}

Nodes == [type : NodeTypes, op : Operators \cup {NULL}, name : Names \cup {NULL},
          ival : Int, is_func : BOOLEAN, kids : Seq(Nat \ {0})]

\* The children of the n-th node follow it, and each other, as in the program
\* text; last[n] is the last node of the tree of the n-th.
KidsInOrder(tree, last, n) ==
    /\ last[n] = IF tree[n].kids = <<>> THEN n ELSE last[tree[n].kids[Len(tree[n].kids)]]
    /\ \A k \in 1 .. Len(tree[n].kids) :
          /\ tree[n].kids[k] \in 1 .. Len(tree) /\ tree[n].kids[k] > n
          /\ tree[n].kids[k] = IF k = 1 THEN n + 1 ELSE last[tree[n].kids[k - 1]] + 1

Numbered(tree, last) ==
    /\ last \in [1 .. Len(tree) -> 1 .. Len(tree)] /\ last[1] = Len(tree)
    /\ \A n \in 1 .. Len(tree) : KidsInOrder(tree, last, n)

Tables == Seq(Nodes) \ {<<>>}

IsTable(tree) == tree \in Tables

IsTree(tree) == IsTable(tree) /\ \E last : Numbered(tree, last)

\* The children of a node are of the first n of those kinds.
KidsAre(tree, node, kinds, n) ==
    /\ Len(node.kids) = n
    /\ \A k \in 1 .. n : tree[node.kids[k]].type \in TypesOf(kinds[k])

\* A node whose children are the right ones.
Whole(tree, node) ==
    \E kinds \in Seq(Kinds) : Children(node, kinds) /\ KidsAre(tree, node, kinds, Len(kinds))

HasName == {"VAR_REF", "FUNC_CALL", "DECL_STAT"}

\* A node of a program that was parsed without an error.
Clean(node) ==
    /\ node.type \notin {"INVALID_EXPR", "INVALID_STAT"}
    /\ node.type \in HasName => node.name \in Names

\* All nodes but the root are whole.
WholeBelow(tree) == IsTree(tree) /\ \A n \in 2 .. Len(tree) : Whole(tree, tree[n])

WholeTree(tree) == WholeBelow(tree) /\ Whole(tree, tree[1])

Trees == {tree \in Seq(Nodes) : WholeTree(tree)}

CleanTree(tree) == \A n \in 1 .. Len(tree) : Clean(tree[n])

-----------------------------------------------------------------------------
(* The typing of the tasks. *)

\* What the task does to the kinds of the nodes that lie above the program's
\* block: it finds `below' there and leaves `above'.
Takes(task, below, above) ==
    \/ task.do = "match" /\ above = below
    \/ task.do \in {"stat", "declarator", "body"} /\ above = Append(below, "stat")
    \/ task.do \in {"expr", "subexpr", "term", "factor"} /\ above = Append(below, "expr")
    \/ /\ task.do \in {"comparison", "terms", "factors"} /\ above = below
       /\ \E K \in Seq(Kinds) : below = Append(K, "expr")
    \/ /\ task.do = "else"
       /\ \E K \in Seq(Kinds) : /\ below = Append(Append(K, "expr"), "stat")
                                /\ above = Append(K, "stat")
    \/ task.do = "program" /\ below = <<>> /\ above = <<>>
    \/ /\ task.do = "append"
       /\ \/ below = <<"stat">> /\ above = <<>>
          \/ \E K \in Seq(Kinds) : /\ below = Append(Append(K, "block"), "stat")
                                   /\ above = Append(K, "block")
    \/ /\ task.do = "stats"
       /\ \E K \in Seq(Kinds) : /\ below = Append(K, "block")
                                /\ above \in {Append(K, "block"), Append(K, "stat")}
    \/ /\ task.do = "make"
       /\ \E K, kinds \in Seq(Kinds), kind \in Kinds :
             /\ Children(task.node, kinds) /\ Len(kinds) = task.arity
             /\ task.node.type \in TypesOf(kind)
             /\ below = K \o kinds /\ above = Append(K, kind)

\* The tasks fit together: each finds what the one before it has left.
Chain(tasks, below, above) ==
    \E h \in [1 .. Len(tasks) + 1 -> Seq(Kinds)] :
       /\ h[1] = below /\ h[Len(tasks) + 1] = above
       /\ \A i \in 1 .. Len(tasks) : Takes(tasks[i], h[i], h[i + 1])

\* The first n trees of the stack are the program's block and trees of those
\* kinds.
Stacked(trees, n, kinds) ==
    /\ kinds \in Seq(Kinds) /\ n \in 1 .. Len(trees) /\ Len(kinds) = n - 1
    /\ trees[1][1].type = "BLOCK_STAT"
    /\ \A i \in 1 .. n - 1 : trees[i + 1][1].type \in TypesOf(kinds[i])

\* What a task brings with it, while there is no error or always.
GoodTask(task, n) ==
    /\ task \in ParserTasks
    /\ task.do = "match" => task.token # "PROGRAM_END_TOK"
    /\ (task.do \in {"declarator", "body"} /\ n = 0) => task.name \in Names
    /\ (task.do = "make" /\ n = 0) => Clean(task.node)

AllGood(tasks, n) == tasks \in Seq(ParserTasks) /\ \A i \in DOMAIN tasks : GoodTask(tasks[i], n)

-----------------------------------------------------------------------------
(* The inductive invariant. *)

InPlace == /\ IsTokenList(tokens) /\ next \in 1 .. Len(tokens)
           /\ errors \in Nat
           /\ parseStatus \in {"parsing", "done", "killed"}
           /\ parseStatus = "done" => pending = <<>>

GoodTasks == AllGood(pending, errors)

Typed == \E kinds \in Seq(Kinds) :
            Stacked(built, Len(built), kinds) /\ Chain(pending, kinds, <<>>)

WholeSoFar == /\ built \in Seq(Trees)
              /\ errors = 0 => \A i \in DOMAIN built : CleanTree(built[i])

ParserInv == InPlace /\ GoodTasks /\ Typed /\ WholeSoFar

-----------------------------------------------------------------------------
(* Lemmas about tasks. *)

\* The leaves that the parser creates have the fields they are created with.
LEMMA LeafTypes ==
    ASSUME NEW type \in NodeTypes, NEW op \in Operators \cup {NULL},
           NEW name \in Names \cup {NULL}, NEW ival \in Int, NEW is_func \in BOOLEAN
    PROVE  /\ Create(type, op, name, ival, is_func) \in Leaves
           /\ Create(type, op, name, ival, is_func).type = type
           /\ Create(type, op, name, ival, is_func).op = op
           /\ Create(type, op, name, ival, is_func).name = name
           /\ Create(type, op, name, ival, is_func).is_func = is_func
           /\ Create(type, op, name, ival, is_func).kids = <<>>
BY DEF Create, Leaves

\* A leaf without fields of its own.
LEMMA PlainLeaf ==
    ASSUME NEW type \in NodeTypes
    PROVE  /\ Plain(type) \in Leaves /\ Plain(type).type = type
           /\ Plain(type).is_func = FALSE /\ Plain(type).kids = <<>>
BY DEF Plain, Create, Leaves

\* A call of a parse function.
LEMMA ParseTask ==
    ASSUME NEW do \in ParseFunctions \cup {"match", "make"}, NEW name \in Names \cup {NULL}
    PROVE  ParserTask(do, name) \in ParserTasks /\ ParserTask(do, name).do = do /\ ParserTask(do, name).name = name
<1>1. NULL \in NodeTypes
  BY DEF NodeTypes
<1>2. Plain(NULL) \in Leaves
  BY <1>1, PlainLeaf
<1> QED BY <1>2 DEF ParserTask, ParserTasks

\* A token to match.
LEMMA MatchTask ==
    ASSUME NEW token \in TokenTypes
    PROVE  Match(token) \in ParserTasks /\ Match(token).do = "match" /\ Match(token).token = token
<1>1. PICK task \in ParserTasks : task = Parse("match") /\ task.do = "match"
  <2>1. Parse("match") \in ParserTasks /\ Parse("match").do = "match"
    BY ParseTask DEF Parse
  <2> QED BY <2>1
<1>2. Match(token) = [task EXCEPT !.token = token]
  BY <1>1 DEF Match
<1> QED BY <1>1, <1>2 DEF ParserTasks

\* A node to create.
LEMMA MakeTask ==
    ASSUME NEW node \in Leaves, NEW arity \in 0 .. 4
    PROVE  /\ Make(node, arity) \in ParserTasks /\ Make(node, arity).do = "make"
           /\ Make(node, arity).node = node /\ Make(node, arity).arity = arity
<1>1. PICK task \in ParserTasks : task = Parse("make") /\ task.do = "make"
  <2>1. Parse("make") \in ParserTasks /\ Parse("make").do = "make"
    BY ParseTask DEF Parse
  <2> QED BY <2>1
<1>2. Make(node, arity) = [[task EXCEPT !.node = node] EXCEPT !.arity = arity]
  BY <1>1 DEF Make
<1>3. PICK second \in ParserTasks : /\ second = [task EXCEPT !.node = node]
                              /\ second.do = "make" /\ second.node = node
  <2>1. /\ [task EXCEPT !.node = node] \in ParserTasks
        /\ [task EXCEPT !.node = node].do = "make"
        /\ [task EXCEPT !.node = node].node = node
    BY <1>1 DEF ParserTasks
  <2> QED BY <2>1
<1>4. Make(node, arity) = [second EXCEPT !.arity = arity]
  BY <1>2, <1>3
<1> QED BY <1>3, <1>4 DEF ParserTasks

\* Every task of a parse function, as it may stand in the list of tasks.
LEMMA GoodParse ==
    ASSUME NEW do \in ParseFunctions \ {"declarator", "body"}, NEW n \in Nat
    PROVE  GoodTask(Parse(do), n) /\ Parse(do).do = do
BY ParseTask DEF Parse, GoodTask, ParseFunctions

\* A token to match, as it may stand in the list of tasks.
LEMMA GoodMatch ==
    ASSUME NEW token \in TokenTypes \ {"PROGRAM_END_TOK"}, NEW n \in Nat
    PROVE  GoodTask(Match(token), n) /\ Match(token).do = "match"
BY MatchTask DEF GoodTask

\* A node to create, as it may stand in the list of tasks.
LEMMA GoodMake ==
    ASSUME NEW node \in Leaves, NEW arity \in 0 .. 4, NEW n \in Nat, n = 0 => Clean(node)
    PROVE  GoodTask(Make(node, arity), n)
BY MakeTask DEF GoodTask

\* A list of one good task.
LEMMA ListOne ==
    ASSUME NEW n, NEW t1,
           GoodTask(t1, n)
    PROVE  AllGood(<<t1>>, n)
<1>1. t1 \in ParserTasks
  BY DEF GoodTask
<1>2. <<t1>> \in Seq(ParserTasks)
  BY <1>1
<1>3. \A i \in 1 .. 1 : GoodTask(<<t1>>[i], n)
  OBVIOUS
<1>4. DOMAIN <<t1>> = 1 .. 1
  OBVIOUS
<1> QED BY <1>2, <1>3, <1>4 DEF AllGood

\* A list of two good tasks.
LEMMA ListTwo ==
    ASSUME NEW n, NEW t1, NEW t2,
           GoodTask(t1, n), GoodTask(t2, n)
    PROVE  AllGood(<<t1, t2>>, n)
<1>1. t1 \in ParserTasks /\ t2 \in ParserTasks
  BY DEF GoodTask
<1>2. <<t1, t2>> \in Seq(ParserTasks)
  BY <1>1
<1>3. \A i \in 1 .. 2 : GoodTask(<<t1, t2>>[i], n)
  OBVIOUS
<1>4. DOMAIN <<t1, t2>> = 1 .. 2
  OBVIOUS
<1> QED BY <1>2, <1>3, <1>4 DEF AllGood

\* A list of three good tasks.
LEMMA ListThree ==
    ASSUME NEW n, NEW t1, NEW t2, NEW t3,
           GoodTask(t1, n), GoodTask(t2, n), GoodTask(t3, n)
    PROVE  AllGood(<<t1, t2, t3>>, n)
<1>1. t1 \in ParserTasks /\ t2 \in ParserTasks /\ t3 \in ParserTasks
  BY DEF GoodTask
<1>2. <<t1, t2, t3>> \in Seq(ParserTasks)
  BY <1>1
<1>3. \A i \in 1 .. 3 : GoodTask(<<t1, t2, t3>>[i], n)
  OBVIOUS
<1>4. DOMAIN <<t1, t2, t3>> = 1 .. 3
  OBVIOUS
<1> QED BY <1>2, <1>3, <1>4 DEF AllGood

\* A list of four good tasks.
LEMMA ListFour ==
    ASSUME NEW n, NEW t1, NEW t2, NEW t3, NEW t4,
           GoodTask(t1, n), GoodTask(t2, n), GoodTask(t3, n), GoodTask(t4, n)
    PROVE  AllGood(<<t1, t2, t3, t4>>, n)
<1>1. t1 \in ParserTasks /\ t2 \in ParserTasks /\ t3 \in ParserTasks /\ t4 \in ParserTasks
  BY DEF GoodTask
<1>2. <<t1, t2, t3, t4>> \in Seq(ParserTasks)
  BY <1>1
<1>3. \A i \in 1 .. 4 : GoodTask(<<t1, t2, t3, t4>>[i], n)
  OBVIOUS
<1>4. DOMAIN <<t1, t2, t3, t4>> = 1 .. 4
  OBVIOUS
<1> QED BY <1>2, <1>3, <1>4 DEF AllGood

\* A list of five good tasks.
LEMMA ListFive ==
    ASSUME NEW n, NEW t1, NEW t2, NEW t3, NEW t4, NEW t5,
           GoodTask(t1, n), GoodTask(t2, n), GoodTask(t3, n), GoodTask(t4, n),
           GoodTask(t5, n)
    PROVE  AllGood(<<t1, t2, t3, t4, t5>>, n)
<1>1. t1 \in ParserTasks /\ t2 \in ParserTasks /\ t3 \in ParserTasks /\ t4 \in ParserTasks /\ t5 \in ParserTasks
  BY DEF GoodTask
<1>2. <<t1, t2, t3, t4, t5>> \in Seq(ParserTasks)
  BY <1>1
<1>3. \A i \in 1 .. 5 : GoodTask(<<t1, t2, t3, t4, t5>>[i], n)
  OBVIOUS
<1>4. DOMAIN <<t1, t2, t3, t4, t5>> = 1 .. 5
  OBVIOUS
<1> QED BY <1>2, <1>3, <1>4 DEF AllGood

\* A list of six good tasks.
LEMMA ListSix ==
    ASSUME NEW n, NEW t1, NEW t2, NEW t3, NEW t4, NEW t5,
           NEW t6,
           GoodTask(t1, n), GoodTask(t2, n), GoodTask(t3, n), GoodTask(t4, n),
           GoodTask(t5, n), GoodTask(t6, n)
    PROVE  AllGood(<<t1, t2, t3, t4, t5, t6>>, n)
<1>1. t1 \in ParserTasks /\ t2 \in ParserTasks /\ t3 \in ParserTasks /\ t4 \in ParserTasks /\ t5 \in ParserTasks
      /\ t6 \in ParserTasks
  BY DEF GoodTask
<1>2. <<t1, t2, t3, t4, t5, t6>> \in Seq(ParserTasks)
  BY <1>1
<1>3. \A i \in 1 .. 6 : GoodTask(<<t1, t2, t3, t4, t5, t6>>[i], n)
  OBVIOUS
<1>4. DOMAIN <<t1, t2, t3, t4, t5, t6>> = 1 .. 6
  OBVIOUS
<1> QED BY <1>2, <1>3, <1>4 DEF AllGood

\* A list of ten good tasks.
LEMMA ListTen ==
    ASSUME NEW n, NEW t1, NEW t2, NEW t3, NEW t4, NEW t5,
           NEW t6, NEW t7, NEW t8, NEW t9, NEW t10,
           GoodTask(t1, n), GoodTask(t2, n), GoodTask(t3, n), GoodTask(t4, n),
           GoodTask(t5, n), GoodTask(t6, n), GoodTask(t7, n), GoodTask(t8, n),
           GoodTask(t9, n), GoodTask(t10, n)
    PROVE  AllGood(<<t1, t2, t3, t4, t5, t6, t7, t8, t9, t10>>, n)
<1>1. t1 \in ParserTasks /\ t2 \in ParserTasks /\ t3 \in ParserTasks /\ t4 \in ParserTasks /\ t5 \in ParserTasks
      /\ t6 \in ParserTasks /\ t7 \in ParserTasks /\ t8 \in ParserTasks /\ t9 \in ParserTasks /\ t10 \in ParserTasks
  BY DEF GoodTask
<1>2. <<t1, t2, t3, t4, t5, t6, t7, t8, t9, t10>> \in Seq(ParserTasks)
  BY <1>1
<1>3. \A i \in 1 .. 10 : GoodTask(<<t1, t2, t3, t4, t5, t6, t7, t8, t9, t10>>[i], n)
  OBVIOUS
<1>4. DOMAIN <<t1, t2, t3, t4, t5, t6, t7, t8, t9, t10>> = 1 .. 10
  OBVIOUS
<1> QED BY <1>2, <1>3, <1>4 DEF AllGood

-----------------------------------------------------------------------------
(* Lemmas about chains of tasks. *)

\* One kind more.
LEMMA Appended ==
    ASSUME NEW K \in Seq(Kinds), NEW kind \in Kinds
    PROVE  /\ Append(K, kind) \in Seq(Kinds) /\ Len(Append(K, kind)) = Len(K) + 1
           /\ Append(K, kind)[Len(K) + 1] = kind
           /\ \A i \in 1 .. Len(K) : Append(K, kind)[i] = K[i]
BY AppendProperties

\* A sequence that starts as one does and goes on as another does.
LEMMA IsConcat ==
    ASSUME NEW S, NEW s \in Seq(S), NEW t \in Seq(S), NEW u \in Seq(S),
           Len(u) = Len(s) + Len(t),
           \A i \in 1 .. Len(s) : u[i] = s[i],
           \A i \in 1 .. Len(t) : u[Len(s) + i] = t[i]
    PROVE  u = s \o t
<1>1. /\ s \o t \in Seq(S) /\ Len(s \o t) = Len(s) + Len(t)
      /\ \A i \in 1 .. Len(s) + Len(t) :
            (s \o t)[i] = IF i <= Len(s) THEN s[i] ELSE t[i - Len(s)]
  BY ConcatProperties
<1>2. Len(s) \in Nat /\ Len(t) \in Nat
  OBVIOUS
<1>3. ASSUME NEW i \in 1 .. Len(u)
      PROVE  u[i] = (s \o t)[i]
  <2>1. CASE i <= Len(s)
    <3>1. i \in 1 .. Len(s) /\ i \in 1 .. Len(s) + Len(t)
      BY <1>2, <2>1
    <3> QED BY <1>1, <2>1, <3>1
  <2>2. CASE ~(i <= Len(s))
    <3>1. i - Len(s) \in 1 .. Len(t) /\ Len(s) + (i - Len(s)) = i
          /\ i \in 1 .. Len(s) + Len(t)
      BY <1>2, <2>2
    <3>2. u[Len(s) + (i - Len(s))] = t[i - Len(s)]
      BY <3>1
    <3> QED BY <1>1, <2>2, <3>1, <3>2
  <2> QED BY <2>1, <2>2
<1>4. Len(u) = Len(s \o t)
  BY <1>1
<1> QED BY <1>1, <1>3, <1>4, SeqEqual

\* Nothing to do leaves everything as it is.
LEMMA ChainEmpty ==
    ASSUME NEW kinds \in Seq(Kinds)
    PROVE  Chain(<<>>, kinds, kinds)
<1> DEFINE h == [i \in 1 .. 1 |-> kinds]
<1>1. Len(<<>>) + 1 = 1 /\ h \in [1 .. 1 -> Seq(Kinds)] /\ h[1] = kinds
  OBVIOUS
<1>2. 1 .. Len(<<>>) = {}
  OBVIOUS
<1> QED BY <1>1, <1>2 DEF Chain

\* One task.
LEMMA ChainOne ==
    ASSUME NEW task, NEW a \in Seq(Kinds), NEW b \in Seq(Kinds), Takes(task, a, b)
    PROVE  Chain(<<task>>, a, b)
<1> DEFINE h == [i \in 1 .. 2 |-> IF i = 1 THEN a ELSE b]
<1>1. Len(<<task>>) = 1 /\ <<task>>[1] = task
  OBVIOUS
<1>2. h \in [1 .. Len(<<task>>) + 1 -> Seq(Kinds)] /\ h[1] = a /\ h[2] = b
  BY <1>1
<1>3. \A i \in 1 .. Len(<<task>>) : Takes(<<task>>[i], h[i], h[i + 1])
  <2>1. \A i \in 1 .. 1 : i = 1 /\ i + 1 = 2
    OBVIOUS
  <2> QED BY <1>1, <1>2, <2>1
<1>4. Len(<<task>>) + 1 = 2
  BY <1>1
<1> HIDE DEF h
<1> QED BY <1>2, <1>3, <1>4 DEF Chain

\* Chains that end where the next one begins.
LEMMA ChainConcat ==
    ASSUME NEW s \in Seq(ParserTasks), NEW t \in Seq(ParserTasks), NEW u, u = s \o t,
           NEW a, NEW b, NEW c, Chain(s, a, b), Chain(t, b, c)
    PROVE  Chain(u, a, c)
<1> DEFINE m == Len(s)
           n == Len(t)
<1>1. PICK g \in [1 .. m + 1 -> Seq(Kinds)] :
         /\ g[1] = a /\ g[m + 1] = b
         /\ \A i \in 1 .. m : Takes(s[i], g[i], g[i + 1])
  BY DEF Chain
<1>2. PICK h \in [1 .. n + 1 -> Seq(Kinds)] :
         /\ h[1] = b /\ h[n + 1] = c
         /\ \A i \in 1 .. n : Takes(t[i], h[i], h[i + 1])
  BY DEF Chain
<1>3. /\ m \in Nat /\ n \in Nat /\ Len(u) = m + n
      /\ \A i \in 1 .. m : u[i] = s[i]
      /\ \A i \in 1 .. n : u[i + m] = t[i]
  BY ConcatPlaces
<1> DEFINE f == [i \in 1 .. m + n + 1 |-> IF i <= m THEN g[i] ELSE h[i - m]]
<1>4. f \in [1 .. Len(u) + 1 -> Seq(Kinds)]
  <2>1. ASSUME NEW i \in 1 .. m + n + 1
        PROVE  (IF i <= m THEN g[i] ELSE h[i - m]) \in Seq(Kinds)
    <3>1. CASE i <= m
      <4>1. i \in 1 .. m + 1
        BY <1>3, <3>1
      <4> QED BY <1>1, <3>1, <4>1
    <3>2. CASE ~(i <= m)
      <4>1. i - m \in 1 .. n + 1
        BY <1>3, <3>2
      <4> QED BY <1>2, <3>2, <4>1
    <3> QED BY <3>1, <3>2
  <2> QED BY <1>3, <2>1
<1>5. \A i \in 1 .. m + 1 : f[i] = g[i]
  <2> TAKE i \in 1 .. m + 1
  <2>1. i \in 1 .. m + n + 1
    BY <1>3
  <2>2. CASE i <= m
    BY <2>1, <2>2
  <2>3. CASE ~(i <= m)
    <3>1. i = m + 1 /\ i - m = 1
      BY <1>3, <2>3
    <3>2. f[i] = h[1]
      BY <2>1, <2>3, <3>1
    <3> QED BY <1>1, <1>2, <3>1, <3>2
  <2> QED BY <2>2, <2>3
<1>6. \A i \in 1 .. n + 1 : f[i + m] = h[i]
  <2> TAKE i \in 1 .. n + 1
  <2>1. i + m \in 1 .. m + n + 1 /\ ~(i + m <= m) /\ i + m - m = i
    BY <1>3
  <2> QED BY <2>1
<1> HIDE DEF f
<1>7. f[1] = a /\ f[Len(u) + 1] = c
  <2>1. 1 \in 1 .. m + 1 /\ n + 1 \in 1 .. n + 1 /\ n + 1 + m = Len(u) + 1
    BY <1>3
  <2>2. f[1] = g[1] /\ f[n + 1 + m] = h[n + 1]
    BY <1>5, <1>6, <2>1
  <2> QED BY <1>1, <1>2, <2>1, <2>2
<1>8. ASSUME NEW i \in 1 .. Len(u)
      PROVE  Takes(u[i], f[i], f[i + 1])
  <2>1. CASE i <= m
    <3>1. i \in 1 .. m /\ i \in 1 .. m + 1 /\ i + 1 \in 1 .. m + 1
      BY <1>3, <2>1
    <3>2. u[i] = s[i] /\ f[i] = g[i] /\ f[i + 1] = g[i + 1]
      BY <1>3, <1>5, <3>1
    <3> QED BY <1>1, <3>1, <3>2
  <2>2. CASE ~(i <= m)
    <3> DEFINE j == i - m
    <3>1. j \in 1 .. n /\ j \in 1 .. n + 1 /\ j + 1 \in 1 .. n + 1
          /\ j + m = i /\ j + 1 + m = i + 1
      BY <1>3, <2>2
    <3>2. u[j + m] = t[j] /\ f[j + m] = h[j] /\ f[j + 1 + m] = h[j + 1]
      <4> HIDE DEF j
      <4> QED BY <1>3, <1>6, <3>1
    <3>3. Takes(t[j], h[j], h[j + 1])
      BY <1>2, <3>1
    <3> HIDE DEF j
    <3> QED BY <3>1, <3>2, <3>3
  <2> QED BY <2>1, <2>2
<1> QED BY <1>4, <1>7, <1>8 DEF Chain

\* The first task of a chain, and the chain of the others.
LEMMA ChainHead ==
    ASSUME NEW s \in Seq(ParserTasks), s # <<>>, NEW a, NEW c, Chain(s, a, c)
    PROVE  /\ a \in Seq(Kinds)
           /\ \E b \in Seq(Kinds) : Takes(Head(s), a, b) /\ Chain(Tail(s), b, c)
<1> DEFINE n == Len(s)
<1>1. n \in Nat \ {0} /\ Tail(s) \in Seq(ParserTasks) /\ Len(Tail(s)) = n - 1
      /\ \A i \in 1 .. n - 1 : Tail(s)[i] = s[i + 1]
  BY EmptySeq, HeadTailProperties
<1>2. Head(s) = s[1]
  BY <1>1
<1>3. PICK h \in [1 .. n + 1 -> Seq(Kinds)] :
         /\ h[1] = a /\ h[n + 1] = c
         /\ \A i \in 1 .. n : Takes(s[i], h[i], h[i + 1])
  BY DEF Chain
<1>4. a \in Seq(Kinds) /\ h[2] \in Seq(Kinds) /\ Takes(Head(s), a, h[2])
  <2>1. 1 \in 1 .. n /\ 1 \in 1 .. n + 1 /\ 2 \in 1 .. n + 1 /\ 1 + 1 = 2
    BY <1>1
  <2>2. Takes(s[1], h[1], h[1 + 1])
    BY <1>3, <2>1
  <2> QED BY <1>2, <1>3, <2>1, <2>2
<1> DEFINE f == [i \in 1 .. n |-> h[i + 1]]
<1>5. f \in [1 .. n -> Seq(Kinds)] /\ \A i \in 1 .. n : f[i] = h[i + 1]
  <2>1. \A i \in 1 .. n : i + 1 \in 1 .. n + 1
    BY <1>1
  <2> QED BY <1>3, <2>1
<1> HIDE DEF f
<1>6. Chain(Tail(s), h[2], c)
  <2>1. f[1] = h[2] /\ f[n] = c
    <3>1. 1 \in 1 .. n /\ n \in 1 .. n /\ 1 + 1 = 2
      BY <1>1
    <3> QED BY <1>3, <1>5, <3>1
  <2>2. ASSUME NEW i \in 1 .. n - 1
        PROVE  Takes(Tail(s)[i], f[i], f[i + 1])
    <3>1. i \in 1 .. n /\ i + 1 \in 1 .. n
      BY <1>1
    <3>2. Tail(s)[i] = s[i + 1] /\ f[i] = h[i + 1] /\ f[i + 1] = h[i + 1 + 1]
      BY <1>1, <1>5, <3>1
    <3> QED BY <1>3, <3>1, <3>2
  <2>3. Len(Tail(s)) + 1 = n
    BY <1>1
  <2> QED BY <1>1, <1>5, <2>1, <2>2, <2>3 DEF Chain
<1> QED BY <1>4, <1>6

\* ParserTasks one by one.
LEMMA ChainCons ==
    ASSUME NEW task \in ParserTasks, NEW a \in Seq(Kinds), NEW b \in Seq(Kinds), NEW c,
           Takes(task, a, b), NEW s \in Seq(ParserTasks), Chain(s, b, c), NEW u, u = <<task>> \o s
    PROVE  Chain(u, a, c)
<1>1. <<task>> \in Seq(ParserTasks) /\ Chain(<<task>>, a, b)
  BY ChainOne
<1> QED BY <1>1, ChainConcat

\* A list of two tasks is two shorter ones.
LEMMA SplitTwo ==
    ASSUME NEW t1 \in ParserTasks, NEW t2 \in ParserTasks,
           NEW a, NEW b, NEW c
    PROVE  Chain(<<t1>>, a, b) /\ Chain(<<t2>>, b, c)
           => Chain(<<t1, t2>>, a, c)
<1> DEFINE s == <<t1>>
           t == <<t2>>
           u == <<t1, t2>>
<1>1. s \in Seq(ParserTasks) /\ t \in Seq(ParserTasks) /\ u \in Seq(ParserTasks)
  OBVIOUS
<1>2. Len(s) = 1 /\ Len(t) = 1 /\ Len(u) = 2
  OBVIOUS
<1>3. \A i \in 1 .. Len(s) : u[i] = s[i]
  <2>1. u[1] = s[1]
    OBVIOUS
  <2>2. \A i \in 1 .. Len(s) : i = 1
    BY <1>2
  <2> QED BY <2>1, <2>2
<1>4. \A i \in 1 .. Len(t) : u[Len(s) + i] = t[i]
  <2>1. /\ u[1 + 1] = t[1]
    OBVIOUS
  <2>2. \A i \in 1 .. Len(t) : /\ Len(s) + i = 1 + i
                               /\ i = 1
    BY <1>2
  <2> HIDE DEF s, t, u
  <2> QED BY <2>1, <2>2
<1> HIDE DEF s, t, u
<1>5. Len(u) = Len(s) + Len(t)
  BY <1>2
<1>6. u = s \o t
  BY <1>1, <1>3, <1>4, <1>5, IsConcat
<1>7. Chain(s, a, b) /\ Chain(t, b, c) => Chain(u, a, c)
  BY <1>1, <1>6, ChainConcat
<1> QED BY <1>7 DEF s, t, u

\* A list of three tasks is two shorter ones.
LEMMA SplitThree ==
    ASSUME NEW t1 \in ParserTasks, NEW t2 \in ParserTasks, NEW t3 \in ParserTasks,
           NEW a, NEW b, NEW c
    PROVE  Chain(<<t1>>, a, b) /\ Chain(<<t2, t3>>, b, c)
           => Chain(<<t1, t2, t3>>, a, c)
<1> DEFINE s == <<t1>>
           t == <<t2, t3>>
           u == <<t1, t2, t3>>
<1>1. s \in Seq(ParserTasks) /\ t \in Seq(ParserTasks) /\ u \in Seq(ParserTasks)
  OBVIOUS
<1>2. Len(s) = 1 /\ Len(t) = 2 /\ Len(u) = 3
  OBVIOUS
<1>3. \A i \in 1 .. Len(s) : u[i] = s[i]
  <2>1. u[1] = s[1]
    OBVIOUS
  <2>2. \A i \in 1 .. Len(s) : i = 1
    BY <1>2
  <2> QED BY <2>1, <2>2
<1>4. \A i \in 1 .. Len(t) : u[Len(s) + i] = t[i]
  <2>1. /\ u[1 + 1] = t[1] /\ u[1 + 2] = t[2]
    OBVIOUS
  <2>2. \A i \in 1 .. Len(t) : /\ Len(s) + i = 1 + i
                               /\ i = 1 \/ i = 2
    BY <1>2
  <2> HIDE DEF s, t, u
  <2> QED BY <2>1, <2>2
<1> HIDE DEF s, t, u
<1>5. Len(u) = Len(s) + Len(t)
  BY <1>2
<1>6. u = s \o t
  BY <1>1, <1>3, <1>4, <1>5, IsConcat
<1>7. Chain(s, a, b) /\ Chain(t, b, c) => Chain(u, a, c)
  BY <1>1, <1>6, ChainConcat
<1> QED BY <1>7 DEF s, t, u

\* A list of four tasks is two shorter ones.
LEMMA SplitFour ==
    ASSUME NEW t1 \in ParserTasks, NEW t2 \in ParserTasks, NEW t3 \in ParserTasks, NEW t4 \in ParserTasks,
           NEW a, NEW b, NEW c
    PROVE  Chain(<<t1, t2>>, a, b) /\ Chain(<<t3, t4>>, b, c)
           => Chain(<<t1, t2, t3, t4>>, a, c)
<1> DEFINE s == <<t1, t2>>
           t == <<t3, t4>>
           u == <<t1, t2, t3, t4>>
<1>1. s \in Seq(ParserTasks) /\ t \in Seq(ParserTasks) /\ u \in Seq(ParserTasks)
  OBVIOUS
<1>2. Len(s) = 2 /\ Len(t) = 2 /\ Len(u) = 4
  OBVIOUS
<1>3. \A i \in 1 .. Len(s) : u[i] = s[i]
  <2>1. u[1] = s[1] /\ u[2] = s[2]
    OBVIOUS
  <2>2. \A i \in 1 .. Len(s) : i = 1 \/ i = 2
    BY <1>2
  <2> QED BY <2>1, <2>2
<1>4. \A i \in 1 .. Len(t) : u[Len(s) + i] = t[i]
  <2>1. /\ u[2 + 1] = t[1] /\ u[2 + 2] = t[2]
    OBVIOUS
  <2>2. \A i \in 1 .. Len(t) : /\ Len(s) + i = 2 + i
                               /\ i = 1 \/ i = 2
    BY <1>2
  <2> HIDE DEF s, t, u
  <2> QED BY <2>1, <2>2
<1> HIDE DEF s, t, u
<1>5. Len(u) = Len(s) + Len(t)
  BY <1>2
<1>6. u = s \o t
  BY <1>1, <1>3, <1>4, <1>5, IsConcat
<1>7. Chain(s, a, b) /\ Chain(t, b, c) => Chain(u, a, c)
  BY <1>1, <1>6, ChainConcat
<1> QED BY <1>7 DEF s, t, u

\* A list of five tasks is two shorter ones.
LEMMA SplitFive ==
    ASSUME NEW t1 \in ParserTasks, NEW t2 \in ParserTasks, NEW t3 \in ParserTasks, NEW t4 \in ParserTasks,
           NEW t5 \in ParserTasks,
           NEW a, NEW b, NEW c
    PROVE  Chain(<<t1, t2>>, a, b) /\ Chain(<<t3, t4, t5>>, b, c)
           => Chain(<<t1, t2, t3, t4, t5>>, a, c)
<1> DEFINE s == <<t1, t2>>
           t == <<t3, t4, t5>>
           u == <<t1, t2, t3, t4, t5>>
<1>1. s \in Seq(ParserTasks) /\ t \in Seq(ParserTasks) /\ u \in Seq(ParserTasks)
  OBVIOUS
<1>2. Len(s) = 2 /\ Len(t) = 3 /\ Len(u) = 5
  OBVIOUS
<1>3. \A i \in 1 .. Len(s) : u[i] = s[i]
  <2>1. u[1] = s[1] /\ u[2] = s[2]
    OBVIOUS
  <2>2. \A i \in 1 .. Len(s) : i = 1 \/ i = 2
    BY <1>2
  <2> QED BY <2>1, <2>2
<1>4. \A i \in 1 .. Len(t) : u[Len(s) + i] = t[i]
  <2>1. /\ u[2 + 1] = t[1] /\ u[2 + 2] = t[2] /\ u[2 + 3] = t[3]
    OBVIOUS
  <2>2. \A i \in 1 .. Len(t) : /\ Len(s) + i = 2 + i
                               /\ i = 1 \/ i = 2 \/ i = 3
    BY <1>2
  <2> HIDE DEF s, t, u
  <2> QED BY <2>1, <2>2
<1> HIDE DEF s, t, u
<1>5. Len(u) = Len(s) + Len(t)
  BY <1>2
<1>6. u = s \o t
  BY <1>1, <1>3, <1>4, <1>5, IsConcat
<1>7. Chain(s, a, b) /\ Chain(t, b, c) => Chain(u, a, c)
  BY <1>1, <1>6, ChainConcat
<1> QED BY <1>7 DEF s, t, u

\* A list of six tasks is two shorter ones.
LEMMA SplitSix ==
    ASSUME NEW t1 \in ParserTasks, NEW t2 \in ParserTasks, NEW t3 \in ParserTasks, NEW t4 \in ParserTasks,
           NEW t5 \in ParserTasks,
           NEW t6 \in ParserTasks,
           NEW a, NEW b, NEW c
    PROVE  Chain(<<t1, t2, t3>>, a, b) /\ Chain(<<t4, t5, t6>>, b, c)
           => Chain(<<t1, t2, t3, t4, t5, t6>>, a, c)
<1> DEFINE s == <<t1, t2, t3>>
           t == <<t4, t5, t6>>
           u == <<t1, t2, t3, t4, t5, t6>>
<1>1. s \in Seq(ParserTasks) /\ t \in Seq(ParserTasks) /\ u \in Seq(ParserTasks)
  OBVIOUS
<1>2. Len(s) = 3 /\ Len(t) = 3 /\ Len(u) = 6
  OBVIOUS
<1>3. \A i \in 1 .. Len(s) : u[i] = s[i]
  <2>1. u[1] = s[1] /\ u[2] = s[2] /\ u[3] = s[3]
    OBVIOUS
  <2>2. \A i \in 1 .. Len(s) : i = 1 \/ i = 2 \/ i = 3
    BY <1>2
  <2> QED BY <2>1, <2>2
<1>4. \A i \in 1 .. Len(t) : u[Len(s) + i] = t[i]
  <2>1. /\ u[3 + 1] = t[1] /\ u[3 + 2] = t[2] /\ u[3 + 3] = t[3]
    OBVIOUS
  <2>2. \A i \in 1 .. Len(t) : /\ Len(s) + i = 3 + i
                               /\ i = 1 \/ i = 2 \/ i = 3
    BY <1>2
  <2> HIDE DEF s, t, u
  <2> QED BY <2>1, <2>2
<1> HIDE DEF s, t, u
<1>5. Len(u) = Len(s) + Len(t)
  BY <1>2
<1>6. u = s \o t
  BY <1>1, <1>3, <1>4, <1>5, IsConcat
<1>7. Chain(s, a, b) /\ Chain(t, b, c) => Chain(u, a, c)
  BY <1>1, <1>6, ChainConcat
<1> QED BY <1>7 DEF s, t, u

\* A list of ten tasks is two shorter ones.
LEMMA SplitTen ==
    ASSUME NEW t1 \in ParserTasks, NEW t2 \in ParserTasks, NEW t3 \in ParserTasks, NEW t4 \in ParserTasks,
           NEW t5 \in ParserTasks,
           NEW t6 \in ParserTasks, NEW t7 \in ParserTasks, NEW t8 \in ParserTasks, NEW t9 \in ParserTasks,
           NEW t10 \in ParserTasks,
           NEW a, NEW b, NEW c
    PROVE  Chain(<<t1, t2, t3, t4>>, a, b) /\ Chain(<<t5, t6, t7, t8, t9, t10>>, b, c)
           => Chain(<<t1, t2, t3, t4, t5, t6, t7, t8, t9, t10>>, a, c)
<1> DEFINE s == <<t1, t2, t3, t4>>
           t == <<t5, t6, t7, t8, t9, t10>>
           u == <<t1, t2, t3, t4, t5, t6, t7, t8, t9, t10>>
<1>1. s \in Seq(ParserTasks) /\ t \in Seq(ParserTasks) /\ u \in Seq(ParserTasks)
  OBVIOUS
<1>2. Len(s) = 4 /\ Len(t) = 6 /\ Len(u) = 10
  OBVIOUS
<1>3. \A i \in 1 .. Len(s) : u[i] = s[i]
  <2>1. u[1] = s[1] /\ u[2] = s[2] /\ u[3] = s[3] /\ u[4] = s[4]
    OBVIOUS
  <2>2. \A i \in 1 .. Len(s) : i = 1 \/ i = 2 \/ i = 3 \/ i = 4
    BY <1>2
  <2> QED BY <2>1, <2>2
<1>4. \A i \in 1 .. Len(t) : u[Len(s) + i] = t[i]
  <2>1. /\ u[4 + 1] = t[1] /\ u[4 + 2] = t[2] /\ u[4 + 3] = t[3]
        /\ u[4 + 4] = t[4] /\ u[4 + 5] = t[5] /\ u[4 + 6] = t[6]
    OBVIOUS
  <2>2. \A i \in 1 .. Len(t) : /\ Len(s) + i = 4 + i
                               /\ i = 1 \/ i = 2 \/ i = 3 \/ i = 4 \/ i = 5 \/ i = 6
    BY <1>2
  <2> HIDE DEF s, t, u
  <2> QED BY <2>1, <2>2
<1> HIDE DEF s, t, u
<1>5. Len(u) = Len(s) + Len(t)
  BY <1>2
<1>6. u = s \o t
  BY <1>1, <1>3, <1>4, <1>5, IsConcat
<1>7. Chain(s, a, b) /\ Chain(t, b, c) => Chain(u, a, c)
  BY <1>1, <1>6, ChainConcat
<1> QED BY <1>7 DEF s, t, u

\* A chain of two tasks.
LEMMA ChainTwo ==
    ASSUME NEW t1 \in ParserTasks, NEW t2 \in ParserTasks,
           NEW K0 \in Seq(Kinds), NEW K1 \in Seq(Kinds), NEW K2 \in Seq(Kinds),
           Takes(t1, K0, K1), Takes(t2, K1, K2)
    PROVE  Chain(<<t1, t2>>, K0, K2)
<1>1. Chain(<<t1>>, K0, K1)
  BY ChainOne
<1>2. Chain(<<t2>>, K1, K2)
  BY ChainOne
<1> QED BY <1>1, <1>2, SplitTwo, Zenon

\* A chain of three tasks.
LEMMA ChainThree ==
    ASSUME NEW t1 \in ParserTasks, NEW t2 \in ParserTasks, NEW t3 \in ParserTasks,
           NEW K0 \in Seq(Kinds), NEW K1 \in Seq(Kinds), NEW K2 \in Seq(Kinds),
           NEW K3 \in Seq(Kinds),
           Takes(t1, K0, K1), Takes(t2, K1, K2), Takes(t3, K2, K3)
    PROVE  Chain(<<t1, t2, t3>>, K0, K3)
<1>1. Chain(<<t1>>, K0, K1)
  BY ChainOne
<1>2. Chain(<<t2, t3>>, K1, K3)
  BY ChainTwo
<1> QED BY <1>1, <1>2, SplitThree, Zenon

\* A chain of four tasks.
LEMMA ChainFour ==
    ASSUME NEW t1 \in ParserTasks, NEW t2 \in ParserTasks, NEW t3 \in ParserTasks, NEW t4 \in ParserTasks,
           NEW K0 \in Seq(Kinds), NEW K1 \in Seq(Kinds), NEW K2 \in Seq(Kinds),
           NEW K3 \in Seq(Kinds),
           NEW K4 \in Seq(Kinds),
           Takes(t1, K0, K1), Takes(t2, K1, K2), Takes(t3, K2, K3), Takes(t4, K3, K4)
    PROVE  Chain(<<t1, t2, t3, t4>>, K0, K4)
<1>1. Chain(<<t1, t2>>, K0, K2)
  BY ChainTwo
<1>2. Chain(<<t3, t4>>, K2, K4)
  BY ChainTwo
<1> QED BY <1>1, <1>2, SplitFour, Zenon

\* A chain of five tasks.
LEMMA ChainFive ==
    ASSUME NEW t1 \in ParserTasks, NEW t2 \in ParserTasks, NEW t3 \in ParserTasks, NEW t4 \in ParserTasks,
           NEW t5 \in ParserTasks,
           NEW K0 \in Seq(Kinds), NEW K1 \in Seq(Kinds), NEW K2 \in Seq(Kinds),
           NEW K3 \in Seq(Kinds),
           NEW K4 \in Seq(Kinds), NEW K5 \in Seq(Kinds),
           Takes(t1, K0, K1), Takes(t2, K1, K2), Takes(t3, K2, K3), Takes(t4, K3, K4),
           Takes(t5, K4, K5)
    PROVE  Chain(<<t1, t2, t3, t4, t5>>, K0, K5)
<1>1. Chain(<<t1, t2>>, K0, K2)
  BY ChainTwo
<1>2. Chain(<<t3, t4, t5>>, K2, K5)
  BY ChainThree
<1> QED BY <1>1, <1>2, SplitFive, Zenon

\* A chain of six tasks.
LEMMA ChainSix ==
    ASSUME NEW t1 \in ParserTasks, NEW t2 \in ParserTasks, NEW t3 \in ParserTasks, NEW t4 \in ParserTasks,
           NEW t5 \in ParserTasks,
           NEW t6 \in ParserTasks,
           NEW K0 \in Seq(Kinds), NEW K1 \in Seq(Kinds), NEW K2 \in Seq(Kinds),
           NEW K3 \in Seq(Kinds),
           NEW K4 \in Seq(Kinds), NEW K5 \in Seq(Kinds), NEW K6 \in Seq(Kinds),
           Takes(t1, K0, K1), Takes(t2, K1, K2), Takes(t3, K2, K3), Takes(t4, K3, K4),
           Takes(t5, K4, K5), Takes(t6, K5, K6)
    PROVE  Chain(<<t1, t2, t3, t4, t5, t6>>, K0, K6)
<1>1. Chain(<<t1, t2, t3>>, K0, K3)
  BY ChainThree
<1>2. Chain(<<t4, t5, t6>>, K3, K6)
  BY ChainThree
<1> QED BY <1>1, <1>2, SplitSix, Zenon

\* A chain of ten tasks.
LEMMA ChainTen ==
    ASSUME NEW t1 \in ParserTasks, NEW t2 \in ParserTasks, NEW t3 \in ParserTasks, NEW t4 \in ParserTasks,
           NEW t5 \in ParserTasks,
           NEW t6 \in ParserTasks, NEW t7 \in ParserTasks, NEW t8 \in ParserTasks, NEW t9 \in ParserTasks,
           NEW t10 \in ParserTasks,
           NEW K0 \in Seq(Kinds), NEW K1 \in Seq(Kinds), NEW K2 \in Seq(Kinds),
           NEW K3 \in Seq(Kinds),
           NEW K4 \in Seq(Kinds), NEW K5 \in Seq(Kinds), NEW K6 \in Seq(Kinds),
           NEW K7 \in Seq(Kinds),
           NEW K8 \in Seq(Kinds), NEW K9 \in Seq(Kinds), NEW K10 \in Seq(Kinds),
           Takes(t1, K0, K1), Takes(t2, K1, K2), Takes(t3, K2, K3), Takes(t4, K3, K4),
           Takes(t5, K4, K5), Takes(t6, K5, K6), Takes(t7, K6, K7), Takes(t8, K7, K8),
           Takes(t9, K8, K9), Takes(t10, K9, K10)
    PROVE  Chain(<<t1, t2, t3, t4, t5, t6, t7, t8, t9, t10>>, K0, K10)
<1>1. Chain(<<t1, t2, t3, t4>>, K0, K4)
  BY ChainFour
<1>2. Chain(<<t5, t6, t7, t8, t9, t10>>, K4, K10)
  BY ChainSix
<1> QED BY <1>1, <1>2, SplitTen, Zenon

-----------------------------------------------------------------------------
(* Lemmas about trees. *)

\* Everything but the children is the same.
Alike(m, n) ==
    /\ m \in Nodes /\ n \in Nodes /\ m.type = n.type /\ m.op = n.op /\ m.name = n.name
    /\ m.ival = n.ival /\ m.is_func = n.is_func

\* m is n, in a tree that was moved by that many places.
Moved(m, n, by) ==
    /\ Alike(m, n) /\ Len(m.kids) = Len(n.kids)
    /\ \A k \in 1 .. Len(n.kids) : m.kids[k] = n.kids[k] + by

\* The nodes of Hang(tree, kid).
Hung(hung, tree, kid) ==
    /\ IsTable(hung) /\ Len(hung) = Len(tree) + Len(kid)
    /\ Alike(hung[1], tree[1]) /\ hung[1].kids = Append(tree[1].kids, Len(tree) + 1)
    /\ \A i \in 2 .. Len(tree) : hung[i] = tree[i]
    /\ \A i \in 1 .. Len(kid) : Moved(hung[i + Len(tree)], kid[i], Len(tree))

\* The places of a table.
LEMMA TablePlaces ==
    ASSUME NEW tree, IsTable(tree)
    PROVE  /\ Len(tree) \in Nat \ {0} /\ DOMAIN tree = 1 .. Len(tree)
           /\ 1 \in 1 .. Len(tree) /\ \A i \in 1 .. Len(tree) : tree[i] \in Nodes
<1>1. tree \in Seq(Nodes) /\ tree # <<>>
  BY DEF IsTable, Tables
<1>2. Len(tree) \in Nat \ {0} /\ DOMAIN tree = 1 .. Len(tree)
  BY <1>1, EmptySeq, LenProperties
<1> QED BY <1>1, <1>2, ElementOfSeq

\* The children of a node.
LEMMA NodeKids ==
    ASSUME NEW node \in Nodes
    PROVE  /\ node.kids \in Seq(Nat \ {0}) /\ Len(node.kids) \in Nat
           /\ \A k \in 1 .. Len(node.kids) : node.kids[k] \in Nat \ {0}
           /\ node.kids = <<>> <=> Len(node.kids) = 0
<1>1. node.kids \in Seq(Nat \ {0})
  BY DEF Nodes
<1> QED BY <1>1, EmptySeq, LenProperties, ElementOfSeq

\* A node whose children are others.
LEMMA OtherKids ==
    ASSUME NEW node \in Nodes, NEW kids \in Seq(Nat \ {0})
    PROVE  /\ Alike([node EXCEPT !.kids = kids], node)
           /\ [node EXCEPT !.kids = kids].kids = kids
BY DEF Nodes, Alike

\* The nodes of a tree that has got a child.
LEMMA HangIsHung ==
    ASSUME NEW tree, IsTable(tree), NEW kid, IsTable(kid)
    PROVE  Hung(Hang(tree, kid), tree, kid)
<1> DEFINE n == Len(tree)
           shifted(i) == [k \in DOMAIN kid[i].kids |-> kid[i].kids[k] + n]
           moved == [i \in DOMAIN kid |-> [kid[i] EXCEPT !.kids = shifted(i)]]
           top   == [tree[1] EXCEPT !.kids = Append(tree[1].kids, n + 1)]
           front == [tree EXCEPT ![1].kids = Append(tree[1].kids, n + 1)]
<1>1. Hang(tree, kid) = front \o moved
  BY DEF Hang
<1>2. /\ n \in Nat \ {0} /\ 1 \in 1 .. n /\ tree \in Seq(Nodes) /\ DOMAIN tree = 1 .. n
      /\ \A i \in 1 .. n : tree[i] \in Nodes
  BY TablePlaces DEF IsTable, Tables
<1>3. /\ Len(kid) \in Nat \ {0} /\ DOMAIN kid = 1 .. Len(kid)
      /\ \A i \in 1 .. Len(kid) : kid[i] \in Nodes
  BY TablePlaces
<1>4. /\ Alike(top, tree[1]) /\ top.kids = Append(tree[1].kids, n + 1)
  <2>1. Append(tree[1].kids, n + 1) \in Seq(Nat \ {0})
    BY <1>2, NodeKids, AppendProperties
  <2> HIDE DEF n
  <2> QED BY <1>2, <2>1, OtherKids
<1>5. front = [tree EXCEPT ![1] = top]
  OBVIOUS
<1>6. /\ front \in Seq(Nodes) /\ Len(front) = n /\ front[1] = top
      /\ \A i \in 2 .. n : front[i] = tree[i]
  <2> HIDE DEF top, front
  <2>1. top \in Nodes
    BY <1>4 DEF Alike
  <2>2. /\ [tree EXCEPT ![1] = top] \in Seq(Nodes) /\ Len([tree EXCEPT ![1] = top]) = n
    BY <1>2, <2>1, ExceptSeq
  <2>3. /\ [tree EXCEPT ![1] = top][1] = top
        /\ \A i \in 2 .. n : [tree EXCEPT ![1] = top][i] = tree[i]
    BY <1>2
  <2> QED BY <1>5, <2>2, <2>3
<1>7. ASSUME NEW i \in 1 .. Len(kid)
      PROVE  moved[i] \in Nodes /\ Moved(moved[i], kid[i], n)
  <2>1. /\ kid[i] \in Nodes /\ kid[i].kids \in Seq(Nat \ {0}) /\ Len(kid[i].kids) \in Nat
        /\ DOMAIN kid[i].kids = 1 .. Len(kid[i].kids)
        /\ \A k \in 1 .. Len(kid[i].kids) : kid[i].kids[k] \in Nat \ {0}
    BY <1>3, NodeKids, LenProperties
  <2>2. /\ shifted(i) \in Seq(Nat \ {0}) /\ Len(shifted(i)) = Len(kid[i].kids)
        /\ \A k \in 1 .. Len(kid[i].kids) : shifted(i)[k] = kid[i].kids[k] + n
    <3>1. \A k \in 1 .. Len(kid[i].kids) : kid[i].kids[k] + n \in Nat \ {0}
      BY <1>2, <2>1
    <3>2. shifted(i) \in [1 .. Len(kid[i].kids) -> Nat \ {0}]
      BY <2>1, <3>1
    <3> HIDE DEF n
    <3> QED BY <2>1, <3>2
  <2>3. moved[i] = [kid[i] EXCEPT !.kids = shifted(i)]
    BY <1>3
  <2> HIDE DEF shifted, moved
  <2>4. Alike(moved[i], kid[i]) /\ moved[i].kids = shifted(i)
    BY <2>1, <2>2, <2>3, OtherKids
  <2> QED BY <2>2, <2>4 DEF Moved, Alike
<1>8. moved \in Seq(Nodes) /\ Len(moved) = Len(kid)
  <2> DEFINE m == Len(kid)
  <2>1. DOMAIN moved = 1 .. m /\ \A i \in 1 .. m : moved[i] \in Nodes
    BY <1>3, <1>7
  <2>2. moved = [i \in 1 .. m |-> moved[i]]
    BY <1>3
  <2>3. moved \in [1 .. m -> Nodes]
    <3> HIDE DEF moved, m
    <3> QED BY <2>1, <2>2
  <2> HIDE DEF moved, m
  <2>4. m \in Nat
    BY <1>3 DEF m
  <2> QED BY <2>3, <2>4 DEF m
<1> HIDE DEF moved, front, top, n
<1>9. PICK f, g, hung : /\ f \in Seq(Nodes) /\ g \in Seq(Nodes)
                        /\ f = front /\ g = moved /\ hung = f \o g
  BY <1>6, <1>8
<1>10. /\ hung \in Seq(Nodes) /\ Len(hung) = n + Len(kid)
       /\ \A i \in 1 .. n : hung[i] = front[i]
       /\ \A i \in 1 .. Len(kid) : hung[i + n] = moved[i]
  <2>1. /\ hung \in Seq(Nodes) /\ Len(hung) = Len(f) + Len(g)
        /\ DOMAIN f = 1 .. Len(f) /\ DOMAIN g = 1 .. Len(g)
        /\ \A i \in DOMAIN f : hung[i] = f[i]
        /\ \A i \in DOMAIN g : hung[i + Len(f)] = g[i]
    BY <1>9, ConcatPlaces
  <2> QED BY <1>6, <1>8, <1>9, <2>1
<1>11. hung # <<>>
  <2>1. Len(hung) # 0
    BY <1>2, <1>3, <1>10
  <2> QED BY <2>1
<1>12. \A i \in 2 .. n : hung[i] = tree[i]
  BY <1>2, <1>6, <1>10
<1>13. hung[1] = top
  BY <1>2, <1>6, <1>10
<1>14. Hung(hung, tree, kid)
  BY <1>4, <1>7, <1>10, <1>11, <1>12, <1>13 DEF Hung, IsTable, Tables, n
<1> QED BY <1>1, <1>9, <1>14

\* It is a tree, if both were.
LEMMA HangTree ==
    ASSUME NEW tree, IsTree(tree), NEW kid, IsTree(kid), NEW hung, Hung(hung, tree, kid)
    PROVE  IsTree(hung)
<1> DEFINE n == Len(tree)
           m == Len(kid)
<1>1. PICK last : Numbered(tree, last)
  BY DEF IsTree
<1>2. PICK klast : Numbered(kid, klast)
  BY DEF IsTree
<1>3. /\ n \in Nat \ {0} /\ m \in Nat \ {0} /\ Len(hung) = n + m
      /\ \A i \in 1 .. n : tree[i] \in Nodes
      /\ \A i \in 1 .. m : kid[i] \in Nodes
      /\ \A i \in 1 .. n + m : hung[i] \in Nodes
  BY TablePlaces DEF IsTree, Hung
<1>4. /\ last \in [1 .. n -> 1 .. n] /\ last[1] = n
      /\ \A i \in 1 .. n : KidsInOrder(tree, last, i)
      /\ klast \in [1 .. m -> 1 .. m] /\ klast[1] = m
      /\ \A i \in 1 .. m : KidsInOrder(kid, klast, i)
  BY <1>1, <1>2 DEF Numbered
<1>5. /\ Alike(hung[1], tree[1]) /\ hung[1].kids = Append(tree[1].kids, n + 1)
      /\ \A i \in 2 .. n : hung[i] = tree[i]
      /\ \A i \in 1 .. m : Moved(hung[i + n], kid[i], n)
  BY DEF Hung
<1> HIDE DEF n, m
<1> DEFINE far == [i \in 1 .. n + m |-> IF i = 1 THEN n + m
                                        ELSE IF i <= n THEN last[i] ELSE klast[i - n] + n]
<1>6. /\ far \in [1 .. n + m -> 1 .. n + m] /\ far[1] = n + m
      /\ \A i \in 2 .. n : far[i] = last[i]
      /\ \A i \in 1 .. m : far[i + n] = klast[i] + n
  <2>1. ASSUME NEW i \in 1 .. n + m
        PROVE  far[i] \in 1 .. n + m
    <3>1. CASE i = 1
      BY <1>3, <3>1
    <3>2. CASE i # 1 /\ i <= n
      BY <1>3, <1>4, <3>2
    <3>3. CASE i > n
      <4>1. i - n \in 1 .. m /\ i # 1
        BY <1>3, <3>3
      <4>2. klast[i - n] \in 1 .. m
        BY <1>4, <4>1
      <4> QED BY <1>3, <3>3, <4>1, <4>2
    <3> QED BY <1>3, <3>1, <3>2, <3>3
  <2>2. ASSUME NEW i \in 1 .. m
        PROVE  far[i + n] = klast[i] + n
    <3>1. PICK j \in 1 .. n + m : j = i + n /\ j # 1 /\ ~(j <= n) /\ j - n = i
      BY <1>3
    <3>2. far[j] = klast[j - n] + n
      BY <3>1
    <3> QED BY <3>1, <3>2
  <2>3. \A i \in 2 .. n : i \in 1 .. n + m /\ i # 1 /\ i <= n
    BY <1>3
  <2> QED BY <1>3, <2>1, <2>2, <2>3
<1> HIDE DEF far
<1>7. KidsInOrder(hung, far, 1)
  <2> DEFINE kids == tree[1].kids
  <2>1. /\ kids \in Seq(Nat \ {0}) /\ Len(kids) \in Nat /\ (kids = <<>> <=> Len(kids) = 0)
        /\ \A k \in 1 .. Len(kids) : kids[k] \in 1 .. n /\ kids[k] > 1
        /\ last[1] = IF kids = <<>> THEN 1 ELSE last[kids[Len(kids)]]
        /\ \A k \in 1 .. Len(kids) :
              kids[k] = IF k = 1 THEN 1 + 1 ELSE last[kids[k - 1]] + 1
    <3>1. tree[1] \in Nodes /\ KidsInOrder(tree, last, 1)
      BY <1>3, <1>4
    <3> QED BY <3>1, NodeKids DEF KidsInOrder, n
  <2> DEFINE more == hung[1].kids
  <2> HIDE DEF kids
  <2>2. /\ Len(more) = Len(kids) + 1 /\ more[Len(kids) + 1] = n + 1 /\ more # <<>>
        /\ \A k \in 1 .. Len(kids) : more[k] = kids[k]
    <3>1. more = Append(kids, n + 1) /\ n + 1 \in Nat \ {0}
      BY <1>3, <1>5 DEF kids
    <3> HIDE DEF more
    <3>2. /\ more \in Seq(Nat \ {0}) /\ Len(more) = Len(kids) + 1 /\ more[Len(kids) + 1] = n + 1
          /\ \A k \in 1 .. Len(kids) : more[k] = kids[k]
      BY <2>1, <3>1, AppendProperties
    <3> QED BY <2>1, <3>2
  <2> HIDE DEF more
  <2>3. far[1] = far[more[Len(more)]]
    <3>1. far[1 + n] = klast[1] + n /\ 1 + n = n + 1
      BY <1>3, <1>6
    <3> QED BY <1>3, <1>4, <1>6, <2>2, <3>1
  <2>4. ASSUME NEW k \in 1 .. Len(more)
        PROVE  /\ more[k] \in 1 .. n + m /\ more[k] > 1
               /\ more[k] = IF k = 1 THEN 1 + 1 ELSE far[more[k - 1]] + 1
    <3>1. \A j \in 1 .. Len(kids) : far[more[j]] = last[kids[j]]
      <4>1. \A j \in 1 .. Len(kids) : kids[j] \in 2 .. n
        BY <1>3, <2>1
      <4> QED BY <1>6, <2>2, <4>1
    <3>2. CASE k \in 1 .. Len(kids)
      <4>1. k = 1 \/ k - 1 \in 1 .. Len(kids)
        BY <2>1, <3>2
      <4>2. more[k] = IF k = 1 THEN 1 + 1 ELSE far[more[k - 1]] + 1
        BY <2>1, <2>2, <3>1, <3>2, <4>1
      <4>3. more[k] = kids[k] /\ kids[k] \in 1 .. n /\ kids[k] > 1
        BY <2>1, <2>2, <3>2
      <4>4. more[k] \in 1 .. n + m /\ more[k] > 1
        BY <1>3, <4>3
      <4> QED BY <4>2, <4>4
    <3>3. CASE k = Len(kids) + 1
      <4>1. CASE Len(kids) = 0
        BY <1>3, <1>4, <2>1, <2>2, <3>3, <4>1
      <4>2. CASE Len(kids) # 0
        <5>1. k # 1 /\ k - 1 = Len(kids) /\ Len(kids) \in 1 .. Len(kids)
          BY <2>1, <3>3, <4>2
        <5>2. far[more[k - 1]] = last[kids[Len(kids)]]
          BY <3>1, <5>1
        <5> QED BY <1>3, <1>4, <2>1, <2>2, <3>3, <4>2, <5>1, <5>2
      <4> QED BY <4>1, <4>2
    <3> QED BY <2>1, <2>2, <3>2, <3>3
  <2> QED BY <1>3, <2>2, <2>3, <2>4 DEF KidsInOrder, more
<1>8. ASSUME NEW i \in 2 .. n
      PROVE  KidsInOrder(hung, far, i)
  <2> DEFINE kids == tree[i].kids
  <2>1. /\ hung[i].kids = kids /\ far[i] = last[i]
        /\ Len(kids) \in Nat /\ (kids = <<>> <=> Len(kids) = 0)
        /\ last[i] = IF kids = <<>> THEN i ELSE last[kids[Len(kids)]]
        /\ \A k \in 1 .. Len(kids) :
              /\ kids[k] \in 1 .. n /\ kids[k] > i
              /\ kids[k] = IF k = 1 THEN i + 1 ELSE last[kids[k - 1]] + 1
    <3>1. tree[i] \in Nodes /\ KidsInOrder(tree, last, i) /\ hung[i] = tree[i]
      <4>1. i \in 1 .. n
        BY <1>3
      <4> QED BY <1>3, <1>4, <1>5, <4>1
    <3> QED BY <1>6, <3>1, NodeKids DEF KidsInOrder, n
  <2> HIDE DEF kids
  <2>2. \A k \in 1 .. Len(kids) : far[kids[k]] = last[kids[k]] /\ kids[k] \in 1 .. n + m
    <3>1. \A k \in 1 .. Len(kids) : kids[k] \in 2 .. n
      BY <1>3, <2>1
    <3>2. \A j \in 2 .. n : j \in 1 .. n + m
      BY <1>3
    <3> QED BY <1>6, <3>1, <3>2
  <2>3. \A k \in 1 .. Len(kids) : k = 1 \/ k - 1 \in 1 .. Len(kids)
    BY <2>1
  <2>4. Len(kids) # 0 => Len(kids) \in 1 .. Len(kids)
    BY <2>1
  <2>5. far[i] = IF kids = <<>> THEN i ELSE far[kids[Len(kids)]]
    BY <2>1, <2>2, <2>4
  <2>6. \A k \in 1 .. Len(kids) : kids[k] = IF k = 1 THEN i + 1 ELSE far[kids[k - 1]] + 1
    BY <2>1, <2>2, <2>3
  <2> QED BY <1>3, <2>1, <2>2, <2>5, <2>6 DEF KidsInOrder
<1>9. ASSUME NEW i \in 1 .. m
      PROVE  KidsInOrder(hung, far, i + n)
  <2> DEFINE kids == kid[i].kids
             more == hung[i + n].kids
  <2>1. /\ far[i + n] = klast[i] + n /\ Len(more) = Len(kids)
        /\ Len(kids) \in Nat /\ (kids = <<>> <=> Len(kids) = 0) /\ (more = <<>> <=> Len(more) = 0)
        /\ klast[i] = IF kids = <<>> THEN i ELSE klast[kids[Len(kids)]]
        /\ \A k \in 1 .. Len(kids) : more[k] = kids[k] + n
        /\ \A k \in 1 .. Len(kids) :
              /\ kids[k] \in 1 .. m /\ kids[k] > i
              /\ kids[k] = IF k = 1 THEN i + 1 ELSE klast[kids[k - 1]] + 1
    <3>1. /\ kid[i] \in Nodes /\ KidsInOrder(kid, klast, i) /\ Moved(hung[i + n], kid[i], n)
          /\ hung[i + n] \in Nodes
      BY <1>3, <1>4, <1>5 DEF Moved, Alike
    <3>2. Len(more) = Len(kids) /\ \A k \in 1 .. Len(kids) : more[k] = kids[k] + n
      BY <3>1 DEF Moved
    <3>3. /\ klast[i] = IF kids = <<>> THEN i ELSE klast[kids[Len(kids)]]
          /\ \A k \in 1 .. Len(kids) :
              /\ kids[k] \in 1 .. m /\ kids[k] > i
              /\ kids[k] = IF k = 1 THEN i + 1 ELSE klast[kids[k - 1]] + 1
      BY <3>1 DEF KidsInOrder, m
    <3>4. /\ Len(kids) \in Nat /\ (kids = <<>> <=> Len(kids) = 0)
          /\ (more = <<>> <=> Len(more) = 0)
      BY <3>1, NodeKids
    <3> QED BY <1>6, <3>2, <3>3, <3>4
  <2> HIDE DEF kids, more
  <2>2. \A k \in 1 .. Len(kids) : far[more[k]] = klast[kids[k]] + n
    BY <1>6, <2>1
  <2>3. \A k \in 1 .. Len(kids) : k = 1 \/ k - 1 \in 1 .. Len(kids)
    BY <2>1
  <2>4. Len(kids) # 0 => Len(kids) \in 1 .. Len(kids)
    BY <2>1
  <2>5. far[i + n] = IF more = <<>> THEN i + n ELSE far[more[Len(more)]]
    BY <2>1, <2>2, <2>4
  <2>6. ASSUME NEW k \in 1 .. Len(kids)
        PROVE  /\ more[k] \in 1 .. n + m /\ more[k] > i + n
               /\ more[k] = IF k = 1 THEN i + n + 1 ELSE far[more[k - 1]] + 1
    <3>1. more[k] = kids[k] + n /\ kids[k] \in 1 .. m /\ kids[k] > i
      BY <2>1
    <3>2. more[k] \in 1 .. n + m /\ more[k] > i + n
      BY <1>3, <3>1
    <3>3. CASE k = 1
      BY <1>3, <2>1, <3>1, <3>3
    <3>4. CASE k # 1
      <4>1. k - 1 \in 1 .. Len(kids)
        BY <2>3, <3>4
      <4>2. kids[k - 1] \in 1 .. m /\ klast[kids[k - 1]] \in 1 .. m
        BY <1>4, <2>1, <4>1
      <4>3. kids[k] = klast[kids[k - 1]] + 1 /\ far[more[k - 1]] = klast[kids[k - 1]] + n
        BY <2>1, <2>2, <3>4, <4>1
      <4> QED BY <1>3, <3>1, <3>2, <3>4, <4>2, <4>3
    <3> QED BY <3>2, <3>3, <3>4
  <2> QED BY <1>3, <2>1, <2>5, <2>6 DEF KidsInOrder, more
<1>10. \A i \in 1 .. n + m : KidsInOrder(hung, far, i)
  <2>1. \A i \in 1 .. n + m : i = 1 \/ i \in 2 .. n \/ (i - n \in 1 .. m /\ i = i - n + n)
    BY <1>3
  <2> QED BY <1>7, <1>8, <1>9, <2>1
<1>11. Numbered(hung, far)
  BY <1>3, <1>6, <1>10 DEF Numbered
<1> QED BY <1>11 DEF IsTree, Hung

\* The children of the n-th node are in the tree, and behind it.
LEMMA KidsInTree ==
    ASSUME NEW tree, IsTree(tree), NEW n \in 1 .. Len(tree)
    PROVE  /\ tree[n] \in Nodes /\ Len(tree[n].kids) \in Nat
           /\ \A k \in 1 .. Len(tree[n].kids) :
                 tree[n].kids[k] \in 1 .. Len(tree) /\ tree[n].kids[k] > n
<1>1. PICK last : Numbered(tree, last)
  BY DEF IsTree
<1>2. tree[n] \in Nodes
  BY TablePlaces DEF IsTree
<1> QED BY <1>1, <1>2, NodeKids DEF Numbered, KidsInOrder

\* The children depend on the type, the operator and whether it is a function.
LEMMA ChildrenSame ==
    ASSUME NEW m, NEW n, NEW kinds, m.type = n.type, m.op = n.op, m.is_func = n.is_func,
           Children(n, kinds)
    PROVE  Children(m, kinds)
BY DEF Children

\* All nodes have the types that they had.
LEMMA HungTypes ==
    ASSUME NEW tree, IsTree(tree), NEW kid, IsTree(kid), NEW hung, Hung(hung, tree, kid)
    PROVE  /\ \A i \in 1 .. Len(tree) : hung[i].type = tree[i].type
           /\ \A i \in 1 .. Len(kid) : hung[i + Len(tree)].type = kid[i].type
<1>1. Len(tree) \in Nat /\ \A i \in 1 .. Len(tree) : i = 1 \/ i \in 2 .. Len(tree)
  BY TablePlaces DEF IsTree
<1> QED BY <1>1 DEF Hung, Moved, Alike

\* The nodes that were whole stay so.
LEMMA HangBelow ==
    ASSUME NEW tree, WholeBelow(tree), NEW kid, WholeTree(kid), NEW hung, Hung(hung, tree, kid)
    PROVE  WholeBelow(hung)
<1> DEFINE n == Len(tree)
           m == Len(kid)
<1>1. IsTree(tree) /\ IsTree(kid) /\ IsTree(hung)
  BY HangTree DEF WholeBelow, WholeTree
<1>2. n \in Nat \ {0} /\ m \in Nat \ {0} /\ Len(hung) = n + m
  BY <1>1, TablePlaces DEF IsTree, Hung
<1>3. /\ \A i \in 1 .. n : hung[i].type = tree[i].type
      /\ \A i \in 1 .. m : hung[i + n].type = kid[i].type
  BY <1>1, HungTypes
<1>4. ASSUME NEW i \in 2 .. n
      PROVE  Whole(hung, hung[i])
  <2>1. hung[i] = tree[i] /\ i \in 1 .. n
    BY <1>2 DEF Hung
  <2>2. PICK kinds \in Seq(Kinds) : /\ Children(tree[i], kinds)
                                    /\ KidsAre(tree, tree[i], kinds, Len(kinds))
    BY DEF WholeBelow, Whole
  <2>3. \A k \in 1 .. Len(tree[i].kids) : tree[i].kids[k] \in 1 .. n
    BY <1>1, <2>1, KidsInTree
  <2>4. KidsAre(hung, tree[i], kinds, Len(kinds))
    BY <1>3, <2>2, <2>3 DEF KidsAre
  <2> QED BY <2>1, <2>2, <2>4 DEF Whole
<1>5. ASSUME NEW i \in 1 .. m
      PROVE  Whole(hung, hung[i + n])
  <2>1. Moved(hung[i + n], kid[i], n)
    BY DEF Hung
  <2>2. Whole(kid, kid[i])
    <3>1. i = 1 \/ i \in 2 .. m
      BY <1>2
    <3> QED BY <3>1 DEF WholeTree, WholeBelow
  <2>3. PICK kinds \in Seq(Kinds) : /\ Children(kid[i], kinds)
                                    /\ KidsAre(kid, kid[i], kinds, Len(kinds))
    BY <2>2 DEF Whole
  <2>4. \A k \in 1 .. Len(kid[i].kids) : kid[i].kids[k] \in 1 .. m
    BY <1>1, KidsInTree
  <2>5. Children(hung[i + n], kinds)
    BY <2>1, <2>3, ChildrenSame DEF Moved, Alike
  <2>6. KidsAre(hung, hung[i + n], kinds, Len(kinds))
    <3>1. \A k \in 1 .. Len(kid[i].kids) : hung[i + n].kids[k] = kid[i].kids[k] + n
      BY <2>1 DEF Moved
    <3>2. \A k \in 1 .. Len(kid[i].kids) : hung[hung[i + n].kids[k]].type = kid[kid[i].kids[k]].type
      BY <1>3, <2>4, <3>1
    <3> QED BY <2>1, <2>3, <3>2 DEF Moved, KidsAre
  <2> QED BY <2>3, <2>5, <2>6 DEF Whole
<1>6. \A i \in 2 .. Len(hung) : Whole(hung, hung[i])
  <2>1. \A i \in 2 .. n + m : i \in 2 .. n \/ (i - n \in 1 .. m /\ i = i - n + n)
    BY <1>2
  <2> QED BY <1>2, <1>4, <1>5, <2>1
<1> QED BY <1>1, <1>6 DEF WholeBelow

\* The root has one child more.
LEMMA HangKids ==
    ASSUME NEW tree, IsTree(tree), NEW kid, IsTree(kid), NEW hung, Hung(hung, tree, kid),
           NEW kinds, NEW n \in Nat, KidsAre(tree, tree[1], kinds, n),
           kid[1].type \in TypesOf(kinds[n + 1])
    PROVE  KidsAre(hung, hung[1], kinds, n + 1)
<1> DEFINE kids == tree[1].kids
           more == hung[1].kids
<1>1. /\ Len(tree) \in Nat \ {0} /\ 1 \in 1 .. Len(tree) /\ 1 \in 1 .. Len(kid)
      /\ tree[1] \in Nodes
  BY TablePlaces DEF IsTree
<1>2. kids \in Seq(Nat \ {0}) /\ \A k \in 1 .. Len(kids) : kids[k] \in 1 .. Len(tree)
  BY <1>1, NodeKids, KidsInTree
<1>3. Len(kids) = n /\ \A k \in 1 .. n : tree[kids[k]].type \in TypesOf(kinds[k])
  BY DEF KidsAre
<1>4. more = Append(kids, Len(tree) + 1)
  BY DEF Hung
<1> HIDE DEF kids, more
<1>5. /\ Len(more) = n + 1 /\ more[n + 1] = Len(tree) + 1
      /\ \A k \in 1 .. n : more[k] = kids[k]
  <2>1. Len(tree) + 1 \in Nat \ {0}
    BY <1>1
  <2> QED BY <1>2, <1>3, <1>4, <2>1, AppendProperties
<1>6. /\ \A i \in 1 .. Len(tree) : hung[i].type = tree[i].type
      /\ hung[1 + Len(tree)].type = kid[1].type /\ 1 + Len(tree) = Len(tree) + 1
  BY <1>1, HungTypes
<1>7. ASSUME NEW k \in 1 .. n + 1
      PROVE  hung[more[k]].type \in TypesOf(kinds[k])
  <2>1. CASE k = n + 1
    BY <1>5, <1>6, <2>1
  <2>2. CASE k # n + 1
    <3>1. k \in 1 .. n
      BY <2>2
    <3> QED BY <1>2, <1>3, <1>5, <1>6, <3>1
  <2> QED BY <2>1, <2>2
<1> QED BY <1>5, <1>7 DEF KidsAre, more

\* No invalid node comes in.
LEMMA HangClean ==
    ASSUME NEW tree, IsTree(tree), CleanTree(tree), NEW kid, IsTree(kid), CleanTree(kid),
           NEW hung, Hung(hung, tree, kid)
    PROVE  CleanTree(hung)
<1>1. Len(tree) \in Nat \ {0} /\ Len(kid) \in Nat \ {0} /\ Len(hung) = Len(tree) + Len(kid)
  BY TablePlaces DEF IsTree, Hung
<1>2. \A i \in 1 .. Len(hung) :
         i = 1 \/ i \in 2 .. Len(tree) \/ (i - Len(tree) \in 1 .. Len(kid)
                                           /\ i = i - Len(tree) + Len(tree))
  BY <1>1
<1>3. Clean(hung[1])
  BY <1>1 DEF CleanTree, Clean, Hung, Alike
<1>4. \A i \in 2 .. Len(tree) : Clean(hung[i])
  <2>1. \A i \in 2 .. Len(tree) : i \in 1 .. Len(tree)
    BY <1>1
  <2> QED BY <2>1 DEF CleanTree, Hung
<1>5. \A i \in 1 .. Len(kid) : Clean(hung[i + Len(tree)])
  BY DEF CleanTree, Clean, Hung, Moved, Alike
<1> QED BY <1>2, <1>3, <1>4, <1>5 DEF CleanTree

\* How Over goes along the trees.
OverUpTo(node, trees, f) ==
    /\ f[0] = <<node>> /\ Over(node, trees) = f[Len(trees)]
    /\ \A n \in 1 .. Len(trees) : f[n] = Hang(f[n - 1], trees[n])

\* The function that Over is defined by goes along the trees.
LEMMA OverDef ==
    ASSUME NEW node \in Nodes, NEW trees \in Seq(Tables)
    PROVE  \E f \in [0 .. Len(trees) -> Tables] : OverUpTo(node, trees, f)
<1> DEFINE N == Len(trees)
           Next(f, n) == Hang(f[n - 1], trees[n])
           Unwinds(f) == f = [n \in 0 .. N |-> IF n = 0 THEN <<node>> ELSE Next(f, n)]
           step == [n \in 1 .. N |-> [t \in Tables |-> Hang(t, trees[n])]]
<1>1. N \in Nat /\ \A n \in 1 .. N : trees[n] \in Tables
  BY ElementOfSeq, LenProperties
<1>2. step \in [1 .. N -> [Tables -> Tables]]
  <2>1. \A n \in 1 .. N : \A t \in Tables : Hang(t, trees[n]) \in Tables
    BY <1>1, HangIsHung DEF IsTable, Hung
  <2> QED BY <2>1
<1>3. <<node>> \in Tables
  <2>1. <<node>> \in Seq(Nodes) /\ Len(<<node>>) = 1
    OBVIOUS
  <2> QED BY <2>1 DEF Tables
<1>4. PICK f \in [0 .. N -> Tables] : Grows(f, N, <<node>>, step)
  <2> HIDE DEF step, N
  <2> QED BY <1>1, <1>2, <1>3, Recursion
<1>5. ASSUME NEW n \in 1 .. N
      PROVE  f[n] = Next(f, n)
  <2>1. n - 1 \in 0 .. N /\ f[n - 1] \in Tables
    <3>1. n - 1 \in 0 .. N
      BY <1>1
    <3> HIDE DEF N
    <3> QED BY <1>4, <3>1
  <2> QED BY <1>4, <2>1 DEF Grows
<1>6. Unwinds(f)
  <2> HIDE DEF Next
  <2>1. \A n \in 0 .. N : f[n] = IF n = 0 THEN <<node>> ELSE Next(f, n)
    <3>1. \A n \in 0 .. N : n = 0 \/ n \in 1 .. N
      BY <1>1
    <3> QED BY <1>4, <1>5, <3>1 DEF Grows
  <2> QED BY <2>1
<1>7. Over(node, trees) = (CHOOSE g : Unwinds(g))[Len(trees)]
  BY DEF Over
<1>8. PICK g : Unwinds(g) /\ Over(node, trees) = g[Len(trees)]
  <2> HIDE DEF Unwinds
  <2> QED BY <1>6, <1>7
<1>9. /\ g[0] = <<node>> /\ \A n \in 1 .. N : g[n] = Next(g, n)
  <2>1. 0 \in 0 .. N /\ \A n \in 1 .. N : n \in 0 .. N /\ n # 0
    BY <1>1
  <2> HIDE DEF Next, N
  <2> QED BY <1>8, <2>1
<1>10. \A n \in 0 .. N : g[n] = f[n]
  <2> DEFINE T == {n \in 0 .. N : g[n] = f[n]}
  <2>1. 0 \in T
    BY <1>1, <1>4, <1>9 DEF Grows
  <2>2. ASSUME NEW k \in 0 .. N, k + 1 \in 0 .. N, k \in T
        PROVE  k + 1 \in T
    <3>1. k + 1 \in 1 .. N /\ k + 1 - 1 = k /\ g[k] = f[k]
      BY <1>1, <2>2
    <3> QED BY <1>5, <1>9, <2>2, <3>1
  <2>3. 0 .. N \subseteq T
    <3> HIDE DEF T
    <3> QED BY <1>1, <2>1, <2>2, Upward
  <2> QED BY <2>3
<1>11. OverUpTo(node, trees, f)
  BY <1>1, <1>4, <1>5, <1>8, <1>10 DEF OverUpTo, Grows
<1> QED BY <1>11

\* A node alone is a tree in which only the root may lack children.
LEMMA LoneNode ==
    ASSUME NEW node \in Leaves
    PROVE  /\ node \in Nodes /\ WholeBelow(<<node>>) /\ Len(<<node>>) = 1
           /\ <<node>>[1] = node /\ Len(node.kids) = 0 /\ Alike(node, node)
           /\ Clean(node) => CleanTree(<<node>>)
<1>1. node \in Nodes /\ node.kids = <<>>
  <2>1. {<<>>} \subseteq Seq(Nat \ {0})
    OBVIOUS
  <2> QED BY <2>1 DEF Leaves, Nodes
<1>2. /\ <<node>> \in Tables /\ Len(<<node>>) = 1 /\ <<node>>[1] = node
      /\ 1 .. 1 = {1} /\ 2 .. 1 = {} /\ 1 .. 0 = {} /\ Len(<<>>) = 0
  <2>1. <<node>> \in Seq(Nodes) /\ Len(<<node>>) = 1 /\ <<node>> # <<>>
    BY <1>1
  <2> QED BY <2>1 DEF Tables
<1>3. PICK tree : tree = <<node>>
  OBVIOUS
<1>4. Numbered(tree, [i \in 1 .. 1 |-> 1])
  BY <1>1, <1>2, <1>3 DEF Numbered, KidsInOrder
<1>5. IsTree(tree)
  BY <1>2, <1>3, <1>4 DEF IsTree, IsTable
<1>6. WholeBelow(tree) /\ (Clean(node) => CleanTree(tree))
  BY <1>2, <1>3, <1>5 DEF WholeBelow, CleanTree
<1> QED BY <1>1, <1>2, <1>3, <1>6 DEF Alike

\* The node with the trees below it: only the number of its children may be wrong.
LEMMA OverTrees ==
    ASSUME NEW node \in Leaves, NEW trees \in Seq(Trees), NEW kinds,
           \A i \in 1 .. Len(trees) : trees[i][1].type \in TypesOf(kinds[i])
    PROVE  /\ WholeBelow(Over(node, trees)) /\ Alike(Over(node, trees)[1], node)
           /\ KidsAre(Over(node, trees), Over(node, trees)[1], kinds, Len(trees))
           /\ (Clean(node) /\ \A i \in 1 .. Len(trees) : CleanTree(trees[i])) =>
                 CleanTree(Over(node, trees))
<1> DEFINE N == Len(trees)
           AllClean == Clean(node) /\ \A i \in 1 .. N : CleanTree(trees[i])
           Fine(tree, n) == /\ WholeBelow(tree) /\ Alike(tree[1], node)
                            /\ KidsAre(tree, tree[1], kinds, n)
                            /\ AllClean => CleanTree(tree)
<1>1. N \in Nat /\ \A n \in 1 .. N : trees[n] \in Trees
  BY ElementOfSeq, LenProperties
<1>2. \A n \in 1 .. N : WholeTree(trees[n]) /\ IsTree(trees[n]) /\ IsTable(trees[n])
  BY <1>1 DEF Trees, WholeTree, WholeBelow, IsTree
<1>3. trees \in Seq(Tables)
  <2>1. \A n \in DOMAIN trees : trees[n] \in Tables
    BY <1>2, LenProperties DEF IsTable
  <2> QED BY <2>1, SeqRetype
<1>4. PICK f \in [0 .. N -> Tables] : OverUpTo(node, trees, f)
  BY <1>3, OverDef, LoneNode
<1> DEFINE S == {n \in 0 .. N : Fine(f[n], n)}
<1>5. 0 \in S
  <2>1. Fine(<<node>>, 0)
    <3>1. 1 .. 0 = {}
      OBVIOUS
    <3> QED BY <3>1, LoneNode DEF KidsAre
  <2> HIDE DEF Fine
  <2> QED BY <1>1, <1>4, <2>1 DEF OverUpTo
<1>6. ASSUME NEW n \in 0 .. N, n + 1 \in 0 .. N, n \in S
      PROVE  n + 1 \in S
  <2>1. n + 1 \in 1 .. N /\ n + 1 - 1 = n /\ n \in Nat
    BY <1>1, <1>6
  <2> HIDE DEF N
  <2>2. f[n + 1] = Hang(f[n], trees[n + 1])
    BY <1>4, <2>1 DEF OverUpTo, N
  <2>3. PICK tree, kid : tree = f[n] /\ kid = trees[n + 1]
    OBVIOUS
  <2>4. Fine(tree, n)
    BY <1>6, <2>3
  <2>5. IsTree(tree) /\ IsTable(tree)
    BY <2>4 DEF WholeBelow, IsTree
  <2>6. WholeTree(kid) /\ IsTree(kid) /\ IsTable(kid) /\ kid[1].type \in TypesOf(kinds[n + 1])
    BY <1>2, <2>1, <2>3 DEF N
  <2>7. PICK hung : hung = f[n + 1] /\ Hung(hung, tree, kid)
    BY <2>2, <2>3, <2>5, <2>6, HangIsHung
  <2>8. WholeBelow(hung)
    BY <2>4, <2>6, <2>7, HangBelow
  <2>9. KidsAre(hung, hung[1], kinds, n + 1)
    BY <2>1, <2>4, <2>5, <2>6, <2>7, HangKids
  <2>10. Alike(hung[1], node)
    BY <2>4, <2>7 DEF Hung, Alike
  <2>11. AllClean => CleanTree(hung)
    BY <2>1, <2>3, <2>4, <2>5, <2>6, <2>7, HangClean
  <2>12. Fine(hung, n + 1)
    BY <2>8, <2>9, <2>10, <2>11
  <2> HIDE DEF Fine
  <2> QED BY <1>6, <2>7, <2>12
<1>7. 0 .. N \subseteq S
  <2> HIDE DEF S, N
  <2> QED BY <1>1, <1>5, <1>6, Upward
<1>8. N \in S
  BY <1>1, <1>7
<1>9. Fine(f[N], N)
  <2> HIDE DEF Fine
  <2> QED BY <1>8
<1> QED BY <1>4, <1>9 DEF OverUpTo

-----------------------------------------------------------------------------
(* Lemmas about the stack of trees. *)

\* A whole tree comes on top of some of those that are on the stack.
LEMMA WholeKept ==
    ASSUME WholeSoFar, NEW tree \in Trees, errors' = 0 => errors = 0 /\ CleanTree(tree),
           NEW n, n \in 0 .. Len(built), NEW kept \in Seq(Trees), Len(kept) = n,
           \A i \in 1 .. n : kept[i] = built[i], built' = Append(kept, tree)
    PROVE  WholeSoFar'
<1>1. /\ built' \in Seq(Trees) /\ Len(built') = n + 1 /\ built'[n + 1] = tree
      /\ \A i \in 1 .. n : built'[i] = kept[i]
  BY AppendProperties
<1>2. n \in Nat /\ DOMAIN built = 1 .. Len(built) /\ DOMAIN built' = 1 .. n + 1
  BY <1>1, LenProperties DEF WholeSoFar
<1>3. \A i \in 1 .. n + 1 : i = n + 1 \/ (i \in 1 .. n /\ i \in 1 .. Len(built))
  BY <1>2
<1>4. errors' = 0 => \A i \in 1 .. n + 1 : CleanTree(built'[i])
  BY <1>1, <1>2, <1>3 DEF WholeSoFar
<1>5. errors' = 0 => \A i \in DOMAIN built' : CleanTree(built'[i])
  BY <1>2, <1>4
<1> QED BY <1>1, <1>5 DEF WholeSoFar

\* The stack holds one tree more.
LEMMA HoldsMore ==
    ASSUME NEW S, NEW trees \in Seq(S), NEW n, NEW a \in Seq(Kinds), Stacked(trees, n, a),
           n = Len(trees), NEW tree, NEW kind \in Kinds, tree[1].type \in TypesOf(kind),
           NEW more, more = Append(trees, tree)
    PROVE  Stacked(more, Len(more), Append(a, kind))
<1>1. /\ n \in Nat \ {0} /\ Len(a) = n - 1 /\ trees[1][1].type = "BLOCK_STAT"
      /\ \A i \in 1 .. n - 1 : trees[i + 1][1].type \in TypesOf(a[i])
  BY DEF Stacked
<1>2. /\ Len(more) = n + 1 /\ more[n + 1] = tree
      /\ \A i \in 1 .. n : more[i] = trees[i]
  <2>1. trees \in Seq(S \cup {tree})
    BY SeqMonotonic
  <2> QED BY <2>1, AppendProperties
<1>3. /\ Append(a, kind) \in Seq(Kinds) /\ Len(Append(a, kind)) = n
      /\ Append(a, kind)[n] = kind /\ \A i \in 1 .. n - 1 : Append(a, kind)[i] = a[i]
  BY <1>1, Appended
<1>4. ASSUME NEW i \in 1 .. n
      PROVE  more[i + 1][1].type \in TypesOf(Append(a, kind)[i])
  <2>1. CASE i = n
    BY <1>2, <1>3, <2>1
  <2>2. CASE i # n
    <3>1. i \in 1 .. n - 1 /\ i + 1 \in 1 .. n
      BY <1>1, <2>2
    <3> QED BY <1>1, <1>2, <1>3, <3>1
  <2> QED BY <2>1, <2>2
<1>5. n + 1 \in 1 .. n + 1 /\ n + 1 - 1 = n /\ 1 \in 1 .. n
  BY <1>1
<1> QED BY <1>1, <1>2, <1>3, <1>4, <1>5 DEF Stacked

\* What the first task finds, and what the others go on with.
LEMMA FirstTask ==
    ASSUME ParserInv, pending # <<>>
    PROVE  \E a, m \in Seq(Kinds) :
              /\ Stacked(built, Len(built), a) /\ Takes(Head(pending), a, m)
              /\ Chain(Tail(pending), m, <<>>)
<1>1. PICK a \in Seq(Kinds) : Stacked(built, Len(built), a) /\ Chain(pending, a, <<>>)
  BY DEF ParserInv, Typed
<1>2. pending \in Seq(ParserTasks)
  BY DEF ParserInv, GoodTasks, AllGood
<1>3. \E m \in Seq(Kinds) : Takes(Head(pending), a, m) /\ Chain(Tail(pending), m, <<>>)
  BY <1>1, <1>2, ChainHead
<1> QED BY <1>1, <1>3

\* The tasks that take the place of the first one find what they need.
LEMMA TypedKept ==
    ASSUME ParserInv, pending # <<>>, NEW tasks \in Seq(ParserTasks), Instead(tasks),
           NEW m, Chain(Tail(pending), m, <<>>),
           NEW b \in Seq(Kinds), Stacked(built', Len(built'), b), Chain(tasks, b, m)
    PROVE  Typed'
<1>1. Tail(pending) \in Seq(ParserTasks)
  BY HeadTailProperties, EmptySeq DEF ParserInv, GoodTasks, AllGood
<1>2. Chain(pending', b, <<>>)
  BY <1>1, ChainConcat DEF Instead
<1> QED BY <1>2 DEF Typed

\* All tasks are good if the new ones are.
LEMMA GoodTasksKept ==
    ASSUME ParserInv, pending # <<>>, NEW tasks, Instead(tasks), errors' = 0 => errors = 0,
           AllGood(tasks, errors')
    PROVE  GoodTasks'
<1>1. /\ pending \in Seq(ParserTasks) /\ \A i \in DOMAIN pending : GoodTask(pending[i], errors)
      /\ tasks \in Seq(ParserTasks) /\ \A i \in DOMAIN tasks : GoodTask(tasks[i], errors')
  BY DEF ParserInv, GoodTasks, AllGood
<1>2. /\ pending' \in Seq(ParserTasks)
      /\ \A i \in DOMAIN pending' :
            \/ i \in DOMAIN tasks /\ pending'[i] = tasks[i]
            \/ /\ i > Len(tasks) /\ i - Len(tasks) + 1 \in DOMAIN pending
               /\ pending'[i] = pending[i - Len(tasks) + 1]
  BY <1>1, ReplaceHead DEF Instead
<1>3. \A task : GoodTask(task, errors) => GoodTask(task, errors')
  BY DEF GoodTask
<1>4. \A i \in DOMAIN pending' : GoodTask(pending'[i], errors')
  BY <1>1, <1>2, <1>3
<1> QED BY <1>2, <1>4 DEF GoodTasks, AllGood

\* A parse function calls others, and creates no node itself.
LEMMA ContinueKeeps ==
    ASSUME ParserInv, pending # <<>>, parseStatus = "parsing", NEW tasks, Instead(tasks),
           UNCHANGED <<tokens, built, parseStatus>>,
           next' \in 1 .. Len(tokens), errors' \in Nat, errors' = 0 => errors = 0,
           AllGood(tasks, errors'),
           \A a, m \in Seq(Kinds) :
              Stacked(built, Len(built), a) /\ Takes(Head(pending), a, m) =>
                 \E b \in Seq(Kinds) : Stacked(built, Len(built), b) /\ Chain(tasks, b, m)
    PROVE  ParserInv'
<1>1. PICK a, m \in Seq(Kinds) : /\ Stacked(built, Len(built), a) /\ Takes(Head(pending), a, m)
                                 /\ Chain(Tail(pending), m, <<>>)
  BY FirstTask
<1>2. PICK b \in Seq(Kinds) : Stacked(built, Len(built), b) /\ Chain(tasks, b, m)
  BY <1>1
<1>3. Typed'
  <2>1. tasks \in Seq(ParserTasks)
    BY DEF AllGood
  <2> QED BY <1>1, <1>2, <2>1, TypedKept
<1>4. GoodTasks'
  BY GoodTasksKept
<1>5. WholeSoFar'
  BY DEF ParserInv, WholeSoFar
<1>6. InPlace'
  BY DEF ParserInv, InPlace, IsTokenList
<1> QED BY <1>3, <1>4, <1>5, <1>6 DEF ParserInv

\* A parse function ends with a node that it has created.
LEMMA PushKeeps ==
    ASSUME ParserInv, pending # <<>>, parseStatus = "parsing", NEW node \in Leaves, NEW kind \in Kinds,
           Push(node), Instead(<<>>), UNCHANGED <<tokens, parseStatus>>,
           next' \in 1 .. Len(tokens), errors' \in Nat,
           errors' = 0 => errors = 0 /\ Clean(node),
           Children(node, <<>>), node.type \in TypesOf(kind),
           \A a, m \in Seq(Kinds) : Takes(Head(pending), a, m) => m = Append(a, kind)
    PROVE  ParserInv'
<1>1. PICK a, m \in Seq(Kinds) : /\ Stacked(built, Len(built), a) /\ Takes(Head(pending), a, m)
                                 /\ Chain(Tail(pending), m, <<>>)
  BY FirstTask
<1>2. m = Append(a, kind)
  BY <1>1
<1>3. built \in Seq(Trees)
  BY DEF ParserInv, WholeSoFar
<1>4. /\ <<node>> \in Trees /\ <<node>>[1] = node /\ (Clean(node) => CleanTree(<<node>>))
  <2>1. /\ node \in Nodes /\ WholeBelow(<<node>>) /\ Len(<<node>>) = 1 /\ <<node>>[1] = node
        /\ Len(node.kids) = 0 /\ (Clean(node) => CleanTree(<<node>>))
    BY LoneNode
  <2>2. KidsAre(<<node>>, node, <<>>, 0) /\ <<>> \in Seq(Kinds) /\ Len(<<>>) = 0
    BY <2>1 DEF KidsAre
  <2>3. Whole(<<node>>, node)
    BY <2>2 DEF Whole
  <2> QED BY <2>1, <2>3 DEF WholeTree, Trees
<1>5. PICK tree \in Trees : tree = <<node>> /\ tree[1] = node /\ (Clean(node) => CleanTree(tree))
  BY <1>4
<1>6. Stacked(built', Len(built'), m)
  BY <1>1, <1>2, <1>3, <1>5, HoldsMore DEF Push
<1>7. Typed'
  <2>1. <<>> \in Seq(ParserTasks) /\ Chain(<<>>, m, m)
    BY ChainEmpty
  <2> QED BY <1>1, <1>6, <2>1, TypedKept
<1>8. GoodTasks'
  <2>1. AllGood(<<>>, errors')
    BY DEF AllGood
  <2> QED BY <2>1, GoodTasksKept
<1>9. WholeSoFar'
  <2>1. PICK n : n = Len(built) /\ n \in 0 .. Len(built)
    BY <1>3, LenProperties
  <2>2. built' = Append(built, tree) /\ WholeSoFar
    BY <1>5 DEF Push, ParserInv
  <2>3. errors' = 0 => errors = 0 /\ CleanTree(tree)
    BY <1>5
  <2> QED BY <1>3, <2>1, <2>2, <2>3, WholeKept
<1>10. InPlace'
  BY DEF ParserInv, InPlace, IsTokenList
<1> QED BY <1>7, <1>8, <1>9, <1>10 DEF ParserInv

-----------------------------------------------------------------------------
(* What the tasks do to the stack. *)

\* A token to match needs no nodes and creates none.
LEMMA TakesMatch ==
    ASSUME NEW token \in TokenTypes, NEW K \in Seq(Kinds)
    PROVE  Takes(Match(token), K, K)
BY MatchTask DEF Takes

\* A statement is added to the stack.
LEMMA TakesStat ==
    ASSUME NEW K \in Seq(Kinds), NEW name \in Names \cup {NULL}
    PROVE  /\ Takes(Parse("stat"), K, Append(K, "stat"))
           /\ Takes(ParserTask("declarator", name), K, Append(K, "stat"))
           /\ Takes(ParserTask("body", name), K, Append(K, "stat"))
<1>1. /\ Parse("stat").do = "stat" /\ ParserTask("declarator", name).do = "declarator"
      /\ ParserTask("body", name).do = "body"
  BY ParseTask, GoodParse DEF ParseFunctions
<1> QED BY <1>1 DEF Takes

\* An expression is added to the stack.
LEMMA TakesExpr ==
    ASSUME NEW K \in Seq(Kinds), NEW do \in {"expr", "subexpr", "term", "factor"}
    PROVE  Takes(Parse(do), K, Append(K, "expr"))
<1>1. Parse(do).do = do
  BY GoodParse DEF ParseFunctions
<1> QED BY <1>1 DEF Takes

\* The left operand stays or is replaced by the whole expression.
LEMMA TakesRest ==
    ASSUME NEW K \in Seq(Kinds), NEW do \in {"comparison", "terms", "factors"}
    PROVE  Takes(Parse(do), Append(K, "expr"), Append(K, "expr"))
<1>1. Parse(do).do = do
  BY GoodParse DEF ParseFunctions
<1> QED BY <1>1 DEF Takes

\* The condition and the branch of an if statement are replaced by it.
LEMMA TakesElse ==
    ASSUME NEW K \in Seq(Kinds)
    PROVE  Takes(Parse("else"), Append(Append(K, "expr"), "stat"), Append(K, "stat"))
<1>1. Parse("else").do = "else"
  BY GoodParse DEF ParseFunctions
<1> QED BY <1>1 DEF Takes

\* The block that a statement joins stays, or it is the block of the program.
LEMMA TakesAppend ==
    ASSUME NEW K \in Seq(Kinds)
    PROVE  /\ Takes(Parse("append"), Append(<<>>, "stat"), <<>>)
           /\ Takes(Parse("append"), Append(Append(K, "block"), "stat"), Append(K, "block"))
<1>1. Parse("append").do = "append"
  BY GoodParse DEF ParseFunctions
<1>2. Append(<<>>, "stat") = <<"stat">>
  OBVIOUS
<1> QED BY <1>1, <1>2 DEF Takes

\* The block stays, and is a block or the statement that it is.
LEMMA TakesStats ==
    ASSUME NEW K \in Seq(Kinds), NEW kind \in {"block", "stat"}
    PROVE  Takes(Parse("stats"), Append(K, "block"), Append(K, kind))
<1>1. Parse("stats").do = "stats"
  BY GoodParse DEF ParseFunctions
<1> QED BY <1>1 DEF Takes

\* The program has its block at the bottom of the stack.
LEMMA TakesProgram == Takes(Parse("program"), <<>>, <<>>)
<1>1. Parse("program").do = "program"
  BY GoodParse DEF ParseFunctions
<1> QED BY <1>1 DEF Takes

\* A node is created from nodes of the kinds it needs.
LEMMA TakesMake ==
    ASSUME NEW node \in Leaves, NEW arity \in 0 .. 4, NEW K \in Seq(Kinds),
           NEW kinds \in Seq(Kinds), Len(kinds) = arity, NEW kind \in Kinds,
           Children(node, kinds), node.type \in TypesOf(kind),
           NEW below, below = K \o kinds
    PROVE  Takes(Make(node, arity), below, Append(K, kind))
<1>1. /\ Make(node, arity).do = "make" /\ Make(node, arity).node = node
      /\ Make(node, arity).arity = arity
  BY MakeTask
<1> QED BY <1>1 DEF Takes

\* A node without children.
LEMMA TakesMake0 ==
    ASSUME NEW node \in Leaves, NEW K \in Seq(Kinds), NEW kind \in Kinds,
           Children(node, <<>>), node.type \in TypesOf(kind)
    PROVE  Takes(Make(node, 0), K, Append(K, kind))
<1>1. K = K \o <<>> /\ <<>> \in Seq(Kinds) /\ Len(<<>>) = 0 /\ 0 \in 0 .. 4
  BY ConcatEmptySeq
<1> QED BY <1>1, TakesMake

\* A node with one child.
LEMMA TakesMake1 ==
    ASSUME NEW node \in Leaves, NEW K \in Seq(Kinds), NEW kind \in Kinds, NEW k1 \in Kinds,
           Children(node, <<k1>>), node.type \in TypesOf(kind)
    PROVE  Takes(Make(node, 1), Append(K, k1), Append(K, kind))
<1>1. Append(K, k1) = K \o <<k1>> /\ <<k1>> \in Seq(Kinds) /\ Len(<<k1>>) = 1 /\ 1 \in 0 .. 4
  BY AppendIsConcat
<1> QED BY <1>1, TakesMake

\* Kinds appended one by one, and all at once.
LEMMA AppendMany ==
    ASSUME NEW S, NEW K \in Seq(S), NEW k1 \in S, NEW k2 \in S, NEW k3 \in S, NEW k4 \in S
    PROVE  /\ Append(Append(K, k1), k2) = K \o <<k1, k2>>
           /\ Append(Append(Append(K, k1), k2), k3) = K \o <<k1, k2, k3>>
           /\ Append(Append(Append(Append(K, k1), k2), k3), k4) = K \o <<k1, k2, k3, k4>>
<1>0. \A L \in Seq(S), k \in S :
         Append(L, k) \in Seq(S) /\ Append(K \o L, k) = K \o Append(L, k)
  <2> TAKE L \in Seq(S), k \in S
  <2>1. /\ K \o L \in Seq(S) /\ L \o <<k>> = Append(L, k) /\ <<k>> \in Seq(S)
        /\ (K \o L) \o <<k>> = Append(K \o L, k)
    BY AppendIsConcat, ConcatProperties
  <2>2. (K \o L) \o <<k>> = K \o (L \o <<k>>)
    BY <2>1, ConcatAssociative
  <2>3. Append(L, k) \in Seq(S)
    BY AppendProperties
  <2> QED BY <2>1, <2>2, <2>3
<1> DEFINE L1 == <<k1>>
           L2 == <<k1, k2>>
           L3 == <<k1, k2, k3>>
           L4 == <<k1, k2, k3, k4>>
<1>1. Append(K, k1) = K \o L1 /\ L1 \in Seq(S)
  BY AppendIsConcat
<1>2. L2 = Append(L1, k2)
  OBVIOUS
<1>3. L3 = Append(L2, k3)
  OBVIOUS
<1>4. L4 = Append(L3, k4)
  OBVIOUS
<1> HIDE DEF L1, L2, L3, L4
<1>5. L2 \in Seq(S) /\ Append(K \o L1, k2) = K \o L2
  BY <1>0, <1>1, <1>2, Zenon
<1>6. L3 \in Seq(S) /\ Append(K \o L2, k3) = K \o L3
  BY <1>0, <1>3, <1>5, Zenon
<1>7. Append(K \o L3, k4) = K \o L4
  BY <1>0, <1>4, <1>6, Zenon
<1> QED BY <1>1, <1>5, <1>6, <1>7 DEF L2, L3, L4

\* A node with two children.
LEMMA TakesMake2 ==
    ASSUME NEW node \in Leaves, NEW K \in Seq(Kinds), NEW kind \in Kinds,
           NEW k1 \in Kinds, NEW k2 \in Kinds,
           Children(node, <<k1, k2>>), node.type \in TypesOf(kind)
    PROVE  Takes(Make(node, 2), Append(Append(K, k1), k2), Append(K, kind))
<1>1. Append(Append(K, k1), k2) = K \o <<k1, k2>>
  BY AppendMany
<1>2. <<k1, k2>> \in Seq(Kinds) /\ Len(<<k1, k2>>) = 2 /\ 2 \in 0 .. 4
  OBVIOUS
<1> QED BY <1>1, <1>2, TakesMake

\* A node with three children.
LEMMA TakesMake3 ==
    ASSUME NEW node \in Leaves, NEW K \in Seq(Kinds), NEW kind \in Kinds,
           NEW k1 \in Kinds, NEW k2 \in Kinds, NEW k3 \in Kinds,
           Children(node, <<k1, k2, k3>>), node.type \in TypesOf(kind)
    PROVE  Takes(Make(node, 3), Append(Append(Append(K, k1), k2), k3), Append(K, kind))
<1>1. Append(Append(Append(K, k1), k2), k3) = K \o <<k1, k2, k3>>
  BY AppendMany
<1>2. <<k1, k2, k3>> \in Seq(Kinds) /\ Len(<<k1, k2, k3>>) = 3 /\ 3 \in 0 .. 4
  OBVIOUS
<1> QED BY <1>1, <1>2, TakesMake

\* A node with four children.
LEMMA TakesMake4 ==
    ASSUME NEW node \in Leaves, NEW K \in Seq(Kinds), NEW kind \in Kinds,
           NEW k1 \in Kinds, NEW k2 \in Kinds, NEW k3 \in Kinds, NEW k4 \in Kinds,
           Children(node, <<k1, k2, k3, k4>>), node.type \in TypesOf(kind)
    PROVE  Takes(Make(node, 4), Append(Append(Append(Append(K, k1), k2), k3), k4),
                Append(K, kind))
<1>1. Append(Append(Append(Append(K, k1), k2), k3), k4) = K \o <<k1, k2, k3, k4>>
  BY AppendMany
<1>2. <<k1, k2, k3, k4>> \in Seq(Kinds) /\ Len(<<k1, k2, k3, k4>>) = 4 /\ 4 \in 0 .. 4
  OBVIOUS
<1> QED BY <1>1, <1>2, TakesMake

-----------------------------------------------------------------------------
(* The nodes that statements are created as. *)

\* A statement without fields of its own that is to be created.
LEMMA GoodPlain ==
    ASSUME NEW type \in StatNodes \ {"INVALID_STAT", "DECL_STAT"}, NEW arity \in 0 .. 4,
           NEW n \in Nat
    PROVE  GoodTask(Make(Plain(type), arity), n)
<1>1. type \in NodeTypes
  BY DEF NodeTypes
<1>2. Plain(type) \in Leaves /\ Plain(type).type = type
  BY <1>1, PlainLeaf
<1>3. Clean(Plain(type))
  BY <1>2 DEF Clean, HasName, StatNodes, StatTypes
<1> QED BY <1>2, <1>3, GoodMake

\* Such a statement is a statement.
LEMMA PlainStat ==
    ASSUME NEW type \in StatNodes \ {"INVALID_STAT", "DECL_STAT"}
    PROVE  Plain(type) \in Leaves /\ Plain(type).type = type
               /\ Plain(type).type \in TypesOf("stat")
<1>1. type \in NodeTypes
  BY DEF NodeTypes
<1> QED BY <1>1, PlainLeaf DEF TypesOf

\* Each of them is created from the nodes that it needs.
LEMMA TakesPlain ==
    ASSUME NEW K \in Seq(Kinds)
    PROVE  /\ Takes(Make(Plain("RETURN_STAT"), 1), Append(K, "expr"), Append(K, "stat"))
           /\ Takes(Make(Plain("EXPR_STAT"), 1), Append(K, "expr"), Append(K, "stat"))
           /\ Takes(Make(Plain("SKIP_STAT"), 0), K, Append(K, "stat"))
           /\ Takes(Make(Plain("BLOCK_STAT"), 0), K, Append(K, "block"))
           /\ Takes(Make(Plain("WHILE_STAT"), 2), Append(Append(K, "expr"), "stat"),
                   Append(K, "stat"))
           /\ Takes(Make(Plain("IF_STAT"), 2), Append(Append(K, "expr"), "stat"),
                   Append(K, "stat"))
           /\ Takes(Make(Plain("IF_STAT"), 3), Append(Append(Append(K, "expr"), "stat"), "stat"),
                   Append(K, "stat"))
           /\ Takes(Make(Plain("FOR_STAT"), 4),
                   Append(Append(Append(Append(K, "expr"), "expr"), "expr"), "stat"),
                   Append(K, "stat"))
<1>0. "expr" \in Kinds /\ "stat" \in Kinds /\ "block" \in Kinds
  BY DEF Kinds
<1>1. Takes(Make(Plain("RETURN_STAT"), 1), Append(K, "expr"), Append(K, "stat"))
  <2>1. Plain("RETURN_STAT") \in Leaves /\ Plain("RETURN_STAT").type = "RETURN_STAT"
    BY PlainStat DEF StatNodes, StatTypes
  <2>2. Children(Plain("RETURN_STAT"), <<"expr">>)
        /\ Plain("RETURN_STAT").type \in TypesOf("stat")
    BY <2>1 DEF Children, TypesOf, StatNodes, StatTypes
  <2> QED BY <1>0, <2>1, <2>2, TakesMake1
<1>2. Takes(Make(Plain("EXPR_STAT"), 1), Append(K, "expr"), Append(K, "stat"))
  <2>1. Plain("EXPR_STAT") \in Leaves /\ Plain("EXPR_STAT").type = "EXPR_STAT"
    BY PlainStat DEF StatNodes, StatTypes
  <2>2. Children(Plain("EXPR_STAT"), <<"expr">>) /\ Plain("EXPR_STAT").type \in TypesOf("stat")
    BY <2>1 DEF Children, TypesOf, StatNodes, StatTypes
  <2> QED BY <1>0, <2>1, <2>2, TakesMake1
<1>3. Takes(Make(Plain("SKIP_STAT"), 0), K, Append(K, "stat"))
  <2>1. Plain("SKIP_STAT") \in Leaves /\ Plain("SKIP_STAT").type = "SKIP_STAT"
    BY PlainStat DEF StatNodes, StatTypes
  <2>2. Children(Plain("SKIP_STAT"), <<>>) /\ Plain("SKIP_STAT").type \in TypesOf("stat")
    BY <2>1 DEF Children, TypesOf, StatNodes, StatTypes
  <2> QED BY <1>0, <2>1, <2>2, TakesMake0
<1>4. Takes(Make(Plain("BLOCK_STAT"), 0), K, Append(K, "block"))
  <2>1. Plain("BLOCK_STAT") \in Leaves /\ Plain("BLOCK_STAT").type = "BLOCK_STAT"
    BY PlainStat DEF StatNodes, StatTypes
  <2>2. Children(Plain("BLOCK_STAT"), <<>>) /\ Plain("BLOCK_STAT").type \in TypesOf("block")
    BY <2>1 DEF Children, TypesOf, StatNodes, StatTypes
  <2> QED BY <1>0, <2>1, <2>2, TakesMake0
<1>5. Takes(Make(Plain("WHILE_STAT"), 2), Append(Append(K, "expr"), "stat"), Append(K, "stat"))
  <2>1. Plain("WHILE_STAT") \in Leaves /\ Plain("WHILE_STAT").type = "WHILE_STAT"
    BY PlainStat DEF StatNodes, StatTypes
  <2>2. Children(Plain("WHILE_STAT"), <<"expr", "stat">>)
        /\ Plain("WHILE_STAT").type \in TypesOf("stat")
    BY <2>1 DEF Children, TypesOf, StatNodes, StatTypes
  <2> QED BY <1>0, <2>1, <2>2, TakesMake2
<1>6. Takes(Make(Plain("IF_STAT"), 2), Append(Append(K, "expr"), "stat"), Append(K, "stat"))
  <2>1. Plain("IF_STAT") \in Leaves /\ Plain("IF_STAT").type = "IF_STAT"
    BY PlainStat DEF StatNodes, StatTypes
  <2>2. Children(Plain("IF_STAT"), <<"expr", "stat">>)
        /\ Plain("IF_STAT").type \in TypesOf("stat")
    BY <2>1 DEF Children, TypesOf, StatNodes, StatTypes
  <2> QED BY <1>0, <2>1, <2>2, TakesMake2
<1>7. Takes(Make(Plain("IF_STAT"), 3), Append(Append(Append(K, "expr"), "stat"), "stat"),
           Append(K, "stat"))
  <2>1. Plain("IF_STAT") \in Leaves /\ Plain("IF_STAT").type = "IF_STAT"
    BY PlainStat DEF StatNodes, StatTypes
  <2>2. Children(Plain("IF_STAT"), <<"expr", "stat", "stat">>)
        /\ Plain("IF_STAT").type \in TypesOf("stat")
    BY <2>1 DEF Children, TypesOf, StatNodes, StatTypes
  <2> QED BY <1>0, <2>1, <2>2, TakesMake3
<1>8. Takes(Make(Plain("FOR_STAT"), 4),
           Append(Append(Append(Append(K, "expr"), "expr"), "expr"), "stat"), Append(K, "stat"))
  <2>1. Plain("FOR_STAT") \in Leaves /\ Plain("FOR_STAT").type = "FOR_STAT"
    BY PlainStat DEF StatNodes, StatTypes
  <2>2. Children(Plain("FOR_STAT"), <<"expr", "expr", "expr", "stat">>)
        /\ Plain("FOR_STAT").type \in TypesOf("stat")
    BY <2>1 DEF Children, TypesOf, StatNodes, StatTypes
  <2> QED BY <1>0, <2>1, <2>2, TakesMake4
<1> QED BY <1>1, <1>2, <1>3, <1>4, <1>5, <1>6, <1>7, <1>8

\* A function for statements calls others, and goes where they go.
LEMMA StatCall ==
    ASSUME ParserInv, NEW do \in {"stat", "declarator", "body"}, Doing(do), NEW tasks, Instead(tasks),
           UNCHANGED <<tokens, built, parseStatus>>,
           next' \in 1 .. Len(tokens), errors' \in Nat, errors' = 0 => errors = 0,
           AllGood(tasks, errors'), \A a \in Seq(Kinds) : Chain(tasks, a, Append(a, "stat"))
    PROVE  ParserInv'
<1>1. pending # <<>> /\ parseStatus = "parsing" /\ Head(pending).do = do
  BY DEF Doing
<1>2. \A a, m : Takes(Head(pending), a, m) => m = Append(a, "stat")
  BY <1>1 DEF Takes
<1>3. \A a, m \in Seq(Kinds) :
         Stacked(built, Len(built), a) /\ Takes(Head(pending), a, m) =>
            \E b \in Seq(Kinds) : Stacked(built, Len(built), b) /\ Chain(tasks, b, m)
  BY <1>2
<1> QED BY <1>1, <1>3, ContinueKeeps

\* The same, if no token is consumed.
LEMMA StatContinue ==
    ASSUME ParserInv, NEW do \in {"stat", "declarator", "body"}, Doing(do), NEW tasks,
           Unfold(tasks),
           AllGood(tasks, errors), \A a \in Seq(Kinds) : Chain(tasks, a, Append(a, "stat"))
    PROVE  ParserInv'
<1>1. Instead(tasks) /\ UNCHANGED <<tokens, built, parseStatus>> /\ next' = next /\ errors' = errors
  BY DEF Unfold
<1>2. next' \in 1 .. Len(tokens) /\ errors' \in Nat
  BY <1>1 DEF ParserInv, InPlace
<1>3. AllGood(tasks, errors')
  BY <1>1
<1> QED BY <1>1, <1>2, <1>3, StatCall

\* A function for expressions calls others, and goes where they go.
LEMMA ExprCall ==
    ASSUME ParserInv, NEW do \in {"expr", "subexpr", "term", "factor"}, Doing(do), NEW tasks,
           Instead(tasks),
           UNCHANGED <<tokens, built, parseStatus>>,
           next' \in 1 .. Len(tokens), errors' \in Nat, errors' = 0 => errors = 0,
           AllGood(tasks, errors'), \A a \in Seq(Kinds) : Chain(tasks, a, Append(a, "expr"))
    PROVE  ParserInv'
<1>1. pending # <<>> /\ parseStatus = "parsing" /\ Head(pending).do = do
  BY DEF Doing
<1>2. \A a, m : Takes(Head(pending), a, m) => m = Append(a, "expr")
  BY <1>1 DEF Takes
<1>3. \A a, m \in Seq(Kinds) :
         Stacked(built, Len(built), a) /\ Takes(Head(pending), a, m) =>
            \E b \in Seq(Kinds) : Stacked(built, Len(built), b) /\ Chain(tasks, b, m)
  BY <1>2
<1> QED BY <1>1, <1>3, ContinueKeeps

\* The same, if no token is consumed.
LEMMA ExprContinue ==
    ASSUME ParserInv, NEW do \in {"expr", "subexpr", "term", "factor"}, Doing(do), NEW tasks,
           Unfold(tasks),
           AllGood(tasks, errors), \A a \in Seq(Kinds) : Chain(tasks, a, Append(a, "expr"))
    PROVE  ParserInv'
<1>1. Instead(tasks) /\ UNCHANGED <<tokens, built, parseStatus>> /\ next' = next /\ errors' = errors
  BY DEF Unfold
<1>2. next' \in 1 .. Len(tokens) /\ errors' \in Nat
  BY <1>1 DEF ParserInv, InPlace
<1>3. AllGood(tasks, errors')
  BY <1>1
<1> QED BY <1>1, <1>2, <1>3, ExprCall

-----------------------------------------------------------------------------
(* The parse functions keep the invariant. *)

\* parse_stat: return.
LEMMA ReturnKeeps ==
    ASSUME ParserInv, ParseReturn
    PROVE  ParserInv'
<1> DEFINE t1 == Match("RETURN_TOK")
           t2 == Parse("expr")
           t3 == Make(Plain("RETURN_STAT"), 1)
           t4 == Match("SCOL_TOK")
           tasks == <<t1, t2, t3, t4>>
<1>0. errors \in Nat
  BY DEF ParserInv, InPlace
<1>1. /\ t1 \in ParserTasks /\ t2 \in ParserTasks /\ t3 \in ParserTasks /\ t4 \in ParserTasks
      /\ GoodTask(t1, errors) /\ GoodTask(t2, errors) /\ GoodTask(t3, errors)
      /\ GoodTask(t4, errors)
  <2>1. GoodTask(t1, errors)
    BY <1>0, GoodMatch DEF TokenTypes
  <2>2. GoodTask(t2, errors)
    BY <1>0, GoodParse DEF ParseFunctions
  <2>3. GoodTask(t3, errors)
    BY <1>0, GoodPlain DEF StatNodes, StatTypes
  <2>4. GoodTask(t4, errors)
    BY <1>0, GoodMatch DEF TokenTypes
  <2> HIDE DEF t1, t2, t3, t4
  <2> QED BY <2>1, <2>2, <2>3, <2>4 DEF GoodTask
<1>2. AllGood(tasks, errors)
  <2> HIDE DEF t1, t2, t3, t4
  <2> QED BY <1>1, ListFour, Zenon DEF tasks
<1>3. ASSUME NEW a \in Seq(Kinds)
      PROVE  Chain(tasks, a, Append(a, "stat"))
  <2>0. "expr" \in Kinds /\ "stat" \in Kinds /\ "block" \in Kinds
    BY DEF Kinds
  <2>1. /\ Append(a, "expr") \in Seq(Kinds)
        /\ Append(a, "stat") \in Seq(Kinds)
    BY <2>0, Appended
  <2>2. Takes(t1, a, a)
    BY <2>1, TakesMatch DEF TokenTypes
  <2>3. Takes(t2, a, Append(a, "expr"))
    BY <2>1, TakesExpr
  <2>4. Takes(t3, Append(a, "expr"), Append(a, "stat"))
    BY <2>1, TakesPlain
  <2>5. Takes(t4, Append(a, "stat"), Append(a, "stat"))
    BY <2>1, TakesMatch DEF TokenTypes
  <2> HIDE DEF t1, t2, t3, t4
  <2> QED BY <1>1, <2>1, <2>2, <2>3, <2>4, <2>5, ChainFour, Zenon DEF tasks
<1>4. Doing("stat") /\ Unfold(tasks)
  BY DEF ParseReturn, AtStart
<1> HIDE DEF tasks
<1> QED BY <1>2, <1>3, <1>4, StatContinue

\* parse_stat: if.
LEMMA IfKeeps ==
    ASSUME ParserInv, ParseIf
    PROVE  ParserInv'
<1> DEFINE t1 == Match("IF_TOK")
           t2 == Match("LPAREN_TOK")
           t3 == Parse("expr")
           t4 == Match("RPAREN_TOK")
           t5 == Parse("stat")
           t6 == Parse("else")
           tasks == <<t1, t2, t3, t4, t5, t6>>
<1>0. errors \in Nat
  BY DEF ParserInv, InPlace
<1>1. /\ t1 \in ParserTasks /\ t2 \in ParserTasks /\ t3 \in ParserTasks /\ t4 \in ParserTasks /\ t5 \in ParserTasks
      /\ t6 \in ParserTasks
      /\ GoodTask(t1, errors) /\ GoodTask(t2, errors) /\ GoodTask(t3, errors)
      /\ GoodTask(t4, errors) /\ GoodTask(t5, errors) /\ GoodTask(t6, errors)
  <2>1. GoodTask(t1, errors)
    BY <1>0, GoodMatch DEF TokenTypes
  <2>2. GoodTask(t2, errors)
    BY <1>0, GoodMatch DEF TokenTypes
  <2>3. GoodTask(t3, errors)
    BY <1>0, GoodParse DEF ParseFunctions
  <2>4. GoodTask(t4, errors)
    BY <1>0, GoodMatch DEF TokenTypes
  <2>5. GoodTask(t5, errors)
    BY <1>0, GoodParse DEF ParseFunctions
  <2>6. GoodTask(t6, errors)
    BY <1>0, GoodParse DEF ParseFunctions
  <2> HIDE DEF t1, t2, t3, t4, t5, t6
  <2> QED BY <2>1, <2>2, <2>3, <2>4, <2>5, <2>6 DEF GoodTask
<1>2. AllGood(tasks, errors)
  <2> HIDE DEF t1, t2, t3, t4, t5, t6
  <2> QED BY <1>1, ListSix, Zenon DEF tasks
<1>3. ASSUME NEW a \in Seq(Kinds)
      PROVE  Chain(tasks, a, Append(a, "stat"))
  <2>0. "expr" \in Kinds /\ "stat" \in Kinds /\ "block" \in Kinds
    BY DEF Kinds
  <2>1. /\ Append(a, "expr") \in Seq(Kinds)
        /\ Append(a, "stat") \in Seq(Kinds)
        /\ Append(Append(a, "expr"), "stat") \in Seq(Kinds)
    BY <2>0, Appended
  <2>2. Takes(t1, a, a)
    BY <2>1, TakesMatch DEF TokenTypes
  <2>3. Takes(t2, a, a)
    BY <2>1, TakesMatch DEF TokenTypes
  <2>4. Takes(t3, a, Append(a, "expr"))
    BY <2>1, TakesExpr
  <2>5. Takes(t4, Append(a, "expr"), Append(a, "expr"))
    BY <2>1, TakesMatch DEF TokenTypes
  <2>6. Takes(t5, Append(a, "expr"), Append(Append(a, "expr"), "stat"))
    BY <2>1, TakesStat
  <2>7. Takes(t6, Append(Append(a, "expr"), "stat"), Append(a, "stat"))
    BY <2>1, TakesElse
  <2> HIDE DEF t1, t2, t3, t4, t5, t6
  <2> QED BY <1>1, <2>1, <2>2, <2>3, <2>4, <2>5, <2>6, <2>7, ChainSix, Zenon DEF tasks
<1>4. Doing("stat") /\ Unfold(tasks)
  BY DEF ParseIf, AtStart
<1> HIDE DEF tasks
<1> QED BY <1>2, <1>3, <1>4, StatContinue

\* parse_stat: while.
LEMMA WhileKeeps ==
    ASSUME ParserInv, ParseWhile
    PROVE  ParserInv'
<1> DEFINE t1 == Match("WHILE_TOK")
           t2 == Match("LPAREN_TOK")
           t3 == Parse("expr")
           t4 == Match("RPAREN_TOK")
           t5 == Parse("stat")
           t6 == Make(Plain("WHILE_STAT"), 2)
           tasks == <<t1, t2, t3, t4, t5, t6>>
<1>0. errors \in Nat
  BY DEF ParserInv, InPlace
<1>1. /\ t1 \in ParserTasks /\ t2 \in ParserTasks /\ t3 \in ParserTasks /\ t4 \in ParserTasks /\ t5 \in ParserTasks
      /\ t6 \in ParserTasks
      /\ GoodTask(t1, errors) /\ GoodTask(t2, errors) /\ GoodTask(t3, errors)
      /\ GoodTask(t4, errors) /\ GoodTask(t5, errors) /\ GoodTask(t6, errors)
  <2>1. GoodTask(t1, errors)
    BY <1>0, GoodMatch DEF TokenTypes
  <2>2. GoodTask(t2, errors)
    BY <1>0, GoodMatch DEF TokenTypes
  <2>3. GoodTask(t3, errors)
    BY <1>0, GoodParse DEF ParseFunctions
  <2>4. GoodTask(t4, errors)
    BY <1>0, GoodMatch DEF TokenTypes
  <2>5. GoodTask(t5, errors)
    BY <1>0, GoodParse DEF ParseFunctions
  <2>6. GoodTask(t6, errors)
    BY <1>0, GoodPlain DEF StatNodes, StatTypes
  <2> HIDE DEF t1, t2, t3, t4, t5, t6
  <2> QED BY <2>1, <2>2, <2>3, <2>4, <2>5, <2>6 DEF GoodTask
<1>2. AllGood(tasks, errors)
  <2> HIDE DEF t1, t2, t3, t4, t5, t6
  <2> QED BY <1>1, ListSix, Zenon DEF tasks
<1>3. ASSUME NEW a \in Seq(Kinds)
      PROVE  Chain(tasks, a, Append(a, "stat"))
  <2>0. "expr" \in Kinds /\ "stat" \in Kinds /\ "block" \in Kinds
    BY DEF Kinds
  <2>1. /\ Append(a, "expr") \in Seq(Kinds)
        /\ Append(a, "stat") \in Seq(Kinds)
        /\ Append(Append(a, "expr"), "stat") \in Seq(Kinds)
    BY <2>0, Appended
  <2>2. Takes(t1, a, a)
    BY <2>1, TakesMatch DEF TokenTypes
  <2>3. Takes(t2, a, a)
    BY <2>1, TakesMatch DEF TokenTypes
  <2>4. Takes(t3, a, Append(a, "expr"))
    BY <2>1, TakesExpr
  <2>5. Takes(t4, Append(a, "expr"), Append(a, "expr"))
    BY <2>1, TakesMatch DEF TokenTypes
  <2>6. Takes(t5, Append(a, "expr"), Append(Append(a, "expr"), "stat"))
    BY <2>1, TakesStat
  <2>7. Takes(t6, Append(Append(a, "expr"), "stat"), Append(a, "stat"))
    BY <2>1, TakesPlain
  <2> HIDE DEF t1, t2, t3, t4, t5, t6
  <2> QED BY <1>1, <2>1, <2>2, <2>3, <2>4, <2>5, <2>6, <2>7, ChainSix, Zenon DEF tasks
<1>4. Doing("stat") /\ Unfold(tasks)
  BY DEF ParseWhile, AtStart
<1> HIDE DEF tasks
<1> QED BY <1>2, <1>3, <1>4, StatContinue

\* parse_stat: for.
LEMMA ForKeeps ==
    ASSUME ParserInv, ParseFor
    PROVE  ParserInv'
<1> DEFINE t1 == Match("FOR_TOK")
           t2 == Match("LPAREN_TOK")
           t3 == Parse("expr")
           t4 == Match("SCOL_TOK")
           t5 == Parse("expr")
           t6 == Match("SCOL_TOK")
           t7 == Parse("expr")
           t8 == Match("RPAREN_TOK")
           t9 == Parse("stat")
           t10 == Make(Plain("FOR_STAT"), 4)
           tasks == <<t1, t2, t3, t4, t5, t6, t7, t8, t9, t10>>
<1>0. errors \in Nat
  BY DEF ParserInv, InPlace
<1>1. /\ t1 \in ParserTasks /\ t2 \in ParserTasks /\ t3 \in ParserTasks /\ t4 \in ParserTasks /\ t5 \in ParserTasks
      /\ t6 \in ParserTasks /\ t7 \in ParserTasks /\ t8 \in ParserTasks /\ t9 \in ParserTasks /\ t10 \in ParserTasks
      /\ GoodTask(t1, errors) /\ GoodTask(t2, errors) /\ GoodTask(t3, errors)
      /\ GoodTask(t4, errors) /\ GoodTask(t5, errors) /\ GoodTask(t6, errors)
      /\ GoodTask(t7, errors) /\ GoodTask(t8, errors) /\ GoodTask(t9, errors)
      /\ GoodTask(t10, errors)
  <2>1. GoodTask(t1, errors)
    BY <1>0, GoodMatch DEF TokenTypes
  <2>2. GoodTask(t2, errors)
    BY <1>0, GoodMatch DEF TokenTypes
  <2>3. GoodTask(t3, errors)
    BY <1>0, GoodParse DEF ParseFunctions
  <2>4. GoodTask(t4, errors)
    BY <1>0, GoodMatch DEF TokenTypes
  <2>5. GoodTask(t5, errors)
    BY <1>0, GoodParse DEF ParseFunctions
  <2>6. GoodTask(t6, errors)
    BY <1>0, GoodMatch DEF TokenTypes
  <2>7. GoodTask(t7, errors)
    BY <1>0, GoodParse DEF ParseFunctions
  <2>8. GoodTask(t8, errors)
    BY <1>0, GoodMatch DEF TokenTypes
  <2>9. GoodTask(t9, errors)
    BY <1>0, GoodParse DEF ParseFunctions
  <2>10. GoodTask(t10, errors)
    BY <1>0, GoodPlain DEF StatNodes, StatTypes
  <2> HIDE DEF t1, t2, t3, t4, t5, t6, t7, t8, t9, t10
  <2> QED BY <2>1, <2>2, <2>3, <2>4, <2>5, <2>6, <2>7, <2>8, <2>9, <2>10 DEF GoodTask
<1>2. AllGood(tasks, errors)
  <2> HIDE DEF t1, t2, t3, t4, t5, t6, t7, t8, t9, t10
  <2> QED BY <1>1, ListTen, Zenon DEF tasks
<1>3. ASSUME NEW a \in Seq(Kinds)
      PROVE  Chain(tasks, a, Append(a, "stat"))
  <2>0. "expr" \in Kinds /\ "stat" \in Kinds /\ "block" \in Kinds
    BY DEF Kinds
  <2>1. /\ Append(a, "expr") \in Seq(Kinds)
        /\ Append(a, "stat") \in Seq(Kinds)
        /\ Append(Append(a, "expr"), "expr") \in Seq(Kinds)
        /\ Append(Append(Append(a, "expr"), "expr"), "expr") \in Seq(Kinds)
        /\ Append(Append(Append(Append(a, "expr"), "expr"), "expr"), "stat") \in Seq(Kinds)
    BY <2>0, Appended
  <2>2. Takes(t1, a, a)
    BY <2>1, TakesMatch DEF TokenTypes
  <2>3. Takes(t2, a, a)
    BY <2>1, TakesMatch DEF TokenTypes
  <2>4. Takes(t3, a, Append(a, "expr"))
    BY <2>1, TakesExpr
  <2>5. Takes(t4, Append(a, "expr"), Append(a, "expr"))
    BY <2>1, TakesMatch DEF TokenTypes
  <2>6. Takes(t5, Append(a, "expr"), Append(Append(a, "expr"), "expr"))
    BY <2>1, TakesExpr
  <2>7. Takes(t6, Append(Append(a, "expr"), "expr"), Append(Append(a, "expr"), "expr"))
    BY <2>1, TakesMatch DEF TokenTypes
  <2>8. Takes(t7, Append(Append(a, "expr"), "expr"),
             Append(Append(Append(a, "expr"), "expr"), "expr"))
    BY <2>1, TakesExpr
  <2>9. Takes(t8, Append(Append(Append(a, "expr"), "expr"), "expr"),
             Append(Append(Append(a, "expr"), "expr"), "expr"))
    BY <2>1, TakesMatch DEF TokenTypes
  <2>10. Takes(t9, Append(Append(Append(a, "expr"), "expr"), "expr"),
              Append(Append(Append(Append(a, "expr"), "expr"), "expr"), "stat"))
    BY <2>1, TakesStat
  <2>11. Takes(t10, Append(Append(Append(Append(a, "expr"), "expr"), "expr"), "stat"),
              Append(a, "stat"))
    BY <2>1, TakesPlain
  <2> HIDE DEF t1, t2, t3, t4, t5, t6, t7, t8, t9, t10
  <2> QED BY <1>1, <2>1, <2>2, <2>3, <2>4, <2>5, <2>6, <2>7, <2>8, <2>9, <2>10, <2>11, ChainTen,
        Zenon DEF tasks
<1>4. Doing("stat") /\ Unfold(tasks)
  BY DEF ParseFor, AtStart
<1> HIDE DEF tasks
<1> QED BY <1>2, <1>3, <1>4, StatContinue

\* parse_block_stat.
LEMMA BlockKeeps ==
    ASSUME ParserInv, ParseBlock
    PROVE  ParserInv'
<1> DEFINE t1 == Match("LBRACE_TOK")
           t2 == Make(Plain("BLOCK_STAT"), 0)
           t3 == Parse("stats")
           t4 == Match("RBRACE_TOK")
           tasks == <<t1, t2, t3, t4>>
<1>0. errors \in Nat
  BY DEF ParserInv, InPlace
<1>1. /\ t1 \in ParserTasks /\ t2 \in ParserTasks /\ t3 \in ParserTasks /\ t4 \in ParserTasks
      /\ GoodTask(t1, errors) /\ GoodTask(t2, errors) /\ GoodTask(t3, errors)
      /\ GoodTask(t4, errors)
  <2>1. GoodTask(t1, errors)
    BY <1>0, GoodMatch DEF TokenTypes
  <2>2. GoodTask(t2, errors)
    BY <1>0, GoodPlain DEF StatNodes, StatTypes
  <2>3. GoodTask(t3, errors)
    BY <1>0, GoodParse DEF ParseFunctions
  <2>4. GoodTask(t4, errors)
    BY <1>0, GoodMatch DEF TokenTypes
  <2> HIDE DEF t1, t2, t3, t4
  <2> QED BY <2>1, <2>2, <2>3, <2>4 DEF GoodTask
<1>2. AllGood(tasks, errors)
  <2> HIDE DEF t1, t2, t3, t4
  <2> QED BY <1>1, ListFour, Zenon DEF tasks
<1>3. ASSUME NEW a \in Seq(Kinds)
      PROVE  Chain(tasks, a, Append(a, "stat"))
  <2>0. "expr" \in Kinds /\ "stat" \in Kinds /\ "block" \in Kinds
    BY DEF Kinds
  <2>1. /\ Append(a, "block") \in Seq(Kinds)
        /\ Append(a, "stat") \in Seq(Kinds)
    BY <2>0, Appended
  <2>2. Takes(t1, a, a)
    BY <2>1, TakesMatch DEF TokenTypes
  <2>3. Takes(t2, a, Append(a, "block"))
    BY <2>1, TakesPlain
  <2>4. Takes(t3, Append(a, "block"), Append(a, "stat"))
    BY <2>1, TakesStats
  <2>5. Takes(t4, Append(a, "stat"), Append(a, "stat"))
    BY <2>1, TakesMatch DEF TokenTypes
  <2> HIDE DEF t1, t2, t3, t4
  <2> QED BY <1>1, <2>1, <2>2, <2>3, <2>4, <2>5, ChainFour, Zenon DEF tasks
<1>4. Doing("stat") /\ Unfold(tasks)
  BY DEF ParseBlock, AtStart, Block
<1> HIDE DEF tasks
<1> QED BY <1>2, <1>3, <1>4, StatContinue

\* parse_stat: an expression.
LEMMA ExprStatKeeps ==
    ASSUME ParserInv, ParseExprStat
    PROVE  ParserInv'
<1> DEFINE t1 == Parse("expr")
           t2 == Make(Plain("EXPR_STAT"), 1)
           t3 == Match("SCOL_TOK")
           tasks == <<t1, t2, t3>>
<1>0. errors \in Nat
  BY DEF ParserInv, InPlace
<1>1. /\ t1 \in ParserTasks /\ t2 \in ParserTasks /\ t3 \in ParserTasks
      /\ GoodTask(t1, errors) /\ GoodTask(t2, errors) /\ GoodTask(t3, errors)
  <2>1. GoodTask(t1, errors)
    BY <1>0, GoodParse DEF ParseFunctions
  <2>2. GoodTask(t2, errors)
    BY <1>0, GoodPlain DEF StatNodes, StatTypes
  <2>3. GoodTask(t3, errors)
    BY <1>0, GoodMatch DEF TokenTypes
  <2> HIDE DEF t1, t2, t3
  <2> QED BY <2>1, <2>2, <2>3 DEF GoodTask
<1>2. AllGood(tasks, errors)
  <2> HIDE DEF t1, t2, t3
  <2> QED BY <1>1, ListThree, Zenon DEF tasks
<1>3. ASSUME NEW a \in Seq(Kinds)
      PROVE  Chain(tasks, a, Append(a, "stat"))
  <2>0. "expr" \in Kinds /\ "stat" \in Kinds /\ "block" \in Kinds
    BY DEF Kinds
  <2>1. /\ Append(a, "expr") \in Seq(Kinds)
        /\ Append(a, "stat") \in Seq(Kinds)
    BY <2>0, Appended
  <2>2. Takes(t1, a, Append(a, "expr"))
    BY <2>1, TakesExpr
  <2>3. Takes(t2, Append(a, "expr"), Append(a, "stat"))
    BY <2>1, TakesPlain
  <2>4. Takes(t3, Append(a, "stat"), Append(a, "stat"))
    BY <2>1, TakesMatch DEF TokenTypes
  <2> HIDE DEF t1, t2, t3
  <2> QED BY <1>1, <2>1, <2>2, <2>3, <2>4, ChainThree, Zenon DEF tasks
<1>4. Doing("stat") /\ Unfold(tasks)
  BY DEF ParseExprStat, AtStart
<1> HIDE DEF tasks
<1> QED BY <1>2, <1>3, <1>4, StatContinue

\* parse_stat: the empty statement.
LEMMA SkipKeeps ==
    ASSUME ParserInv, ParseSkip
    PROVE  ParserInv'
<1> DEFINE t1 == Make(Plain("SKIP_STAT"), 0)
           t2 == Match("SCOL_TOK")
           tasks == <<t1, t2>>
<1>0. errors \in Nat
  BY DEF ParserInv, InPlace
<1>1. /\ t1 \in ParserTasks /\ t2 \in ParserTasks
      /\ GoodTask(t1, errors) /\ GoodTask(t2, errors)
  <2>1. GoodTask(t1, errors)
    BY <1>0, GoodPlain DEF StatNodes, StatTypes
  <2>2. GoodTask(t2, errors)
    BY <1>0, GoodMatch DEF TokenTypes
  <2> HIDE DEF t1, t2
  <2> QED BY <2>1, <2>2 DEF GoodTask
<1>2. AllGood(tasks, errors)
  <2> HIDE DEF t1, t2
  <2> QED BY <1>1, ListTwo, Zenon DEF tasks
<1>3. ASSUME NEW a \in Seq(Kinds)
      PROVE  Chain(tasks, a, Append(a, "stat"))
  <2>0. "expr" \in Kinds /\ "stat" \in Kinds /\ "block" \in Kinds
    BY DEF Kinds
  <2>1. /\ Append(a, "stat") \in Seq(Kinds)
    BY <2>0, Appended
  <2>2. Takes(t1, a, Append(a, "stat"))
    BY <2>1, TakesPlain
  <2>3. Takes(t2, Append(a, "stat"), Append(a, "stat"))
    BY <2>1, TakesMatch DEF TokenTypes
  <2> HIDE DEF t1, t2
  <2> QED BY <1>1, <2>1, <2>2, <2>3, ChainTwo, Zenon DEF tasks
<1>4. Doing("stat") /\ Unfold(tasks)
  BY DEF ParseSkip, AtStart
<1> HIDE DEF tasks
<1> QED BY <1>2, <1>3, <1>4, StatContinue

\* parse_expr.
LEMMA ExprKeeps ==
    ASSUME ParserInv, ParseExpr
    PROVE  ParserInv'
<1> DEFINE t1 == Parse("subexpr")
           t2 == Parse("comparison")
           tasks == <<t1, t2>>
<1>0. errors \in Nat
  BY DEF ParserInv, InPlace
<1>1. /\ t1 \in ParserTasks /\ t2 \in ParserTasks
      /\ GoodTask(t1, errors) /\ GoodTask(t2, errors)
  <2>1. GoodTask(t1, errors)
    BY <1>0, GoodParse DEF ParseFunctions
  <2>2. GoodTask(t2, errors)
    BY <1>0, GoodParse DEF ParseFunctions
  <2> HIDE DEF t1, t2
  <2> QED BY <2>1, <2>2 DEF GoodTask
<1>2. AllGood(tasks, errors)
  <2> HIDE DEF t1, t2
  <2> QED BY <1>1, ListTwo, Zenon DEF tasks
<1>3. ASSUME NEW a \in Seq(Kinds)
      PROVE  Chain(tasks, a, Append(a, "expr"))
  <2>0. "expr" \in Kinds /\ "stat" \in Kinds /\ "block" \in Kinds
    BY DEF Kinds
  <2>1. /\ Append(a, "expr") \in Seq(Kinds)
    BY <2>0, Appended
  <2>2. Takes(t1, a, Append(a, "expr"))
    BY <2>1, TakesExpr
  <2>3. Takes(t2, Append(a, "expr"), Append(a, "expr"))
    BY <2>1, TakesRest
  <2> HIDE DEF t1, t2
  <2> QED BY <1>1, <2>1, <2>2, <2>3, ChainTwo, Zenon DEF tasks
<1>4. Doing("expr") /\ Unfold(tasks)
  BY DEF ParseExpr
<1> HIDE DEF tasks
<1> QED BY <1>2, <1>3, <1>4, ExprContinue

\* parse_subexpr.
LEMMA SubexprKeeps ==
    ASSUME ParserInv, ParseSubexpr
    PROVE  ParserInv'
<1> DEFINE t1 == Parse("term")
           t2 == Parse("terms")
           tasks == <<t1, t2>>
<1>0. errors \in Nat
  BY DEF ParserInv, InPlace
<1>1. /\ t1 \in ParserTasks /\ t2 \in ParserTasks
      /\ GoodTask(t1, errors) /\ GoodTask(t2, errors)
  <2>1. GoodTask(t1, errors)
    BY <1>0, GoodParse DEF ParseFunctions
  <2>2. GoodTask(t2, errors)
    BY <1>0, GoodParse DEF ParseFunctions
  <2> HIDE DEF t1, t2
  <2> QED BY <2>1, <2>2 DEF GoodTask
<1>2. AllGood(tasks, errors)
  <2> HIDE DEF t1, t2
  <2> QED BY <1>1, ListTwo, Zenon DEF tasks
<1>3. ASSUME NEW a \in Seq(Kinds)
      PROVE  Chain(tasks, a, Append(a, "expr"))
  <2>0. "expr" \in Kinds /\ "stat" \in Kinds /\ "block" \in Kinds
    BY DEF Kinds
  <2>1. /\ Append(a, "expr") \in Seq(Kinds)
    BY <2>0, Appended
  <2>2. Takes(t1, a, Append(a, "expr"))
    BY <2>1, TakesExpr
  <2>3. Takes(t2, Append(a, "expr"), Append(a, "expr"))
    BY <2>1, TakesRest
  <2> HIDE DEF t1, t2
  <2> QED BY <1>1, <2>1, <2>2, <2>3, ChainTwo, Zenon DEF tasks
<1>4. Doing("subexpr") /\ Unfold(tasks)
  BY DEF ParseSubexpr
<1> HIDE DEF tasks
<1> QED BY <1>2, <1>3, <1>4, ExprContinue

\* parse_term.
LEMMA TermKeeps ==
    ASSUME ParserInv, ParseTerm
    PROVE  ParserInv'
<1> DEFINE t1 == Parse("factor")
           t2 == Parse("factors")
           tasks == <<t1, t2>>
<1>0. errors \in Nat
  BY DEF ParserInv, InPlace
<1>1. /\ t1 \in ParserTasks /\ t2 \in ParserTasks
      /\ GoodTask(t1, errors) /\ GoodTask(t2, errors)
  <2>1. GoodTask(t1, errors)
    BY <1>0, GoodParse DEF ParseFunctions
  <2>2. GoodTask(t2, errors)
    BY <1>0, GoodParse DEF ParseFunctions
  <2> HIDE DEF t1, t2
  <2> QED BY <2>1, <2>2 DEF GoodTask
<1>2. AllGood(tasks, errors)
  <2> HIDE DEF t1, t2
  <2> QED BY <1>1, ListTwo, Zenon DEF tasks
<1>3. ASSUME NEW a \in Seq(Kinds)
      PROVE  Chain(tasks, a, Append(a, "expr"))
  <2>0. "expr" \in Kinds /\ "stat" \in Kinds /\ "block" \in Kinds
    BY DEF Kinds
  <2>1. /\ Append(a, "expr") \in Seq(Kinds)
    BY <2>0, Appended
  <2>2. Takes(t1, a, Append(a, "expr"))
    BY <2>1, TakesExpr
  <2>3. Takes(t2, Append(a, "expr"), Append(a, "expr"))
    BY <2>1, TakesRest
  <2> HIDE DEF t1, t2
  <2> QED BY <1>1, <2>1, <2>2, <2>3, ChainTwo, Zenon DEF tasks
<1>4. Doing("term") /\ Unfold(tasks)
  BY DEF ParseTerm
<1> HIDE DEF tasks
<1> QED BY <1>2, <1>3, <1>4, ExprContinue

\* parse_factor: parentheses.
LEMMA ParensKeeps ==
    ASSUME ParserInv, ParseParens
    PROVE  ParserInv'
<1> DEFINE t1 == Match("LPAREN_TOK")
           t2 == Parse("expr")
           t3 == Match("RPAREN_TOK")
           tasks == <<t1, t2, t3>>
<1>0. errors \in Nat
  BY DEF ParserInv, InPlace
<1>1. /\ t1 \in ParserTasks /\ t2 \in ParserTasks /\ t3 \in ParserTasks
      /\ GoodTask(t1, errors) /\ GoodTask(t2, errors) /\ GoodTask(t3, errors)
  <2>1. GoodTask(t1, errors)
    BY <1>0, GoodMatch DEF TokenTypes
  <2>2. GoodTask(t2, errors)
    BY <1>0, GoodParse DEF ParseFunctions
  <2>3. GoodTask(t3, errors)
    BY <1>0, GoodMatch DEF TokenTypes
  <2> HIDE DEF t1, t2, t3
  <2> QED BY <2>1, <2>2, <2>3 DEF GoodTask
<1>2. AllGood(tasks, errors)
  <2> HIDE DEF t1, t2, t3
  <2> QED BY <1>1, ListThree, Zenon DEF tasks
<1>3. ASSUME NEW a \in Seq(Kinds)
      PROVE  Chain(tasks, a, Append(a, "expr"))
  <2>0. "expr" \in Kinds /\ "stat" \in Kinds /\ "block" \in Kinds
    BY DEF Kinds
  <2>1. /\ Append(a, "expr") \in Seq(Kinds)
    BY <2>0, Appended
  <2>2. Takes(t1, a, a)
    BY <2>1, TakesMatch DEF TokenTypes
  <2>3. Takes(t2, a, Append(a, "expr"))
    BY <2>1, TakesExpr
  <2>4. Takes(t3, Append(a, "expr"), Append(a, "expr"))
    BY <2>1, TakesMatch DEF TokenTypes
  <2> HIDE DEF t1, t2, t3
  <2> QED BY <1>1, <2>1, <2>2, <2>3, <2>4, ChainThree, Zenon DEF tasks
<1>4. Doing("factor") /\ Unfold(tasks)
  BY DEF ParseParens
<1> HIDE DEF tasks
<1> QED BY <1>2, <1>3, <1>4, ExprContinue

-----------------------------------------------------------------------------
(* The nodes that have an operator or a name. *)

\* A node with a name.
LEMMA NamedLeaf ==
    ASSUME NEW type \in HasName, NEW name \in Names \cup {NULL}
    PROVE  /\ Named(type, name) \in Leaves /\ Named(type, name).type = type
           /\ Named(type, name).name = name /\ Named(type, name).is_func = FALSE
BY DEF Named, Create, Leaves, HasName, NodeTypes, ExprNodes, ExprTypes, StatNodes, StatTypes

\* A function that is declared.
LEMMA FuncDeclLeaf ==
    ASSUME NEW name \in Names \cup {NULL}
    PROVE  /\ FuncDecl(name) \in Leaves /\ FuncDecl(name).type = "DECL_STAT"
           /\ FuncDecl(name).name = name /\ FuncDecl(name).is_func = TRUE
BY DEF FuncDecl, Create, Leaves, NodeTypes, StatNodes, StatTypes

\* A node with an operator.
LEMMA BinOpLeaf ==
    ASSUME NEW op \in Operators
    PROVE  BinOp(op) \in Leaves /\ BinOp(op).type = "BIN_OP" /\ BinOp(op).op = op
BY DEF BinOp, Create, Leaves, NodeTypes, ExprNodes, ExprTypes

\* A name that is missing has been counted as an error.
LEMMA GoodNamed ==
    ASSUME NEW type \in HasName, NEW name \in Names \cup {NULL}, NEW n \in Nat,
           n = 0 => name \in Names, NEW arity \in 0 .. 4
    PROVE  GoodTask(Make(Named(type, name), arity), n)
<1>1. /\ Named(type, name) \in Leaves
      /\ Named(type, name).type = type /\ Named(type, name).name = name
  BY NamedLeaf
<1>2. type \notin {"INVALID_EXPR", "INVALID_STAT"}
  BY DEF HasName
<1>3. n = 0 => Clean(Named(type, name))
  BY <1>1, <1>2 DEF Clean
<1> QED BY <1>1, <1>3, GoodMake

\* A function to declare.
LEMMA GoodFuncDecl ==
    ASSUME NEW name \in Names \cup {NULL}, NEW n \in Nat, n = 0 => name \in Names,
           NEW arity \in 0 .. 4
    PROVE  GoodTask(Make(FuncDecl(name), arity), n)
<1>1. n = 0 => Clean(FuncDecl(name))
  BY FuncDeclLeaf DEF Clean
<1> QED BY <1>1, FuncDeclLeaf, GoodMake

\* An operator to create.
LEMMA GoodBinOp ==
    ASSUME NEW op \in Operators, NEW n \in Nat
    PROVE  GoodTask(Make(BinOp(op), 2), n)
<1>1. Clean(BinOp(op))
  BY BinOpLeaf DEF Clean, HasName
<1> QED BY <1>1, BinOpLeaf, GoodMake

\* A parse function that is given a name.
LEMMA GoodNamedTask ==
    ASSUME NEW do \in {"declarator", "body"}, NEW name \in Names \cup {NULL}, NEW n \in Nat,
           n = 0 => name \in Names
    PROVE  GoodTask(ParserTask(do, name), n)
<1>1. do \in ParseFunctions
  BY DEF ParseFunctions
<1> QED BY <1>1, ParseTask DEF GoodTask

\* Each of the nodes with a name is created from the nodes it needs.
LEMMA TakesNamed ==
    ASSUME NEW K \in Seq(Kinds), NEW name \in Names \cup {NULL}
    PROVE  /\ Takes(Make(Named("DECL_STAT", name), 0), K, Append(K, "stat"))
           /\ Takes(Make(Named("DECL_STAT", name), 1), Append(K, "expr"), Append(K, "stat"))
           /\ Takes(Make(Named("VAR_REF", name), 0), K, Append(K, "expr"))
           /\ Takes(Make(Named("FUNC_CALL", name), 0), K, Append(K, "expr"))
           /\ Takes(Make(FuncDecl(name), 0), K, Append(K, "stat"))
           /\ Takes(Make(FuncDecl(name), 1), Append(K, "block"), Append(K, "stat"))
<1>0. "expr" \in Kinds /\ "stat" \in Kinds /\ "block" \in Kinds
  BY DEF Kinds
<1>1. Takes(Make(Named("DECL_STAT", name), 0), K, Append(K, "stat"))
  <2>1. Named("DECL_STAT", name) \in Leaves /\ Named("DECL_STAT", name).type = "DECL_STAT"
        /\ Named("DECL_STAT", name).is_func = FALSE
    BY NamedLeaf DEF HasName
  <2>2. Children(Named("DECL_STAT", name), <<>>)
        /\ Named("DECL_STAT", name).type \in TypesOf("stat")
    BY <2>1 DEF Children, TypesOf, StatNodes, StatTypes, ExprNodes, ExprTypes
  <2> QED BY <1>0, <2>1, <2>2, TakesMake0
<1>2. Takes(Make(Named("DECL_STAT", name), 1), Append(K, "expr"), Append(K, "stat"))
  <2>1. Named("DECL_STAT", name) \in Leaves /\ Named("DECL_STAT", name).type = "DECL_STAT"
        /\ Named("DECL_STAT", name).is_func = FALSE
    BY NamedLeaf DEF HasName
  <2>2. Children(Named("DECL_STAT", name), <<"expr">>)
        /\ Named("DECL_STAT", name).type \in TypesOf("stat")
    BY <2>1 DEF Children, TypesOf, StatNodes, StatTypes, ExprNodes, ExprTypes
  <2> QED BY <1>0, <2>1, <2>2, TakesMake1
<1>3. Takes(Make(Named("VAR_REF", name), 0), K, Append(K, "expr"))
  <2>1. Named("VAR_REF", name) \in Leaves /\ Named("VAR_REF", name).type = "VAR_REF"
        /\ Named("VAR_REF", name).is_func = FALSE
    BY NamedLeaf DEF HasName
  <2>2. Children(Named("VAR_REF", name), <<>>)
        /\ Named("VAR_REF", name).type \in TypesOf("expr")
    BY <2>1 DEF Children, TypesOf, StatNodes, StatTypes, ExprNodes, ExprTypes
  <2> QED BY <1>0, <2>1, <2>2, TakesMake0
<1>4. Takes(Make(Named("FUNC_CALL", name), 0), K, Append(K, "expr"))
  <2>1. Named("FUNC_CALL", name) \in Leaves /\ Named("FUNC_CALL", name).type = "FUNC_CALL"
        /\ Named("FUNC_CALL", name).is_func = FALSE
    BY NamedLeaf DEF HasName
  <2>2. Children(Named("FUNC_CALL", name), <<>>)
        /\ Named("FUNC_CALL", name).type \in TypesOf("expr")
    BY <2>1 DEF Children, TypesOf, StatNodes, StatTypes, ExprNodes, ExprTypes
  <2> QED BY <1>0, <2>1, <2>2, TakesMake0
<1>5. Takes(Make(FuncDecl(name), 0), K, Append(K, "stat"))
  <2>1. FuncDecl(name) \in Leaves /\ FuncDecl(name).type = "DECL_STAT"
        /\ FuncDecl(name).is_func = TRUE
    BY FuncDeclLeaf
  <2>2. Children(FuncDecl(name), <<>>) /\ FuncDecl(name).type \in TypesOf("stat")
    BY <2>1 DEF Children, TypesOf, StatNodes, StatTypes, ExprNodes, ExprTypes
  <2> QED BY <1>0, <2>1, <2>2, TakesMake0
<1>6. Takes(Make(FuncDecl(name), 1), Append(K, "block"), Append(K, "stat"))
  <2>1. FuncDecl(name) \in Leaves /\ FuncDecl(name).type = "DECL_STAT"
        /\ FuncDecl(name).is_func = TRUE
    BY FuncDeclLeaf
  <2>2. Children(FuncDecl(name), <<"block">>) /\ FuncDecl(name).type \in TypesOf("stat")
    BY <2>1 DEF Children, TypesOf, StatNodes, StatTypes, ExprNodes, ExprTypes
  <2> QED BY <1>0, <2>1, <2>2, TakesMake1
<1> QED BY <1>1, <1>2, <1>3, <1>4, <1>5, <1>6

\* An operator is created from its two operands.
LEMMA TakesBinOp ==
    ASSUME NEW K \in Seq(Kinds), NEW op \in Operators
    PROVE  Takes(Make(BinOp(op), 2), Append(Append(K, "expr"), "expr"), Append(K, "expr"))
<1>1. BinOp(op) \in Leaves /\ BinOp(op).type = "BIN_OP" /\ BinOp(op).op = op
  BY BinOpLeaf
<1>2. Children(BinOp(op), <<"expr", "expr">>) /\ BinOp(op).type \in TypesOf("expr")
  BY <1>1 DEF Children, TypesOf, ExprNodes, ExprTypes
<1>3. "expr" \in Kinds
  BY DEF Kinds
<1> QED BY <1>1, <1>2, <1>3, TakesMake2

-----------------------------------------------------------------------------
(* The tasks that the other parse functions go on with. *)

\* An else branch.
LEMMA ElseTasks ==
    ASSUME NEW n \in Nat, NEW a \in Seq(Kinds)
    PROVE  /\ AllGood(<<Match("ELSE_TOK"), Parse("stat"), Make(Plain("IF_STAT"), 3)>>, n)
           /\ Chain(<<Match("ELSE_TOK"), Parse("stat"), Make(Plain("IF_STAT"), 3)>>,
                    Append(Append(a, "expr"), "stat"), Append(a, "stat"))
<1> DEFINE t1 == Match("ELSE_TOK")
           t2 == Parse("stat")
           t3 == Make(Plain("IF_STAT"), 3)
<1>1. GoodTask(t1, n)
  BY GoodMatch DEF TokenTypes
<1>2. GoodTask(t2, n)
  BY GoodParse DEF ParseFunctions
<1>3. GoodTask(t3, n)
  BY GoodPlain DEF StatNodes, StatTypes
<1>4. "expr" \in Kinds /\ "stat" \in Kinds /\ "block" \in Kinds
  BY DEF Kinds
<1>5. /\ Append(a, "expr") \in Seq(Kinds)
      /\ Append(a, "stat") \in Seq(Kinds)
      /\ Append(Append(a, "expr"), "stat") \in Seq(Kinds)
      /\ Append(Append(Append(a, "expr"), "stat"), "stat") \in Seq(Kinds)
  BY <1>4, Appended
<1>6. Takes(t1, Append(Append(a, "expr"), "stat"), Append(Append(a, "expr"), "stat"))
  BY <1>4, <1>5, TakesMatch DEF TokenTypes
<1>7. Takes(t2, Append(Append(a, "expr"), "stat"),
           Append(Append(Append(a, "expr"), "stat"), "stat"))
  BY <1>4, <1>5, TakesStat
<1>8. Takes(t3, Append(Append(Append(a, "expr"), "stat"), "stat"), Append(a, "stat"))
  BY <1>4, <1>5, TakesPlain
<1> HIDE DEF t1, t2, t3
<1>9. AllGood(<<t1, t2, t3>>, n)
  BY <1>1, <1>2, <1>3, ListThree, Zenon
<1>10. t1 \in ParserTasks /\ t2 \in ParserTasks /\ t3 \in ParserTasks
  BY <1>1, <1>2, <1>3 DEF GoodTask
<1>11. Chain(<<t1, t2, t3>>, Append(Append(a, "expr"), "stat"), Append(a, "stat"))
  BY <1>5, <1>10, <1>6, <1>7, <1>8, ChainThree, Zenon
<1> QED BY <1>9, <1>11 DEF t1, t2, t3

\* No else branch.
LEMMA NoElseTasks ==
    ASSUME NEW n \in Nat, NEW a \in Seq(Kinds)
    PROVE  /\ AllGood(<<Make(Plain("IF_STAT"), 2)>>, n)
           /\ Chain(<<Make(Plain("IF_STAT"), 2)>>,
                    Append(Append(a, "expr"), "stat"), Append(a, "stat"))
<1> DEFINE t1 == Make(Plain("IF_STAT"), 2)
<1>1. GoodTask(t1, n)
  BY GoodPlain DEF StatNodes, StatTypes
<1>2. "expr" \in Kinds /\ "stat" \in Kinds /\ "block" \in Kinds
  BY DEF Kinds
<1>3. /\ Append(a, "expr") \in Seq(Kinds)
      /\ Append(a, "stat") \in Seq(Kinds)
      /\ Append(Append(a, "expr"), "stat") \in Seq(Kinds)
  BY <1>2, Appended
<1>4. Takes(t1, Append(Append(a, "expr"), "stat"), Append(a, "stat"))
  BY <1>2, <1>3, TakesPlain
<1> HIDE DEF t1
<1>5. AllGood(<<t1>>, n)
  BY <1>1, ListOne, Zenon
<1>6. t1 \in ParserTasks
  BY <1>1 DEF GoodTask
<1>7. Chain(<<t1>>, Append(Append(a, "expr"), "stat"), Append(a, "stat"))
  BY <1>3, <1>6, <1>4, ChainOne, Zenon
<1> QED BY <1>5, <1>7 DEF t1

\* A statement of a block, and those that follow.
LEMMA StatsTasks ==
    ASSUME NEW n \in Nat, NEW a \in Seq(Kinds), NEW kind \in {"block", "stat"}
    PROVE  /\ AllGood(<<Parse("stat"), Parse("append"), Parse("stats")>>, n)
           /\ Chain(<<Parse("stat"), Parse("append"), Parse("stats")>>,
                    Append(a, "block"), Append(a, kind))
<1> DEFINE t1 == Parse("stat")
           t2 == Parse("append")
           t3 == Parse("stats")
<1>1. GoodTask(t1, n)
  BY GoodParse DEF ParseFunctions
<1>2. GoodTask(t2, n)
  BY GoodParse DEF ParseFunctions
<1>3. GoodTask(t3, n)
  BY GoodParse DEF ParseFunctions
<1>4. "expr" \in Kinds /\ "stat" \in Kinds /\ "block" \in Kinds
  BY DEF Kinds
<1>5. /\ Append(a, "block") \in Seq(Kinds)
      /\ Append(a, kind) \in Seq(Kinds)
      /\ Append(Append(a, "block"), "stat") \in Seq(Kinds)
  BY <1>4, Appended
<1>6. Takes(t1, Append(a, "block"), Append(Append(a, "block"), "stat"))
  BY <1>4, <1>5, TakesStat
<1>7. Takes(t2, Append(Append(a, "block"), "stat"), Append(a, "block"))
  BY <1>4, <1>5, TakesAppend
<1>8. Takes(t3, Append(a, "block"), Append(a, kind))
  BY <1>4, <1>5, TakesStats
<1> HIDE DEF t1, t2, t3
<1>9. AllGood(<<t1, t2, t3>>, n)
  BY <1>1, <1>2, <1>3, ListThree, Zenon
<1>10. t1 \in ParserTasks /\ t2 \in ParserTasks /\ t3 \in ParserTasks
  BY <1>1, <1>2, <1>3 DEF GoodTask
<1>11. Chain(<<t1, t2, t3>>, Append(a, "block"), Append(a, kind))
  BY <1>5, <1>10, <1>6, <1>7, <1>8, ChainThree, Zenon
<1> QED BY <1>9, <1>11 DEF t1, t2, t3

\* A block in braces.
LEMMA BodyTasks ==
    ASSUME NEW n \in Nat, NEW a \in Seq(Kinds)
    PROVE  /\ AllGood(<<Match("LBRACE_TOK"), Make(Plain("BLOCK_STAT"), 0), Parse("stats"),
                     Match("RBRACE_TOK")>>, n)
           /\ Chain(<<Match("LBRACE_TOK"), Make(Plain("BLOCK_STAT"), 0), Parse("stats"),
                      Match("RBRACE_TOK")>>,
                    a, Append(a, "block"))
<1> DEFINE t1 == Match("LBRACE_TOK")
           t2 == Make(Plain("BLOCK_STAT"), 0)
           t3 == Parse("stats")
           t4 == Match("RBRACE_TOK")
<1>1. GoodTask(t1, n)
  BY GoodMatch DEF TokenTypes
<1>2. GoodTask(t2, n)
  BY GoodPlain DEF StatNodes, StatTypes
<1>3. GoodTask(t3, n)
  BY GoodParse DEF ParseFunctions
<1>4. GoodTask(t4, n)
  BY GoodMatch DEF TokenTypes
<1>5. "expr" \in Kinds /\ "stat" \in Kinds /\ "block" \in Kinds
  BY DEF Kinds
<1>6. /\ Append(a, "block") \in Seq(Kinds)
  BY <1>5, Appended
<1>7. Takes(t1, a, a)
  BY <1>5, <1>6, TakesMatch DEF TokenTypes
<1>8. Takes(t2, a, Append(a, "block"))
  BY <1>5, <1>6, TakesPlain
<1>9. Takes(t3, Append(a, "block"), Append(a, "block"))
  BY <1>5, <1>6, TakesStats
<1>10. Takes(t4, Append(a, "block"), Append(a, "block"))
  BY <1>5, <1>6, TakesMatch DEF TokenTypes
<1> HIDE DEF t1, t2, t3, t4
<1>11. AllGood(<<t1, t2, t3, t4>>, n)
  BY <1>1, <1>2, <1>3, <1>4, ListFour, Zenon
<1>12. t1 \in ParserTasks /\ t2 \in ParserTasks /\ t3 \in ParserTasks /\ t4 \in ParserTasks
  BY <1>1, <1>2, <1>3, <1>4 DEF GoodTask
<1>13. Chain(<<t1, t2, t3, t4>>, a, Append(a, "block"))
  BY <1>6, <1>12, <1>7, <1>8, <1>9, <1>10, ChainFour, Zenon
<1> QED BY <1>11, <1>13 DEF t1, t2, t3, t4

\* A function that is only declared.
LEMMA FuncDeclTasks ==
    ASSUME NEW n \in Nat, NEW a \in Seq(Kinds), NEW name \in Names \cup {NULL},
           n = 0 => name \in Names
    PROVE  /\ AllGood(<<Make(FuncDecl(name), 0), Match("SCOL_TOK")>>, n)
           /\ Chain(<<Make(FuncDecl(name), 0), Match("SCOL_TOK")>>,
                    a, Append(a, "stat"))
<1> DEFINE t1 == Make(FuncDecl(name), 0)
           t2 == Match("SCOL_TOK")
<1>1. GoodTask(t1, n)
  BY GoodFuncDecl
<1>2. GoodTask(t2, n)
  BY GoodMatch DEF TokenTypes
<1>3. "expr" \in Kinds /\ "stat" \in Kinds /\ "block" \in Kinds
  BY DEF Kinds
<1>4. /\ Append(a, "stat") \in Seq(Kinds)
  BY <1>3, Appended
<1>5. Takes(t1, a, Append(a, "stat"))
  BY <1>3, <1>4, TakesNamed
<1>6. Takes(t2, Append(a, "stat"), Append(a, "stat"))
  BY <1>3, <1>4, TakesMatch DEF TokenTypes
<1> HIDE DEF t1, t2
<1>7. AllGood(<<t1, t2>>, n)
  BY <1>1, <1>2, ListTwo, Zenon
<1>8. t1 \in ParserTasks /\ t2 \in ParserTasks
  BY <1>1, <1>2 DEF GoodTask
<1>9. Chain(<<t1, t2>>, a, Append(a, "stat"))
  BY <1>4, <1>8, <1>5, <1>6, ChainTwo, Zenon
<1> QED BY <1>7, <1>9 DEF t1, t2

\* A function with a body.
LEMMA FuncBodyTasks ==
    ASSUME NEW n \in Nat, NEW a \in Seq(Kinds), NEW name \in Names \cup {NULL},
           n = 0 => name \in Names
    PROVE  /\ AllGood(<<Make(FuncDecl(name), 1)>>, n)
           /\ Chain(<<Make(FuncDecl(name), 1)>>,
                    Append(a, "block"), Append(a, "stat"))
<1> DEFINE t1 == Make(FuncDecl(name), 1)
<1>1. GoodTask(t1, n)
  BY GoodFuncDecl
<1>2. "expr" \in Kinds /\ "stat" \in Kinds /\ "block" \in Kinds
  BY DEF Kinds
<1>3. /\ Append(a, "block") \in Seq(Kinds)
      /\ Append(a, "stat") \in Seq(Kinds)
  BY <1>2, Appended
<1>4. Takes(t1, Append(a, "block"), Append(a, "stat"))
  BY <1>2, <1>3, TakesNamed
<1> HIDE DEF t1
<1>5. AllGood(<<t1>>, n)
  BY <1>1, ListOne, Zenon
<1>6. t1 \in ParserTasks
  BY <1>1 DEF GoodTask
<1>7. Chain(<<t1>>, Append(a, "block"), Append(a, "stat"))
  BY <1>3, <1>6, <1>4, ChainOne, Zenon
<1> QED BY <1>5, <1>7 DEF t1

\* The parentheses of a function.
LEMMA FuncTasks ==
    ASSUME NEW n \in Nat, NEW a \in Seq(Kinds), NEW name \in Names \cup {NULL},
           n = 0 => name \in Names
    PROVE  /\ AllGood(<<Match("LPAREN_TOK"), Match("RPAREN_TOK"), ParserTask("body", name)>>, n)
           /\ Chain(<<Match("LPAREN_TOK"), Match("RPAREN_TOK"), ParserTask("body", name)>>,
                    a, Append(a, "stat"))
<1> DEFINE t1 == Match("LPAREN_TOK")
           t2 == Match("RPAREN_TOK")
           t3 == ParserTask("body", name)
<1>1. GoodTask(t1, n)
  BY GoodMatch DEF TokenTypes
<1>2. GoodTask(t2, n)
  BY GoodMatch DEF TokenTypes
<1>3. GoodTask(t3, n)
  BY GoodNamedTask
<1>4. "expr" \in Kinds /\ "stat" \in Kinds /\ "block" \in Kinds
  BY DEF Kinds
<1>5. /\ Append(a, "stat") \in Seq(Kinds)
  BY <1>4, Appended
<1>6. Takes(t1, a, a)
  BY <1>4, <1>5, TakesMatch DEF TokenTypes
<1>7. Takes(t2, a, a)
  BY <1>4, <1>5, TakesMatch DEF TokenTypes
<1>8. Takes(t3, a, Append(a, "stat"))
  BY <1>4, <1>5, TakesStat
<1> HIDE DEF t1, t2, t3
<1>9. AllGood(<<t1, t2, t3>>, n)
  BY <1>1, <1>2, <1>3, ListThree, Zenon
<1>10. t1 \in ParserTasks /\ t2 \in ParserTasks /\ t3 \in ParserTasks
  BY <1>1, <1>2, <1>3 DEF GoodTask
<1>11. Chain(<<t1, t2, t3>>, a, Append(a, "stat"))
  BY <1>5, <1>10, <1>6, <1>7, <1>8, ChainThree, Zenon
<1> QED BY <1>9, <1>11 DEF t1, t2, t3

\* A variable with a first value.
LEMMA InitTasks ==
    ASSUME NEW n \in Nat, NEW a \in Seq(Kinds), NEW name \in Names \cup {NULL},
           n = 0 => name \in Names
    PROVE  /\ AllGood(<<Match("ASSIGN_TOK"), Parse("expr"), Make(Named("DECL_STAT", name), 1),
                     Match("SCOL_TOK")>>, n)
           /\ Chain(<<Match("ASSIGN_TOK"), Parse("expr"), Make(Named("DECL_STAT", name), 1),
                      Match("SCOL_TOK")>>,
                    a, Append(a, "stat"))
<1> DEFINE t1 == Match("ASSIGN_TOK")
           t2 == Parse("expr")
           t3 == Make(Named("DECL_STAT", name), 1)
           t4 == Match("SCOL_TOK")
<1>1. GoodTask(t1, n)
  BY GoodMatch DEF TokenTypes
<1>2. GoodTask(t2, n)
  BY GoodParse DEF ParseFunctions
<1>3. GoodTask(t3, n)
  BY GoodNamed DEF HasName
<1>4. GoodTask(t4, n)
  BY GoodMatch DEF TokenTypes
<1>5. "expr" \in Kinds /\ "stat" \in Kinds /\ "block" \in Kinds
  BY DEF Kinds
<1>6. /\ Append(a, "expr") \in Seq(Kinds)
      /\ Append(a, "stat") \in Seq(Kinds)
  BY <1>5, Appended
<1>7. Takes(t1, a, a)
  BY <1>5, <1>6, TakesMatch DEF TokenTypes
<1>8. Takes(t2, a, Append(a, "expr"))
  BY <1>5, <1>6, TakesExpr
<1>9. Takes(t3, Append(a, "expr"), Append(a, "stat"))
  BY <1>5, <1>6, TakesNamed
<1>10. Takes(t4, Append(a, "stat"), Append(a, "stat"))
  BY <1>5, <1>6, TakesMatch DEF TokenTypes
<1> HIDE DEF t1, t2, t3, t4
<1>11. AllGood(<<t1, t2, t3, t4>>, n)
  BY <1>1, <1>2, <1>3, <1>4, ListFour, Zenon
<1>12. t1 \in ParserTasks /\ t2 \in ParserTasks /\ t3 \in ParserTasks /\ t4 \in ParserTasks
  BY <1>1, <1>2, <1>3, <1>4 DEF GoodTask
<1>13. Chain(<<t1, t2, t3, t4>>, a, Append(a, "stat"))
  BY <1>6, <1>12, <1>7, <1>8, <1>9, <1>10, ChainFour, Zenon
<1> QED BY <1>11, <1>13 DEF t1, t2, t3, t4

\* A variable without one.
LEMMA VarTasks ==
    ASSUME NEW n \in Nat, NEW a \in Seq(Kinds), NEW name \in Names \cup {NULL},
           n = 0 => name \in Names
    PROVE  /\ AllGood(<<Make(Named("DECL_STAT", name), 0), Match("SCOL_TOK")>>, n)
           /\ Chain(<<Make(Named("DECL_STAT", name), 0), Match("SCOL_TOK")>>,
                    a, Append(a, "stat"))
<1> DEFINE t1 == Make(Named("DECL_STAT", name), 0)
           t2 == Match("SCOL_TOK")
<1>1. GoodTask(t1, n)
  BY GoodNamed DEF HasName
<1>2. GoodTask(t2, n)
  BY GoodMatch DEF TokenTypes
<1>3. "expr" \in Kinds /\ "stat" \in Kinds /\ "block" \in Kinds
  BY DEF Kinds
<1>4. /\ Append(a, "stat") \in Seq(Kinds)
  BY <1>3, Appended
<1>5. Takes(t1, a, Append(a, "stat"))
  BY <1>3, <1>4, TakesNamed
<1>6. Takes(t2, Append(a, "stat"), Append(a, "stat"))
  BY <1>3, <1>4, TakesMatch DEF TokenTypes
<1> HIDE DEF t1, t2
<1>7. AllGood(<<t1, t2>>, n)
  BY <1>1, <1>2, ListTwo, Zenon
<1>8. t1 \in ParserTasks /\ t2 \in ParserTasks
  BY <1>1, <1>2 DEF GoodTask
<1>9. Chain(<<t1, t2>>, a, Append(a, "stat"))
  BY <1>4, <1>8, <1>5, <1>6, ChainTwo, Zenon
<1> QED BY <1>7, <1>9 DEF t1, t2

\* What follows the name.
LEMMA DeclaratorTasks ==
    ASSUME NEW n \in Nat, NEW a \in Seq(Kinds), NEW name \in Names \cup {NULL},
           n = 0 => name \in Names
    PROVE  /\ AllGood(<<ParserTask("declarator", name)>>, n)
           /\ Chain(<<ParserTask("declarator", name)>>,
                    a, Append(a, "stat"))
<1> DEFINE t1 == ParserTask("declarator", name)
<1>1. GoodTask(t1, n)
  BY GoodNamedTask
<1>2. "expr" \in Kinds /\ "stat" \in Kinds /\ "block" \in Kinds
  BY DEF Kinds
<1>3. /\ Append(a, "stat") \in Seq(Kinds)
  BY <1>2, Appended
<1>4. Takes(t1, a, Append(a, "stat"))
  BY <1>2, <1>3, TakesStat
<1> HIDE DEF t1
<1>5. AllGood(<<t1>>, n)
  BY <1>1, ListOne, Zenon
<1>6. t1 \in ParserTasks
  BY <1>1 DEF GoodTask
<1>7. Chain(<<t1>>, a, Append(a, "stat"))
  BY <1>3, <1>6, <1>4, ChainOne, Zenon
<1> QED BY <1>5, <1>7 DEF t1

\* A call.
LEMMA CallTasks ==
    ASSUME NEW n \in Nat, NEW a \in Seq(Kinds), NEW name \in Names \cup {NULL},
           n = 0 => name \in Names
    PROVE  /\ AllGood(<<Match("LPAREN_TOK"), Match("RPAREN_TOK"),
                     Make(Named("FUNC_CALL", name), 0)>>, n)
           /\ Chain(<<Match("LPAREN_TOK"), Match("RPAREN_TOK"),
                      Make(Named("FUNC_CALL", name), 0)>>,
                    a, Append(a, "expr"))
<1> DEFINE t1 == Match("LPAREN_TOK")
           t2 == Match("RPAREN_TOK")
           t3 == Make(Named("FUNC_CALL", name), 0)
<1>1. GoodTask(t1, n)
  BY GoodMatch DEF TokenTypes
<1>2. GoodTask(t2, n)
  BY GoodMatch DEF TokenTypes
<1>3. GoodTask(t3, n)
  BY GoodNamed DEF HasName
<1>4. "expr" \in Kinds /\ "stat" \in Kinds /\ "block" \in Kinds
  BY DEF Kinds
<1>5. /\ Append(a, "expr") \in Seq(Kinds)
  BY <1>4, Appended
<1>6. Takes(t1, a, a)
  BY <1>4, <1>5, TakesMatch DEF TokenTypes
<1>7. Takes(t2, a, a)
  BY <1>4, <1>5, TakesMatch DEF TokenTypes
<1>8. Takes(t3, a, Append(a, "expr"))
  BY <1>4, <1>5, TakesNamed
<1> HIDE DEF t1, t2, t3
<1>9. AllGood(<<t1, t2, t3>>, n)
  BY <1>1, <1>2, <1>3, ListThree, Zenon
<1>10. t1 \in ParserTasks /\ t2 \in ParserTasks /\ t3 \in ParserTasks
  BY <1>1, <1>2, <1>3 DEF GoodTask
<1>11. Chain(<<t1, t2, t3>>, a, Append(a, "expr"))
  BY <1>5, <1>10, <1>6, <1>7, <1>8, ChainThree, Zenon
<1> QED BY <1>9, <1>11 DEF t1, t2, t3

\* A variable that is used.
LEMMA VarRefTasks ==
    ASSUME NEW n \in Nat, NEW a \in Seq(Kinds), NEW name \in Names \cup {NULL},
           n = 0 => name \in Names
    PROVE  /\ AllGood(<<Make(Named("VAR_REF", name), 0)>>, n)
           /\ Chain(<<Make(Named("VAR_REF", name), 0)>>,
                    a, Append(a, "expr"))
<1> DEFINE t1 == Make(Named("VAR_REF", name), 0)
<1>1. GoodTask(t1, n)
  BY GoodNamed DEF HasName
<1>2. "expr" \in Kinds /\ "stat" \in Kinds /\ "block" \in Kinds
  BY DEF Kinds
<1>3. /\ Append(a, "expr") \in Seq(Kinds)
  BY <1>2, Appended
<1>4. Takes(t1, a, Append(a, "expr"))
  BY <1>2, <1>3, TakesNamed
<1> HIDE DEF t1
<1>5. AllGood(<<t1>>, n)
  BY <1>1, ListOne, Zenon
<1>6. t1 \in ParserTasks
  BY <1>1 DEF GoodTask
<1>7. Chain(<<t1>>, a, Append(a, "expr"))
  BY <1>3, <1>6, <1>4, ChainOne, Zenon
<1> QED BY <1>5, <1>7 DEF t1

\* The right operand and the operator.
LEMMA OperandTasks ==
    ASSUME NEW n \in Nat, NEW a \in Seq(Kinds), NEW op \in Operators,
           NEW operand \in {"subexpr", "term"}
    PROVE  /\ AllGood(<<Parse(operand), Make(BinOp(op), 2)>>, n)
           /\ Chain(<<Parse(operand), Make(BinOp(op), 2)>>,
                    Append(a, "expr"), Append(a, "expr"))
<1> DEFINE t1 == Parse(operand)
           t2 == Make(BinOp(op), 2)
<1>1. GoodTask(t1, n)
  BY GoodParse DEF ParseFunctions
<1>2. GoodTask(t2, n)
  BY GoodBinOp
<1>3. "expr" \in Kinds /\ "stat" \in Kinds /\ "block" \in Kinds
  BY DEF Kinds
<1>4. /\ Append(a, "expr") \in Seq(Kinds)
      /\ Append(Append(a, "expr"), "expr") \in Seq(Kinds)
  BY <1>3, Appended
<1>5. Takes(t1, Append(a, "expr"), Append(Append(a, "expr"), "expr"))
  BY <1>3, <1>4, TakesExpr
<1>6. Takes(t2, Append(Append(a, "expr"), "expr"), Append(a, "expr"))
  BY <1>3, <1>4, TakesBinOp
<1> HIDE DEF t1, t2
<1>7. AllGood(<<t1, t2>>, n)
  BY <1>1, <1>2, ListTwo, Zenon
<1>8. t1 \in ParserTasks /\ t2 \in ParserTasks
  BY <1>1, <1>2 DEF GoodTask
<1>9. Chain(<<t1, t2>>, Append(a, "expr"), Append(a, "expr"))
  BY <1>4, <1>8, <1>5, <1>6, ChainTwo, Zenon
<1> QED BY <1>7, <1>9 DEF t1, t2

\* More operators of that rank.
LEMMA RestTasks ==
    ASSUME NEW n \in Nat, NEW a \in Seq(Kinds), NEW rest \in {"terms", "factors"}
    PROVE  /\ AllGood(<<Parse(rest)>>, n)
           /\ Chain(<<Parse(rest)>>,
                    Append(a, "expr"), Append(a, "expr"))
<1> DEFINE t1 == Parse(rest)
<1>1. GoodTask(t1, n)
  BY GoodParse DEF ParseFunctions
<1>2. "expr" \in Kinds /\ "stat" \in Kinds /\ "block" \in Kinds
  BY DEF Kinds
<1>3. /\ Append(a, "expr") \in Seq(Kinds)
  BY <1>2, Appended
<1>4. Takes(t1, Append(a, "expr"), Append(a, "expr"))
  BY <1>2, <1>3, TakesRest
<1> HIDE DEF t1
<1>5. AllGood(<<t1>>, n)
  BY <1>1, ListOne, Zenon
<1>6. t1 \in ParserTasks
  BY <1>1 DEF GoodTask
<1>7. Chain(<<t1>>, Append(a, "expr"), Append(a, "expr"))
  BY <1>3, <1>6, <1>4, ChainOne, Zenon
<1> QED BY <1>5, <1>7 DEF t1

-----------------------------------------------------------------------------
(* The other parse functions keep the invariant. *)

\* Where the parser is in the tokens.
LEMMA Position ==
    ASSUME ParserInv
    PROVE  /\ next \in 1 .. Len(tokens) /\ next \in Nat /\ Len(tokens) \in Nat
           /\ \A i \in 1 .. Len(tokens) :
                 /\ tokens[i] \in Token
                 /\ tokens[i].type # "PROGRAM_END_TOK" => i + 1 \in 1 .. Len(tokens)
                 /\ tokens[i].type = "IDENT_TOK" => tokens[i].name \in Names
           /\ errors \in Nat
<1>1. /\ tokens \in Seq(Token) /\ next \in 1 .. Len(tokens) /\ errors \in Nat
      /\ \A i \in DOMAIN tokens :
            /\ tokens[i].type = "PROGRAM_END_TOK" <=> i = Len(tokens)
            /\ tokens[i].type = "IDENT_TOK" <=> tokens[i].name # NULL
  BY DEF ParserInv, InPlace, IsTokenList
<1>2. Len(tokens) \in Nat /\ DOMAIN tokens = 1 .. Len(tokens)
      /\ \A i \in 1 .. Len(tokens) : tokens[i] \in Token
  BY <1>1
<1>3. \A i \in 1 .. Len(tokens) : tokens[i].name \in Names \cup {NULL}
  BY <1>2 DEF Token
<1>4. PICK n \in Nat : n = Len(tokens)
  BY <1>2
<1>5. \A i \in 1 .. n : i # n => i + 1 \in 1 .. n
  OBVIOUS
<1>6. ASSUME NEW i \in 1 .. n
      PROVE  /\ tokens[i] \in Token
             /\ tokens[i].type # "PROGRAM_END_TOK" => i + 1 \in 1 .. n
             /\ tokens[i].type = "IDENT_TOK" => tokens[i].name \in Names
  <2>1. /\ tokens[i].type = "PROGRAM_END_TOK" <=> i = n
        /\ tokens[i].type = "IDENT_TOK" <=> tokens[i].name # NULL
    BY <1>1, <1>2, <1>4
  <2>2. tokens[i] \in Token /\ tokens[i].name \in Names \cup {NULL}
    BY <1>2, <1>3, <1>4
  <2> QED BY <1>5, <2>1, <2>2
<1> QED BY <1>1, <1>4, <1>6

\* parse_stat, after the first branch of an if statement.
LEMMA ElseKeeps ==
    ASSUME ParserInv, ParseElse
    PROVE  ParserInv'
<1>1. /\ Doing("else") /\ pending # <<>> /\ parseStatus = "parsing" /\ Head(pending).do = "else"
      /\ errors \in Nat
  BY DEF ParseElse, Doing, ParserInv, InPlace
<1>2. \A a, m : Takes(Head(pending), a, m) =>
         \E K \in Seq(Kinds) : /\ a = Append(Append(K, "expr"), "stat")
                               /\ m = Append(K, "stat")
  BY <1>1 DEF Takes
<1>3. ASSUME NEW tasks, Unfold(tasks), AllGood(tasks, errors),
             \A K \in Seq(Kinds) :
                Chain(tasks, Append(Append(K, "expr"), "stat"), Append(K, "stat"))
      PROVE  ParserInv'
  <2>1. /\ Instead(tasks) /\ UNCHANGED <<tokens, built, parseStatus>> /\ next' = next /\ errors' = errors
    BY <1>3 DEF Unfold
  <2>2. next' \in 1 .. Len(tokens) /\ errors' \in Nat /\ AllGood(tasks, errors')
    BY <1>3, <2>1 DEF ParserInv, InPlace
  <2>3. ASSUME NEW a \in Seq(Kinds), NEW m \in Seq(Kinds),
               Stacked(built, Len(built), a), Takes(Head(pending), a, m)
        PROVE  \E b \in Seq(Kinds) : Stacked(built, Len(built), b) /\ Chain(tasks, b, m)
    <3>1. PICK K \in Seq(Kinds) : /\ a = Append(Append(K, "expr"), "stat")
                                  /\ m = Append(K, "stat")
      BY <1>2, <2>3
    <3>2. Chain(tasks, a, m)
      BY <1>3, <3>1
    <3> QED BY <2>3, <3>2
  <2> QED BY <1>1, <2>1, <2>2, <2>3, ContinueKeeps
<1>4. CASE Tok = "ELSE_TOK"
  <2> DEFINE tasks == <<Match("ELSE_TOK"), Parse("stat"), Make(Plain("IF_STAT"), 3)>>
  <2>1. Unfold(tasks)
    BY <1>4 DEF ParseElse
  <2>2. \A K \in Seq(Kinds) : /\ AllGood(tasks, errors)
                              /\ Chain(tasks, Append(Append(K, "expr"), "stat"),
                                       Append(K, "stat"))
    BY <1>1, ElseTasks, Zenon
  <2>3. AllGood(tasks, errors)
    <3>1. <<>> \in Seq(Kinds)
      OBVIOUS
    <3> QED BY <2>2, <3>1
  <2> HIDE DEF tasks
  <2> QED BY <1>3, <2>1, <2>2, <2>3
<1>5. CASE Tok # "ELSE_TOK"
  <2> DEFINE tasks == <<Make(Plain("IF_STAT"), 2)>>
  <2>1. Unfold(tasks)
    BY <1>5 DEF ParseElse
  <2>2. \A K \in Seq(Kinds) : /\ AllGood(tasks, errors)
                              /\ Chain(tasks, Append(Append(K, "expr"), "stat"),
                                       Append(K, "stat"))
    BY <1>1, NoElseTasks, Zenon
  <2>3. AllGood(tasks, errors)
    <3>1. <<>> \in Seq(Kinds)
      OBVIOUS
    <3> QED BY <2>2, <3>1
  <2> HIDE DEF tasks
  <2> QED BY <1>3, <2>1, <2>2, <2>3
<1> QED BY <1>4, <1>5

\* The loop of parse.
LEMMA ProgramKeeps ==
    ASSUME ParserInv, ParseProgram
    PROVE  ParserInv'
<1> DEFINE tasks == <<Parse("stat"), Parse("append"), Parse("program")>>
<1>1. /\ pending # <<>> /\ parseStatus = "parsing" /\ Head(pending).do = "program" /\ errors \in Nat
  BY DEF ParseProgram, Doing, ParserInv, InPlace
<1>2. \A a, m : Takes(Head(pending), a, m) => a = <<>> /\ m = <<>>
  BY <1>1 DEF Takes
<1>3. PICK work \in {<<>>, tasks} : Unfold(work)
  BY DEF ParseProgram
<1>4. AllGood(tasks, errors) /\ Chain(tasks, <<>>, <<>>)
  <2> DEFINE t1 == Parse("stat")
             t2 == Parse("append")
             t3 == Parse("program")
  <2>1. GoodTask(t1, errors)
    BY <1>1, GoodParse DEF ParseFunctions
  <2>2. GoodTask(t2, errors)
    BY <1>1, GoodParse DEF ParseFunctions
  <2>3. GoodTask(t3, errors)
    BY <1>1, GoodParse DEF ParseFunctions
  <2>4. <<>> \in Seq(Kinds) /\ Append(<<>>, "stat") \in Seq(Kinds)
    BY Appended DEF Kinds
  <2>5. Takes(t1, <<>>, Append(<<>>, "stat"))
    BY <2>4, TakesStat
  <2>6. Takes(t2, Append(<<>>, "stat"), <<>>)
    BY <2>4, TakesAppend
  <2>7. Takes(t3, <<>>, <<>>)
    BY TakesProgram
  <2> HIDE DEF t1, t2, t3
  <2>8. t1 \in ParserTasks /\ t2 \in ParserTasks /\ t3 \in ParserTasks
    BY <2>1, <2>2, <2>3 DEF GoodTask
  <2>9. Chain(<<t1, t2, t3>>, <<>>, <<>>)
    BY <2>4, <2>5, <2>6, <2>7, <2>8, ChainThree, Zenon
  <2>10. AllGood(<<t1, t2, t3>>, errors)
    BY <2>1, <2>2, <2>3, ListThree, Zenon
  <2> QED BY <2>9, <2>10 DEF t1, t2, t3
<1>5. AllGood(<<>>, errors) /\ Chain(<<>>, <<>>, <<>>)
  <2>1. AllGood(<<>>, errors)
    BY DEF AllGood
  <2>2. <<>> \in Seq(Kinds)
    OBVIOUS
  <2>3. Chain(<<>>, <<>>, <<>>)
    BY <2>2, ChainEmpty
  <2> QED BY <2>1, <2>3
<1> HIDE DEF tasks
<1>6. AllGood(work, errors) /\ Chain(work, <<>>, <<>>)
  BY <1>3, <1>4, <1>5
<1>7. Instead(work) /\ UNCHANGED <<tokens, built, parseStatus>> /\ next' = next /\ errors' = errors
  BY <1>3 DEF Unfold
<1>8. next' \in 1 .. Len(tokens) /\ errors' \in Nat /\ AllGood(work, errors')
  BY <1>6, <1>7 DEF ParserInv, InPlace
<1>9. \A a, m \in Seq(Kinds) :
         Stacked(built, Len(built), a) /\ Takes(Head(pending), a, m) =>
            \E b \in Seq(Kinds) : Stacked(built, Len(built), b) /\ Chain(work, b, m)
  BY <1>2, <1>6
<1> QED BY <1>1, <1>7, <1>8, <1>9, ContinueKeeps

\* A block may also be taken for the statement that it is.
LEMMA BlockIsStat ==
    ASSUME NEW trees, NEW n, NEW K \in Seq(Kinds), NEW kind \in {"block", "stat"},
           Stacked(trees, n, Append(K, "block"))
    PROVE  Stacked(trees, n, Append(K, kind))
<1>1. Len(K) \in Nat /\ "block" \in Kinds /\ kind \in Kinds
  BY DEF Kinds
<1>2. /\ Append(K, "block") \in Seq(Kinds) /\ Append(K, kind) \in Seq(Kinds)
      /\ Len(Append(K, "block")) = Len(K) + 1 /\ Len(Append(K, kind)) = Len(K) + 1
      /\ Append(K, "block")[Len(K) + 1] = "block" /\ Append(K, kind)[Len(K) + 1] = kind
      /\ \A i \in 1 .. Len(K) : Append(K, "block")[i] = K[i] /\ Append(K, kind)[i] = K[i]
  BY <1>1, Appended
<1>3. /\ n \in 1 .. Len(trees) /\ Len(K) + 1 = n - 1 /\ trees[1][1].type = "BLOCK_STAT"
      /\ \A i \in 1 .. n - 1 : trees[i + 1][1].type \in TypesOf(Append(K, "block")[i])
  BY <1>2 DEF Stacked
<1>4. TypesOf("block") \subseteq TypesOf(kind)
  BY DEF TypesOf, StatNodes, StatTypes
<1>5. ASSUME NEW i \in 1 .. n - 1
      PROVE  trees[i + 1][1].type \in TypesOf(Append(K, kind)[i])
  <2>1. CASE i = Len(K) + 1
    BY <1>2, <1>3, <1>4, <2>1
  <2>2. CASE i # Len(K) + 1
    <3>1. i \in 1 .. Len(K)
      BY <1>1, <1>3, <2>2
    <3>2. Append(K, "block")[i] = Append(K, kind)[i]
      BY <1>2, <3>1
    <3> QED BY <1>3, <3>2
  <2> QED BY <2>1, <2>2
<1> QED BY <1>2, <1>3, <1>5 DEF Stacked

\* The loop of parse_block_stat.
LEMMA StatsKeeps ==
    ASSUME ParserInv, ParseStats
    PROVE  ParserInv'
<1> DEFINE tasks == <<Parse("stat"), Parse("append"), Parse("stats")>>
<1>1. /\ pending # <<>> /\ parseStatus = "parsing" /\ Head(pending).do = "stats" /\ errors \in Nat
  BY DEF ParseStats, Doing, ParserInv, InPlace
<1>2. \A a, m : Takes(Head(pending), a, m) =>
         \E K \in Seq(Kinds), kind \in {"block", "stat"} :
            a = Append(K, "block") /\ m = Append(K, kind)
  BY <1>1 DEF Takes
<1>3. PICK work \in {<<>>, tasks} : Unfold(work)
  BY DEF ParseStats
<1>4. \A K \in Seq(Kinds), kind \in {"block", "stat"} :
         AllGood(tasks, errors) /\ Chain(tasks, Append(K, "block"), Append(K, kind))
  BY <1>1, StatsTasks, Zenon
<1>5. AllGood(tasks, errors) /\ AllGood(<<>>, errors)
  <2>1. <<>> \in Seq(Kinds) /\ "stat" \in {"block", "stat"}
    OBVIOUS
  <2>2. AllGood(tasks, errors)
    BY <1>4, <2>1
  <2>3. AllGood(<<>>, errors)
    BY DEF AllGood
  <2> QED BY <2>2, <2>3
<1> HIDE DEF tasks
<1>6. ASSUME NEW a \in Seq(Kinds), NEW m \in Seq(Kinds),
             Stacked(built, Len(built), a), Takes(Head(pending), a, m)
      PROVE  \E b \in Seq(Kinds) : Stacked(built, Len(built), b) /\ Chain(work, b, m)
  <2>1. PICK K \in Seq(Kinds), kind \in {"block", "stat"} :
           a = Append(K, "block") /\ m = Append(K, kind)
    BY <1>2, <1>6
  <2>2. CASE work = tasks
    BY <1>4, <1>6, <2>1, <2>2
  <2>3. CASE work = <<>>
    <3>1. Stacked(built, Len(built), m)
      BY <1>6, <2>1, BlockIsStat
    <3>2. Chain(<<>>, m, m)
      BY <1>6, ChainEmpty
    <3> QED BY <1>6, <2>3, <3>1, <3>2
  <2> QED BY <1>3, <2>2, <2>3
<1>7. Instead(work) /\ UNCHANGED <<tokens, built, parseStatus>> /\ next' = next /\ errors' = errors
  BY <1>3 DEF Unfold
<1>8. next' \in 1 .. Len(tokens) /\ errors' \in Nat /\ AllGood(work, errors')
  BY <1>3, <1>5, <1>7 DEF ParserInv, InPlace
<1> QED BY <1>1, <1>6, <1>7, <1>8, ContinueKeeps

\* match_token.
LEMMA MatchKeeps ==
    ASSUME ParserInv, MatchToken
    PROVE  ParserInv'
<1>1. /\ pending # <<>> /\ parseStatus = "parsing" /\ Head(pending).do = "match"
      /\ Instead(<<>>) /\ UNCHANGED <<tokens, built, parseStatus>>
  BY DEF MatchToken, Doing
<1>2. Head(pending).token # "PROGRAM_END_TOK"
  <2>1. pending \in Seq(ParserTasks) /\ \A i \in DOMAIN pending : GoodTask(pending[i], errors)
    BY DEF ParserInv, GoodTasks, AllGood
  <2>2. 1 \in DOMAIN pending /\ Head(pending) = pending[1]
    BY <1>1, <2>1
  <2> QED BY <1>1, <2>1, <2>2 DEF GoodTask
<1>3. next' \in 1 .. Len(tokens) /\ errors' \in Nat /\ (errors' = 0 => errors = 0)
  <2>1. CASE Head(pending).token = Tok
    BY <1>2, <2>1, Position DEF MatchToken, Tok
  <2>2. CASE Head(pending).token # Tok
    BY <2>2, Position DEF MatchToken
  <2> QED BY <2>1, <2>2
<1>4. AllGood(<<>>, errors')
  BY DEF AllGood
<1>5. \A a, m : Takes(Head(pending), a, m) => m = a
  BY <1>1 DEF Takes
<1>6. \A a, m \in Seq(Kinds) :
         Stacked(built, Len(built), a) /\ Takes(Head(pending), a, m) =>
            \E b \in Seq(Kinds) : Stacked(built, Len(built), b) /\ Chain(<<>>, b, m)
  BY <1>5, ChainEmpty
<1> QED BY <1>1, <1>3, <1>4, <1>6, ContinueKeeps

\* parse_stat, where no statement starts.
LEMMA InvalidKeeps ==
    ASSUME ParserInv, ParseInvalid
    PROVE  ParserInv'
<1>1. /\ pending # <<>> /\ parseStatus = "parsing" /\ Head(pending).do = "stat" /\ Instead(<<>>)
      /\ Push(Plain("INVALID_STAT")) /\ UNCHANGED <<tokens, parseStatus>>
  BY DEF ParseInvalid, Doing
<1>2. PICK stop \in next .. Len(tokens) :
         IF tokens[stop].type = "PROGRAM_END_TOK"
         THEN next' = stop /\ errors' = errors + 2
         ELSE next' = stop + 1 /\ errors' = errors + 1
  BY DEF ParseInvalid
<1>3. next' \in 1 .. Len(tokens) /\ errors' \in Nat /\ errors' # 0
  <2>1. stop \in 1 .. Len(tokens)
    BY Position
  <2>2. CASE tokens[stop].type = "PROGRAM_END_TOK"
    BY <1>2, <2>1, <2>2, Position
  <2>3. CASE tokens[stop].type # "PROGRAM_END_TOK"
    BY <1>2, <2>1, <2>3, Position
  <2> QED BY <2>2, <2>3
<1>4. /\ Plain("INVALID_STAT") \in Leaves /\ Plain("INVALID_STAT").type = "INVALID_STAT"
  BY PlainLeaf DEF NodeTypes, StatNodes, StatTypes
<1>5. /\ Children(Plain("INVALID_STAT"), <<>>)
      /\ Plain("INVALID_STAT").type \in TypesOf("stat") /\ "stat" \in Kinds
  BY <1>4 DEF Children, TypesOf, StatNodes, StatTypes, Kinds
<1>6. \A a, m : Takes(Head(pending), a, m) => m = Append(a, "stat")
  BY <1>1 DEF Takes
<1> QED BY <1>1, <1>3, <1>4, <1>5, <1>6, PushKeeps

\* parse_factor, where no factor starts.
LEMMA NoFactorKeeps ==
    ASSUME ParserInv, ParseNoFactor
    PROVE  ParserInv'
<1>1. /\ pending # <<>> /\ parseStatus = "parsing" /\ Head(pending).do = "factor" /\ Instead(<<>>)
      /\ Push(Plain("INVALID_EXPR")) /\ UNCHANGED <<tokens, parseStatus>>
      /\ next' = next /\ errors' = errors + 1
  BY DEF ParseNoFactor, Doing
<1>2. next' \in 1 .. Len(tokens) /\ errors' \in Nat /\ errors' # 0
  BY <1>1, Position
<1>3. /\ Plain("INVALID_EXPR") \in Leaves /\ Plain("INVALID_EXPR").type = "INVALID_EXPR"
  BY PlainLeaf DEF NodeTypes, ExprNodes, ExprTypes
<1>4. /\ Children(Plain("INVALID_EXPR"), <<>>)
      /\ Plain("INVALID_EXPR").type \in TypesOf("expr") /\ "expr" \in Kinds
  BY <1>3 DEF Children, TypesOf, ExprNodes, ExprTypes, Kinds
<1>5. \A a, m : Takes(Head(pending), a, m) => m = Append(a, "expr")
  BY <1>1 DEF Takes
<1> QED BY <1>1, <1>2, <1>3, <1>4, <1>5, PushKeeps

\* parse_factor: a literal.
LEMMA IntLitKeeps ==
    ASSUME ParserInv, ParseIntLit
    PROVE  ParserInv'
<1> DEFINE node == IntLit(tokens[next].ival)
<1>1. /\ pending # <<>> /\ parseStatus = "parsing" /\ Head(pending).do = "factor" /\ Instead(<<>>)
      /\ Push(node) /\ UNCHANGED <<tokens, parseStatus>>
      /\ next' = next + 1 /\ errors' = errors /\ Tok = "INT_LIT_TOK"
  BY DEF ParseIntLit, Doing
<1>2. next' \in 1 .. Len(tokens) /\ errors' \in Nat
  BY <1>1, Position DEF Tok
<1>3. tokens[next].ival \in Int
  BY Position DEF Token
<1>4. node \in Leaves /\ node.type = "INT_LIT"
  BY <1>3 DEF IntLit, Create, Leaves, NodeTypes, ExprNodes, ExprTypes
<1> HIDE DEF node
<1>5. /\ Children(node, <<>>) /\ Clean(node)
      /\ node.type \in TypesOf("expr") /\ "expr" \in Kinds
  BY <1>4 DEF Children, Clean, HasName, TypesOf, ExprNodes, ExprTypes, Kinds
<1>6. \A a, m : Takes(Head(pending), a, m) => m = Append(a, "expr")
  BY <1>1 DEF Takes
<1> QED BY <1>1, <1>2, <1>4, <1>5, <1>6, PushKeeps

\* parse_factor: a name.
LEMMA IdentKeeps ==
    ASSUME ParserInv, ParseIdent
    PROVE  ParserInv'
<1> DEFINE name == tokens[next].name
           call == <<Match("LPAREN_TOK"), Match("RPAREN_TOK"),
                     Make(Named("FUNC_CALL", name), 0)>>
           ref  == <<Make(Named("VAR_REF", name), 0)>>
<1>1. /\ Doing("factor") /\ UNCHANGED <<tokens, built, parseStatus>>
      /\ next' = next + 1 /\ errors' = errors /\ Tok = "IDENT_TOK"
      /\ Instead(IF tokens[next + 1].type = "LPAREN_TOK" THEN call ELSE ref)
  BY DEF ParseIdent
<1>2. name \in Names /\ errors \in Nat /\ next + 1 \in 1 .. Len(tokens)
  BY <1>1, Position DEF Tok
<1> HIDE DEF name
<1>3. \A a \in Seq(Kinds) : AllGood(call, errors) /\ Chain(call, a, Append(a, "expr"))
  <2> TAKE a \in Seq(Kinds)
  <2>1. name \in Names \cup {NULL} /\ (errors = 0 => name \in Names)
    BY <1>2
  <2> QED BY <1>2, <2>1, CallTasks, Zenon
<1>4. \A a \in Seq(Kinds) : AllGood(ref, errors) /\ Chain(ref, a, Append(a, "expr"))
  <2> TAKE a \in Seq(Kinds)
  <2>1. name \in Names \cup {NULL} /\ (errors = 0 => name \in Names)
    BY <1>2
  <2> QED BY <1>2, <2>1, VarRefTasks, Zenon
<1> HIDE DEF call, ref
<1>5. PICK tasks \in {call, ref} : Instead(tasks)
  BY <1>1
<1>6. \A a \in Seq(Kinds) : AllGood(tasks, errors') /\ Chain(tasks, a, Append(a, "expr"))
  BY <1>1, <1>3, <1>4, <1>5
<1>7. AllGood(tasks, errors')
  <2>1. <<>> \in Seq(Kinds)
    OBVIOUS
  <2> QED BY <1>6, <2>1
<1> QED BY <1>1, <1>2, <1>5, <1>6, <1>7, ExprCall

\* parse_declaration: the datatype and the name.
LEMMA DeclarationKeeps ==
    ASSUME ParserInv, ParseDeclaration
    PROVE  ParserInv'
<1> DEFINE target == tokens[next + 1]
           tasks  == <<ParserTask("declarator", target.name)>>
<1>1. /\ Doing("stat") /\ UNCHANGED <<tokens, built, parseStatus>> /\ Tok = "IDENT_TOK" /\ Instead(tasks)
      /\ IF target.type = "IDENT_TOK"
         THEN next' = next + 2 /\ errors' = errors
         ELSE next' = next + 1 /\ errors' = errors + 1
  BY DEF ParseDeclaration, AtStart
<1>2. next + 1 \in 1 .. Len(tokens) /\ errors \in Nat /\ next \in Nat /\ target \in Token
  BY <1>1, Position DEF Tok
<1>3. /\ target.type = "IDENT_TOK" => target.name \in Names /\ next + 1 + 1 \in 1 .. Len(tokens)
      /\ target.name \in Names \cup {NULL}
  <2>1. /\ target.type = "IDENT_TOK" => target.name \in Names
        /\ target.type # "PROGRAM_END_TOK" => next + 1 + 1 \in 1 .. Len(tokens)
    BY <1>2, Position
  <2>2. target.name \in Names \cup {NULL}
    BY <1>2 DEF Token
  <2> HIDE DEF target
  <2> QED BY <2>1, <2>2
<1> HIDE DEF target
<1>4. /\ next' \in 1 .. Len(tokens) /\ errors' \in Nat /\ (errors' = 0 => errors = 0)
      /\ errors' = 0 => target.name \in Names
  <2>1. CASE target.type = "IDENT_TOK"
    BY <1>1, <1>2, <1>3, <2>1
  <2>2. CASE target.type # "IDENT_TOK"
    BY <1>1, <1>2, <1>3, <2>2
  <2> QED BY <2>1, <2>2
<1>5. \A a \in Seq(Kinds) : AllGood(tasks, errors') /\ Chain(tasks, a, Append(a, "stat"))
  BY <1>3, <1>4, DeclaratorTasks, Zenon
<1> HIDE DEF tasks
<1>6. AllGood(tasks, errors')
  <2>1. <<>> \in Seq(Kinds)
    OBVIOUS
  <2> QED BY <1>5, <2>1
<1> QED BY <1>1, <1>4, <1>5, <1>6, StatCall

\* The name of a declaration, at its first task.
LEMMA DeclaredName ==
    ASSUME ParserInv, NEW do \in {"declarator", "body"}, Doing(do)
    PROVE  /\ Head(pending).name \in Names \cup {NULL}
           /\ errors = 0 => Head(pending).name \in Names
<1>1. pending \in Seq(ParserTasks) /\ \A i \in DOMAIN pending : GoodTask(pending[i], errors)
  BY DEF ParserInv, GoodTasks, AllGood
<1>2. 1 \in DOMAIN pending /\ Head(pending) = pending[1] /\ Head(pending).do = do
  BY <1>1 DEF Doing
<1>3. GoodTask(Head(pending), errors) /\ Head(pending) \in ParserTasks
  BY <1>1, <1>2 DEF GoodTask
<1>4. Head(pending).name \in Names \cup {NULL}
  BY <1>3 DEF ParserTasks
<1> QED BY <1>2, <1>3, <1>4 DEF GoodTask

\* parse_declaration: after the name.
LEMMA DeclaratorKeeps ==
    ASSUME ParserInv, ParseDeclarator
    PROVE  ParserInv'
<1> DEFINE name == Head(pending).name
           func == <<Match("LPAREN_TOK"), Match("RPAREN_TOK"), ParserTask("body", name)>>
           init == <<Match("ASSIGN_TOK"), Parse("expr"), Make(Named("DECL_STAT", name), 1),
                     Match("SCOL_TOK")>>
           var  == <<Make(Named("DECL_STAT", name), 0), Match("SCOL_TOK")>>
<1>1. Doing("declarator")
  BY DEF ParseDeclarator
<1>2. name \in Names \cup {NULL} /\ (errors = 0 => name \in Names) /\ errors \in Nat
  BY <1>1, DeclaredName, Position
<1>3. PICK tasks \in {func, init, var} : Unfold(tasks)
  <2>1. CASE Tok = "LPAREN_TOK"
    BY <2>1 DEF ParseDeclarator
  <2>2. CASE Tok = "ASSIGN_TOK"
    BY <2>2 DEF ParseDeclarator
  <2>3. CASE Tok \notin {"LPAREN_TOK", "ASSIGN_TOK"}
    BY <2>3 DEF ParseDeclarator
  <2> QED BY <2>1, <2>2, <2>3
<1> HIDE DEF name
<1>4. \A a \in Seq(Kinds) : AllGood(func, errors) /\ Chain(func, a, Append(a, "stat"))
  BY <1>2, FuncTasks, Zenon
<1>5. \A a \in Seq(Kinds) : AllGood(init, errors) /\ Chain(init, a, Append(a, "stat"))
  BY <1>2, InitTasks, Zenon
<1>6. \A a \in Seq(Kinds) : AllGood(var, errors) /\ Chain(var, a, Append(a, "stat"))
  BY <1>2, VarTasks, Zenon
<1> HIDE DEF func, init, var
<1>7. \A a \in Seq(Kinds) : AllGood(tasks, errors) /\ Chain(tasks, a, Append(a, "stat"))
  BY <1>3, <1>4, <1>5, <1>6
<1>8. AllGood(tasks, errors)
  <2>1. <<>> \in Seq(Kinds)
    OBVIOUS
  <2> QED BY <1>7, <2>1
<1> QED BY <1>1, <1>3, <1>7, <1>8, StatContinue

\* Two lists of good tasks.
LEMMA GoodConcat ==
    ASSUME NEW n, NEW s, NEW t, AllGood(s, n), AllGood(t, n)
    PROVE  AllGood(s \o t, n)
<1>1. s \in Seq(ParserTasks) /\ t \in Seq(ParserTasks)
  BY DEF AllGood
<1>2. /\ s \o t \in Seq(ParserTasks)
      /\ \A i \in DOMAIN (s \o t) : \/ i \in DOMAIN s /\ (s \o t)[i] = s[i]
                                    \/ /\ i - Len(s) \in DOMAIN t
                                       /\ (s \o t)[i] = t[i - Len(s)]
  BY <1>1, ConcatPlaces
<1> QED BY <1>2 DEF AllGood

\* parse_declaration: after the parentheses.
LEMMA BodyKeeps ==
    ASSUME ParserInv, ParseBody
    PROVE  ParserInv'
<1> DEFINE name == Head(pending).name
           make == Make(FuncDecl(name), 1)
           decl == <<Make(FuncDecl(name), 0), Match("SCOL_TOK")>>
<1>1. Doing("body")
  BY DEF ParseBody
<1>2. name \in Names \cup {NULL} /\ (errors = 0 => name \in Names) /\ errors \in Nat
  BY <1>1, DeclaredName, Position
<1>3. PICK tasks \in {Append(Block, make), decl} : Unfold(tasks)
  BY DEF ParseBody
<1> HIDE DEF name
<1>4. \A a \in Seq(Kinds) : AllGood(decl, errors) /\ Chain(decl, a, Append(a, "stat"))
  BY <1>2, FuncDeclTasks, Zenon
<1>5. \A a \in Seq(Kinds) : AllGood(Block, errors) /\ Chain(Block, a, Append(a, "block"))
  BY <1>2, BodyTasks, Zenon DEF Block
<1>6. \A a \in Seq(Kinds) : /\ AllGood(<<make>>, errors)
                            /\ Chain(<<make>>, Append(a, "block"), Append(a, "stat"))
  BY <1>2, FuncBodyTasks, Zenon
<1>7. Append(Block, make) = Block \o <<make>>
  <2>1. <<>> \in Seq(Kinds)
    OBVIOUS
  <2>2. Block \in Seq(ParserTasks) /\ <<make>> \in Seq(ParserTasks)
    BY <1>5, <1>6, <2>1 DEF AllGood
  <2>3. make \in ParserTasks
    <3>1. <<make>>[1] = make /\ 1 \in DOMAIN <<make>>
      OBVIOUS
    <3> QED BY <2>2, <3>1
  <2> QED BY <2>2, <2>3, AppendIsConcat
<1> HIDE DEF make, decl
<1>8. ASSUME NEW a \in Seq(Kinds)
      PROVE  /\ AllGood(Block \o <<make>>, errors)
             /\ Chain(Block \o <<make>>, a, Append(a, "stat"))
  <2>1. AllGood(Block \o <<make>>, errors)
    BY <1>5, <1>6, <1>8, GoodConcat
  <2>2. Block \in Seq(ParserTasks) /\ <<make>> \in Seq(ParserTasks)
    BY <1>5, <1>6, <1>8 DEF AllGood
  <2>3. Chain(Block \o <<make>>, a, Append(a, "stat"))
    BY <1>5, <1>6, <1>8, <2>2, ChainConcat
  <2> QED BY <2>1, <2>3
<1>9. \A a \in Seq(Kinds) : AllGood(tasks, errors) /\ Chain(tasks, a, Append(a, "stat"))
  BY <1>3, <1>4, <1>7, <1>8
<1>10. AllGood(tasks, errors)
  <2>1. <<>> \in Seq(Kinds)
    OBVIOUS
  <2> QED BY <1>9, <2>1
<1> QED BY <1>1, <1>3, <1>9, <1>10, StatContinue

\* An operator and its right operand, and what may follow; or nothing.
LEMMA OperatorKeeps ==
    ASSUME ParserInv, NEW do \in {"comparison", "terms", "factors"}, Doing(do),
           NEW opOf, \A x \in DOMAIN opOf : opOf[x] \in Operators /\ x # "PROGRAM_END_TOK",
           NEW operand \in {"subexpr", "term"}, NEW rest, AllGood(rest, errors),
           \A K \in Seq(Kinds) : Chain(rest, Append(K, "expr"), Append(K, "expr")),
           Operator(opOf, operand, rest)
    PROVE  ParserInv'
<1>1. /\ pending # <<>> /\ parseStatus = "parsing" /\ Head(pending).do = do /\ errors \in Nat
  BY Position DEF Doing
<1>2. \A a, m : Takes(Head(pending), a, m) => m = a /\ \E K \in Seq(Kinds) : a = Append(K, "expr")
  BY <1>1 DEF Takes
<1>3. CASE Tok \in DOMAIN opOf
  <2> DEFINE op == opOf[Tok]
             first == <<Parse(operand), Make(BinOp(op), 2)>>
             tasks == first \o rest
  <2>1. /\ Instead(tasks) /\ next' = next + 1 /\ UNCHANGED <<tokens, built, parseStatus>>
        /\ errors' = errors
    BY <1>3 DEF Operator
  <2>2. op \in Operators /\ next + 1 \in 1 .. Len(tokens)
    BY <1>3, Position DEF Tok
  <2> HIDE DEF op
  <2>3. \A K \in Seq(Kinds) : /\ AllGood(first, errors)
                              /\ Chain(first, Append(K, "expr"), Append(K, "expr"))
    BY <1>1, <2>2, OperandTasks, Zenon
  <2> HIDE DEF first
  <2>4. AllGood(first, errors) /\ AllGood(tasks, errors)
    <3>1. <<>> \in Seq(Kinds)
      OBVIOUS
    <3>2. AllGood(first, errors)
      BY <2>3, <3>1
    <3> QED BY <3>2, GoodConcat
  <2>5. first \in Seq(ParserTasks) /\ rest \in Seq(ParserTasks)
    BY <2>4 DEF AllGood
  <2>6. \A K \in Seq(Kinds) : Chain(tasks, Append(K, "expr"), Append(K, "expr"))
    <3> TAKE K \in Seq(Kinds)
    <3>1. /\ Chain(first, Append(K, "expr"), Append(K, "expr"))
          /\ Chain(rest, Append(K, "expr"), Append(K, "expr"))
      BY <2>3
    <3> QED BY <2>5, <3>1, ChainConcat
  <2> HIDE DEF tasks
  <2>7. ASSUME NEW a \in Seq(Kinds), NEW m \in Seq(Kinds),
               Stacked(built, Len(built), a), Takes(Head(pending), a, m)
        PROVE  \E b \in Seq(Kinds) : Stacked(built, Len(built), b) /\ Chain(tasks, b, m)
    <3>1. m = a /\ \E K \in Seq(Kinds) : a = Append(K, "expr")
      BY <1>2, <2>7
    <3>2. PICK K \in Seq(Kinds) : a = Append(K, "expr")
      BY <3>1
    <3>3. Chain(tasks, a, a)
      BY <2>6, <3>2
    <3> QED BY <2>7, <3>1, <3>3
  <2>8. next' \in 1 .. Len(tokens) /\ errors' \in Nat /\ AllGood(tasks, errors')
    BY <1>1, <2>1, <2>2, <2>4
  <2> QED BY <1>1, <2>1, <2>7, <2>8, ContinueKeeps
<1>4. CASE Tok \notin DOMAIN opOf
  <2>1. /\ Instead(<<>>) /\ next' = next /\ UNCHANGED <<tokens, built, parseStatus>> /\ errors' = errors
    BY <1>4 DEF Operator, Unfold
  <2>2. next' \in 1 .. Len(tokens) /\ errors' \in Nat
    BY <2>1, Position
  <2>3. AllGood(<<>>, errors')
    BY DEF AllGood
  <2>4. \A a, m \in Seq(Kinds) :
           Stacked(built, Len(built), a) /\ Takes(Head(pending), a, m) =>
              \E b \in Seq(Kinds) : Stacked(built, Len(built), b) /\ Chain(<<>>, b, m)
    BY <1>2, ChainEmpty
  <2> QED BY <1>1, <2>1, <2>2, <2>3, <2>4, ContinueKeeps
<1> QED BY <1>3, <1>4

\* The operators that the tokens stand for.
LEMMA OperatorTypes ==
    /\ \A x \in DOMAIN ExprOpOf : ExprOpOf[x] \in Operators /\ x # "PROGRAM_END_TOK"
    /\ \A x \in DOMAIN TermOpOf : TermOpOf[x] \in Operators /\ x # "PROGRAM_END_TOK"
    /\ \A x \in DOMAIN FactorOpOf : FactorOpOf[x] \in Operators /\ x # "PROGRAM_END_TOK"
BY DEF ExprOpOf, TermOpOf, FactorOpOf, Operators, ArithOps, CompareOps

\* parse_expr, after the first operand.
LEMMA ComparisonKeeps ==
    ASSUME ParserInv, ParseComparison
    PROVE  ParserInv'
<1>1. Doing("comparison") /\ Operator(ExprOpOf, "subexpr", <<>>)
  BY DEF ParseComparison
<1>2. AllGood(<<>>, errors)
  BY DEF AllGood
<1>3. \A K \in Seq(Kinds) : Chain(<<>>, Append(K, "expr"), Append(K, "expr"))
  <2> TAKE K \in Seq(Kinds)
  <2>1. Append(K, "expr") \in Seq(Kinds)
    BY Appended DEF Kinds
  <2> QED BY <2>1, ChainEmpty
<1>4. \A x \in DOMAIN ExprOpOf : ExprOpOf[x] \in Operators /\ x # "PROGRAM_END_TOK"
  BY OperatorTypes
<1> QED BY <1>1, <1>2, <1>3, <1>4, OperatorKeeps

\* The loop of parse_subexpr.
LEMMA TermsKeeps ==
    ASSUME ParserInv, ParseTerms
    PROVE  ParserInv'
<1> DEFINE rest == <<Parse("terms")>>
<1>1. Doing("terms") /\ Operator(TermOpOf, "term", rest)
  BY DEF ParseTerms
<1>2. \A K \in Seq(Kinds) : AllGood(rest, errors)
      /\ Chain(rest, Append(K, "expr"), Append(K, "expr"))
  BY Position, RestTasks, Zenon
<1>3. AllGood(rest, errors)
  <2>1. <<>> \in Seq(Kinds)
    OBVIOUS
  <2> QED BY <1>2, <2>1
<1>4. \A x \in DOMAIN TermOpOf : TermOpOf[x] \in Operators /\ x # "PROGRAM_END_TOK"
  BY OperatorTypes
<1> HIDE DEF rest
<1> QED BY <1>1, <1>2, <1>3, <1>4, OperatorKeeps

\* The loop of parse_term.
LEMMA FactorsKeeps ==
    ASSUME ParserInv, ParseFactors
    PROVE  ParserInv'
<1> DEFINE rest == <<Parse("factors")>>
<1>1. Doing("factors") /\ Operator(FactorOpOf, "term", rest)
  BY DEF ParseFactors
<1>2. \A K \in Seq(Kinds) : AllGood(rest, errors)
      /\ Chain(rest, Append(K, "expr"), Append(K, "expr"))
  BY Position, RestTasks, Zenon
<1>3. AllGood(rest, errors)
  <2>1. <<>> \in Seq(Kinds)
    OBVIOUS
  <2> QED BY <1>2, <2>1
<1>4. \A x \in DOMAIN FactorOpOf : FactorOpOf[x] \in Operators /\ x # "PROGRAM_END_TOK"
  BY OperatorTypes
<1> HIDE DEF rest
<1> QED BY <1>1, <1>2, <1>3, <1>4, OperatorKeeps

\* The last nodes of the stack become the children of a new node.
LEMMA MakeKeeps ==
    ASSUME ParserInv, MakeNode
    PROVE  ParserInv'
<1> DEFINE node  == Head(pending).node
           n     == Len(built)
           rest  == n - Head(pending).arity
           kept  == SubSeq(built, 1, rest)
           kids  == SubSeq(built, rest + 1, n)
           made  == Over(node, kids)
<1>1. /\ pending # <<>> /\ parseStatus = "parsing" /\ Head(pending).do = "make" /\ Instead(<<>>)
      /\ built' = Append(kept, made)
      /\ tokens' = tokens /\ next' = next /\ errors' = errors /\ parseStatus' = parseStatus
  BY DEF MakeNode, Doing
<1>2. node \in Leaves /\ (errors = 0 => Clean(node))
  <2>1. pending \in Seq(ParserTasks) /\ \A i \in DOMAIN pending : GoodTask(pending[i], errors)
    BY DEF ParserInv, GoodTasks, AllGood
  <2>2. 1 \in DOMAIN pending /\ Head(pending) = pending[1]
    BY <1>1, <2>1
  <2>3. GoodTask(Head(pending), errors) /\ Head(pending) \in ParserTasks
    BY <2>1, <2>2 DEF GoodTask
  <2>4. node \in Leaves
    BY <2>3 DEF ParserTasks
  <2> QED BY <1>1, <2>3, <2>4 DEF GoodTask
<1>3. PICK a, m \in Seq(Kinds) : /\ Stacked(built, n, a) /\ Takes(Head(pending), a, m)
                                 /\ Chain(Tail(pending), m, <<>>)
  BY <1>1, FirstTask
<1>4. PICK K, kinds \in Seq(Kinds), kind \in Kinds :
         /\ Children(node, kinds) /\ Len(kinds) = Head(pending).arity
         /\ node.type \in TypesOf(kind) /\ a = K \o kinds /\ m = Append(K, kind)
  BY <1>1, <1>3 DEF Takes
<1>5. /\ built \in Seq(Trees) /\ DOMAIN built = 1 .. n
      /\ errors = 0 => \A i \in DOMAIN built : CleanTree(built[i])
  BY LenProperties DEF ParserInv, WholeSoFar
<1>6. /\ n \in Nat /\ Len(K) \in Nat /\ Len(kinds) \in Nat
      /\ Len(a) = Len(K) + Len(kinds) /\ Len(a) = n - 1
      /\ \A i \in 1 .. Len(K) : a[i] = K[i]
      /\ \A i \in 1 .. Len(kinds) : a[i + Len(K)] = kinds[i]
      /\ built[1][1].type = "BLOCK_STAT"
      /\ \A i \in 1 .. n - 1 : built[i + 1][1].type \in TypesOf(a[i])
  <2>1. /\ Len(K) \in Nat /\ Len(kinds) \in Nat /\ Len(a) = Len(K) + Len(kinds)
        /\ DOMAIN K = 1 .. Len(K) /\ DOMAIN kinds = 1 .. Len(kinds)
        /\ \A i \in DOMAIN K : a[i] = K[i]
        /\ \A i \in DOMAIN kinds : a[i + Len(K)] = kinds[i]
    <3>1. a = K \o kinds
      BY <1>4
    <3> QED BY <3>1, ConcatPlaces
  <2>2. n \in Nat
    BY <1>5
  <2> QED BY <1>3, <2>1, <2>2 DEF Stacked
<1>7. rest = Len(K) + 1 /\ rest \in 1 .. n /\ n - rest = Len(kinds)
  BY <1>4, <1>6
<1> HIDE DEF rest, node, n
<1>8. /\ kept \in Seq(Trees) /\ Len(kept) = rest
      /\ \A i \in 1 .. rest : kept[i] = built[i]
  <2>1. \A i \in 1 .. rest : built[i] \in Trees
    BY <1>5, <1>6, <1>7 DEF n
  <2>2. /\ SubSeq(built, 1, rest) \in Seq(Trees)
        /\ Len(SubSeq(built, 1, rest)) = IF 1 <= rest THEN rest - 1 + 1 ELSE 0
        /\ \A i \in 1 .. rest - 1 + 1 : SubSeq(built, 1, rest)[i] = built[1 + i - 1]
    BY <1>6, <1>7, <2>1, SubSeqProperties
  <2>3. 1 <= rest /\ rest - 1 + 1 = rest /\ \A i \in 1 .. rest : 1 + i - 1 = i
    BY <1>6, <1>7
  <2> QED BY <2>2, <2>3
<1>9. /\ kids \in Seq(Trees) /\ Len(kids) = Len(kinds)
      /\ \A i \in 1 .. Len(kinds) : kids[i] = built[i + Len(K) + 1]
  <2>1. \A i \in rest + 1 .. n : built[i] \in Trees
    BY <1>5, <1>6, <1>7 DEF n
  <2>2. /\ SubSeq(built, rest + 1, n) \in Seq(Trees)
        /\ Len(SubSeq(built, rest + 1, n)) = IF rest + 1 <= n THEN n - (rest + 1) + 1 ELSE 0
        /\ \A i \in 1 .. n - (rest + 1) + 1 :
              SubSeq(built, rest + 1, n)[i] = built[rest + 1 + i - 1]
    BY <1>6, <1>7, <2>1, SubSeqProperties
  <2>3. /\ n - (rest + 1) + 1 = Len(kinds)
        /\ ~(rest + 1 <= n) => Len(kinds) = 0
        /\ \A i \in 1 .. Len(kinds) : rest + 1 + i - 1 = i + Len(K) + 1
    BY <1>6, <1>7
  <2> QED BY <2>2, <2>3
<1> HIDE DEF kept, kids
<1>10. \A i \in 1 .. Len(kids) : kids[i][1].type \in TypesOf(kinds[i])
  <2>1. ASSUME NEW i \in 1 .. Len(kinds)
        PROVE  kids[i][1].type \in TypesOf(kinds[i])
    <3>1. i + Len(K) \in 1 .. n - 1
      BY <1>6
    <3> QED BY <1>6, <1>9, <3>1
  <2> QED BY <1>9, <2>1
<1>11. /\ made \in Trees /\ made[1].type = node.type
       /\ (Clean(node) /\ \A i \in 1 .. Len(kids) : CleanTree(kids[i])) => CleanTree(made)
  <2>1. /\ WholeBelow(made) /\ Alike(made[1], node)
        /\ KidsAre(made, made[1], kinds, Len(kids))
        /\ (Clean(node) /\ \A i \in 1 .. Len(kids) : CleanTree(kids[i])) => CleanTree(made)
    BY <1>2, <1>9, <1>10, OverTrees
  <2> HIDE DEF made
  <2>2. Children(made[1], kinds) /\ made[1].type = node.type
    BY <1>4, <2>1, ChildrenSame DEF Alike
  <2>3. Whole(made, made[1])
    BY <1>9, <2>1, <2>2 DEF Whole
  <2> QED BY <2>1, <2>2, <2>3 DEF Trees, WholeTree, WholeBelow, IsTree, IsTable, Tables
<1> HIDE DEF made
<1>12. Stacked(kept, rest, K)
  <2>1. ASSUME NEW i \in 1 .. rest - 1
        PROVE  kept[i + 1][1].type \in TypesOf(K[i])
    <3>1. i \in 1 .. n - 1 /\ i \in 1 .. Len(K) /\ i + 1 \in 1 .. rest
      BY <1>6, <1>7
    <3> QED BY <1>6, <1>8, <3>1
  <2>2. 1 \in 1 .. rest /\ rest \in 1 .. Len(kept) /\ Len(K) = rest - 1
    BY <1>6, <1>7, <1>8
  <2> QED BY <1>6, <1>8, <2>1, <2>2 DEF Stacked
<1>13. Stacked(built', Len(built'), m)
  <2>1. made[1].type \in TypesOf(kind)
    BY <1>4, <1>11
  <2> QED BY <1>1, <1>4, <1>8, <1>12, <2>1, HoldsMore
<1>14. Typed'
  <2>1. <<>> \in Seq(ParserTasks) /\ Chain(<<>>, m, m)
    BY ChainEmpty
  <2> QED BY <1>1, <1>3, <1>13, <2>1, TypedKept
<1>15. GoodTasks'
  <2>1. AllGood(<<>>, errors')
    BY DEF AllGood
  <2> QED BY <1>1, <2>1, GoodTasksKept
<1>16. WholeSoFar'
  <2>1. errors' = 0 => errors = 0 /\ CleanTree(made)
    <3>1. \A i \in 1 .. Len(kids) : i + Len(K) + 1 \in 1 .. n
      BY <1>6, <1>7, <1>9
    <3> QED BY <1>1, <1>2, <1>5, <1>9, <1>11, <3>1
  <2>2. rest \in 0 .. Len(built)
    BY <1>6, <1>7 DEF n
  <2> QED BY <1>1, <1>8, <1>11, <2>1, <2>2, WholeKept DEF ParserInv
<1>17. InPlace'
  BY <1>1 DEF ParserInv, InPlace, IsTokenList
<1> QED BY <1>14, <1>15, <1>16, <1>17 DEF ParserInv

\* A statement becomes the last child of the block below it.
LEMMA AppendKeeps ==
    ASSUME ParserInv, AppendStat
    PROVE  ParserInv'
<1> DEFINE n     == Len(built)
           block == built[n - 1]
           stat  == built[n]
           kept  == SubSeq(built, 1, n - 2)
           made  == Hang(block, stat)
<1>1. /\ pending # <<>> /\ parseStatus = "parsing" /\ Head(pending).do = "append" /\ Instead(<<>>)
      /\ built' = Append(kept, made)
      /\ tokens' = tokens /\ next' = next /\ errors' = errors /\ parseStatus' = parseStatus
  BY DEF AppendStat, Doing
<1>2. PICK a, m \in Seq(Kinds) : /\ Stacked(built, n, a) /\ Takes(Head(pending), a, m)
                                 /\ Chain(Tail(pending), m, <<>>)
  BY <1>1, FirstTask
<1>3. /\ Len(m) \in Nat /\ Len(a) = Len(m) + 1 /\ a[Len(a)] = "stat"
      /\ \A i \in 1 .. Len(m) : m[i] = a[i]
      /\ Len(m) # 0 => m[Len(m)] = "block"
  <2>1. CASE a = <<"stat">> /\ m = <<>>
    BY <2>1
  <2>2. ASSUME NEW K \in Seq(Kinds), a = Append(Append(K, "block"), "stat"),
               m = Append(K, "block")
        PROVE  /\ Len(m) \in Nat /\ Len(a) = Len(m) + 1 /\ a[Len(a)] = "stat"
               /\ \A i \in 1 .. Len(m) : m[i] = a[i]
               /\ Len(m) # 0 => m[Len(m)] = "block"
    <3>1. Len(m) = Len(K) + 1 /\ m[Len(K) + 1] = "block" /\ Len(K) \in Nat
      BY <2>2, Appended DEF Kinds
    <3>2. a = Append(m, "stat")
      BY <2>2
    <3>3. /\ Len(a) = Len(m) + 1 /\ a[Len(m) + 1] = "stat"
          /\ \A i \in 1 .. Len(m) : a[i] = m[i]
      BY <3>2, Appended DEF Kinds
    <3> QED BY <3>1, <3>3
  <2>3. \/ a = <<"stat">> /\ m = <<>>
        \/ \E K \in Seq(Kinds) : /\ a = Append(Append(K, "block"), "stat")
                                 /\ m = Append(K, "block")
    BY <1>1, <1>2 DEF Takes
  <2> QED BY <2>1, <2>2, <2>3
<1>4. /\ built \in Seq(Trees) /\ DOMAIN built = 1 .. n
      /\ errors = 0 => \A i \in DOMAIN built : CleanTree(built[i])
  BY LenProperties DEF ParserInv, WholeSoFar
<1>5. /\ n \in Nat /\ n = Len(m) + 2 /\ n - 1 \in 1 .. n /\ built[1][1].type = "BLOCK_STAT"
      /\ \A i \in 1 .. Len(m) + 1 : built[i + 1][1].type \in TypesOf(a[i])
      /\ \A i \in 1 .. n : built[i] \in Trees
  <2>1. n \in Nat /\ Len(a) = n - 1 /\ built[1][1].type = "BLOCK_STAT"
        /\ \A i \in 1 .. n - 1 : built[i + 1][1].type \in TypesOf(a[i])
    BY <1>2, <1>4 DEF Stacked
  <2>2. \A i \in 1 .. n : built[i] \in Trees
    BY <1>4
  <2> HIDE DEF n
  <2> QED BY <1>3, <2>1, <2>2
<1> HIDE DEF n
<1>6. block[1].type = "BLOCK_STAT" /\ stat[1].type \in StatNodes /\ block \in Trees /\ stat \in Trees
  <2>1. stat[1].type \in TypesOf("stat")
    <3>1. Len(m) + 1 \in 1 .. Len(m) + 1 /\ Len(m) + 1 + 1 = n
      BY <1>3, <1>5
    <3> QED BY <1>3, <1>5, <3>1
  <2>2. block[1].type = "BLOCK_STAT"
    <3>1. CASE Len(m) = 0
      <4>1. n - 1 = 1
        BY <1>5, <3>1
      <4> QED BY <1>5, <4>1
    <3>2. CASE Len(m) # 0
      <4>1. Len(m) \in 1 .. Len(m) + 1 /\ Len(m) \in 1 .. Len(m) /\ Len(m) + 1 = n - 1
        BY <1>3, <1>5, <3>2
      <4>2. block[1].type \in TypesOf("block")
        BY <1>3, <1>5, <3>2, <4>1
      <4> QED BY <4>2 DEF TypesOf
    <3> QED BY <3>1, <3>2
  <2>3. n \in 1 .. n
    BY <1>3, <1>5
  <2>4. stat[1].type \in StatNodes
    BY <2>1 DEF TypesOf
  <2> QED BY <1>5, <2>2, <2>3, <2>4
<1> HIDE DEF block, stat
<1>7. WholeTree(block) /\ IsTree(block) /\ WholeTree(stat) /\ IsTree(stat)
  BY <1>6 DEF Trees, WholeTree, WholeBelow
<1>8. PICK kinds \in Seq(Kinds) : /\ Children(block[1], kinds)
                                  /\ KidsAre(block, block[1], kinds, Len(kinds))
  BY <1>7 DEF WholeTree, Whole
<1>9. PICK more : /\ more \in Seq({"stat"}) /\ more \in Seq(Kinds) /\ Len(kinds) \in Nat
                  /\ Len(more) = Len(kinds) + 1 /\ more[Len(kinds) + 1] = "stat"
                  /\ \A i \in 1 .. Len(kinds) : more[i] = kinds[i]
  <2>1. kinds \in Seq({"stat"})
    BY <1>6, <1>8 DEF Children
  <2>2. Append(kinds, "stat") \in Seq({"stat"}) /\ Len(kinds) \in Nat
    BY <2>1, AppendProperties, LenProperties
  <2>3. "stat" \in Kinds
    BY DEF Kinds
  <2>4. PICK more : more = Append(kinds, "stat")
    OBVIOUS
  <2>5. /\ more \in Seq(Kinds) /\ Len(more) = Len(kinds) + 1 /\ more[Len(kinds) + 1] = "stat"
        /\ \A i \in 1 .. Len(kinds) : more[i] = kinds[i]
    BY <2>3, <2>4, Appended
  <2> QED BY <2>2, <2>4, <2>5
<1>10. Hung(made, block, stat)
  BY <1>7, HangIsHung DEF IsTree
<1> HIDE DEF made
<1>11. /\ made \in Trees /\ made[1].type = "BLOCK_STAT"
       /\ CleanTree(block) /\ CleanTree(stat) => CleanTree(made)
  <2>1. WholeBelow(made)
    BY <1>7, <1>10, HangBelow DEF WholeTree
  <2>2. KidsAre(made, made[1], more, Len(more))
    <3>1. KidsAre(block, block[1], more, Len(kinds))
      BY <1>8, <1>9 DEF KidsAre
    <3>2. stat[1].type \in TypesOf(more[Len(kinds) + 1])
      BY <1>6, <1>9 DEF TypesOf
    <3> QED BY <1>7, <1>9, <1>10, <3>1, <3>2, HangKids
  <2>3. made[1].type = "BLOCK_STAT"
    BY <1>6, <1>10 DEF Hung, Alike
  <2>4. Whole(made, made[1])
    BY <1>9, <2>2, <2>3 DEF Whole, Children
  <2>5. CleanTree(block) /\ CleanTree(stat) => CleanTree(made)
    BY <1>7, <1>10, HangClean
  <2> QED BY <2>1, <2>3, <2>4, <2>5 DEF Trees, WholeTree, WholeBelow, IsTree, IsTable, Tables
<1>12. /\ kept \in Seq(Trees) /\ Len(kept) = Len(m)
       /\ \A i \in 1 .. Len(m) : kept[i] = built[i]
  <2>1. n - 2 = Len(m) /\ \A i \in 1 .. Len(m) : built[i] \in Trees
    BY <1>3, <1>5
  <2>2. /\ SubSeq(built, 1, Len(m)) \in Seq(Trees)
        /\ Len(SubSeq(built, 1, Len(m))) = IF 1 <= Len(m) THEN Len(m) - 1 + 1 ELSE 0
        /\ \A i \in 1 .. Len(m) - 1 + 1 : SubSeq(built, 1, Len(m))[i] = built[1 + i - 1]
    BY <1>3, <2>1, SubSeqProperties
  <2>3. /\ Len(m) - 1 + 1 = Len(m) /\ \A i \in 1 .. Len(m) : 1 + i - 1 = i
        /\ ~(1 <= Len(m)) => Len(m) = 0
    BY <1>3
  <2> QED BY <2>1, <2>2, <2>3
<1> HIDE DEF kept
<1>13. Stacked(built', Len(built'), m)
  <2>1. /\ Len(built') = Len(m) + 1 /\ built'[Len(m) + 1] = made
        /\ \A i \in 1 .. Len(m) : built'[i] = built[i]
    <3>1. kept \in Seq(Trees \cup {made})
      BY <1>12, SeqMonotonic
    <3>2. /\ Len(built') = Len(kept) + 1 /\ built'[Len(kept) + 1] = made
          /\ \A i \in 1 .. Len(kept) : built'[i] = kept[i]
      BY <1>1, <3>1, AppendProperties
    <3> QED BY <1>12, <3>2
  <2>2. ASSUME NEW i \in 1 .. Len(m)
        PROVE  built'[i + 1][1].type \in TypesOf(m[i])
    <3>1. CASE i = Len(m)
      BY <1>3, <1>11, <2>1, <3>1 DEF TypesOf
    <3>2. CASE i # Len(m)
      <4>1. i + 1 \in 1 .. Len(m) /\ i \in 1 .. Len(m) + 1
        BY <1>3, <3>2
      <4> QED BY <1>3, <1>5, <2>1, <4>1
    <3> QED BY <3>1, <3>2
  <2>3. built'[1][1].type = "BLOCK_STAT"
    <3>1. CASE Len(m) = 0
      BY <1>11, <2>1, <3>1
    <3>2. CASE Len(m) # 0
      <4>1. 1 \in 1 .. Len(m)
        BY <1>3, <3>2
      <4> QED BY <1>5, <2>1, <4>1
    <3> QED BY <3>1, <3>2
  <2>4. Len(m) + 1 \in 1 .. Len(m) + 1 /\ Len(m) + 1 - 1 = Len(m)
    BY <1>3
  <2> QED BY <2>1, <2>2, <2>3, <2>4 DEF Stacked
<1>14. Typed'
  <2>1. <<>> \in Seq(ParserTasks) /\ Chain(<<>>, m, m)
    BY ChainEmpty
  <2> QED BY <1>1, <1>2, <1>13, <2>1, TypedKept
<1>15. GoodTasks'
  <2>1. AllGood(<<>>, errors')
    BY DEF AllGood
  <2> QED BY <1>1, <2>1, GoodTasksKept
<1>16. WholeSoFar'
  <2>1. errors' = 0 => errors = 0 /\ CleanTree(made)
    <3>1. n - 1 \in 1 .. n /\ n \in 1 .. n
      BY <1>3, <1>5
    <3> QED BY <1>1, <1>4, <1>11, <3>1 DEF block, stat
  <2>2. Len(m) \in 0 .. Len(built)
    BY <1>3, <1>5 DEF n
  <2> QED BY <1>1, <1>11, <1>12, <2>1, <2>2, WholeKept DEF ParserInv
<1>17. InPlace'
  BY <1>1 DEF ParserInv, InPlace, IsTokenList
<1> QED BY <1>14, <1>15, <1>16, <1>17 DEF ParserInv

-----------------------------------------------------------------------------
(* The theorems. *)

\* When parse() starts, the tasks fit the stack, whatever the tokens will be.
LEMMA ParserReady ==
    ASSUME ParserInit
    PROVE  GoodTasks /\ Typed /\ WholeSoFar
<1> DEFINE node == Plain("BLOCK_STAT")
           tree == <<node>>
           task == Parse("program")
<1>1. node \in Leaves /\ node.type = "BLOCK_STAT" /\ node.kids = <<>>
  BY PlainLeaf DEF NodeTypes, StatNodes, StatTypes
<1>2. GoodTask(task, 0) /\ Takes(task, <<>>, <<>>)
  BY GoodParse, TakesProgram DEF ParseFunctions
<1>3. /\ pending = <<task>> /\ built = <<tree>> /\ next = 1 /\ errors = 0 /\ parseStatus = "parsing"
  BY DEF ParserInit
<1> HIDE DEF task
<1>4. GoodTasks
  BY <1>2, <1>3, ListOne DEF GoodTasks
<1>5. Typed
  <2>1. <<>> \in Seq(Kinds) /\ Len(<<>>) = 0 /\ Len(<<tree>>) = 1 /\ <<tree>>[1][1] = node
    OBVIOUS
  <2> HIDE DEF tree, node
  <2>2. Stacked(built, Len(built), <<>>)
    BY <1>1, <1>3, <2>1 DEF Stacked
  <2>3. Chain(pending, <<>>, <<>>)
    BY <1>2, <1>3, <2>1, ChainOne
  <2> QED BY <2>1, <2>2, <2>3 DEF Typed
<1>6. WholeSoFar
  <2>1. /\ node \in Nodes /\ WholeBelow(tree) /\ Len(tree) = 1 /\ tree[1] = node
        /\ Len(node.kids) = 0 /\ (Clean(node) => CleanTree(tree))
    BY <1>1, LoneNode
  <2> HIDE DEF tree, node
  <2>2. KidsAre(tree, node, <<>>, 0) /\ Len(<<>>) = 0 /\ Children(node, <<>>) /\ <<>> \in Seq(Kinds)
    <3>1. <<>> \in Seq(Kinds) /\ <<>> \in Seq({"stat"}) /\ Len(<<>>) = 0 /\ 1 .. 0 = {}
      OBVIOUS
    <3> QED BY <1>1, <2>1, <3>1 DEF KidsAre, Children
  <2>3. Whole(tree, node)
    BY <2>2 DEF Whole
  <2>4. tree \in Trees
    BY <2>1, <2>3 DEF Trees, WholeTree, WholeBelow, IsTree, IsTable, Tables
  <2>5. CleanTree(tree)
    BY <1>1, <2>1 DEF Clean, HasName
  <2> QED BY <1>3, <2>4, <2>5 DEF WholeSoFar
<1> QED BY <1>4, <1>5, <1>6

\* The first token is there, whatever the tokens are.
LEMMA ParserStart ==
    ASSUME ParserInit, IsTokenList(tokens)
    PROVE  ParserInv
<1>1. tokens \in Seq(Token) /\ tokens # <<>>
  BY DEF IsTokenList
<1>2. 1 \in 1 .. Len(tokens)
  BY <1>1, EmptySeq, LenProperties
<1> QED BY <1>2, ParserReady DEF ParserInv, InPlace, ParserInit

\* Every step keeps it.
LEMMA ParserStepKeeps ==
    ASSUME ParserInv, [ParseStep]_parserVars
    PROVE  ParserInv'
<1>1. CASE UNCHANGED parserVars
  BY <1>1 DEF parserVars, ParserInv, InPlace, IsTokenList, GoodTasks, AllGood, Typed, WholeSoFar
<1>2. CASE MatchToken \/ MakeNode \/ AppendStat
  BY <1>2, MatchKeeps, MakeKeeps, AppendKeeps
<1>3. CASE ParseProgram \/ ParseReturn \/ ParseIf \/ ParseElse \/ ParseWhile \/ ParseFor
  BY <1>3, ProgramKeeps, ReturnKeeps, IfKeeps, ElseKeeps, WhileKeeps, ForKeeps
<1>4. CASE ParseBlock \/ ParseStats \/ ParseExprStat \/ ParseSkip \/ ParseInvalid
  BY <1>4, BlockKeeps, StatsKeeps, ExprStatKeeps, SkipKeeps, InvalidKeeps
<1>5. CASE ParseDeclaration \/ ParseDeclarator \/ ParseBody
  BY <1>5, DeclarationKeeps, DeclaratorKeeps, BodyKeeps
<1>6. CASE \/ ParseExpr \/ ParseComparison \/ ParseSubexpr
           \/ ParseTerms \/ ParseTerm \/ ParseFactors
  BY <1>6, ExprKeeps, ComparisonKeeps, SubexprKeeps, TermsKeeps, TermKeeps, FactorsKeeps
<1>7. CASE ParseParens \/ ParseIdent \/ ParseIntLit \/ ParseNoFactor
  BY <1>7, ParensKeeps, IdentKeeps, IntLitKeeps, NoFactorKeeps
<1>8. CASE OutOfMemory \/ FinishParse
  <2>1. /\ UNCHANGED <<tokens, next, pending, built, errors>>
        /\ parseStatus' \in {"parsing", "done", "killed"} /\ (parseStatus' = "done" => pending = <<>>)
    BY <1>8 DEF OutOfMemory, FinishParse
  <2> QED BY <2>1 DEF ParserInv, InPlace, IsTokenList, GoodTasks, AllGood, Typed, WholeSoFar
<1> QED BY <1>1, <1>2, <1>3, <1>4, <1>5, <1>6, <1>7, <1>8 DEF ParseStep

\* The tasks that parser.c has left always fit the nodes that it has created
\* so far: no parse function finds too few nodes, or nodes of another kind.
THEOREM ParserInvariant == ParserSpec => []ParserInv
<1>1. ParserInit /\ IsTokenList(tokens) => ParserInv
  BY ParserStart
<1>2. ParserInv /\ [ParseStep]_parserVars => ParserInv'
  BY ParserStepKeeps
<1> QED BY <1>1, <1>2, PTL DEF ParserSpec

\* The invariant says what the parser keeps.
LEMMA TypesFollow ==
    ASSUME ParserInv
    PROVE  ParserTypeOK
<1>1. next \in DOMAIN tokens
  BY Position DEF ParserInv, InPlace, IsTokenList
<1>2. pending \in Seq(ParserTasks)
  BY DEF ParserInv, GoodTasks, AllGood
<1>3. built \in Seq(Trees)
  BY DEF ParserInv, WholeSoFar
<1>4. built # <<>> /\ built[1][1].type = "BLOCK_STAT"
  <2>1. Len(built) # 0 /\ built[1][1].type = "BLOCK_STAT"
    BY DEF ParserInv, Typed, Stacked
  <2> QED BY <2>1
<1>5. \A i \in DOMAIN built : built[i][1].type \in NodeTypes
  <2>1. \A tree \in Trees : tree[1] \in Nodes
    BY TablePlaces DEF Trees, WholeTree, WholeBelow, IsTree
  <2>2. \A i \in DOMAIN built : built[i] \in Trees
    BY <1>3
  <2> QED BY <2>1, <2>2 DEF Nodes
<1> QED BY <1>1, <1>2, <1>4, <1>5 DEF ParserTypeOK, ParserInv, InPlace

\* The parser never looks behind the end of the tokens, and the program's block
\* is always at the bottom.
THEOREM ParserTypes == ParserSpec => []ParserTypeOK
<1>1. ParserInv => ParserTypeOK
  BY TypesFollow
<1> QED BY <1>1, ParserInvariant, PTL

-----------------------------------------------------------------------------
(* What the semantic checker and the code generator get. *)

\* The last node of each tree in a tree, as Ast defines it.
LEMMA LastIs ==
    ASSUME NEW tree, IsTable(tree), NEW last, Numbered(tree, last)
    PROVE  \A n \in 1 .. Len(tree) : LastOf(tree)[n] = last[n]
<1> DEFINE N == Len(tree)
           kids(n) == tree[n].kids
           Next(f, n) == IF kids(n) = <<>> THEN n ELSE f[kids(n)[Len(kids(n))]]
           Unwinds(f) == f = [n \in DOMAIN tree |-> Next(f, n)]
<1>1. /\ N \in Nat \ {0} /\ DOMAIN tree = 1 .. N /\ last \in [1 .. N -> 1 .. N]
      /\ \A n \in 1 .. N : /\ last[n] = Next(last, n)
                           /\ \A k \in 1 .. Len(kids(n)) : kids(n)[k] \in 1 .. N /\ kids(n)[k] > n
      /\ \A n \in 1 .. N : Len(kids(n)) \in Nat /\ (kids(n) = <<>> <=> Len(kids(n)) = 0)
  <2>1. \A n \in 1 .. N : tree[n] \in Nodes
    BY TablePlaces
  <2>2. \A n \in 1 .. N : Len(kids(n)) \in Nat /\ (kids(n) = <<>> <=> Len(kids(n)) = 0)
    BY <2>1, NodeKids
  <2> QED BY <2>2, TablePlaces DEF Numbered, KidsInOrder
<1>2. Unwinds(last)
  <2> HIDE DEF Next
  <2> QED BY <1>1
<1>3. LastOf(tree) = CHOOSE f : Unwinds(f)
  BY DEF LastOf
<1>4. PICK f : Unwinds(f) /\ LastOf(tree) = f
  <2> HIDE DEF Unwinds
  <2> QED BY <1>2, <1>3
<1>5. \A n \in 1 .. N : f[n] = Next(f, n)
  <2> HIDE DEF Next
  <2> QED BY <1>1, <1>4
<1> DEFINE S == {n \in 1 .. N : \A m \in n .. N : f[m] = last[m]}
<1>6. ASSUME NEW n \in 1 .. N, \A m \in n + 1 .. N : f[m] = last[m]
      PROVE  f[n] = last[n]
  <2>1. CASE kids(n) = <<>>
    BY <1>1, <1>5, <2>1
  <2>2. CASE kids(n) # <<>>
    <3>1. Len(kids(n)) \in 1 .. Len(kids(n))
      <4>1. Len(kids(n)) \in Nat \ {0}
        BY <1>1, <2>2
      <4> QED BY <4>1
    <3>2. PICK m \in n + 1 .. N : m = kids(n)[Len(kids(n))]
      <4>1. PICK m \in 1 .. N : m = kids(n)[Len(kids(n))] /\ m > n
        BY <1>1, <3>1
      <4>2. m \in n + 1 .. N
        BY <4>1, <1>1
      <4> QED BY <4>1, <4>2
    <3>3. f[n] = f[m] /\ last[n] = last[m]
      BY <1>1, <1>5, <2>2, <3>2
    <3> QED BY <1>6, <3>2, <3>3
  <2> QED BY <2>1, <2>2
<1> HIDE DEF Next, kids, Unwinds, N
<1>7. N \in S
  <2>1. N \in 1 .. N /\ N + 1 .. N = {} /\ N .. N = {N}
    BY <1>1
  <2> QED BY <1>6, <2>1
<1>8. ASSUME NEW n \in 1 .. N, n + 1 \in 1 .. N, n + 1 \in S
      PROVE  n \in S
  <2>1. \A m \in n .. N : m = n \/ m \in n + 1 .. N
    BY <1>1
  <2>2. \A m \in n + 1 .. N : f[m] = last[m]
    BY <1>8
  <2> QED BY <1>6, <2>1, <2>2
<1>9. 1 .. N \subseteq S
  <2> HIDE DEF S
  <2> QED BY <1>1, <1>7, <1>8, Downward
<1>10. \A n \in 1 .. N : n \in n .. N
  BY <1>1
<1> QED BY <1>4, <1>9, <1>10 DEF N

\* The nodes of a program without errors, as Ast defines them.
LEMMA CleanNode ==
    ASSUME NEW tree, NEW node \in Nodes, Clean(node), Whole(tree, node)
    PROVE  /\ node \in Node
           /\ \A kind \in Kinds : node.type \in TypesOf(kind) =>
                 node.type \in IF kind = "expr" THEN ExprTypes ELSE StatTypes
<1>1. PICK kinds \in Seq(Kinds) : Children(node, kinds)
  BY DEF Whole
<1>2. node.type \in ExprTypes \cup StatTypes
  BY <1>1 DEF Children, Clean, ExprTypes, StatTypes
<1>4. node \in Node
  BY <1>2 DEF Node, Nodes
<1>5. ASSUME NEW kind \in Kinds, node.type \in TypesOf(kind)
      PROVE  node.type \in IF kind = "expr" THEN ExprTypes ELSE StatTypes
  <2>1. CASE kind = "expr"
    BY <1>5, <2>1 DEF TypesOf, ExprNodes, Clean, ExprTypes
  <2>2. CASE kind = "stat"
    BY <1>5, <2>2 DEF TypesOf, StatNodes, Clean, StatTypes
  <2>3. CASE kind = "block"
    BY <1>5, <2>3 DEF TypesOf, StatTypes
  <2> QED BY <2>1, <2>2, <2>3 DEF Kinds
<1> QED BY <1>4, <1>5

\* Each node has the children that Ast says it has.
LEMMA CleanShape ==
    ASSUME NEW tree \in Trees, CleanTree(tree), NEW n \in 1 .. Len(tree)
    PROVE  tree[n] \in Node /\ ShapeOK(tree, n)
<1> DEFINE node == tree[n]
           kids == tree[n].kids
<1>1. IsTree(tree) /\ \A i \in 1 .. Len(tree) : /\ tree[i] \in Nodes /\ Clean(tree[i])
                                                /\ Whole(tree, tree[i])
  <2>1. IsTree(tree) /\ \A i \in 1 .. Len(tree) : tree[i] \in Nodes /\ Clean(tree[i])
    BY TablePlaces DEF Trees, WholeTree, WholeBelow, IsTree, CleanTree
  <2>2. \A i \in 1 .. Len(tree) : i = 1 \/ i \in 2 .. Len(tree)
    BY <2>1, TablePlaces DEF IsTree
  <2> QED BY <2>1, <2>2 DEF Trees, WholeTree, WholeBelow
<1>2. PICK kinds \in Seq(Kinds) : Children(node, kinds) /\ KidsAre(tree, node, kinds, Len(kinds))
  BY <1>1 DEF Whole
<1>3. /\ kids \in Seq(Nat \ {0}) /\ Len(kids) = Len(kinds) /\ DOMAIN kids = 1 .. Len(kids)
      /\ (kids = <<>> <=> Len(kids) = 0)
      /\ \A k \in 1 .. Len(kids) : kids[k] \in 1 .. Len(tree)
  BY <1>1, <1>2, NodeKids, KidsInTree, LenProperties DEF KidsAre
<1>4. /\ tree[n] \in Node
      /\ \A i \in 1 .. Len(tree) : \A kind \in Kinds : tree[i].type \in TypesOf(kind) =>
            tree[i].type \in IF kind = "expr" THEN ExprTypes ELSE StatTypes
  BY <1>1, CleanNode
<1>5. \A k \in 1 .. Len(kids) : IF kinds[k] = "expr" THEN IsExpr(tree, kids[k])
                                                    ELSE IsStat(tree, kids[k])
  <2>1. \A k \in 1 .. Len(kids) : tree[kids[k]].type \in TypesOf(kinds[k]) /\ kinds[k] \in Kinds
    BY <1>2, <1>3, ElementOfSeq DEF KidsAre
  <2> QED BY <1>3, <1>4, <2>1 DEF IsExpr, IsStat
<1>6. Clean(node) /\ node \in Nodes
  BY <1>1
<1> HIDE DEF kids
<1>7. node.type \in {"INT_LIT", "VAR_REF", "FUNC_CALL", "SKIP_STAT"} => kids = <<>>
  BY <1>2, <1>3 DEF Children
<1>8. node.type \in {"VAR_REF", "FUNC_CALL", "DECL_STAT"} => node.name \in Names
  BY <1>6 DEF Clean, HasName
<1>9. node.type = "BIN_OP" => /\ node.op \in Operators /\ Len(kids) = 2
                              /\ IsExpr(tree, kids[1]) /\ IsExpr(tree, kids[2])
  <2>2. node.type = "BIN_OP" => node.op \in Operators /\ kinds = <<"expr", "expr">>
    BY <1>2 DEF Children
  <2>3. node.type = "BIN_OP" => Len(kinds) = 2 /\ kinds[1] = "expr" /\ kinds[2] = "expr"
    BY <2>2
  <2>4. 1 \in 1 .. 2 /\ 2 \in 1 .. 2
    OBVIOUS
  <2> QED BY <1>3, <1>5, <2>2, <2>3, <2>4
<1>10. node.type \in {"RETURN_STAT", "EXPR_STAT"} => Len(kids) = 1 /\ IsExpr(tree, kids[1])
  <2>1. node.type \in {"RETURN_STAT", "EXPR_STAT"} => kinds = <<"expr">>
    BY <1>2 DEF Children
  <2> QED BY <1>3, <1>5, <2>1
<1>11. node.type = "IF_STAT" =>
          /\ Len(kids) \in {2, 3}
          /\ IsExpr(tree, kids[1]) /\ \A i \in 2 .. Len(kids) : IsStat(tree, kids[i])
  <2>1. node.type = "IF_STAT" => kinds = <<"expr", "stat">> \/ kinds = <<"expr", "stat", "stat">>
    BY <1>2 DEF Children
  <2>2. node.type = "IF_STAT" => /\ Len(kinds) \in {2, 3} /\ kinds[1] = "expr"
                                 /\ \A i \in 2 .. Len(kinds) : kinds[i] = "stat"
    <3>1. ASSUME NEW k, k = <<"expr", "stat">> \/ k = <<"expr", "stat", "stat">>
          PROVE  Len(k) \in {2, 3} /\ k[1] = "expr" /\ \A i \in 2 .. Len(k) : k[i] = "stat"
      BY <3>1
    <3> QED BY <2>1, <3>1
  <2>3. \A m \in {2, 3} : 1 \in 1 .. m /\ \A i \in 2 .. m : i \in 1 .. m
    OBVIOUS
  <2> QED BY <1>3, <1>5, <2>2, <2>3
<1>12. node.type = "WHILE_STAT" =>
          Len(kids) = 2 /\ IsExpr(tree, kids[1]) /\ IsStat(tree, kids[2])
  <2>1. node.type = "WHILE_STAT" => kinds = <<"expr", "stat">>
    BY <1>2 DEF Children
  <2>2. node.type = "WHILE_STAT" => Len(kinds) = 2 /\ kinds[1] = "expr" /\ kinds[2] = "stat"
    BY <2>1
  <2>3. 1 \in 1 .. 2 /\ 2 \in 1 .. 2
    OBVIOUS
  <2> QED BY <1>3, <1>5, <2>2, <2>3
<1>13. node.type = "FOR_STAT" =>
          /\ Len(kids) = 4
          /\ IsExpr(tree, kids[1]) /\ IsExpr(tree, kids[2]) /\ IsExpr(tree, kids[3])
          /\ IsStat(tree, kids[4])
  <2>1. node.type = "FOR_STAT" => kinds = <<"expr", "expr", "expr", "stat">>
    BY <1>2 DEF Children
  <2>2. node.type = "FOR_STAT" => /\ Len(kinds) = 4 /\ kinds[1] = "expr" /\ kinds[2] = "expr"
                                  /\ kinds[3] = "expr" /\ kinds[4] = "stat"
    BY <2>1
  <2>3. 1 \in 1 .. 4 /\ 2 \in 1 .. 4 /\ 3 \in 1 .. 4 /\ 4 \in 1 .. 4
    OBVIOUS
  <2> QED BY <1>3, <1>5, <2>2, <2>3
<1>14. node.type = "BLOCK_STAT" => \A i \in DOMAIN kids : IsStat(tree, kids[i])
  <2>1. node.type = "BLOCK_STAT" => \A i \in 1 .. Len(kinds) : kinds[i] = "stat"
    <3>1. node.type = "BLOCK_STAT" => kinds \in Seq({"stat"})
      BY <1>2 DEF Children
    <3> QED BY <3>1, ElementOfSeq
  <2> QED BY <1>3, <1>5, <2>1
<1>15. node.type = "DECL_STAT" =>
          /\ Len(kids) \in {0, 1}
          /\ \A i \in DOMAIN kids :
                IF node.is_func THEN IsStat(tree, kids[i]) ELSE IsExpr(tree, kids[i])
  <2>1. node.type = "DECL_STAT" => \/ kinds = <<>>
                                   \/ kinds = <<IF node.is_func THEN "block" ELSE "expr">>
    BY <1>2 DEF Children
  <2> QED BY <1>3, <1>5, <2>1
<1> QED BY <1>4, <1>7, <1>8, <1>9, <1>10, <1>11, <1>12, <1>13, <1>14, <1>15
        DEF ShapeOK, kids

\* A tree without errors is one of those that Ast describes.
LEMMA CleanHanded ==
    ASSUME NEW tree \in Trees, CleanTree(tree), tree[1].type = "BLOCK_STAT"
    PROVE  WellFormed(tree) /\ Preorder(tree)
<1>1. IsTree(tree) /\ tree \in Seq(Nodes) /\ tree # <<>> /\ DOMAIN tree = 1 .. Len(tree)
  BY TablePlaces DEF Trees, WholeTree, WholeBelow, IsTree, IsTable, Tables
<1>2. \A n \in DOMAIN tree : tree[n] \in Node /\ ShapeOK(tree, n)
  BY <1>1, CleanShape
<1>3. tree \in Seq(Node)
  BY <1>1, <1>2, SeqRetype
<1>4. \A n \in DOMAIN tree : /\ DOMAIN tree[n].kids = 1 .. Len(tree[n].kids)
                             /\ \A k \in DOMAIN tree[n].kids :
                                   tree[n].kids[k] \in DOMAIN tree /\ tree[n].kids[k] > n
  <2>1. \A n \in DOMAIN tree : tree[n] \in Nodes
    BY <1>1, TablePlaces DEF IsTree
  <2>2. \A n \in DOMAIN tree : DOMAIN tree[n].kids = 1 .. Len(tree[n].kids)
    BY <2>1, NodeKids, LenProperties
  <2> QED BY <1>1, <2>2, KidsInTree
<1>5. WellFormed(tree)
  BY <1>1, <1>2, <1>3, <1>4 DEF WellFormed
<1>6. Preorder(tree)
  <2>1. PICK last : Numbered(tree, last)
    BY <1>1 DEF IsTree
  <2>2. PICK is : is = LastOf(tree) /\ \A n \in 1 .. Len(tree) : is[n] = last[n]
    BY <1>1, <2>1, LastIs DEF IsTree
  <2>3. is[1] = Len(tree)
    BY <1>1, <2>1, <2>2, TablePlaces DEF Numbered, IsTree
  <2>4. ASSUME NEW n \in DOMAIN tree, NEW k \in DOMAIN tree[n].kids
        PROVE  tree[n].kids[k] = IF k = 1 THEN n + 1 ELSE is[tree[n].kids[k - 1]] + 1
    <3>1. n \in 1 .. Len(tree) /\ k \in 1 .. Len(tree[n].kids) /\ Len(tree[n].kids) \in Nat
      BY <1>1, <1>4, KidsInTree
    <3>2. tree[n].kids[k] = IF k = 1 THEN n + 1 ELSE last[tree[n].kids[k - 1]] + 1
      BY <2>1, <3>1 DEF Numbered, KidsInOrder
    <3>3. k # 1 => k - 1 \in 1 .. Len(tree[n].kids)
      BY <3>1
    <3>4. k # 1 => tree[n].kids[k - 1] \in 1 .. Len(tree)
      BY <1>1, <1>4, <3>3
    <3> QED BY <2>2, <3>2, <3>4
  <2> QED BY <2>2, <2>3, <2>4 DEF Preorder
<1> QED BY <1>5, <1>6

-----------------------------------------------------------------------------
(* What parse() returns. *)

\* What parse() returns, errors or not, is one block, in which every node has
\* the children that parser.h provides for; and without errors there are no
\* invalid nodes in it, and no name is missing.
ReturnsTree ==
    parseStatus = "done" =>
        \E tree : /\ built = <<tree>> /\ tree[1].type = "BLOCK_STAT"
                  /\ WholeTree(tree) /\ (errors = 0 => CleanTree(tree))

\* When nothing is left to do, the program's block is the only tree.
LEMMA OneTree ==
    ASSUME ParserInv
    PROVE  ReturnsTree
<1> SUFFICES ASSUME ParserInv, parseStatus = "done"
             PROVE  \E tree : /\ built = <<tree>> /\ tree[1].type = "BLOCK_STAT"
                              /\ WholeTree(tree) /\ (errors = 0 => CleanTree(tree))
  BY DEF ReturnsTree
<1>1. pending = <<>>
  BY DEF ParserInv, InPlace
<1>2. PICK kinds \in Seq(Kinds) : /\ Stacked(built, Len(built), kinds)
                                  /\ Chain(pending, kinds, <<>>)
  BY DEF ParserInv, Typed
<1>3. kinds = <<>>
  <2>1. Len(pending) = 0 /\ 0 + 1 = 1
    BY <1>1
  <2> QED BY <1>2, <2>1 DEF Chain
<1>4. /\ built \in Seq(Trees) /\ DOMAIN built = 1 .. Len(built)
      /\ errors = 0 => \A i \in DOMAIN built : CleanTree(built[i])
  BY LenProperties DEF ParserInv, WholeSoFar
<1>5. Len(built) = 1 /\ built[1][1].type = "BLOCK_STAT"
  <2>1. Len(built) \in Nat /\ Len(kinds) = 0
    BY <1>3, <1>4
  <2> QED BY <1>2, <2>1 DEF Stacked
<1>6. built = <<built[1]>> /\ built[1] \in Trees
  <2>1. 1 \in 1 .. Len(built) /\ built[1] \in Trees
    <3>1. 1 \in 1 .. Len(built)
      BY <1>5
    <3> QED BY <1>4, <3>1
  <2>2. PICK other \in Seq(Trees) : other = <<built[1]>> /\ Len(other) = 1
        /\ other[1] = built[1]
    <3>1. <<built[1]>> \in Seq(Trees) /\ Len(<<built[1]>>) = 1
      BY <2>1
    <3> QED BY <3>1
  <2>3. \A i \in 1 .. 1 : built[i] = other[i]
    BY <2>2
  <2>4. built = other
    BY <1>4, <1>5, <2>2, <2>3, SeqEqual
  <2> QED BY <2>1, <2>2, <2>4
<1>7. WholeTree(built[1]) /\ (errors = 0 => CleanTree(built[1]))
  <2>1. 1 \in 1 .. Len(built)
    BY <1>5
  <2> QED BY <1>4, <1>6, <2>1 DEF Trees
<1> QED BY <1>5, <1>6, <1>7

\* It does so whatever the tokens are.
THEOREM TreesAreWhole == ParserSpec => []ReturnsTree
<1>1. ParserInv => ReturnsTree
  BY OneTree
<1> QED BY <1>1, ParserInvariant, PTL

\* A tree as the checker and the generator expect it.
LEMMA TreeHanded ==
    ASSUME ReturnsTree
    PROVE  Handed
<1> SUFFICES ASSUME errors = 0,
                    NEW tree, built = <<tree>>, tree[1].type = "BLOCK_STAT",
                    WholeTree(tree), CleanTree(tree)
             PROVE  Len(built) = 1 /\ WellFormed(built[1]) /\ Preorder(built[1])
  BY DEF ReturnsTree, Handed
<1>1. tree \in Trees
  BY DEF Trees, WholeTree, WholeBelow, IsTree, IsTable, Tables
<1>2. WellFormed(tree) /\ Preorder(tree)
  BY <1>1, CleanHanded
<1>3. Len(built) = 1 /\ built[1] = tree
  OBVIOUS
<1> QED BY <1>2, <1>3

\* What parse() returns without errors is a tree as the semantic checker and the
\* code generator expect it: all pointers to children are there, and lead to
\* nodes of the right kinds, which follow in preorder.
THEOREM TreesAreHanded == ParserSpec => []Handed
<1>1. ReturnsTree => Handed
  BY TreeHanded
<1> QED BY <1>1, TreesAreWhole, PTL

-----------------------------------------------------------------------------
(* What the rules of the grammar say of a tree. *)

\* One operator between two operands, at k.
IsBinary(list, of, opOf, left, right, i, j, t) ==
    \E k \in Places(list, i + 1, j - 2, DOMAIN opOf) :
       \E l \in of[<<left, i, k>>], r \in of[<<right, k + 1, j>>] :
          t = Over(BinOp(opOf[list[k].type]), <<l, r>>)

\* Being one of the trees of one operator between two operands is that condition.
LEMMA InBinary ==
    ASSUME NEW list, NEW of, NEW opOf, NEW left, NEW right, NEW i, NEW j, NEW t
    PROVE  t \in Binary(list, of, opOf, left, right, i, j)
           <=> IsBinary(list, of, opOf, left, right, i, j, t)
<1> DEFINE L(k) == of[<<left, i, k>>]
           R(k) == of[<<right, k + 1, j>>]
           One(k, l) == {Over(BinOp(opOf[list[k].type]), <<l, r>>) : r \in R(k)}
           At(k) == UNION {One(k, l) : l \in L(k)}
           P == Places(list, i + 1, j - 2, DOMAIN opOf)
<1>1. Binary(list, of, opOf, left, right, i, j) = UNION {At(k) : k \in P}
  BY DEF Binary
<1>2. t \in UNION {At(k) : k \in P} <=> \E k \in P : t \in At(k)
  <2> HIDE DEF P, At
  <2> QED OBVIOUS
<1>3. \A k : t \in At(k) <=> \E l \in L(k) : t \in One(k, l)
  <2> HIDE DEF One, L
  <2> QED OBVIOUS
<1>4. \A k, l : t \in One(k, l) <=> \E r \in R(k) : t = Over(BinOp(opOf[list[k].type]), <<l, r>>)
  OBVIOUS
<1>5. IsBinary(list, of, opOf, left, right, i, j, t) <=>
         \E k \in P : \E l \in L(k) : \E r \in R(k) : t = Over(BinOp(opOf[list[k].type]), <<l, r>>)
  BY Zenon DEF IsBinary
<1> HIDE DEF P, L, R, One, At
<1> QED BY <1>1, <1>2, <1>3, <1>4, <1>5, Zenon

IsIf(list, of, kind, i, k, j, t) ==
    \E c \in of[<<"expr", i + 2, k>>] :
       \/ kind = "stat" /\ \E b \in of[<<"stat", k + 1, j>>] : t = Over(Plain("IF_STAT"), <<c, b>>)
       \/ \E m \in Places(list, k + 1, j - 1, {"ELSE_TOK"}) :
             \E b \in of[<<"closed", k + 1, m>>], f \in of[<<kind, m + 1, j>>] :
                t = Over(Plain("IF_STAT"), <<c, b, f>>)

\* An if with its condition, and an else where there is one.
LEMMA InIf ==
    ASSUME NEW list, NEW of, NEW kind, NEW i, NEW k, NEW j, NEW t
    PROVE  t \in If(list, of, kind, i, k, j) <=> IsIf(list, of, kind, i, k, j, t)
<1> DEFINE C == of[<<"expr", i + 2, k>>]
           P == Places(list, k + 1, j - 1, {"ELSE_TOK"})
           B(m) == of[<<"closed", k + 1, m>>]
           F(m) == of[<<kind, m + 1, j>>]
           Short1(c) == {Over(Plain("IF_STAT"), <<c, b>>) : b \in of[<<"stat", k + 1, j>>]}
           One(c, m, b) == {Over(Plain("IF_STAT"), <<c, b, f>>) : f \in F(m)}
           At(c, m) == UNION {One(c, m, b) : b \in B(m)}
           Long(c) == UNION {At(c, m) : m \in P}
           Both(c) == When(kind = "stat", Short1(c)) \cup Long(c)
<1>1. If(list, of, kind, i, k, j) = UNION {Both(c) : c \in C}
  BY DEF If
<1>2. t \in UNION {Both(c) : c \in C} <=> \E c \in C : t \in Both(c)
  <2> HIDE DEF C, Both
  <2> QED OBVIOUS
<1>3. \A c : t \in Both(c) <=> (kind = "stat" /\ t \in Short1(c)) \/ t \in Long(c)
  <2> HIDE DEF Short1, Long
  <2> QED BY DEF When
<1>4. \A c : t \in Short1(c) <=> \E b \in of[<<"stat", k + 1, j>>] : t = Over(Plain("IF_STAT"), <<c, b>>)
  OBVIOUS
<1>5. \A c : t \in Long(c) <=> \E m \in P : t \in At(c, m)
  <2> HIDE DEF P, At
  <2> QED OBVIOUS
<1>6. \A c, m : t \in At(c, m) <=> \E b \in B(m) : t \in One(c, m, b)
  <2> HIDE DEF B, One
  <2> QED OBVIOUS
<1>7. \A c, m, b : t \in One(c, m, b) <=> \E f \in F(m) : t = Over(Plain("IF_STAT"), <<c, b, f>>)
  OBVIOUS
<1>8. IsIf(list, of, kind, i, k, j, t) <=>
         \E c \in C :
            \/ kind = "stat" /\ \E b \in of[<<"stat", k + 1, j>>] : t = Over(Plain("IF_STAT"), <<c, b>>)
            \/ \E m \in P : \E b \in B(m) : \E f \in F(m) : t = Over(Plain("IF_STAT"), <<c, b, f>>)
  BY Zenon DEF IsIf
<1> HIDE DEF C, P, B, F, Short1, One, At, Long, Both
<1>9. \A c : t \in Long(c) <=>
         \E m \in P : \E b \in B(m) : \E f \in F(m) : t = Over(Plain("IF_STAT"), <<c, b, f>>)
  BY <1>5, <1>6, <1>7, Zenon
<1> QED BY <1>1, <1>2, <1>3, <1>4, <1>8, <1>9, Zenon

IsWhile(of, kind, i, k, j, t) ==
    \E c \in of[<<"expr", i + 2, k>>], b \in of[<<kind, k + 1, j>>] :
       t = Over(Plain("WHILE_STAT"), <<c, b>>)

\* A while with its condition and its body.
LEMMA InWhile ==
    ASSUME NEW of, NEW kind, NEW i, NEW k, NEW j, NEW t
    PROVE  t \in While(of, kind, i, k, j) <=> IsWhile(of, kind, i, k, j, t)
<1> DEFINE C == of[<<"expr", i + 2, k>>]
           One(c) == {Over(Plain("WHILE_STAT"), <<c, b>>) : b \in of[<<kind, k + 1, j>>]}
<1>1. While(of, kind, i, k, j) = UNION {One(c) : c \in C}
  BY DEF While
<1>2. t \in UNION {One(c) : c \in C} <=> \E c \in C : t \in One(c)
  <2> HIDE DEF C, One
  <2> QED OBVIOUS
<1>3. \A c : t \in One(c) <=> \E b \in of[<<kind, k + 1, j>>] : t = Over(Plain("WHILE_STAT"), <<c, b>>)
  OBVIOUS
<1>4. IsWhile(of, kind, i, k, j, t) <=>
         \E c \in C : \E b \in of[<<kind, k + 1, j>>] : t = Over(Plain("WHILE_STAT"), <<c, b>>)
  BY Zenon DEF IsWhile
<1> HIDE DEF C, One
<1> QED BY <1>1, <1>2, <1>3, <1>4, Zenon

IsFor(list, of, kind, i, k, j, t) ==
    \E l, m \in Places(list, i + 2, k - 1, {"SCOL_TOK"}) :
       \E a \in of[<<"expr", i + 2, l>>], c \in of[<<"expr", l + 1, m>>],
          b \in of[<<"expr", m + 1, k>>], s \in of[<<kind, k + 1, j>>] :
          t = Over(Plain("FOR_STAT"), <<a, c, b, s>>)

\* A for with its three expressions and its body.
LEMMA InFor ==
    ASSUME NEW list, NEW of, NEW kind, NEW i, NEW k, NEW j, NEW t
    PROVE  t \in For(list, of, kind, i, k, j) <=> IsFor(list, of, kind, i, k, j, t)
<1> DEFINE P == Places(list, i + 2, k - 1, {"SCOL_TOK"})
           A(l) == of[<<"expr", i + 2, l>>]
           C(l, m) == of[<<"expr", l + 1, m>>]
           B(m) == of[<<"expr", m + 1, k>>]
           S == of[<<kind, k + 1, j>>]
           InS(a, c, b) == {Over(Plain("FOR_STAT"), <<a, c, b, s>>) : s \in S}
           InB(m, a, c) == UNION {InS(a, c, b) : b \in B(m)}
           InC(l, m, a) == UNION {InB(m, a, c) : c \in C(l, m)}
           InA(l, m) == UNION {InC(l, m, a) : a \in A(l)}
<1>1. For(list, of, kind, i, k, j) = UNION {InA(l, m) : l \in P, m \in P}
  BY DEF For
<1>2. t \in UNION {InA(l, m) : l \in P, m \in P} <=> \E l \in P : \E m \in P : t \in InA(l, m)
  <2> HIDE DEF P, InA
  <2> QED OBVIOUS
<1>3. \A l, m : t \in InA(l, m) <=> \E a \in A(l) : t \in InC(l, m, a)
  <2> HIDE DEF A, InC
  <2> QED OBVIOUS
<1>4. \A l, m, a : t \in InC(l, m, a) <=> \E c \in C(l, m) : t \in InB(m, a, c)
  <2> HIDE DEF C, InB
  <2> QED OBVIOUS
<1>5. \A m, a, c : t \in InB(m, a, c) <=> \E b \in B(m) : t \in InS(a, c, b)
  <2> HIDE DEF B, InS
  <2> QED OBVIOUS
<1>6. \A a, c, b : t \in InS(a, c, b) <=> \E s \in S : t = Over(Plain("FOR_STAT"), <<a, c, b, s>>)
  <2> HIDE DEF S
  <2> QED OBVIOUS
<1>7. IsFor(list, of, kind, i, k, j, t) <=>
         \E l \in P : \E m \in P : \E a \in A(l) : \E c \in C(l, m) : \E b \in B(m) : \E s \in S :
            t = Over(Plain("FOR_STAT"), <<a, c, b, s>>)
  BY Zenon DEF IsFor
<1> HIDE DEF P, A, C, B, S, InS, InB, InC, InA
<1>8. \A l, m, a : t \in InC(l, m, a) <=>
         \E c \in C(l, m) : \E b \in B(m) : \E s \in S : t = Over(Plain("FOR_STAT"), <<a, c, b, s>>)
  BY <1>4, <1>5, <1>6, Zenon
<1>9. \A l, m : t \in InA(l, m) <=>
         \E a \in A(l) : \E c \in C(l, m) : \E b \in B(m) : \E s \in S :
            t = Over(Plain("FOR_STAT"), <<a, c, b, s>>)
  <2> TAKE l, m
  <2>1. t \in InA(l, m) <=> \E a \in A(l) : t \in InC(l, m, a)
    BY <1>3
  <2>2. \A a : t \in InC(l, m, a) <=>
           \E c \in C(l, m) : \E b \in B(m) : \E s \in S : t = Over(Plain("FOR_STAT"), <<a, c, b, s>>)
    BY <1>8
  <2> QED BY <2>1, <2>2, Zenon
<1>10. t \in For(list, of, kind, i, k, j) <=> \E l \in P : \E m \in P : t \in InA(l, m)
  BY <1>1, <1>2
<1>11. t \in For(list, of, kind, i, k, j) <=>
          \E l \in P : \E m \in P : \E a \in A(l) : \E c \in C(l, m) : \E b \in B(m) : \E s \in S :
             t = Over(Plain("FOR_STAT"), <<a, c, b, s>>)
  BY <1>9, <1>10, Zenon
<1> QED BY <1>7, <1>11, Zenon

IsConditional(list, of, kind, i, j, t) ==
    /\ Is(list, i + 1, "LPAREN_TOK")
    /\ \E k \in Places(list, i + 2, j - 1, {"RPAREN_TOK"}) :
          \/ Is(list, i, "IF_TOK") /\ IsIf(list, of, kind, i, k, j, t)
          \/ Is(list, i, "WHILE_TOK") /\ IsWhile(of, kind, i, k, j, t)
          \/ Is(list, i, "FOR_TOK") /\ IsFor(list, of, kind, i, k, j, t)

\* A statement that begins with a condition in parentheses.
LEMMA InConditional ==
    ASSUME NEW list, NEW of, NEW kind, NEW i, NEW j, NEW t
    PROVE  t \in Conditional(list, of, kind, i, j) <=> IsConditional(list, of, kind, i, j, t)
<1>1. t \in Conditional(list, of, kind, i, j) <=>
         \E k \in When(Is(list, i + 1, "LPAREN_TOK"), Places(list, i + 2, j - 1, {"RPAREN_TOK"})) :
            \/ t \in When(Is(list, i, "IF_TOK"), If(list, of, kind, i, k, j))
            \/ t \in When(Is(list, i, "WHILE_TOK"), While(of, kind, i, k, j))
            \/ t \in When(Is(list, i, "FOR_TOK"), For(list, of, kind, i, k, j))
  BY Zenon DEF Conditional
<1> QED BY <1>1, InIf, InWhile, InFor DEF IsConditional, When

\* One statement, then the others.
IsStats(of, i, j, t) ==
    \E k \in i + 1 .. j : \E s \in of[<<"stat", i, k>>], rest \in of[<<"stats", k, j>>] :
       t = <<s>> \o rest

\* A list of statements: a first one and the others.
LEMMA InStats ==
    ASSUME NEW list, NEW of, NEW i, NEW j, NEW t
    PROVE  t \in Stats(list, of, i, j) <=> IsStats(of, i, j, t)
<1> DEFINE S(k) == of[<<"stat", i, k>>]
           R(k) == of[<<"stats", k, j>>]
           One(k, s) == {<<s>> \o rest : rest \in R(k)}
           At(k) == UNION {One(k, s) : s \in S(k)}
           P == i + 1 .. j
<1>1. Stats(list, of, i, j) = UNION {At(k) : k \in P}
  BY DEF Stats
<1>2. t \in UNION {At(k) : k \in P} <=> \E k \in P : t \in At(k)
  <2> HIDE DEF P, At
  <2> QED OBVIOUS
<1>3. \A k : t \in At(k) <=> \E s \in S(k) : t \in One(k, s)
  <2> HIDE DEF One, S
  <2> QED OBVIOUS
<1>4. \A k, s : t \in One(k, s) <=> \E rest \in R(k) : t = <<s>> \o rest
  <2> HIDE DEF R
  <2> QED OBVIOUS
<1>5. IsStats(of, i, j, t) <=> \E k \in P : \E s \in S(k) : \E rest \in R(k) : t = <<s>> \o rest
  BY Zenon DEF IsStats
<1> HIDE DEF P, S, R, One, At
<1> QED BY <1>1, <1>2, <1>3, <1>4, <1>5, Zenon

IsFactor(list, of, i, j, t) ==
    \/ j = i + 1 /\ Is(list, i, "INT_LIT_TOK") /\ t = <<IntLit(list[i].ival)>>
    \/ j = i + 1 /\ Is(list, i, "IDENT_TOK") /\ t = <<Named("VAR_REF", list[i].name)>>
    \/ /\ j = i + 3 /\ Is(list, i, "IDENT_TOK")
       /\ Is(list, i + 1, "LPAREN_TOK") /\ Is(list, i + 2, "RPAREN_TOK")
       /\ t = <<Named("FUNC_CALL", list[i].name)>>
    \/ /\ j >= i + 3 /\ Is(list, i, "LPAREN_TOK") /\ Is(list, j - 1, "RPAREN_TOK")
       /\ t \in of[<<"expr", i + 1, j - 1>>]

\* A literal, a name, a call or an expression in parentheses.
LEMMA InFactor ==
    ASSUME NEW list, NEW of, NEW i, NEW j, NEW t
    PROVE  t \in Factor(list, of, i, j) <=> IsFactor(list, of, i, j, t)
BY DEF Factor, IsFactor, When

IsSimple(list, of, i, j, t) ==
    \/ /\ Is(list, i, "RETURN_TOK") /\ Is(list, j - 1, "SCOL_TOK")
       /\ \E e \in of[<<"expr", i + 1, j - 1>>] : t = Over(Plain("RETURN_STAT"), <<e>>)
    \/ j = i + 1 /\ Is(list, i, "SCOL_TOK") /\ t = <<Plain("SKIP_STAT")>>
    \/ /\ Is(list, i, "INT_LIT_TOK") \/ (Is(list, i, "IDENT_TOK") /\ ~IsInt(list, i))
       /\ Is(list, j - 1, "SCOL_TOK")
       /\ \E e \in of[<<"expr", i, j - 1>>] : t = Over(Plain("EXPR_STAT"), <<e>>)

\* A statement that ends with a semicolon.
LEMMA InSimple ==
    ASSUME NEW list, NEW of, NEW i, NEW j, NEW t
    PROVE  t \in Simple(list, of, i, j) <=> IsSimple(list, of, i, j, t)
BY DEF Simple, IsSimple, When

IsBlocks(list, of, i, j, t) ==
    /\ j >= i + 2 /\ Is(list, i, "LBRACE_TOK") /\ Is(list, j - 1, "RBRACE_TOK")
    /\ \E s \in of[<<"stats", i + 1, j - 1>>] : t = Over(Plain("BLOCK_STAT"), s)

\* A block in braces.
LEMMA InBlocks ==
    ASSUME NEW list, NEW of, NEW i, NEW j, NEW t
    PROVE  t \in Blocks(list, of, i, j) <=> IsBlocks(list, of, i, j, t)
BY DEF Blocks, IsBlocks, When

IsBody(list, of, name, i, j, t) ==
    \/ j = i + 1 /\ Is(list, i, "SCOL_TOK") /\ t = <<FuncDecl(name)>>
    \/ \E b : IsBlocks(list, of, i, j, b) /\ t = Over(FuncDecl(name), <<b>>)

\* What follows the name of a declaration.
LEMMA InBody ==
    ASSUME NEW list, NEW of, NEW name, NEW i, NEW j, NEW t
    PROVE  t \in Body(list, of, name, i, j) <=> IsBody(list, of, name, i, j, t)
<1>1. \A b : b \in Blocks(list, of, i, j) <=> IsBlocks(list, of, i, j, b)
  BY InBlocks
<1> QED BY <1>1 DEF Body, IsBody, When

IsDeclarator(list, of, name, i, j, t) ==
    \/ j = i + 1 /\ Is(list, i, "SCOL_TOK") /\ t = <<Named("DECL_STAT", name)>>
    \/ /\ j > i + 1 /\ Is(list, i, "ASSIGN_TOK") /\ Is(list, j - 1, "SCOL_TOK")
       /\ \E e \in of[<<"expr", i + 1, j - 1>>] : t = Over(Named("DECL_STAT", name), <<e>>)
    \/ /\ j > i + 2 /\ Is(list, i, "LPAREN_TOK") /\ Is(list, i + 1, "RPAREN_TOK")
       /\ IsBody(list, of, name, i + 2, j, t)

\* The name of a declaration and what follows it.
LEMMA InDeclarator ==
    ASSUME NEW list, NEW of, NEW name, NEW i, NEW j, NEW t
    PROVE  t \in Declarator(list, of, name, i, j) <=> IsDeclarator(list, of, name, i, j, t)
<1>1. t \in Body(list, of, name, i + 2, j) <=> IsBody(list, of, name, i + 2, j, t)
  BY InBody
<1> QED BY <1>1 DEF Declarator, IsDeclarator, When

IsDeclaration(list, of, i, j, t) ==
    /\ j > i + 2 /\ IsInt(list, i) /\ Is(list, i + 1, "IDENT_TOK")
    /\ IsDeclarator(list, of, list[i + 1].name, i + 2, j, t)

IsStatement(list, of, kind, i, j, t) ==
    \/ IsSimple(list, of, i, j, t) \/ IsBlocks(list, of, i, j, t)
    \/ IsDeclaration(list, of, i, j, t) \/ IsConditional(list, of, kind, i, j, t)

\* A statement of any kind.
LEMMA InStatement ==
    ASSUME NEW list, NEW of, NEW kind, NEW i, NEW j, NEW t
    PROVE  t \in Statement(list, of, kind, i, j) <=> IsStatement(list, of, kind, i, j, t)
<1>1. t \in Declaration(list, of, i, j) <=> IsDeclaration(list, of, i, j, t)
  <2>1. t \in Declarator(list, of, list[i + 1].name, i + 2, j)
        <=> IsDeclarator(list, of, list[i + 1].name, i + 2, j, t)
    BY InDeclarator
  <2> QED BY <2>1 DEF Declaration, IsDeclaration, When
<1> QED BY <1>1, InSimple, InBlocks, InConditional DEF Statement, IsStatement

-----------------------------------------------------------------------------
(* The trees of a list are well defined: what a part may stand for depends  *)
(* on smaller parts only.                                                   *)

Positions(list) == 1 .. Len(list)

Rank == [factor |-> 0, product |-> 1, sum |-> 2, expr |-> 3, stat |-> 4, closed |-> 4, stats |-> 5]

Size(kind, i, j) == IF i < j THEN 6 * (j - i) + Rank[kind] ELSE 0

\* Two tables that say the same of what is smaller than n.
SameBelow(list, f, g, n) ==
    \A kind \in Parts : \A a, b \in Positions(list) :
       Size(kind, a, b) < n => f[<<kind, a, b>>] = g[<<kind, a, b>>]

\* Two tables that say the same of everything within that part of the list.
Same(list, f, g, i, j) ==
    \A kind \in Parts : \A a, b \in Positions(list) :
       (i <= a /\ b <= j /\ (i < a \/ b < j)) => f[<<kind, a, b>>] = g[<<kind, a, b>>]

\* The parts of one extent are ordered by their ranks.
LEMMA Ranks == \A kind \in Parts : Rank[kind] \in 0 .. 5
BY DEF Parts, Rank

\* What is within a part is smaller than the part.
LEMMA WithinIsSmaller ==
    ASSUME NEW list, Len(list) \in Nat, NEW f, NEW g, NEW kind \in Parts,
           NEW i \in Positions(list), NEW j \in Positions(list), i < j,
           SameBelow(list, f, g, Size(kind, i, j))
    PROVE  Same(list, f, g, i, j)
<1> SUFFICES ASSUME NEW k \in Parts, NEW a \in Positions(list), NEW b \in Positions(list),
                    i <= a, b <= j, i < a \/ b < j
             PROVE  Size(k, a, b) < Size(kind, i, j)
  BY DEF Same, SameBelow
<1>1. PICK r, s \in 0 .. 5 : r = Rank[kind] /\ s = Rank[k]
  BY Ranks
<1>2. i \in Int /\ j \in Int /\ a \in Int /\ b \in Int
  BY DEF Positions
<1>3. Size(kind, i, j) = 6 * (j - i) + r /\ Size(k, a, b) = IF a < b THEN 6 * (b - a) + s ELSE 0
  BY <1>1 DEF Size
<1>4. b - a <= j - i - 1
  BY <1>2
<1>5. 6 * (b - a) + s < 6 * (j - i) + r
  BY <1>2, <1>4
<1>6. 0 < 6 * (j - i) + r
  BY <1>2
<1> QED BY <1>3, <1>5, <1>6, Zenon

\* An operator between two operands looks only at smaller parts.
LEMMA BinarySame ==
    ASSUME NEW list, Len(list) \in Nat, NEW f, NEW g, NEW i \in Positions(list), NEW j \in Positions(list),
           i < j, Same(list, f, g, i, j), NEW opOf, NEW left \in Parts, NEW right \in Parts, NEW t
    PROVE  IsBinary(list, f, opOf, left, right, i, j, t) <=> IsBinary(list, g, opOf, left, right, i, j, t)
<1>1. \A k \in Places(list, i + 1, j - 2, DOMAIN opOf) :
         f[<<left, i, k>>] = g[<<left, i, k>>] /\ f[<<right, k + 1, j>>] = g[<<right, k + 1, j>>]
  <2> TAKE k \in Places(list, i + 1, j - 2, DOMAIN opOf)
  <2>1. k \in i + 1 .. j - 2
    BY DEF Places
  <2>2. k \in Positions(list) /\ k + 1 \in Positions(list) /\ k < j /\ i < k + 1
        /\ i <= i /\ j <= j /\ k <= j /\ i <= k + 1
    BY <2>1 DEF Positions
  <2> QED BY <2>2 DEF Same
<1> QED BY <1>1, Zenon DEF IsBinary

\* An if looks only at smaller parts.
LEMMA IfSame ==
    ASSUME NEW list, Len(list) \in Nat, NEW f, NEW g, NEW i \in Positions(list), NEW j \in Positions(list),
           i < j, Same(list, f, g, i, j), NEW kind \in Parts, NEW k \in i + 2 .. j - 1, NEW t
    PROVE  IsIf(list, f, kind, i, k, j, t) <=> IsIf(list, g, kind, i, k, j, t)
<1>1. /\ f[<<"expr", i + 2, k>>] = g[<<"expr", i + 2, k>>]
      /\ f[<<"stat", k + 1, j>>] = g[<<"stat", k + 1, j>>]
  <2>1. i + 2 \in Positions(list) /\ k \in Positions(list) /\ k + 1 \in Positions(list)
        /\ i <= i + 2 /\ k <= j /\ i < i + 2 /\ i <= k + 1 /\ j <= j /\ i < k + 1
    BY DEF Positions
  <2>2. "expr" \in Parts /\ "stat" \in Parts
    BY DEF Parts
  <2> QED BY <2>1, <2>2 DEF Same
<1>2. \A m \in Places(list, k + 1, j - 1, {"ELSE_TOK"}) :
         /\ f[<<"closed", k + 1, m>>] = g[<<"closed", k + 1, m>>]
         /\ f[<<kind, m + 1, j>>] = g[<<kind, m + 1, j>>]
  <2> TAKE m \in Places(list, k + 1, j - 1, {"ELSE_TOK"})
  <2>1. m \in k + 1 .. j - 1
    BY DEF Places
  <2>2. k + 1 \in Positions(list) /\ m \in Positions(list) /\ m + 1 \in Positions(list)
        /\ i <= k + 1 /\ m <= j /\ i < k + 1 /\ i <= m + 1 /\ j <= j /\ i < m + 1
    BY <2>1 DEF Positions
  <2>3. "closed" \in Parts
    BY DEF Parts
  <2> QED BY <2>2, <2>3 DEF Same
<1> QED BY <1>1, <1>2, Zenon DEF IsIf

\* A while looks only at smaller parts.
LEMMA WhileSame ==
    ASSUME NEW list, Len(list) \in Nat, NEW f, NEW g, NEW i \in Positions(list), NEW j \in Positions(list),
           i < j, Same(list, f, g, i, j), NEW kind \in Parts, NEW k \in i + 2 .. j - 1, NEW t
    PROVE  IsWhile(f, kind, i, k, j, t) <=> IsWhile(g, kind, i, k, j, t)
<1>1. i + 2 \in Positions(list) /\ k \in Positions(list) /\ k + 1 \in Positions(list)
      /\ i <= i + 2 /\ k <= j /\ i < i + 2 /\ i <= k + 1 /\ j <= j /\ i < k + 1
  BY DEF Positions
<1>2. "expr" \in Parts
  BY DEF Parts
<1>3. /\ f[<<"expr", i + 2, k>>] = g[<<"expr", i + 2, k>>]
      /\ f[<<kind, k + 1, j>>] = g[<<kind, k + 1, j>>]
  BY <1>1, <1>2 DEF Same
<1> QED BY <1>3, Zenon DEF IsWhile

\* A for looks only at smaller parts.
LEMMA ForSame ==
    ASSUME NEW list, Len(list) \in Nat, NEW f, NEW g, NEW i \in Positions(list), NEW j \in Positions(list),
           i < j, Same(list, f, g, i, j), NEW kind \in Parts, NEW k \in i + 2 .. j - 1, NEW t
    PROVE  IsFor(list, f, kind, i, k, j, t) <=> IsFor(list, g, kind, i, k, j, t)
<1>1. f[<<kind, k + 1, j>>] = g[<<kind, k + 1, j>>]
  <2>1. k + 1 \in Positions(list) /\ i <= k + 1 /\ j <= j /\ i < k + 1
    BY DEF Positions
  <2> QED BY <2>1 DEF Same
<1>2. \A l, m \in Places(list, i + 2, k - 1, {"SCOL_TOK"}) :
         /\ f[<<"expr", i + 2, l>>] = g[<<"expr", i + 2, l>>]
         /\ f[<<"expr", l + 1, m>>] = g[<<"expr", l + 1, m>>]
         /\ f[<<"expr", m + 1, k>>] = g[<<"expr", m + 1, k>>]
  <2> TAKE l, m \in Places(list, i + 2, k - 1, {"SCOL_TOK"})
  <2>1. l \in i + 2 .. k - 1 /\ m \in i + 2 .. k - 1
    BY DEF Places
  <2>2. i + 2 \in Positions(list) /\ l \in Positions(list) /\ l + 1 \in Positions(list)
        /\ m \in Positions(list) /\ m + 1 \in Positions(list) /\ k \in Positions(list)
        /\ i <= i + 2 /\ i < i + 2 /\ l <= j /\ i <= l + 1 /\ i < l + 1 /\ m <= j
        /\ i <= m + 1 /\ i < m + 1 /\ k <= j
    BY <2>1 DEF Positions
  <2>3. "expr" \in Parts
    BY DEF Parts
  <2> QED BY <2>2, <2>3 DEF Same
<1>3. ASSUME IsFor(list, f, kind, i, k, j, t)
      PROVE  IsFor(list, g, kind, i, k, j, t)
  <2>1. PICK l, m \in Places(list, i + 2, k - 1, {"SCOL_TOK"}) :
           \E a \in f[<<"expr", i + 2, l>>], c \in f[<<"expr", l + 1, m>>],
              b \in f[<<"expr", m + 1, k>>], s \in f[<<kind, k + 1, j>>] :
              t = Over(Plain("FOR_STAT"), <<a, c, b, s>>)
    BY <1>3, Zenon DEF IsFor
  <2>2. \E a \in g[<<"expr", i + 2, l>>], c \in g[<<"expr", l + 1, m>>],
           b \in g[<<"expr", m + 1, k>>], s \in g[<<kind, k + 1, j>>] :
           t = Over(Plain("FOR_STAT"), <<a, c, b, s>>)
    BY <1>1, <1>2, <2>1, Zenon
  <2> QED BY <2>2, Zenon DEF IsFor
<1>4. ASSUME IsFor(list, g, kind, i, k, j, t)
      PROVE  IsFor(list, f, kind, i, k, j, t)
  <2>1. PICK l, m \in Places(list, i + 2, k - 1, {"SCOL_TOK"}) :
           \E a \in g[<<"expr", i + 2, l>>], c \in g[<<"expr", l + 1, m>>],
              b \in g[<<"expr", m + 1, k>>], s \in g[<<kind, k + 1, j>>] :
              t = Over(Plain("FOR_STAT"), <<a, c, b, s>>)
    BY <1>4, Zenon DEF IsFor
  <2>2. \E a \in f[<<"expr", i + 2, l>>], c \in f[<<"expr", l + 1, m>>],
           b \in f[<<"expr", m + 1, k>>], s \in f[<<kind, k + 1, j>>] :
           t = Over(Plain("FOR_STAT"), <<a, c, b, s>>)
    BY <1>1, <1>2, <2>1, Zenon
  <2> QED BY <2>2, Zenon DEF IsFor
<1> QED BY <1>3, <1>4

\* A conditional statement looks only at smaller parts.
LEMMA ConditionalSame ==
    ASSUME NEW list, Len(list) \in Nat, NEW f, NEW g, NEW i \in Positions(list), NEW j \in Positions(list),
           i < j, Same(list, f, g, i, j), NEW kind \in Parts, NEW t
    PROVE  IsConditional(list, f, kind, i, j, t) <=> IsConditional(list, g, kind, i, j, t)
<1>1. \A k \in Places(list, i + 2, j - 1, {"RPAREN_TOK"}) :
         /\ IsIf(list, f, kind, i, k, j, t) <=> IsIf(list, g, kind, i, k, j, t)
         /\ IsWhile(f, kind, i, k, j, t) <=> IsWhile(g, kind, i, k, j, t)
         /\ IsFor(list, f, kind, i, k, j, t) <=> IsFor(list, g, kind, i, k, j, t)
  <2> TAKE k \in Places(list, i + 2, j - 1, {"RPAREN_TOK"})
  <2>1. k \in i + 2 .. j - 1
    BY DEF Places
  <2> QED BY <2>1, IfSame, WhileSame, ForSame
<1> QED BY <1>1, Zenon DEF IsConditional

\* A list of statements looks at smaller parts and at its first statement.
LEMMA StatsSame ==
    ASSUME NEW list, Len(list) \in Nat, NEW f, NEW g, NEW i \in Positions(list), NEW j \in Positions(list),
           i < j, Same(list, f, g, i, j), f[<<"stat", i, j>>] = g[<<"stat", i, j>>], NEW t
    PROVE  IsStats(f, i, j, t) <=> IsStats(g, i, j, t)
<1>1. \A k \in i + 1 .. j :
         f[<<"stat", i, k>>] = g[<<"stat", i, k>>] /\ f[<<"stats", k, j>>] = g[<<"stats", k, j>>]
  <2> TAKE k \in i + 1 .. j
  <2>1. k \in Positions(list) /\ i <= i /\ k <= j /\ (k = j \/ k < j) /\ i <= k /\ j <= j /\ i < k
    BY DEF Positions
  <2>2. "stat" \in Parts /\ "stats" \in Parts
    BY DEF Parts
  <2> QED BY <2>1, <2>2 DEF Same
<1> QED BY <1>1, Zenon DEF IsStats

\* A factor looks only at smaller parts.
LEMMA FactorSame ==
    ASSUME NEW list, Len(list) \in Nat, NEW f, NEW g, NEW i \in Positions(list), NEW j \in Positions(list),
           i < j, Same(list, f, g, i, j), NEW t
    PROVE  IsFactor(list, f, i, j, t) <=> IsFactor(list, g, i, j, t)
<1>1. j >= i + 3 => f[<<"expr", i + 1, j - 1>>] = g[<<"expr", i + 1, j - 1>>]
  <2> HAVE j >= i + 3
  <2>1. i + 1 \in Positions(list) /\ j - 1 \in Positions(list) /\ i <= i + 1 /\ j - 1 <= j /\ i < i + 1
    BY DEF Positions
  <2>2. "expr" \in Parts
    BY DEF Parts
  <2> QED BY <2>1, <2>2 DEF Same
<1> QED BY <1>1, Zenon DEF IsFactor

\* A simple statement looks only at smaller parts.
LEMMA SimpleSame ==
    ASSUME NEW list, Len(list) \in Nat, NEW f, NEW g, NEW i \in Positions(list), NEW j \in Positions(list),
           i < j, Same(list, f, g, i, j), NEW t
    PROVE  IsSimple(list, f, i, j, t) <=> IsSimple(list, g, i, j, t)
<1>1. /\ f[<<"expr", i + 1, j - 1>>] = g[<<"expr", i + 1, j - 1>>]
      /\ f[<<"expr", i, j - 1>>] = g[<<"expr", i, j - 1>>]
  <2>1. i + 1 \in Positions(list) /\ j - 1 \in Positions(list) /\ i <= i + 1 /\ j - 1 <= j /\ i < i + 1
        /\ i <= i /\ j - 1 < j
    BY DEF Positions
  <2>2. "expr" \in Parts
    BY DEF Parts
  <2> QED BY <2>1, <2>2 DEF Same
<1> QED BY <1>1, Zenon DEF IsSimple

\* A block looks only at smaller parts.
LEMMA BlocksSame ==
    ASSUME NEW list, Len(list) \in Nat, NEW f, NEW g, NEW i \in Positions(list), NEW j \in Positions(list),
           NEW a \in Positions(list), i <= a, i < j, Same(list, f, g, i, j), NEW t
    PROVE  IsBlocks(list, f, a, j, t) <=> IsBlocks(list, g, a, j, t)
<1>1. j >= a + 2 => f[<<"stats", a + 1, j - 1>>] = g[<<"stats", a + 1, j - 1>>]
  <2> HAVE j >= a + 2
  <2>1. a + 1 \in Positions(list) /\ j - 1 \in Positions(list) /\ i <= a + 1 /\ j - 1 <= j /\ i < a + 1
    BY DEF Positions
  <2>2. "stats" \in Parts
    BY DEF Parts
  <2> QED BY <2>1, <2>2 DEF Same
<1> QED BY <1>1, Zenon DEF IsBlocks

\* A declaration looks only at smaller parts.
LEMMA DeclarationSame ==
    ASSUME NEW list, Len(list) \in Nat, NEW f, NEW g, NEW i \in Positions(list), NEW j \in Positions(list),
           i < j, Same(list, f, g, i, j), NEW t
    PROVE  IsDeclaration(list, f, i, j, t) <=> IsDeclaration(list, g, i, j, t)
<1> SUFFICES ASSUME j > i + 2, NEW name
             PROVE  IsDeclarator(list, f, name, i + 2, j, t) <=> IsDeclarator(list, g, name, i + 2, j, t)
  BY Zenon DEF IsDeclaration
<1>1. j > i + 2 + 1 => f[<<"expr", i + 2 + 1, j - 1>>] = g[<<"expr", i + 2 + 1, j - 1>>]
  <2> HAVE j > i + 2 + 1
  <2>1. i + 2 + 1 \in Positions(list) /\ j - 1 \in Positions(list) /\ i <= i + 2 + 1 /\ j - 1 <= j
        /\ i < i + 2 + 1
    BY DEF Positions
  <2>2. "expr" \in Parts
    BY DEF Parts
  <2> QED BY <2>1, <2>2 DEF Same
<1>2. j > i + 2 + 2 => (IsBody(list, f, name, i + 2 + 2, j, t) <=> IsBody(list, g, name, i + 2 + 2, j, t))
  <2> HAVE j > i + 2 + 2
  <2>1. i + 2 + 2 \in Positions(list) /\ i <= i + 2 + 2
    BY DEF Positions
  <2>2. \A b : IsBlocks(list, f, i + 2 + 2, j, b) <=> IsBlocks(list, g, i + 2 + 2, j, b)
    BY <2>1, BlocksSame
  <2> QED BY <2>2, Zenon DEF IsBody
<1> QED BY <1>1, <1>2, Zenon DEF IsDeclarator

\* What a rule says, kind by kind.
IsOf(list, of, kind, i, j, t) ==
    \/ kind = "stats" /\ i = j /\ t = <<>>
    \/ /\ i < j
       /\ \/ kind = "factor" /\ IsFactor(list, of, i, j, t)
          \/ /\ kind = "product"
             /\ t \in of[<<"factor", i, j>>] \/ IsBinary(list, of, FactorOpOf, "factor", "product", i, j, t)
          \/ /\ kind = "sum"
             /\ t \in of[<<"product", i, j>>] \/ IsBinary(list, of, TermOpOf, "sum", "product", i, j, t)
          \/ /\ kind = "expr"
             /\ t \in of[<<"sum", i, j>>] \/ IsBinary(list, of, ExprOpOf, "sum", "sum", i, j, t)
          \/ kind \in {"stat", "closed"} /\ IsStatement(list, of, kind, i, j, t)
          \/ kind = "stats" /\ IsStats(of, i, j, t)

\* Being one of the trees that a rule gives is the condition of that rule.
LEMMA InRule ==
    ASSUME NEW list, NEW of, NEW kind \in Parts, NEW i \in Int, NEW j \in Int, NEW t
    PROVE  t \in Rule(list, of, kind, i, j) <=> IsOf(list, of, kind, i, j, t)
<1>1. CASE kind = "stats" /\ i = j
  <2>1. Rule(list, of, kind, i, j) = {<<>>}
    BY <1>1 DEF Rule
  <2> QED BY <1>1, <2>1 DEF IsOf
<1>2. CASE i < j /\ kind = "factor"
  <2>1. Rule(list, of, kind, i, j) = Factor(list, of, i, j)
    BY <1>2 DEF Rule
  <2> QED BY <1>2, <2>1, InFactor DEF IsOf
<1>3. CASE i < j /\ kind = "product"
  <2>1. Rule(list, of, kind, i, j) = Product(list, of, i, j)
    BY <1>3 DEF Rule
  <2> QED BY <1>3, <2>1, InBinary DEF IsOf, Product
<1>4. CASE i < j /\ kind = "sum"
  <2>1. Rule(list, of, kind, i, j) = Sum(list, of, i, j)
    BY <1>4 DEF Rule
  <2> QED BY <1>4, <2>1, InBinary DEF IsOf, Sum
<1>5. CASE i < j /\ kind = "expr"
  <2>1. Rule(list, of, kind, i, j) = Expr(list, of, i, j)
    BY <1>5 DEF Rule
  <2> QED BY <1>5, <2>1, InBinary DEF IsOf, Expr
<1>6. CASE i < j /\ kind \in {"stat", "closed"}
  <2>1. Rule(list, of, kind, i, j) = Statement(list, of, kind, i, j)
    BY <1>6 DEF Rule
  <2> QED BY <1>6, <2>1, InStatement DEF IsOf
<1>7. CASE i < j /\ kind = "stats"
  <2>1. Rule(list, of, kind, i, j) = Stats(list, of, i, j)
    BY <1>7 DEF Rule
  <2> QED BY <1>7, <2>1, InStats DEF IsOf
<1>8. CASE ~(i < j) /\ ~(kind = "stats" /\ i = j)
  <2>1. Rule(list, of, kind, i, j) = {}
    BY <1>8 DEF Rule
  <2> QED BY <1>8, <2>1 DEF IsOf
<1> QED BY <1>1, <1>2, <1>3, <1>4, <1>5, <1>6, <1>7, <1>8 DEF Parts

\* A rule looks only at what is smaller.
LEMMA RuleSame ==
    ASSUME NEW list, Len(list) \in Nat, NEW f, NEW g, NEW kind \in Parts,
           NEW i \in Positions(list), NEW j \in Positions(list),
           SameBelow(list, f, g, Size(kind, i, j))
    PROVE  Rule(list, f, kind, i, j) = Rule(list, g, kind, i, j)
<1>0. i \in Int /\ j \in Int
  BY DEF Positions
<1>1. ASSUME NEW t
      PROVE  IsOf(list, f, kind, i, j, t) <=> IsOf(list, g, kind, i, j, t)
  <2>1. CASE ~(i < j)
    BY <2>1 DEF IsOf
  <2>2. CASE i < j
    <3>1. Same(list, f, g, i, j)
      BY <2>2, WithinIsSmaller
    <3>2. /\ kind = "product" => f[<<"factor", i, j>>] = g[<<"factor", i, j>>]
          /\ kind = "sum" => f[<<"product", i, j>>] = g[<<"product", i, j>>]
          /\ kind = "expr" => f[<<"sum", i, j>>] = g[<<"sum", i, j>>]
          /\ kind = "stats" => f[<<"stat", i, j>>] = g[<<"stat", i, j>>]
      <4>1. \A k, l \in Parts : Rank[k] < Rank[l] => Size(k, i, j) < Size(l, i, j)
        BY <1>0, <2>2, Ranks DEF Size
      <4>2. /\ Rank["factor"] = 0 /\ Rank["product"] = 1 /\ Rank["sum"] = 2 /\ Rank["expr"] = 3
            /\ Rank["stat"] = 4 /\ Rank["stats"] = 5
        BY DEF Rank
      <4>3. {"factor", "product", "sum", "expr", "stat", "stats"} \subseteq Parts
        BY DEF Parts
      <4> QED BY <4>1, <4>2, <4>3 DEF SameBelow
    <3>3. {"factor", "product", "sum"} \subseteq Parts
      BY DEF Parts
    <3>4. IsFactor(list, f, i, j, t) <=> IsFactor(list, g, i, j, t)
      BY <2>2, <3>1, FactorSame
    <3>5. \A opOf : \A left, right \in {"factor", "product", "sum"} :
             IsBinary(list, f, opOf, left, right, i, j, t) <=> IsBinary(list, g, opOf, left, right, i, j, t)
      BY <2>2, <3>1, <3>3, BinarySame
    <3>6. IsStatement(list, f, kind, i, j, t) <=> IsStatement(list, g, kind, i, j, t)
      <4>1. i <= i
        BY <1>0
      <4> QED BY <2>2, <3>1, <4>1, SimpleSame, BlocksSame, DeclarationSame, ConditionalSame DEF IsStatement
    <3>7. kind = "stats" => (IsStats(f, i, j, t) <=> IsStats(g, i, j, t))
      BY <2>2, <3>1, <3>2, StatsSame
    <3> QED BY <3>2, <3>4, <3>5, <3>6, <3>7, Zenon DEF IsOf
  <2> QED BY <2>1, <2>2
<1>2. \A t : t \in Rule(list, f, kind, i, j) <=> t \in Rule(list, g, kind, i, j)
  BY <1>0, <1>1, InRule
<1> QED BY <1>2

\* The sizes of the parts of a list are natural numbers with a bound.
LEMMA Sizes ==
    ASSUME NEW list, Len(list) \in Nat, NEW kind \in Parts,
           NEW i \in Positions(list), NEW j \in Positions(list)
    PROVE  Size(kind, i, j) \in Nat /\ Size(kind, i, j) < 6 * Len(list) + 6
<1>1. PICK r \in 0 .. 5 : r = Rank[kind]
  BY Ranks
<1>2. i \in Int /\ j \in Int /\ 1 <= i /\ j <= Len(list)
  BY DEF Positions
<1>3. CASE i < j
  <2>1. Size(kind, i, j) = 6 * (j - i) + r
    BY <1>1, <1>3 DEF Size
  <2>2. j - i \in Nat /\ j - i <= Len(list)
    BY <1>2, <1>3
  <2> QED BY <1>1, <2>1, <2>2
<1>4. CASE ~(i < j)
  BY <1>4 DEF Size
<1> QED BY <1>3, <1>4

Places3(list) == Parts \X Positions(list) \X Positions(list)

\* The table of a list keeps the rules.
LEMMA DerivedRule ==
    ASSUME NEW list, Len(list) \in Nat
    PROVE  \A kind \in Parts : \A i, j \in Positions(list) :
              Derived(list)[<<kind, i, j>>] = Rule(list, Derived(list), kind, i, j)
<1> DEFINE N == 6 * Len(list) + 6
           P == Positions(list)
           Keeps(f, kind, i, j) == f[<<kind, i, j>>] = Rule(list, f, kind, i, j)
           Solves(f, n) == \A kind \in Parts : \A i, j \in P :
                              Size(kind, i, j) < n => Keeps(f, kind, i, j)
           S == {n \in 0 .. N : \E f : Solves(f, n)}
           Table(g) == g = [x \in Places3(list) |-> Rule(list, g, x[1], x[2], x[3])]
<1>1. \A kind \in Parts : \A i, j \in P : Size(kind, i, j) \in Nat /\ Size(kind, i, j) < N
  BY Sizes
<1>2. \A kind \in Parts : \A i, j \in P :
         /\ <<kind, i, j>> \in Places3(list)
         /\ <<kind, i, j>>[1] = kind /\ <<kind, i, j>>[2] = i /\ <<kind, i, j>>[3] = j
  BY DEF Places3
<1>3. 0 \in S
  <2>1. Solves(0, 0)
    <3>1. \A kind \in Parts : \A i, j \in P : ~(Size(kind, i, j) < 0)
      BY <1>1
    <3> QED BY <3>1
  <2> HIDE DEF Solves
  <2>2. N \in Nat
    OBVIOUS
  <2> QED BY <2>1, <2>2
<1>4. ASSUME NEW n \in 0 .. N, n + 1 \in 0 .. N, n \in S
      PROVE  n + 1 \in S
  <2>1. PICK f : Solves(f, n)
    BY <1>4
  <2>2. PICK g : g = [x \in Places3(list) |->
                        IF Size(x[1], x[2], x[3]) < n THEN f[x] ELSE Rule(list, f, x[1], x[2], x[3])]
    OBVIOUS
  <2>3. \A kind \in Parts : \A i, j \in P :
           g[<<kind, i, j>>] = IF Size(kind, i, j) < n THEN f[<<kind, i, j>>] ELSE Rule(list, f, kind, i, j)
    BY <1>2, <2>2
  <2>4. ASSUME NEW kind \in Parts, NEW i \in P, NEW j \in P, Size(kind, i, j) < n + 1
        PROVE  Keeps(g, kind, i, j)
    <3>1. SameBelow(list, f, g, Size(kind, i, j))
      <4> SUFFICES ASSUME NEW k \in Parts, NEW a \in P, NEW b \in P, Size(k, a, b) < Size(kind, i, j)
                   PROVE  f[<<k, a, b>>] = g[<<k, a, b>>]
        BY DEF SameBelow
      <4>1. Size(k, a, b) < n
        <5>1. Size(k, a, b) \in Nat /\ Size(kind, i, j) \in Nat /\ n \in Nat
          BY <1>1
        <5> QED BY <2>4, <5>1
      <4> QED BY <2>3, <4>1
    <3>2. Rule(list, f, kind, i, j) = Rule(list, g, kind, i, j)
      BY <3>1, RuleSame
    <3>3. CASE Size(kind, i, j) < n
      BY <2>1, <2>3, <3>2, <3>3
    <3>4. CASE ~(Size(kind, i, j) < n)
      BY <2>3, <3>2, <3>4
    <3> QED BY <3>3, <3>4
  <2>5. Solves(g, n + 1)
    <3> HIDE DEF Keeps, P
    <3> QED BY <2>4
  <2> HIDE DEF Solves
  <2> QED BY <1>4, <2>5
<1>5. N \in S
  <2>1. N \in Nat
    OBVIOUS
  <2>2. 0 .. N \subseteq S
    <3> HIDE DEF S, N
    <3> QED BY <1>3, <1>4, <2>1, Upward
  <2> QED BY <2>1, <2>2
<1>6. PICK f : Solves(f, N)
  BY <1>5
<1>7. \A kind \in Parts : \A i, j \in P : f[<<kind, i, j>>] = Rule(list, f, kind, i, j)
  <2> HIDE DEF N
  <2> QED BY <1>1, <1>6
<1>8. PICK g : g = [x \in Places3(list) |-> Rule(list, f, x[1], x[2], x[3])]
  OBVIOUS
<1>9. \A kind \in Parts : \A i, j \in P : g[<<kind, i, j>>] = f[<<kind, i, j>>]
  <2> TAKE kind \in Parts
  <2> TAKE i, j \in P
  <2>1. PICK x : x = <<kind, i, j>>
    OBVIOUS
  <2>2. x \in Places3(list) /\ x[1] = kind /\ x[2] = i /\ x[3] = j
    BY <1>2, <2>1
  <2>3. g[x] = Rule(list, f, x[1], x[2], x[3])
    BY <1>8, <2>2
  <2> QED BY <1>7, <2>1, <2>2, <2>3
<1>10. Table(g)
  <2>1. ASSUME NEW x \in Places3(list)
        PROVE  Rule(list, f, x[1], x[2], x[3]) = Rule(list, g, x[1], x[2], x[3])
    <3>1. x[1] \in Parts /\ x[2] \in P /\ x[3] \in P
      BY DEF Places3
    <3>2. SameBelow(list, f, g, Size(x[1], x[2], x[3]))
      BY <1>9 DEF SameBelow
    <3> QED BY <3>1, <3>2, RuleSame
  <2> QED BY <1>8, <2>1
<1>11. Derived(list) = CHOOSE g2 : Table(g2)
  BY DEF Derived, Places3, Positions
<1>12. PICK h : Table(h) /\ Derived(list) = h
  <2> HIDE DEF Table
  <2> QED BY <1>10, <1>11
<1>13. \A kind \in Parts : \A i, j \in P : h[<<kind, i, j>>] = Rule(list, h, kind, i, j)
  <2> TAKE kind \in Parts
  <2> TAKE i, j \in P
  <2>1. PICK x : x = <<kind, i, j>>
    OBVIOUS
  <2>2. x \in Places3(list) /\ x[1] = kind /\ x[2] = i /\ x[3] = j
    BY <1>2, <2>1
  <2>3. h[x] = Rule(list, h, x[1], x[2], x[3])
    BY <1>12, <2>2
  <2> QED BY <2>1, <2>2, <2>3
<1> QED BY <1>12, <1>13

-----------------------------------------------------------------------------
(* The trees of a list are tables of nodes. *)

TypeOf(kind) == IF kind = "stats" THEN Seq(Tables) ELSE Tables

\* A node over trees is a tree.
LEMMA OverTable ==
    ASSUME NEW node \in Leaves, NEW trees \in Seq(Tables)
    PROVE  Over(node, trees) \in Tables
<1>1. node \in Nodes
  BY LoneNode
<1>2. PICK f \in [0 .. Len(trees) -> Tables] : OverUpTo(node, trees, f)
  BY <1>1, OverDef
<1>3. Len(trees) \in 0 .. Len(trees)
  BY LenProperties
<1> QED BY <1>2, <1>3 DEF OverUpTo

\* A node without children is a tree.
LEMMA LoneTable ==
    ASSUME NEW node \in Leaves
    PROVE  <<node>> \in Tables
BY LoneNode DEF WholeBelow, IsTree, IsTable

\* Up to four trees are a sequence of trees.
LEMMA FewTables ==
    ASSUME NEW a \in Tables, NEW b \in Tables, NEW c \in Tables, NEW d \in Tables
    PROVE  /\ <<a>> \in Seq(Tables) /\ <<a, b>> \in Seq(Tables)
           /\ <<a, b, c>> \in Seq(Tables) /\ <<a, b, c, d>> \in Seq(Tables)
OBVIOUS

\* An operator over the trees of its operands is a tree.
LEMMA BinaryTables ==
    ASSUME NEW list, NEW of, NEW opOf \in {FactorOpOf, TermOpOf, ExprOpOf},
           NEW left \in Parts, NEW right \in Parts, left # "stats", right # "stats",
           NEW i \in Int, NEW j \in Int,
           \A kind \in Parts : \A a, b \in Int : of[<<kind, a, b>>] \subseteq TypeOf(kind),
           NEW t, IsBinary(list, of, opOf, left, right, i, j, t)
    PROVE  t \in Tables
<1>1. PICK k \in Places(list, i + 1, j - 2, DOMAIN opOf) :
         \E l \in of[<<left, i, k>>], r \in of[<<right, k + 1, j>>] :
            t = Over(BinOp(opOf[list[k].type]), <<l, r>>)
  BY Zenon DEF IsBinary
<1>2. k \in i + 1 .. j - 2 /\ list[k].type \in DOMAIN opOf
  BY DEF Places
<1>3. k \in Int /\ k + 1 \in Int
  BY <1>2
<1>4. of[<<left, i, k>>] \subseteq Tables /\ of[<<right, k + 1, j>>] \subseteq Tables
  BY <1>3 DEF TypeOf
<1>5. PICK l \in Tables, r \in Tables : t = Over(BinOp(opOf[list[k].type]), <<l, r>>)
  BY <1>1, <1>4
<1>6. opOf[list[k].type] \in Operators
  BY <1>2 DEF FactorOpOf, TermOpOf, ExprOpOf, Operators, ArithOps, CompareOps
<1> QED BY <1>5, <1>6, FewTables, OverTable, BinOpLeaf

\* A token has a name or none, a value and a type.
LEMMA TokenFields ==
    ASSUME NEW list, IsTokenList(list), NEW i \in DOMAIN list
    PROVE  list[i].name \in Names \cup {NULL} /\ list[i].ival \in Int /\ list[i].type \in TokenTypes
<1>1. list \in Seq(Token)
  BY DEF IsTokenList
<1>2. list[i] \in Token
  BY <1>1, ElementOfSeq, LenProperties
<1> QED BY <1>2 DEF Token

\* The nodes of the statements.
LEMMA StatementLeaves ==
    /\ Plain("RETURN_STAT") \in Leaves /\ Plain("SKIP_STAT") \in Leaves /\ Plain("EXPR_STAT") \in Leaves
    /\ Plain("BLOCK_STAT") \in Leaves /\ Plain("IF_STAT") \in Leaves /\ Plain("WHILE_STAT") \in Leaves
    /\ Plain("FOR_STAT") \in Leaves
<1>1. {"RETURN_STAT", "SKIP_STAT", "EXPR_STAT", "BLOCK_STAT", "IF_STAT", "WHILE_STAT", "FOR_STAT"}
         \subseteq NodeTypes
  BY DEF NodeTypes, StatNodes, StatTypes
<1> QED BY <1>1, PlainLeaf

\* The parts are tables.
PartsTyped(of) == \A kind \in Parts : \A a, b \in Int : of[<<kind, a, b>>] \subseteq TypeOf(kind)

\* The parts other than lists of statements have trees.
LEMMA ExprTables ==
    ASSUME NEW of, PartsTyped(of), NEW kind \in Parts \ {"stats"}, NEW a \in Int, NEW b \in Int,
           NEW t \in of[<<kind, a, b>>]
    PROVE  t \in Tables
BY DEF PartsTyped, TypeOf

\* A block over its statements is a tree.
LEMMA BlocksTables ==
    ASSUME NEW list, NEW of, PartsTyped(of), NEW i \in Int, NEW j \in Int, NEW t,
           IsBlocks(list, of, i, j, t)
    PROVE  t \in Tables
<1>1. PICK s \in of[<<"stats", i + 1, j - 1>>] : t = Over(Plain("BLOCK_STAT"), s)
  BY DEF IsBlocks
<1>2. s \in Seq(Tables)
  BY DEF PartsTyped, TypeOf, Parts
<1> QED BY <1>1, <1>2, OverTable, StatementLeaves

\* A declaration over its parts is a tree.
LEMMA DeclarationTables ==
    ASSUME NEW list, IsTokenList(list), NEW of, PartsTyped(of), NEW i \in Int, NEW j \in Int, NEW t,
           NEW name \in Names \cup {NULL},
           IsDeclarator(list, of, name, i, j, t) \/ IsBody(list, of, name, i, j, t)
    PROVE  t \in Tables
<1>1. Named("DECL_STAT", name) \in Leaves /\ FuncDecl(name) \in Leaves
  BY NamedLeaf, FuncDeclLeaf DEF HasName
<1>2. ASSUME NEW k \in Int, IsBody(list, of, name, k, j, t)
      PROVE  t \in Tables
  <2>1. CASE t = <<FuncDecl(name)>>
    BY <1>1, <2>1, LoneTable
  <2>2. CASE \E b : IsBlocks(list, of, k, j, b) /\ t = Over(FuncDecl(name), <<b>>)
    <3>1. PICK b : IsBlocks(list, of, k, j, b) /\ t = Over(FuncDecl(name), <<b>>)
      BY <2>2
    <3>2. b \in Tables
      BY <3>1, BlocksTables
    <3> QED BY <1>1, <3>1, <3>2, FewTables, OverTable
  <2> QED BY <1>2, <2>1, <2>2 DEF IsBody
<1>3. ASSUME IsDeclarator(list, of, name, i, j, t)
      PROVE  t \in Tables
  <2>1. CASE t = <<Named("DECL_STAT", name)>>
    BY <1>1, <2>1, LoneTable
  <2>2. CASE \E e \in of[<<"expr", i + 1, j - 1>>] : t = Over(Named("DECL_STAT", name), <<e>>)
    <3>1. PICK e \in of[<<"expr", i + 1, j - 1>>] : t = Over(Named("DECL_STAT", name), <<e>>)
      BY <2>2
    <3>2. e \in Tables
      BY <3>1, ExprTables DEF Parts
    <3> QED BY <1>1, <3>1, <3>2, FewTables, OverTable
  <2>3. CASE IsBody(list, of, name, i + 2, j, t)
    BY <1>2, <2>3
  <2> QED BY <1>3, <2>1, <2>2, <2>3 DEF IsDeclarator
<1> QED BY <1>2, <1>3

\* A conditional statement over its parts is a tree.
LEMMA ConditionalTables ==
    ASSUME NEW list, NEW of, PartsTyped(of), NEW kind \in {"stat", "closed"},
           NEW i \in Int, NEW j \in Int, NEW t, IsConditional(list, of, kind, i, j, t)
    PROVE  t \in Tables
<1>0. {"expr", "stat", "closed"} \subseteq Parts \ {"stats"} /\ kind \in Parts \ {"stats"}
  BY DEF Parts
<1>1. PICK k \in i + 2 .. j - 1 :
         IsIf(list, of, kind, i, k, j, t) \/ IsWhile(of, kind, i, k, j, t) \/ IsFor(list, of, kind, i, k, j, t)
  BY DEF IsConditional, Places
<1>2. CASE IsIf(list, of, kind, i, k, j, t)
  <2>1. PICK c \in of[<<"expr", i + 2, k>>] :
           \/ \E b \in of[<<"stat", k + 1, j>>] : t = Over(Plain("IF_STAT"), <<c, b>>)
           \/ \E m \in Places(list, k + 1, j - 1, {"ELSE_TOK"}) :
                 \E b \in of[<<"closed", k + 1, m>>], f \in of[<<kind, m + 1, j>>] :
                    t = Over(Plain("IF_STAT"), <<c, b, f>>)
    BY <1>2, Zenon DEF IsIf
  <2>2. c \in Tables
    BY <1>0, ExprTables
  <2>3. CASE \E b \in of[<<"stat", k + 1, j>>] : t = Over(Plain("IF_STAT"), <<c, b>>)
    <3>1. PICK b \in of[<<"stat", k + 1, j>>] : t = Over(Plain("IF_STAT"), <<c, b>>)
      BY <2>3
    <3>2. b \in Tables
      BY <1>0, ExprTables
    <3> QED BY <2>2, <3>1, <3>2, FewTables, OverTable, StatementLeaves
  <2>4. CASE \E m \in Places(list, k + 1, j - 1, {"ELSE_TOK"}) :
                \E b \in of[<<"closed", k + 1, m>>], f \in of[<<kind, m + 1, j>>] :
                   t = Over(Plain("IF_STAT"), <<c, b, f>>)
    <3>0. PICK m \in Places(list, k + 1, j - 1, {"ELSE_TOK"}) :
             \E b \in of[<<"closed", k + 1, m>>], f \in of[<<kind, m + 1, j>>] :
                t = Over(Plain("IF_STAT"), <<c, b, f>>)
      BY <2>4, Zenon
    <3>3. m \in Int
      BY DEF Places
    <3>1. PICK b \in of[<<"closed", k + 1, m>>], f \in of[<<kind, m + 1, j>>] :
             t = Over(Plain("IF_STAT"), <<c, b, f>>)
      BY <3>0
    <3>2. b \in Tables /\ f \in Tables
      BY <1>0, <3>3, ExprTables
    <3> QED BY <2>2, <3>1, <3>2, FewTables, OverTable, StatementLeaves
  <2> QED BY <2>1, <2>3, <2>4
<1>3. CASE IsWhile(of, kind, i, k, j, t)
  <2>1. PICK c \in of[<<"expr", i + 2, k>>], b \in of[<<kind, k + 1, j>>] :
           t = Over(Plain("WHILE_STAT"), <<c, b>>)
    BY <1>3, Zenon DEF IsWhile
  <2>2. c \in Tables /\ b \in Tables
    BY <1>0, ExprTables
  <2> QED BY <2>1, <2>2, FewTables, OverTable, StatementLeaves
<1>4. CASE IsFor(list, of, kind, i, k, j, t)
  <2>1. PICK l, m \in Places(list, i + 2, k - 1, {"SCOL_TOK"}) :
           \E a \in of[<<"expr", i + 2, l>>], c \in of[<<"expr", l + 1, m>>],
              b \in of[<<"expr", m + 1, k>>], s \in of[<<kind, k + 1, j>>] :
              t = Over(Plain("FOR_STAT"), <<a, c, b, s>>)
    BY <1>4, Zenon DEF IsFor
  <2>2. l \in Int /\ m \in Int
    BY DEF Places
  <2>3. PICK a \in of[<<"expr", i + 2, l>>], c \in of[<<"expr", l + 1, m>>],
             b \in of[<<"expr", m + 1, k>>], s \in of[<<kind, k + 1, j>>] :
             t = Over(Plain("FOR_STAT"), <<a, c, b, s>>)
    BY <2>1
  <2>4. a \in Tables /\ c \in Tables /\ b \in Tables /\ s \in Tables
    BY <1>0, <2>2, ExprTables
  <2> QED BY <2>3, <2>4, FewTables, OverTable, StatementLeaves
<1> QED BY <1>1, <1>2, <1>3, <1>4

\* A rule makes trees of trees.
LEMMA TypedRule ==
    ASSUME NEW list, IsTokenList(list), NEW of, PartsTyped(of),
           NEW kind \in Parts, NEW i \in Int, NEW j \in Int
    PROVE  Rule(list, of, kind, i, j) \subseteq TypeOf(kind)
<1> SUFFICES ASSUME NEW t, IsOf(list, of, kind, i, j, t)
             PROVE  t \in TypeOf(kind)
  BY InRule
<1>1. CASE kind = "stats"
  <2>1. CASE t = <<>>
    BY <1>1, <2>1 DEF TypeOf
  <2>2. CASE IsStats(of, i, j, t)
    <3>1. PICK k \in i + 1 .. j : \E s \in of[<<"stat", i, k>>], rest \in of[<<"stats", k, j>>] :
             t = <<s>> \o rest
      BY <2>2, Zenon DEF IsStats
    <3>2. PICK s \in of[<<"stat", i, k>>], rest \in of[<<"stats", k, j>>] : t = <<s>> \o rest
      BY <3>1
    <3>3. s \in Tables /\ rest \in Seq(Tables)
      BY DEF PartsTyped, TypeOf, Parts
    <3>4. <<s>> \in Seq(Tables)
      BY <3>3
    <3> QED BY <1>1, <3>2, <3>3, <3>4, ConcatProperties DEF TypeOf
  <2> QED BY <1>1, <2>1, <2>2 DEF IsOf
<1>2. CASE kind # "stats"
  <2>0. {"factor", "product", "sum", "expr"} \subseteq Parts \ {"stats"}
    BY DEF Parts
  <2>1. CASE kind = "factor"
    <3>1. IsFactor(list, of, i, j, t)
      BY <1>2, <2>1 DEF IsOf
    <3>2. CASE i \in DOMAIN list
      <4>1. /\ IntLit(list[i].ival) \in Leaves
            /\ Named("VAR_REF", list[i].name) \in Leaves /\ Named("FUNC_CALL", list[i].name) \in Leaves
        <5>1. list[i].name \in Names \cup {NULL} /\ list[i].ival \in Int
          BY <3>2, TokenFields
        <5>2. "INT_LIT" \in NodeTypes /\ NULL \in Operators \cup {NULL} /\ NULL \in Names \cup {NULL}
          BY DEF NodeTypes, ExprNodes, ExprTypes
        <5> QED BY <5>1, <5>2, LeafTypes, NamedLeaf DEF IntLit, HasName
      <4> QED BY <2>0, <3>1, <4>1, LoneTable, ExprTables, <1>2 DEF IsFactor, TypeOf
    <3> QED BY <3>1, <3>2 DEF IsFactor, Is
  <2>2. CASE kind \in {"product", "sum", "expr"}
    <3>1. \/ \E k \in {"factor", "product", "sum"} : t \in of[<<k, i, j>>]
          \/ \E opOf \in {FactorOpOf, TermOpOf, ExprOpOf}, left, right \in {"factor", "product", "sum"} :
                IsBinary(list, of, opOf, left, right, i, j, t)
      BY <1>2, <2>2 DEF IsOf
    <3>2. \A k \in {"factor", "product", "sum"} : t \in of[<<k, i, j>>] => t \in Tables
      BY <2>0, ExprTables
    <3>3. \A opOf \in {FactorOpOf, TermOpOf, ExprOpOf} : \A left, right \in {"factor", "product", "sum"} :
             IsBinary(list, of, opOf, left, right, i, j, t) => t \in Tables
      <4>1. \A k \in {"factor", "product", "sum"} : k \in Parts /\ k # "stats"
        BY DEF Parts
      <4> QED BY <4>1, BinaryTables DEF PartsTyped
    <3> QED BY <1>2, <3>1, <3>2, <3>3 DEF TypeOf
  <2>3. CASE kind \in {"stat", "closed"}
    <3>1. IsStatement(list, of, kind, i, j, t)
      BY <1>2, <2>3 DEF IsOf
    <3>2. CASE IsSimple(list, of, i, j, t)
      <4>1. CASE \E e \in of[<<"expr", i + 1, j - 1>>] : t = Over(Plain("RETURN_STAT"), <<e>>)
        <5>1. PICK e \in of[<<"expr", i + 1, j - 1>>] : t = Over(Plain("RETURN_STAT"), <<e>>)
          BY <4>1
        <5>2. e \in Tables
          BY <2>0, ExprTables
        <5> QED BY <1>2, <5>1, <5>2, FewTables, OverTable, StatementLeaves DEF TypeOf
      <4>2. CASE t = <<Plain("SKIP_STAT")>>
        BY <1>2, <4>2, LoneTable, StatementLeaves DEF TypeOf
      <4>3. CASE \E e \in of[<<"expr", i, j - 1>>] : t = Over(Plain("EXPR_STAT"), <<e>>)
        <5>1. PICK e \in of[<<"expr", i, j - 1>>] : t = Over(Plain("EXPR_STAT"), <<e>>)
          BY <4>3
        <5>2. e \in Tables
          BY <2>0, ExprTables
        <5> QED BY <1>2, <5>1, <5>2, FewTables, OverTable, StatementLeaves DEF TypeOf
      <4> QED BY <3>2, <4>1, <4>2, <4>3 DEF IsSimple
    <3>3. CASE IsBlocks(list, of, i, j, t)
      BY <1>2, <3>3, BlocksTables DEF TypeOf
    <3>4. CASE IsDeclaration(list, of, i, j, t)
      <4>1. i + 1 \in DOMAIN list /\ IsDeclarator(list, of, list[i + 1].name, i + 2, j, t)
        BY <3>4 DEF IsDeclaration, Is
      <4>2. list[i + 1].name \in Names \cup {NULL}
        BY <4>1, TokenFields
      <4> QED BY <1>2, <4>1, <4>2, DeclarationTables DEF TypeOf
    <3>5. CASE IsConditional(list, of, kind, i, j, t)
      BY <1>2, <2>3, <3>5, ConditionalTables DEF TypeOf
    <3> QED BY <3>1, <3>2, <3>3, <3>4, <3>5 DEF IsStatement
  <2> QED BY <1>2, <2>1, <2>2, <2>3 DEF Parts
<1> QED BY <1>1, <1>2

\* Whatever a list stands for is made of nodes.
LEMMA DerivedTyped ==
    ASSUME NEW list, IsTokenList(list)
    PROVE  \A kind \in Parts : \A i, j \in Positions(list) :
              Derived(list)[<<kind, i, j>>] \subseteq TypeOf(kind)
<1> DEFINE N == 6 * Len(list) + 6
           P == Positions(list)
           D == Derived(list)
           Fine(n) == \A kind \in Parts : \A i, j \in P :
                         Size(kind, i, j) < n => D[<<kind, i, j>>] \subseteq TypeOf(kind)
           S == {n \in 0 .. N : Fine(n)}
<1>0. Len(list) \in Nat /\ N \in Nat
  <2>1. Len(list) \in Nat
    BY LenProperties DEF IsTokenList
  <2> QED BY <2>1
<1>1. \A kind \in Parts : \A i, j \in P : Size(kind, i, j) \in Nat /\ Size(kind, i, j) < N
  BY <1>0, Sizes
<1> HIDE DEF N
<1>2. 0 \in S
  <2>1. \A kind \in Parts : \A i, j \in P : ~(Size(kind, i, j) < 0)
    BY <1>1
  <2> QED BY <1>0, <2>1
<1>3. ASSUME NEW n \in 0 .. N, n + 1 \in 0 .. N, n \in S
      PROVE  n + 1 \in S
  <2>1. ASSUME NEW kind \in Parts, NEW i \in P, NEW j \in P, Size(kind, i, j) < n + 1
        PROVE  D[<<kind, i, j>>] \subseteq TypeOf(kind)
    <3>1. PICK g : g = [x \in Parts \X Int \X Int |-> IF x \in Places3(list) THEN D[x] \cap TypeOf(x[1]) ELSE {}]
      OBVIOUS
    <3>2. \A k \in Parts : \A a, b \in Int :
             g[<<k, a, b>>] = IF a \in P /\ b \in P THEN D[<<k, a, b>>] \cap TypeOf(k) ELSE {}
      <4> TAKE k \in Parts
      <4> TAKE a, b \in Int
      <4>1. PICK x : x = <<k, a, b>>
        OBVIOUS
      <4>2. /\ x \in Parts \X Int \X Int /\ x[1] = k
            /\ x \in Places3(list) <=> (a \in P /\ b \in P)
        BY <4>1 DEF Places3
      <4>3. g[x] = IF x \in Places3(list) THEN D[x] \cap TypeOf(x[1]) ELSE {}
        BY <3>1, <4>2
      <4> QED BY <4>1, <4>2, <4>3
    <3>3. PartsTyped(g)
      BY <3>2 DEF PartsTyped
    <3>4. \A a \in P : a \in Int
      BY DEF Positions
    <3>5. SameBelow(list, D, g, Size(kind, i, j))
      <4> SUFFICES ASSUME NEW k \in Parts, NEW a \in P, NEW b \in P, Size(k, a, b) < Size(kind, i, j)
                   PROVE  D[<<k, a, b>>] = g[<<k, a, b>>]
        BY DEF SameBelow
      <4>1. Size(k, a, b) < n
        <5>1. Size(k, a, b) \in Nat /\ Size(kind, i, j) \in Nat /\ n \in Nat
          BY <1>0, <1>1
        <5> QED BY <2>1, <5>1
      <4>2. D[<<k, a, b>>] \subseteq TypeOf(k)
        BY <1>3, <4>1
      <4> QED BY <3>2, <3>4, <4>2
    <3>6. D[<<kind, i, j>>] = Rule(list, g, kind, i, j)
      BY <1>0, <3>5, RuleSame, DerivedRule
    <3> QED BY <3>3, <3>4, <3>6, TypedRule
  <2>2. Fine(n + 1)
    <3> HIDE DEF D, P
    <3> QED BY <2>1
  <2> QED BY <1>3, <2>2
<1>4. N \in S
  <2>1. 0 .. N \subseteq S
    <3> HIDE DEF S
    <3> QED BY <1>0, <1>2, <1>3, Upward
  <2> QED BY <1>0, <2>1
<1> QED BY <1>1, <1>4
=============================================================================
