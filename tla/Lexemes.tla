------------------------------ MODULE Lexemes ------------------------------
(***************************************************************************)
(* What the tokens of a text ought to be, stated without a scan: which     *)
(* stretches of a text are lexemes, of which the longest counts.  It is    *)
(* the reference the lexer is compared with, and models no code.           *)
(***************************************************************************)
EXTENDS Lexer, FiniteSetsExt

AllIn(s, S) == \A i \in DOMAIN s : s[i] \in S

IsWord(s)   == s[1] \in Letters /\ AllIn(s, Letters \cup Digits)
IsNumber(s) == AllIn(s, Digits)
IsPair(s)   == Len(s) = 2 /\ s[1] \in DOMAIN WideOf /\ s[2] = "="
IsRemark(s) == /\ Len(s) > 2 /\ s[1] = "/" /\ s[2] = "/" /\ s[Len(s)] = "\n"
               /\ \A i \in 1 .. Len(s) - 1 : s[i] # "\n"

IsLexeme(s) == Len(s) = 1 \/ IsWord(s) \/ IsNumber(s) \/ IsPair(s) \/ IsRemark(s)

\* Where the longest lexeme ends that begins at the i-th character.
EndOf(i) == Max({k \in i .. Len(text) : IsLexeme(SubSeq(text, i, k))})

\* The text from there on as a sequence of lexemes, each as long as possible.
LexemesFrom(j) ==
    LET from[i \in 1 .. Len(text) + 1] ==
          IF i > Len(text) THEN <<>> ELSE <<SubSeq(text, i, EndOf(i))>> \o from[EndOf(i) + 1]
    IN  from[j]

Lexemes == LexemesFrom(1)

Decimal(s) ==
    LET value[n \in 0 .. Len(s)] ==
          IF n = 0 THEN 0 ELSE 10 * value[n - 1] + DigitValue(s[n])
    IN  value[Len(s)]

\* What a lexeme stands for: nothing, or a token.
IsBlank(s)   == s[1] \in Whitespace
IsUnknown(s) == s[1] \notin Whitespace \cup Letters \cup Digits \cup DOMAIN SymbolOf

TokenOf(s) ==
    CASE IsNumber(s) -> IntTk(Decimal(s))
      [] IsPair(s)   -> Tk(WideOf[s[1]])
      [] IsWord(s)   -> IF Len(s) = 1 /\ s[1] \in DOMAIN KeywordOf THEN Tk(KeywordOf[s[1]])
                                                                    ELSE NameTk(s)
      [] OTHER       -> Tk(SymbolOf[s[1]])

\* The lexemes that take room in the array, that stand for tokens, that mean nothing.
Taken(list)  == Kept(list, {i \in DOMAIN list : ~IsBlank(list[i])})
Proper(list) == Kept(list, {i \in DOMAIN list : ~IsBlank(list[i]) /\ ~IsUnknown(list[i])
                                                /\ ~IsRemark(list[i])})
Odd(list)    == Kept(list, {i \in DOMAIN list : IsUnknown(list[i])})

\* The tokens that a list of lexemes stands for.
TokensOf(list) ==
    LET s == Proper(list)
    IN  Append([i \in DOMAIN s |-> TokenOf(s[i])], Tk("PROGRAM_END_TOK"))

\* A comment that no line break ends.
Unclosed(list) == \E i \in 1 .. Len(list) - 1 : list[i] = <<"/">> /\ list[i + 1] = <<"/">>

\* A name with the 0 at its end, and the tokens with the end of the program, have
\* room in their arrays.
Fits(list) ==
    /\ \A i \in DOMAIN list : IsWord(list[i]) => Len(list[i]) + 1 <= MAX_STRING_SIZE
    /\ Len(Taken(list)) + 1 <= MAX_TOKENS

-----------------------------------------------------------------------------
(* What holds of the lexer. *)

Agree(token, expected) ==
    /\ token.type = expected.type /\ token.name = expected.name
    /\ (token.ival - expected.ival) % (2 ^ IntBits) = 0
    /\ -(2 ^ (IntBits - 1)) <= token.ival /\ token.ival < 2 ^ (IntBits - 1)

\* The tokens are those of the lexemes, each literal as the int that is left of its
\* value, and every character that means nothing has been reported.
Tokenized(list) ==
    LET s == Delivered
        t == TokensOf(list)
    IN  /\ IsTokenList(s)
        /\ Len(s) = Len(t)
        /\ \A i \in DOMAIN s : Agree(s[i], t[i])
        /\ warnings = Len(Odd(list))

\* skip_line waits for a line break behind the end of the text.
Endless == mode = "line" /\ at > Len(text)

\* tokenize returns the longest-match tokens of the text, each literal as the int
\* that is left of its value, and reports each character that means nothing; it
\* goes on for ever only when a comment is not ended by a line break.
LexCorrect ==
    /\ mode = "done" => LET s == Lexemes IN Tokenized(s) /\ ~Unclosed(s)
    /\ Endless => Unclosed(Lexemes)

\* The lexer leaves its arrays exactly on the texts with a name or a list of
\* lexemes that does not fit; comments and unknown characters take room as well.
BoundsExact ==
    /\ mode = "overrun" => ~Fits(Lexemes)
    /\ mode = "done" => Fits(Lexemes)
=============================================================================
