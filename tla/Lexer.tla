------------------------------- MODULE Lexer -------------------------------
(***************************************************************************)
(* The lexer (lexer.c): next_token reads the text character by character,  *)
(* and tokenize collects what it returns in an array of a fixed size, from *)
(* which the invalid tokens are then dropped.                              *)
(*                                                                         *)
(* A character of the model is a string: a letter stands for a run of      *)
(* letters ("x", but also "while"), everything else is one character.      *)
(***************************************************************************)
EXTENDS Tokens

CONSTANTS
    Letters,            \* the runs of letters that texts are made of
    IntBits,            \* width of an int
    MAX_TOKENS,         \* size of the array of tokens
    MAX_STRING_SIZE     \* size of the buffer of a name, with the 0 at its end

VARIABLES
    text,       \* what is in the input file
    at,         \* where next_char stands in it
    mode,       \* the loop the lexer is in, or how it has ended
    word,       \* consume_string: what has been read of a name
    val,        \* consume_int_literal: the value so far
    found,      \* tokenize: the array `tokens'
    warnings    \* warning_count()

lexVars == <<text, at, mode, word, val, found, warnings>>

EOF        == "EOF"
Numerals   == <<"0", "1", "2", "3", "4", "5", "6", "7", "8", "9">>
Digits     == {Numerals[i] : i \in DOMAIN Numerals}
Whitespace == {"\t", " ", "\n"}

DigitValue(c) == (CHOOSE i \in DOMAIN Numerals : Numerals[i] = c) - 1

\* The switch: characters that are tokens, the end of the text being one of them, and
\* what some of them mean when an equals sign follows.
SymbolOf == [c \in {EOF, "(", ")", "+", "-", "*", "/", "{", "}", ";", "=", "<", ">"} |->
    CASE c = EOF -> "PROGRAM_END_TOK" [] c = "(" -> "LPAREN_TOK" [] c = ")" -> "RPAREN_TOK"
      [] c = "+" -> "PLUS_TOK"        [] c = "-" -> "MINUS_TOK"  [] c = "*" -> "STAR_TOK"
      [] c = "/" -> "FSLASH_TOK"      [] c = "{" -> "LBRACE_TOK" [] c = "}" -> "RBRACE_TOK"
      [] c = ";" -> "SCOL_TOK"        [] c = "=" -> "ASSIGN_TOK" [] c = "<" -> "LT_TOK"
      [] c = ">" -> "GT_TOK"]

WideOf == [c \in {"=", "<", ">"} |->
    CASE c = "=" -> "EQ_TOK" [] c = "<" -> "LTE_TOK" [] c = ">" -> "GTE_TOK"]

KeywordOf == [return |-> "RETURN_TOK", if |-> "IF_TOK", while |-> "WHILE_TOK",
              for |-> "FOR_TOK", else |-> "ELSE_TOK"]

\* The runs of letters are no other characters; names that fit into the buffer are
\* names; an int has two halves, negative and not negative.
ASSUME LettersAssumption ==
    Letters \subseteq STRING /\ Letters \cap (Digits \cup Whitespace \cup DOMAIN SymbolOf) = {}
ASSUME NamesAssumption ==
    \A n \in 1 .. MAX_STRING_SIZE - 1 : \A w \in [1 .. n -> Letters \cup Digits] :
        w[1] \in Letters => w \in Names
ASSUME BoundsAssumption ==
    /\ MAX_TOKENS \in Nat /\ MAX_STRING_SIZE \in Nat
    /\ 2 ^ IntBits = 2 * 2 ^ (IntBits - 1) /\ 2 ^ (IntBits - 1) \in Nat \ {0}

\* What may be in a file: at the end of it is EOF, and nowhere else.
IsText(s) == s \in Seq(STRING) /\ \A i \in DOMAIN s : s[i] # EOF

\* An int that has grown too large goes on with the bits that are left.
Wrap(i) == ((i + 2 ^ (IntBits - 1)) % 2 ^ IntBits) - 2 ^ (IntBits - 1)

CharAt(i) == IF i \in DOMAIN text THEN text[i] ELSE EOF
Char      == CharAt(at)
peek      == CharAt(at + 1)

\* consume_char; behind the end of the text there is nothing but EOF.
Consume(n) == at' = IF Char = EOF THEN at ELSE at + n

LexInit ==
    /\ at = 1
    /\ mode = "next"
    /\ word = <<>> /\ val = 0
    /\ found = <<>>
    /\ warnings = 0

\* next_token returns.  Behind the last element of the array is memory of
\* something else: what happens when it is written is not modelled.
PutToken(token) ==
    IF Len(found) < MAX_TOKENS
    THEN /\ found' = Append(found, token)
         /\ mode' = IF token.type = "PROGRAM_END_TOK" THEN "done" ELSE "next"
    ELSE mode' = "overrun" /\ UNCHANGED found

-----------------------------------------------------------------------------
(* skip_whitespace, consume_string, consume_int_literal. *)

SkipBlank ==
    /\ mode = "next" /\ Char \in Whitespace
    /\ Consume(1)
    /\ UNCHANGED <<text, mode, word, val, found, warnings>>

StartString ==
    /\ mode = "next" /\ Char \in Letters
    /\ mode' = "string" /\ word' = <<>>
    /\ UNCHANGED <<text, at, val, found, warnings>>

StringChar ==
    /\ mode = "string" /\ Char \in Letters \cup Digits
    /\ IF Len(word) < MAX_STRING_SIZE
       THEN word' = Append(word, Char) /\ Consume(1) /\ UNCHANGED mode
       ELSE mode' = "overrun" /\ UNCHANGED <<at, word>>
    /\ UNCHANGED <<text, val, found, warnings>>

\* create_ident_or_keyword_token, after the 0 has been written.
WordTk ==
    IF Len(word) = 1 /\ word[1] \in DOMAIN KeywordOf THEN Tk(KeywordOf[word[1]])
                                                     ELSE NameTk(word)

\* Mutated form of EndString: no room is kept for the 0 at the end.
EndStringUnterminated ==
    /\ mode = "string" /\ Char \notin Letters \cup Digits
    /\ PutToken(WordTk)
    /\ UNCHANGED <<text, at, word, val, warnings>>

EndString ==
    /\ mode = "string" /\ Char \notin Letters \cup Digits
    /\ IF Len(word) < MAX_STRING_SIZE THEN PutToken(WordTk)
                                      ELSE mode' = "overrun" /\ UNCHANGED found
    /\ UNCHANGED <<text, at, word, val, warnings>>

StartNumber ==
    /\ mode = "next" /\ Char \in Digits
    /\ mode' = "number" /\ val' = 0
    /\ UNCHANGED <<text, at, word, found, warnings>>

Digit ==
    /\ mode = "number" /\ Char \in Digits
    /\ val' = Wrap(DigitValue(Char) + val * 10)
    /\ Consume(1)
    /\ UNCHANGED <<text, mode, word, found, warnings>>

EndNumber ==
    /\ mode = "number" /\ Char \notin Digits
    /\ PutToken(IntTk(val))
    /\ UNCHANGED <<text, at, word, val, warnings>>

-----------------------------------------------------------------------------
(* The switch of next_token, and the character it has looked at. *)

IsWide    == Char \in DOMAIN WideOf /\ peek = "="
IsComment == Char = "/" /\ peek = "/"

\* The end of the program is a symbol as well.
Sign ==
    /\ mode = "next" /\ Char \in DOMAIN SymbolOf /\ ~IsWide /\ ~IsComment
    /\ PutToken(Tk(SymbolOf[Char]))
    /\ Consume(1)
    /\ UNCHANGED <<text, word, val, warnings>>

\* Mutated form of WideSymbol: the second character is not consumed.
WideSymbolHalf ==
    /\ mode = "next" /\ IsWide
    /\ PutToken(Tk(WideOf[Char]))
    /\ Consume(1)
    /\ UNCHANGED <<text, word, val, warnings>>

WideSymbol ==
    /\ mode = "next" /\ IsWide
    /\ PutToken(Tk(WideOf[Char]))
    /\ Consume(2)
    /\ UNCHANGED <<text, word, val, warnings>>

StartLine ==
    /\ mode = "next" /\ IsComment
    /\ mode' = "line"
    /\ UNCHANGED <<text, at, word, val, found, warnings>>

\* skip_line waits for a line break.  At the end of the text it waits for ever.
SkipChar ==
    /\ mode = "line" /\ Char # "\n"
    /\ Consume(1)
    /\ UNCHANGED <<text, mode, word, val, found, warnings>>

EndLine ==
    /\ mode = "line" /\ Char = "\n"
    /\ PutToken(Tk("INVALID_TOK"))
    /\ Consume(1)
    /\ UNCHANGED <<text, word, val, warnings>>

\* An unknown character is dropped with a warning: this is no error.
Unknown ==
    /\ mode = "next"
    /\ Char \notin Whitespace \cup Letters \cup Digits \cup DOMAIN SymbolOf
    /\ PutToken(Tk("INVALID_TOK"))
    /\ Consume(1)
    /\ warnings' = warnings + 1
    /\ UNCHANGED <<text, word, val>>

LexStep ==
    \/ SkipBlank \/ StartString \/ StringChar \/ EndString
    \/ StartNumber \/ Digit \/ EndNumber
    \/ Sign \/ WideSymbol \/ StartLine \/ SkipChar \/ EndLine \/ Unknown

-----------------------------------------------------------------------------
\* The second loop of tokenize: what stands at the places in `valid' is put into
\* the list, one after the other.
Kept(list, valid) ==
    LET upto[n \in 0 .. Len(list)] ==
          IF n = 0 THEN <<>>
          ELSE IF n \in valid THEN Append(upto[n - 1], list[n]) ELSE upto[n - 1]
    IN  upto[Len(list)]

Valid(list) == Kept(list, {i \in DOMAIN list : list[i].type # "INVALID_TOK"})

Delivered == Valid(found)

\* tokenize returns the list and frees the array.
Deliver ==
    /\ mode = "done"
    /\ mode' = "returned" /\ found' = <<>>
    /\ UNCHANGED <<text, at, word, val, warnings>>

LexerSpec == LexInit /\ IsText(text) /\ [][LexStep \/ Deliver]_lexVars
=============================================================================
