------------------------------- MODULE Tokens -------------------------------
(***************************************************************************)
(* The tokens (lexer.h), which the lexer hands over to the parser.  Where  *)
(* a token stands in the text is left out: only messages tell it.          *)
(***************************************************************************)
EXTENDS Integers, Sequences

CONSTANTS
    Names,      \* the identifiers a program may use
    NULL        \* the null pointer, and the value of an absent field

TokenTypes ==
    {"PROGRAM_END_TOK", "INVALID_TOK", "INT_LIT_TOK", "PLUS_TOK", "MINUS_TOK",
     "STAR_TOK", "FSLASH_TOK", "LPAREN_TOK", "RPAREN_TOK", "LBRACE_TOK", "RBRACE_TOK",
     "RETURN_TOK", "IF_TOK", "WHILE_TOK", "FOR_TOK", "ELSE_TOK", "IDENT_TOK", "SCOL_TOK",
     "ASSIGN_TOK", "EQ_TOK", "GT_TOK", "GTE_TOK", "LT_TOK", "LTE_TOK"}

Token == [type : TokenTypes, name : Names \cup {NULL}, ival : Int]

Tk(type)     == [type |-> type, name |-> NULL, ival |-> 0]
IntTk(ival)  == [Tk("INT_LIT_TOK") EXCEPT !.ival = ival]
NameTk(name) == [Tk("IDENT_TOK") EXCEPT !.name = name]

\* Only an identifier has a name: a null pointer is not one.
ASSUME NoNameAssumption == NULL \notin Names

\* What tokenize returns: a list that ends with PROGRAM_END_TOK and holds no
\* invalid tokens.
IsTokenList(s) ==
    /\ s \in Seq(Token) /\ s # <<>>
    /\ \A i \in DOMAIN s :
          /\ s[i].type # "INVALID_TOK"
          /\ s[i].type = "PROGRAM_END_TOK" <=> i = Len(s)
          /\ s[i].type = "IDENT_TOK" <=> s[i].name # NULL
=============================================================================
