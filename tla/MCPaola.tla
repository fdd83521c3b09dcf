------------------------------ MODULE MCPaola ------------------------------
(***************************************************************************)
(* Model-checking instance of Paola: short texts, and programs with every  *)
(* possible edit of one character; and other command lines for one text.   *)
(***************************************************************************)
EXTENDS Language

\* The parser makes the programs, and the semantic checker links them.
NoMaps(p) == {}

ThreeRegisters == <<"rbx", "rcx", "r8">>

PaolaLetters == {"x", "f", "int", "return", "if", "while", "for", "else"}

\* The names that fit into the buffer.
PaolaNames ==
    {w \in UNION {[1 .. n -> PaolaLetters \cup Digits] : n \in 1 .. MAX_STRING_SIZE - 1} :
        w[1] \in PaolaLetters}

Some == {"x", "7", "int", "(", ")", "{", "}", ";", "=", "/", "if", "\n", "$"}

Samples ==
    {<<"x", "=", "7", "-", "x", "-", "7", ";">>,
     <<"x", "-", "7", "*", "x", "/", "7", "+", "x", ";">>,
     <<"return", "(", "x", "=", "=", "7", ")", "<", "x", ";">>,
     <<"return", " ", "x", ">", "f", "(", ")", "*", "(", "7", ")", ";">>,
     <<"if", "(", "x", ")", "if", "(", "7", ")", ";", "else", ";">>,
     <<"if", "(", "x", ")", "while", "(", "7", ")", ";", "else", " ", "x", ";">>,
     <<"while", "(", "x", ">", "=", "7", ")", "{", "}">>,
     <<"for", "(", "x", ";", "7", ";", "f", "(", ")", ")", "x", ";">>,
     <<"int", " ", "f", "(", ")", "{", "return", " ", "7", "3", "5", ";", "}">>,
     <<"int", "\t", "f", ";", "int", " ", "x", "=", "7", ";", "x", "=", "f", ";">>,
     <<"{", "int", " ", "x", ";", "{", "x", "<", "=", "x", ";", "}", "}">>,
     <<"/", "/", "x", "/", "/", "\n", "x", "if", "=", "=", "x", ";", "$">>}

Cut(s, i)    == SubSeq(s, 1, i - 1) \o SubSeq(s, i + 1, Len(s))
Put(s, i, c) == SubSeq(s, 1, i - 1) \o <<c>> \o SubSeq(s, i, Len(s))

Edits(s) ==
    {s} \cup {Cut(s, i) : i \in DOMAIN s}
    \cup {[s EXCEPT ![i] = c] : i \in DOMAIN s, c \in Some}
    \cup {Put(s, i, c) : i \in 1 .. Len(s) + 1, c \in Some}

Short == UNION {[1 .. n -> Some] : n \in 0 .. 3}

\* More than the array of tokens has room for.
Long == {[i \in 1 .. n |-> c] : n \in MAX_TOKENS - 1 .. MAX_TOKENS, c \in {";", "$"}}

Texts == Short \cup Long \cup UNION {Edits(s) : s \in Samples}

\* A variable, a prototype, an error with a warning, and an expression that takes
\* four registers.
Others == {<<"int", " ", "x", ";">>, <<"{", "int", " ", "f", "(", ")", ";", "}">>,
           <<"$", "x", ";">>, <<"7", "/", "7", "/", "7", "/", "7", ";">>}

\* Files, the options, and an option that does not exist.
Arguments == {"in.c", "out.s", "none.c", "-o", "--print-ast", "--print-tokens", "-x"}

PaolaCalls ==
    [argv : {<<"in.c">>}, text : Texts]
    \cup [argv : UNION {[1 .. n -> Arguments] : n \in 0 .. 3}, text : Others]

\* int f() { return 8/2/2; }.
Division ==
    {[argv |-> <<"in.c">>, text |-> <<"int", " ", "f", "(", ")", "{", "return", " ",
                                      "8", "/", "2", "/", "2", ";", "}">>]}

\* A comment at the end of the text.
OpenComment == {[argv |-> <<"in.c">>, text |-> <<"x", ";", "/", "/", "x">>]}
=============================================================================
