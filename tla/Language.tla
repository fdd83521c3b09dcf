------------------------------ MODULE Language ------------------------------
(***************************************************************************)
(* What the compiler as a whole owes to the language: which texts it ought *)
(* to accept, by the grammar, and what it ought to say of the others.      *)
(***************************************************************************)
EXTENDS Paola, Grammar, FiniteSetsExt

\* The parser accepts exactly the token lists of the grammar, and each of them
\* as the one tree it stands for: its three loops group operands in one way only, an
\* else belongs to the nearest if, and the recovery from an error never loses the
\* error.  The grammar is that of the code: sums group to the left, products to the
\* right, which is not how C groups them (GroupsAsInC).
ParseCorrect == phase = "parser" => Recognised

\* The reference for GroupsAsInC: the grammar with the products of C.
ProductInC(list, of, i, j) ==
    of[<<"factor", i, j>>] \cup Binary(list, of, FactorOpOf, "product", "factor", i, j)

DerivedInC(list) ==
    LET of[x \in Parts \X (1 .. Len(list)) \X (1 .. Len(list))] ==
          IF x[1] = "product" THEN When(x[2] < x[3], ProductInC(list, of, x[2], x[3]))
                              ELSE Rule(list, of, x[1], x[2], x[3])
    IN  of

TreesInC ==
    {Over(Plain("BLOCK_STAT"), s) : s \in DerivedInC(tokens)[<<"stats", 1, Len(tokens)>>]}

\* "C -> x86-64 compiler": what is compiled is the tree that the text has in C, where
\* 8/2/2 is (8/2)/2.
GroupsAsInC == phase = "OK" => prog \in TreesInC

\* The argument after an odd number of -o is the name of the output file.
IsOutput(i) ==
    \E k \in 1 .. i - 1 : /\ (i - k) % 2 = 1 /\ \A j \in k .. i - 1 : argv[j] = "-o"
                          /\ k = 1 \/ argv[k - 1] # "-o"

Inputs  == {i \in DOMAIN argv : argv[i] \notin Dashed /\ ~IsOutput(i)}
Outputs == {i \in DOMAIN argv : IsOutput(i)}

CanRead  == Inputs # {} /\ argv[Max(Inputs)] \in Readable
CanWrite == (IF Outputs = {} THEN "out.s" ELSE argv[Max(Outputs)]) \in Writable

\* The exit status tells what became of the text: 0 only for a program of the
\* grammar that keeps the scoping rules and whose code has been written, 3 and 4
\* only for programs that do not.  The process is killed for no other reason than
\* a file that cannot be opened, a block without an end, a prototype or an
\* expression that takes too many registers.
ExitTells ==
    /\ phase = "OTHER_ERR" => Inputs = {}
    /\ phase = "PARSE_ERR" => CanRead /\ ParseTrees = {}
    /\ phase = "SEM_ERR" => CanRead /\ ParseTrees # {} /\ ~WellScoped(prog)
    /\ phase = "OK" => /\ CanRead /\ CanWrite /\ ParseTrees # {}
                       /\ WellScoped(prog) /\ ~TooDeep
    /\ phase = "killed" =>
          \/ ~CanRead \/ ~CanWrite
          \/ ParseTrees = {} /\ \E i \in DOMAIN tokens : tokens[i].type = "LBRACE_TOK"
          \/ \E t \in ParseTrees : \E n \in DOMAIN t : t[n].is_func /\ t[n].kids = <<>>
          \/ prog # <<>> /\ TooDeep
=============================================================================
