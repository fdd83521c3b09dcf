------------------------------ MODULE Grammar ------------------------------
(***************************************************************************)
(* The language of the parser, as a grammar: for every part of a token     *)
(* list, the set of the trees it may stand for.  It is the reference the   *)
(* parser is compared with, and models no code.  It is the grammar the     *)
(* loops of parse_expr, parse_subexpr and parse_term follow, not that of   *)
(* C: see Product, and Language for the products of C.                     *)
(*                                                                         *)
(* The trees of a kind that list[i], ..., list[j - 1] stand for are found  *)
(* at of[<<kind, i, j>>], from where the rules take the parts of a tree.   *)
(***************************************************************************)
EXTENDS Parser

Is(list, i, type) == i \in DOMAIN list /\ list[i].type = type
IsInt(list, i)    == i \in DOMAIN list /\ IsTypeIdent(list[i])

Places(list, i, j, types) == {k \in i .. j : list[k].type \in types}

When(condition, trees) == IF condition THEN trees ELSE {}

-----------------------------------------------------------------------------
(* Expressions. *)

Factor(list, of, i, j) ==
    When(j = i + 1 /\ Is(list, i, "INT_LIT_TOK"), {<<IntLit(list[i].ival)>>})
    \cup When(j = i + 1 /\ Is(list, i, "IDENT_TOK"), {<<Named("VAR_REF", list[i].name)>>})
    \cup When(/\ j = i + 3 /\ Is(list, i, "IDENT_TOK")
              /\ Is(list, i + 1, "LPAREN_TOK") /\ Is(list, i + 2, "RPAREN_TOK"),
              {<<Named("FUNC_CALL", list[i].name)>>})
    \cup When(j >= i + 3 /\ Is(list, i, "LPAREN_TOK") /\ Is(list, j - 1, "RPAREN_TOK"),
              of[<<"expr", i + 1, j - 1>>])

\* One operator between two operands.
Binary(list, of, opOf, left, right, i, j) ==
    UNION {UNION {{Over(BinOp(opOf[list[k].type]), <<l, r>>) : r \in of[<<right, k + 1, j>>]} :
                     l \in of[<<left, i, k>>]} : k \in Places(list, i + 1, j - 2, DOMAIN opOf)}

\* Products group to the right in paola (parse_term calls itself for what is behind
\* the operator), to the left in C.
Product(list, of, i, j) ==
    of[<<"factor", i, j>>] \cup Binary(list, of, FactorOpOf, "factor", "product", i, j)

Sum(list, of, i, j) ==
    of[<<"product", i, j>>] \cup Binary(list, of, TermOpOf, "sum", "product", i, j)

Expr(list, of, i, j) ==
    of[<<"sum", i, j>>] \cup Binary(list, of, ExprOpOf, "sum", "sum", i, j)

-----------------------------------------------------------------------------
(* Statements.  One of the kind "closed" does not end in an if without else, *)
(* to which an else behind it would belong.                                  *)

Simple(list, of, i, j) ==
    When(Is(list, i, "RETURN_TOK") /\ Is(list, j - 1, "SCOL_TOK"),
         {Over(Plain("RETURN_STAT"), <<e>>) : e \in of[<<"expr", i + 1, j - 1>>]})
    \cup When(j = i + 1 /\ Is(list, i, "SCOL_TOK"), {<<Plain("SKIP_STAT")>>})
    \cup When(/\ Is(list, i, "INT_LIT_TOK") \/ (Is(list, i, "IDENT_TOK") /\ ~IsInt(list, i))
              /\ Is(list, j - 1, "SCOL_TOK"),
              {Over(Plain("EXPR_STAT"), <<e>>) : e \in of[<<"expr", i, j - 1>>]})

Blocks(list, of, i, j) ==
    When(j >= i + 2 /\ Is(list, i, "LBRACE_TOK") /\ Is(list, j - 1, "RBRACE_TOK"),
         {Over(Plain("BLOCK_STAT"), s) : s \in of[<<"stats", i + 1, j - 1>>]})

\* What may follow the parentheses of a function, and the name that is declared.
Body(list, of, name, i, j) ==
    When(j = i + 1 /\ Is(list, i, "SCOL_TOK"), {<<FuncDecl(name)>>})
    \cup {Over(FuncDecl(name), <<b>>) : b \in Blocks(list, of, i, j)}

Declarator(list, of, name, i, j) ==
    When(j = i + 1 /\ Is(list, i, "SCOL_TOK"), {<<Named("DECL_STAT", name)>>})
    \cup When(j > i + 1 /\ Is(list, i, "ASSIGN_TOK") /\ Is(list, j - 1, "SCOL_TOK"),
              {Over(Named("DECL_STAT", name), <<e>>) : e \in of[<<"expr", i + 1, j - 1>>]})
    \cup When(j > i + 2 /\ Is(list, i, "LPAREN_TOK") /\ Is(list, i + 1, "RPAREN_TOK"),
              Body(list, of, name, i + 2, j))

Declaration(list, of, i, j) ==
    When(j > i + 2 /\ IsInt(list, i) /\ Is(list, i + 1, "IDENT_TOK"),
         Declarator(list, of, list[i + 1].name, i + 2, j))

If(list, of, kind, i, k, j) ==
    UNION {When(kind = "stat", {Over(Plain("IF_STAT"), <<c, t>>) : t \in of[<<"stat", k + 1, j>>]})
           \cup UNION {UNION {{Over(Plain("IF_STAT"), <<c, t, f>>) : f \in of[<<kind, m + 1, j>>]} :
                                 t \in of[<<"closed", k + 1, m>>]} :
                          m \in Places(list, k + 1, j - 1, {"ELSE_TOK"})} :
              c \in of[<<"expr", i + 2, k>>]}

While(of, kind, i, k, j) ==
    UNION {{Over(Plain("WHILE_STAT"), <<c, b>>) : b \in of[<<kind, k + 1, j>>]} :
              c \in of[<<"expr", i + 2, k>>]}

For(list, of, kind, i, k, j) ==
    UNION {UNION {UNION {UNION {{Over(Plain("FOR_STAT"), <<a, c, b, s>>) :
                                    s \in of[<<kind, k + 1, j>>]} :
                             b \in of[<<"expr", m + 1, k>>]} :
                      c \in of[<<"expr", l + 1, m>>]} :
               a \in of[<<"expr", i + 2, l>>]} :
              l \in Places(list, i + 2, k - 1, {"SCOL_TOK"}),
              m \in Places(list, i + 2, k - 1, {"SCOL_TOK"})}

\* k is the closing parenthesis.
Conditional(list, of, kind, i, j) ==
    UNION {When(Is(list, i, "IF_TOK"), If(list, of, kind, i, k, j))
           \cup When(Is(list, i, "WHILE_TOK"), While(of, kind, i, k, j))
           \cup When(Is(list, i, "FOR_TOK"), For(list, of, kind, i, k, j)) :
              k \in When(Is(list, i + 1, "LPAREN_TOK"),
                         Places(list, i + 2, j - 1, {"RPAREN_TOK"}))}

Statement(list, of, kind, i, j) ==
    Simple(list, of, i, j) \cup Blocks(list, of, i, j) \cup Declaration(list, of, i, j)
    \cup Conditional(list, of, kind, i, j)

\* The statements of a block, in a sequence.
Stats(list, of, i, j) ==
    UNION {UNION {{<<s>> \o rest : rest \in of[<<"stats", k, j>>]} : s \in of[<<"stat", i, k>>]} :
              k \in i + 1 .. j}

-----------------------------------------------------------------------------
Parts == {"factor", "product", "sum", "expr", "stat", "closed", "stats"}

Rule(list, of, kind, i, j) ==
    CASE kind = "stats" /\ i = j                     -> {<<>>}
      [] i < j /\ kind = "factor"                    -> Factor(list, of, i, j)
      [] i < j /\ kind = "product"                   -> Product(list, of, i, j)
      [] i < j /\ kind = "sum"                       -> Sum(list, of, i, j)
      [] i < j /\ kind = "expr"                      -> Expr(list, of, i, j)
      [] i < j /\ kind \in {"stat", "closed"}        -> Statement(list, of, kind, i, j)
      [] i < j /\ kind = "stats"                     -> Stats(list, of, i, j)
      [] OTHER                                       -> {}

Derived(list) ==
    LET of[x \in Parts \X (1 .. Len(list)) \X (1 .. Len(list))] ==
          Rule(list, of, x[1], x[2], x[3])
    IN  of

ParseTrees ==
    {Over(Plain("BLOCK_STAT"), s) : s \in Derived(tokens)[<<"stats", 1, Len(tokens)>>]}

-----------------------------------------------------------------------------
(* What holds of the parser. *)

\* The parser has come to the end: it has accepted exactly a token list of the
\* grammar, as the one tree it stands for.
Recognised ==
    parseStatus # "parsing" =>
        ParseTrees = IF parseStatus = "done" /\ errors = 0 THEN {built[1]} ELSE {}
=============================================================================
