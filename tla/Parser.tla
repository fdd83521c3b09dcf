------------------------------- MODULE Parser -------------------------------
(***************************************************************************)
(* The parser (parser.c): recursive descent over the tokens, with errors   *)
(* counted and parsing continued.  The recursion of the parse functions is *)
(* unfolded into the list `pending' of what is still to be called, matched *)
(* and created; `built' is the stack of the trees created so far.          *)
(*                                                                         *)
(* A tree is the sequence of its nodes in preorder, as in Ast: a pointer   *)
(* to a child is the place where the child is.                             *)
(***************************************************************************)
EXTENDS Ast, Errors

CONSTANT MaxErrors  \* bound: the errors that fit into memory

ExprNodes == {"INVALID_EXPR"} \cup ExprTypes
StatNodes == {"INVALID_STAT"} \cup StatTypes

ExprOpOf == [ASSIGN_TOK |-> "ASSIGN", EQ_TOK |-> "EQ", GT_TOK |-> "GT",
             GTE_TOK |-> "GTE", LT_TOK |-> "LT", LTE_TOK |-> "LTE"]
TermOpOf   == [PLUS_TOK |-> "ADD", MINUS_TOK |-> "SUBS"]
FactorOpOf == [STAR_TOK |-> "MUL", FSLASH_TOK |-> "DIV"]

VARIABLES
    tokens,     \* what tokenize returned: see IsTokenList
    next,       \* next_token: the position of the next token
    pending, built,
    parseStatus \* "parsing", "done" or "killed" (out of memory)

parserVars == <<tokens, next, pending, built, errors, parseStatus>>

-----------------------------------------------------------------------------
\* The nodes, as they are created.
Create(type, op, name, ival, is_func) ==
    [type |-> type, op |-> op, name |-> name, ival |-> ival,
     is_func |-> is_func, kids |-> <<>>]

Plain(type)           == Create(type, NULL, NULL, 0, FALSE)
BinOp(op)             == Create("BIN_OP", op, NULL, 0, FALSE)
Named(type, name)     == Create(type, NULL, name, 0, FALSE)
IntLit(ival)          == Create("INT_LIT", NULL, NULL, ival, FALSE)
FuncDecl(name)        == Create("DECL_STAT", NULL, name, 0, TRUE)

\* The tree whose root has one more child, behind the others.
Hang(tree, kid) ==
    LET n     == Len(tree)
        moved == [i \in DOMAIN kid |->
                    [kid[i] EXCEPT !.kids = [k \in DOMAIN kid[i].kids |-> kid[i].kids[k] + n]]]
    IN  [tree EXCEPT ![1].kids = Append(tree[1].kids, n + 1)] \o moved

\* The tree of the node over those children.
Over(node, trees) ==
    LET over[i \in 0 .. Len(trees)] ==
          IF i = 0 THEN <<node>> ELSE Hang(over[i - 1], trees[i])
    IN  over[Len(trees)]

\* What is to be done: a parse function or the rest of one, a token to match, or
\* a node to create from the last `arity' trees of the stack.
ParserTask(do, name) == [do |-> do, name |-> name, token |-> NULL, node |-> Plain(NULL), arity |-> 0]
Parse(do)            == ParserTask(do, NULL)
Match(token)         == [Parse("match") EXCEPT !.token = token]
Make(node, arity)    == [Parse("make") EXCEPT !.node = node, !.arity = arity]

\* The tokens are set when the lexer hands them over.
ParserInit ==
    /\ next = 1
    /\ pending = <<Parse("program")>>
    /\ built = <<<<Plain("BLOCK_STAT")>>>>
    /\ errors = 0
    /\ parseStatus = "parsing"

Tok == tokens[next].type

Doing(do) == parseStatus = "parsing" /\ pending # <<>> /\ Head(pending).do = do

\* The current call goes on with those tasks.
Instead(tasks) == pending' = tasks \o Tail(pending)

Push(node) == built' = Append(built, <<node>>)

-----------------------------------------------------------------------------
(* match_token, the create functions, list_push_back. *)

MatchToken ==
    /\ Doing("match")
    /\ Instead(<<>>)
    /\ IF Head(pending).token = Tok
       THEN next' = next + 1 /\ UNCHANGED errors
       ELSE errors' = errors + 1 /\ UNCHANGED next
    /\ UNCHANGED <<tokens, built, parseStatus>>

MakeNode ==
    /\ Doing("make")
    /\ LET rest == Len(built) - Head(pending).arity
       IN  built' = Append(SubSeq(built, 1, rest),
                           Over(Head(pending).node, SubSeq(built, rest + 1, Len(built))))
    /\ Instead(<<>>)
    /\ UNCHANGED <<tokens, next, errors, parseStatus>>

\* The statement on top of the stack joins the block below it.
AppendStat ==
    /\ Doing("append")
    /\ LET n == Len(built)
       IN  built' = Append(SubSeq(built, 1, n - 2),
                           Hang(built[n - 1], built[n]))
    /\ Instead(<<>>)
    /\ UNCHANGED <<tokens, next, errors, parseStatus>>

-----------------------------------------------------------------------------
(* parse, parse_stat, parse_block_stat, parse_declaration. *)

Unfold(tasks) == Instead(tasks) /\ UNCHANGED <<tokens, next, built, errors, parseStatus>>

ParseProgram ==
    /\ Doing("program")
    /\ Unfold(IF Tok = "PROGRAM_END_TOK" THEN <<>>
                ELSE <<Parse("stat"), Parse("append"), Parse("program")>>)

AtStart(token) == Doing("stat") /\ Tok = token

ParseReturn ==
    /\ AtStart("RETURN_TOK")
    /\ Unfold(<<Match("RETURN_TOK"), Parse("expr"), Make(Plain("RETURN_STAT"), 1),
                  Match("SCOL_TOK")>>)

ParseIf ==
    /\ AtStart("IF_TOK")
    /\ Unfold(<<Match("IF_TOK"), Match("LPAREN_TOK"), Parse("expr"),
                  Match("RPAREN_TOK"), Parse("stat"), Parse("else")>>)

\* Mutated form of ParseElse: the else branch is not taken.
ParseElseNever ==
    /\ Doing("else")
    /\ Unfold(<<Make(Plain("IF_STAT"), 2)>>)

ParseElse ==
    /\ Doing("else")
    /\ Unfold(IF Tok = "ELSE_TOK"
                THEN <<Match("ELSE_TOK"), Parse("stat"), Make(Plain("IF_STAT"), 3)>>
                ELSE <<Make(Plain("IF_STAT"), 2)>>)

ParseWhile ==
    /\ AtStart("WHILE_TOK")
    /\ Unfold(<<Match("WHILE_TOK"), Match("LPAREN_TOK"), Parse("expr"),
                  Match("RPAREN_TOK"), Parse("stat"), Make(Plain("WHILE_STAT"), 2)>>)

ParseFor ==
    /\ AtStart("FOR_TOK")
    /\ Unfold(<<Match("FOR_TOK"), Match("LPAREN_TOK"),
                  Parse("expr"), Match("SCOL_TOK"), Parse("expr"), Match("SCOL_TOK"),
                  Parse("expr"), Match("RPAREN_TOK"),
                  Parse("stat"), Make(Plain("FOR_STAT"), 4)>>)

Block == <<Match("LBRACE_TOK"), Make(Plain("BLOCK_STAT"), 0), Parse("stats"),
           Match("RBRACE_TOK")>>

ParseBlock ==
    /\ AtStart("LBRACE_TOK")
    /\ Unfold(Block)

\* The loop of parse_block_stat looks for nothing but the closing brace.  At the
\* end of the program it goes round with two errors each time.
ParseStats ==
    /\ Doing("stats")
    /\ Tok = "PROGRAM_END_TOK" => errors < MaxErrors
    /\ Unfold(IF Tok = "RBRACE_TOK" THEN <<>>
                ELSE <<Parse("stat"), Parse("append"), Parse("stats")>>)

OutOfMemory ==
    /\ Doing("stats") /\ Tok = "PROGRAM_END_TOK" /\ errors >= MaxErrors
    /\ parseStatus' = "killed"
    /\ UNCHANGED <<tokens, next, pending, built, errors>>

IsTypeIdent(token) == token.type = "IDENT_TOK" /\ token.name = <<"int">>

ParseExprStat ==
    /\ \/ AtStart("IDENT_TOK") /\ ~IsTypeIdent(tokens[next])
       \/ AtStart("INT_LIT_TOK")
    /\ Unfold(<<Parse("expr"), Make(Plain("EXPR_STAT"), 1), Match("SCOL_TOK")>>)

ParseSkip ==
    /\ AtStart("SCOL_TOK")
    /\ Unfold(<<Make(Plain("SKIP_STAT"), 0), Match("SCOL_TOK")>>)

StatStarts == {"RETURN_TOK", "IF_TOK", "WHILE_TOK", "FOR_TOK", "LBRACE_TOK",
               "IDENT_TOK", "INT_LIT_TOK", "SCOL_TOK"}

\* Mutated form of ParseInvalid: nothing is skipped.
ParseInvalidInPlace ==
    /\ Doing("stat") /\ Tok \notin StatStarts
    /\ errors < MaxErrors /\ errors' = errors + 1
    /\ Push(Plain("INVALID_STAT"))
    /\ Instead(<<>>)
    /\ UNCHANGED <<tokens, next, parseStatus>>

\* The loop that skips tokens stops there.
Stops(i) ==
    /\ tokens[i].type \in {"SCOL_TOK", "PROGRAM_END_TOK"}
    /\ \A k \in next .. i - 1 : tokens[k].type \notin {"SCOL_TOK", "PROGRAM_END_TOK"}

\* Mutated form of ParseInvalid: the end of the program is matched as well.
ParseInvalidPastEnd ==
    /\ Doing("stat") /\ Tok \notin StatStarts
    /\ \E stop \in next .. Len(tokens) : Stops(stop) /\ next' = stop + 1
    /\ errors' = errors + 1
    /\ Push(Plain("INVALID_STAT"))
    /\ Instead(<<>>)
    /\ UNCHANGED <<tokens, parseStatus>>

\* No statement starts here: skip to the next semicolon and match it.
ParseInvalid ==
    /\ Doing("stat") /\ Tok \notin StatStarts
    /\ \E stop \in next .. Len(tokens) :
          /\ Stops(stop)
          /\ IF tokens[stop].type = "PROGRAM_END_TOK"
             THEN next' = stop /\ errors' = errors + 2
             ELSE next' = stop + 1 /\ errors' = errors + 1
    /\ Push(Plain("INVALID_STAT"))
    /\ Instead(<<>>)
    /\ UNCHANGED <<tokens, parseStatus>>

\* The datatype, then the name: any other token there is an error, and the name
\* is not used any more.
ParseDeclaration ==
    /\ AtStart("IDENT_TOK") /\ IsTypeIdent(tokens[next])
    /\ LET target == tokens[next + 1]
       IN  /\ Instead(<<ParserTask("declarator", target.name)>>)
           /\ IF target.type = "IDENT_TOK"
              THEN next' = next + 2 /\ UNCHANGED errors
              ELSE next' = next + 1 /\ errors' = errors + 1
    /\ UNCHANGED <<tokens, built, parseStatus>>

ParseDeclarator ==
    /\ Doing("declarator")
    /\ LET name == Head(pending).name
       IN  Unfold(
             CASE Tok = "LPAREN_TOK" ->
                    <<Match("LPAREN_TOK"), Match("RPAREN_TOK"), ParserTask("body", name)>>
               [] Tok = "ASSIGN_TOK" ->
                    <<Match("ASSIGN_TOK"), Parse("expr"), Make(Named("DECL_STAT", name), 1),
                      Match("SCOL_TOK")>>
               [] OTHER ->
                    <<Make(Named("DECL_STAT", name), 0), Match("SCOL_TOK")>>)

ParseBody ==
    /\ Doing("body")
    /\ LET name == Head(pending).name
       IN  Unfold(IF Tok = "LBRACE_TOK"
                    THEN Append(Block, Make(FuncDecl(name), 1))
                    ELSE <<Make(FuncDecl(name), 0), Match("SCOL_TOK")>>)

-----------------------------------------------------------------------------
(* parse_expr, parse_subexpr, parse_term, parse_factor. *)

ParseExpr    == Doing("expr") /\ Unfold(<<Parse("subexpr"), Parse("comparison")>>)
ParseSubexpr == Doing("subexpr") /\ Unfold(<<Parse("term"), Parse("terms")>>)
ParseTerm    == Doing("term") /\ Unfold(<<Parse("factor"), Parse("factors")>>)

\* match_binop, the right operand, then what `rest' says; nothing if no such
\* operator follows.
Operator(opOf, operand, rest) ==
    IF Tok \in DOMAIN opOf
    THEN /\ next' = next + 1
         /\ Instead(<<Parse(operand), Make(BinOp(opOf[Tok]), 2)>> \o rest)
         /\ UNCHANGED <<tokens, built, errors, parseStatus>>
    ELSE Unfold(<<>>)

\* At most one comparison or assignment: they do not chain.
ParseComparison ==
    /\ Doing("comparison")
    /\ Operator(ExprOpOf, "subexpr", <<>>)

\* Mutated form of ParseTerms: sums group to the right.
ParseTermsRight ==
    /\ Doing("terms")
    /\ Operator(TermOpOf, "subexpr", <<Parse("terms")>>)

\* Sums group to the left.
ParseTerms ==
    /\ Doing("terms")
    /\ Operator(TermOpOf, "term", <<Parse("terms")>>)

\* Products group to the right: the right operand is a term.
ParseFactors ==
    /\ Doing("factors")
    /\ Operator(FactorOpOf, "term", <<Parse("factors")>>)

ParseParens ==
    /\ Doing("factor") /\ Tok = "LPAREN_TOK"
    /\ Unfold(<<Match("LPAREN_TOK"), Parse("expr"), Match("RPAREN_TOK")>>)

ParseIdent ==
    /\ Doing("factor") /\ Tok = "IDENT_TOK"
    /\ next' = next + 1
    /\ LET name == tokens[next].name
       IN  Instead(IF tokens[next + 1].type = "LPAREN_TOK"
              THEN <<Match("LPAREN_TOK"), Match("RPAREN_TOK"),
                     Make(Named("FUNC_CALL", name), 0)>>
              ELSE <<Make(Named("VAR_REF", name), 0)>>)
    /\ UNCHANGED <<tokens, built, errors, parseStatus>>

ParseIntLit ==
    /\ Doing("factor") /\ Tok = "INT_LIT_TOK"
    /\ next' = next + 1
    /\ Push(IntLit(tokens[next].ival))
    /\ Instead(<<>>)
    /\ UNCHANGED <<tokens, errors, parseStatus>>

\* Mutated form of ParseNoFactor: the error is not counted.
ParseNoFactorSilent ==
    /\ Doing("factor") /\ Tok \notin {"LPAREN_TOK", "IDENT_TOK", "INT_LIT_TOK"}
    /\ Push(Plain("INVALID_EXPR"))
    /\ Instead(<<>>)
    /\ UNCHANGED <<tokens, next, errors, parseStatus>>

ParseNoFactor ==
    /\ Doing("factor") /\ Tok \notin {"LPAREN_TOK", "IDENT_TOK", "INT_LIT_TOK"}
    /\ errors' = errors + 1
    /\ Push(Plain("INVALID_EXPR"))
    /\ Instead(<<>>)
    /\ UNCHANGED <<tokens, next, parseStatus>>

FinishParse ==
    /\ parseStatus = "parsing" /\ pending = <<>>
    /\ parseStatus' = "done"
    /\ UNCHANGED <<tokens, next, pending, built, errors>>

-----------------------------------------------------------------------------
ParseStep ==
    \/ MatchToken \/ MakeNode \/ AppendStat
    \/ ParseProgram \/ ParseReturn \/ ParseIf \/ ParseElse \/ ParseWhile \/ ParseFor
    \/ ParseBlock \/ ParseStats \/ OutOfMemory \/ ParseExprStat \/ ParseSkip \/ ParseInvalid
    \/ ParseDeclaration \/ ParseDeclarator \/ ParseBody
    \/ ParseExpr \/ ParseComparison \/ ParseSubexpr \/ ParseTerms \/ ParseTerm \/ ParseFactors
    \/ ParseParens \/ ParseIdent \/ ParseIntLit \/ ParseNoFactor \/ FinishParse

\* parse() is called with what tokenize has returned.
ParserSpec == ParserInit /\ IsTokenList(tokens) /\ [][ParseStep]_parserVars

-----------------------------------------------------------------------------
(* Properties. *)

NodeTypes == ExprNodes \cup StatNodes \cup {NULL}

Leaves == [type : NodeTypes, op : Operators \cup {NULL}, name : Names \cup {NULL},
           ival : Int, is_func : BOOLEAN, kids : {<<>>}]

ParseFunctions ==
    {"program", "stat", "else", "stats", "declarator", "body", "append", "expr", "comparison",
     "subexpr", "terms", "term", "factors", "factor"}

ParserTasks == [do : ParseFunctions \cup {"match", "make"}, name : Names \cup {NULL},
          token : TokenTypes \cup {NULL}, node : Leaves, arity : 0 .. 4]

\* What parser.c keeps while it parses: where it is, which is never behind the
\* end of the tokens, and nodes that will find their parents.
ParserTypeOK ==
    /\ tokens # <<>> => next \in DOMAIN tokens
    /\ pending \in Seq(ParserTasks)
    /\ built # <<>> /\ \A i \in DOMAIN built : built[i][1].type \in NodeTypes
    /\ built[1][1].type = "BLOCK_STAT"
    /\ errors \in Nat
    /\ parseStatus \in {"parsing", "done", "killed"}

\* What the semantic checker and the code generator take for granted of a tree that
\* comes without errors: its nodes have the children their kind needs and are
\* numbered in preorder, and nothing is left on the stack.
Handed ==
    (parseStatus = "done" /\ errors = 0) =>
        Len(built) = 1 /\ WellFormed(built[1]) /\ Preorder(built[1])
=============================================================================
