-------------------------------- MODULE Ast --------------------------------
(***************************************************************************)
(* The abstract syntax tree of paola (parser.h), as the parser hands it to *)
(* the semantic checker and the code generator.                            *)
(*                                                                         *)
(* An AST is a sequence of nodes in preorder: node 1 is the block that     *)
(* parse() returns, and a pointer to a child is the child's index.  The    *)
(* unions of the C structures become one record whose unused fields hold   *)
(* NULL, 0 or FALSE.                                                       *)
(***************************************************************************)
EXTENDS Tokens

CONSTANTS
    Programs,   \* the ASTs under study
    Addr        \* the addresses malloc may return for a symbol_t

Datatypes == {"INVALID_DT", "INT_DT"}

ExprTypes == {"INT_LIT", "BIN_OP", "VAR_REF", "FUNC_CALL"}

StatTypes == {"RETURN_STAT", "IF_STAT", "WHILE_STAT", "FOR_STAT",
              "BLOCK_STAT", "DECL_STAT", "EXPR_STAT", "SKIP_STAT"}

ArithOps   == {"ADD", "SUBS", "MUL", "DIV"}
CompareOps == {"EQ", "GT", "GTE", "LT", "LTE"}
Operators  == ArithOps \cup CompareOps \cup {"ASSIGN"}

Node == [type    : ExprTypes \cup StatTypes,
         kids    : Seq(Nat \ {0}),
         op      : Operators \cup {NULL},
         name    : Names \cup {NULL},
         ival    : Int,
         is_func : BOOLEAN]

-----------------------------------------------------------------------------
(* Which trees the parser can hand over without having reported an error. *)

IsExpr(p, n) == p[n].type \in ExprTypes
IsStat(p, n) == p[n].type \in StatTypes

\* The children of a node, in the order of the program text:
\*   BIN_OP <<left, right>>          RETURN_STAT, EXPR_STAT <<expr>>
\*   IF_STAT <<cond, tstat>> or <<cond, tstat, fstat>>
\*   WHILE_STAT <<cond, body>>       FOR_STAT <<init, cond, iter, body>>
\*   BLOCK_STAT the statements       DECL_STAT <<>>, <<value>> or <<func_body>>
\* A prototype `int f();' is a function declaration without a body.
ShapeOK(p, n) ==
    LET type == p[n].type
        kids == p[n].kids
    IN  /\ type \in {"INT_LIT", "VAR_REF", "FUNC_CALL", "SKIP_STAT"} => kids = <<>>
        /\ type \in {"VAR_REF", "FUNC_CALL", "DECL_STAT"} => p[n].name \in Names
        /\ type = "BIN_OP" =>
              /\ p[n].op \in Operators /\ Len(kids) = 2
              /\ IsExpr(p, kids[1]) /\ IsExpr(p, kids[2])
        /\ type \in {"RETURN_STAT", "EXPR_STAT"} => Len(kids) = 1 /\ IsExpr(p, kids[1])
        /\ type = "IF_STAT" =>
              /\ Len(kids) \in {2, 3}
              /\ IsExpr(p, kids[1]) /\ \A i \in 2 .. Len(kids) : IsStat(p, kids[i])
        /\ type = "WHILE_STAT" =>
              Len(kids) = 2 /\ IsExpr(p, kids[1]) /\ IsStat(p, kids[2])
        /\ type = "FOR_STAT" =>
              /\ Len(kids) = 4
              /\ IsExpr(p, kids[1]) /\ IsExpr(p, kids[2]) /\ IsExpr(p, kids[3])
              /\ IsStat(p, kids[4])
        /\ type = "BLOCK_STAT" => \A i \in DOMAIN kids : IsStat(p, kids[i])
        /\ type = "DECL_STAT" =>
              /\ Len(kids) \in {0, 1}
              /\ \A i \in DOMAIN kids :
                    IF p[n].is_func THEN IsStat(p, kids[i]) ELSE IsExpr(p, kids[i])

\* last[n] is the last node of the subtree of n.
LastOf(p) ==
    LET last[n \in DOMAIN p] ==
          IF p[n].kids = <<>> THEN n ELSE last[p[n].kids[Len(p[n].kids)]]
    IN  last

\* Nodes are numbered as the parser reads them; this makes p a tree.
Preorder(p) ==
    LET last == LastOf(p)
    IN  /\ last[1] = Len(p)
        /\ \A n \in DOMAIN p : \A i \in DOMAIN p[n].kids :
              p[n].kids[i] = IF i = 1 THEN n + 1 ELSE last[p[n].kids[i - 1]] + 1

WellFormed(p) ==
    /\ p \in Seq(Node) /\ p # <<>>
    /\ p[1].type = "BLOCK_STAT"
    /\ \A n \in DOMAIN p : \A i \in DOMAIN p[n].kids :
          p[n].kids[i] \in DOMAIN p /\ p[n].kids[i] > n
    /\ \A n \in DOMAIN p : ShapeOK(p, n)

ASSUME AddrAssumption     == NULL \notin Addr
ASSUME ProgramsAssumption == \A p \in Programs : WellFormed(p)
ASSUME PreorderAssumption == \A p \in Programs : Preorder(p)
=============================================================================
