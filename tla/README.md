# A verification development for paola

paola (`src/`) is a compiler from a small subset of C to x86-64 assembly, in
about 2500 lines of sequential C.  A run of it is a pipeline (`paola.c`): lexer,
parser, semantic checker, code generator, each of which stops the process with an
exit status of its own when it has reported errors.  There are no threads and no
messages.  What makes it hard is elsewhere:

* long-lived pointers between the phases: tree nodes point to symbols that the
  semantic checker frees and the code generator still reads and writes;
* recursion whose steps depend on what inner calls did in between: a name is
  looked up before a value or a function body is checked and inserted after it;
* state threaded through a traversal: register sets, labels, stack offsets,
  the position in the token list, the error count;
* error recovery, which goes on after an error and must not lose it;
* the output, a program of its own, with a stack, saved registers and jumps.

This directory models all of that in TLA+, checks it with TLC on small instances
and proves with TLAPS that the lexer, the parser, the semantic checker and the list do
what they are for, the central invariants of the symbol table and the code
generator, and what the exit status of the whole program tells.
`PROJECT.json` lists components, runs, mutants, the source lines of each
definition, findings, hazards and theorems.

## 1. Inventory

| Component | State it keeps | Operations | Talks to | What makes it correct |
|---|---|---|---|---|
| Lexer `lexer.c` | the file, `next_char`, position | `tokenize` | errors; hands over the token array | the tokens are the text's; ends; stays inside its arrays |
| Parser `parser.c`, tree `parser.h` | `next_token`, the nodes | `parse` and its 8 recursive functions, recovery in `parse_stat` | errors, list; hands over the tree | accepts exactly its grammar, the one right tree, keeps errors, ends |
| Linked list `list.c` | links of elements and sentinels | insert, push, pop, remove, splice, reverse, traversal | every component | both directions of links agree with the intended content |
| Symbol table `symtable.c` | stack of scopes, lists of symbols | open/close scope, find, insert | list, malloc/free | lookups, memory ownership, a scope undone when it is closed |
| Semantic checker `semcheck.c` | tree, symbol pointers in it, error count | `semcheck_stat`, `semcheck_expr`, `semcheck_binop` | symbol table, errors | verdict = scoping rules, no failed assertion, no fault, ends |
| Code generator `gen.c` | register sets, `next_label`, stack offset, output | `generate_statement`, `generate_expression` | tree, freed symbols | labels, registers, assertions, code means what the tree means |
| The program compiled | machine state | the instructions printed | - | computes what the C program means |
| Driver `paola.c` | phase | `main`, `if_errors_exit` | all of them | exit status tells correct programs from incorrect ones |
| Errors `errors.c` | counters, message list | `error`, `warning`, `print_messages` | all | no error and no warning is lost when the process ends by itself |
| Utilities `utils.c` | options | `parse_options`, printing of tokens and trees | driver | the files named are the ones used; printing a tree does no harm |

The hazards, each at its line and with the property that covers it, are in
`PROJECT.json`.

## 2. Modules

    Tokens -+- Lexer --- Lexemes ------- Paola --- Language
            |                            |   |        |
            +- Ast -+- Parser -----------+---|---- Grammar
                    |    |                   |
                    |  Errors                |
                    |    |                   |
                    |  SemCheck --- Compiler +--- System --- (Machine, CSem)
                    |    |   |         |
                    |    |   +-------- | -- ScopeRules, Scoping
                    |    |            Gen
                    |    |             |            List
                    |    +-- AstState -+
                    |    |
                    |  SymTable --- SymTableClient --- SymTableLoop
                    +- Trees (writes programs down)

`Paola` is the whole program: it composes the front end with `Compiler`, which
composes the checker with the generator; `System` runs what `Compiler` prints.
`Language` states what the whole program owes to the grammar, the scoping rules and
its command line.

| Module | Models | |
|---|---|---|
| `Ast` | `parser.h` | the tree: a sequence of nodes in preorder, pointers as indices; `WellFormed` and `Preorder` say what the parser hands over |
| `AstState` | `parser.h` | the tree that lives from the parser to the generator, with its symbol pointers |
| `Tokens` | `lexer.h` | the tokens and their payload |
| `Lexer` | `lexer.c` | one action per loop step of `next_token`; the arrays of a fixed size; `Deliver` is the end of `tokenize` |
| `Lexemes` | reference, no code | the longest-match lexemes of a text and the tokens they stand for; what the lexer promises |
| `Parser` | `parser.c` | explicit stack (`pending`) of parse functions still to run, stack (`built`) of the trees created so far, each a sequence of nodes as in `Ast` |
| `Errors` | `errors.c` | the error count, which the parser and the semantic checker share |
| `Grammar` | reference, no code | all trees of a token list, by splitting it in all ways: a recursive function on its parts (`Derived`) |
| `List` | `list.c` | `next`/`prev` of every node; history `content` |
| `SymTable` | `symtable.c` | scopes as sequences, `symbols`: address -> symbol or `Blank` |
| `SymTableClient` | a client that respects the assertion | any sequence of open, close, insert; a scope is closed in one step |
| `SymTableLoop` | the same client, `empty_scope` | closing a scope step by step: pop, free a symbol, read its link, free the scope; `link` is `scope_elem.next` of the symbol at each address, allocated or not |
| `Scoping` | abstract specification | a stack of sets of names without shadowing |
| `ScopeRules` | reference, no code | the scoping rules stated on the tree, without traversal |
| `SemCheck` | `semcheck.c` | one action per statement and expression kind |
| `Gen` | `gen.c` | one action per statement and expression kind; output as records |
| `Compiler` | `paola.c` after the parser | semantic checker, then generator, on one tree |
| `Paola` | `paola.c`, `utils.c`, `errors.c` | from the command line and the text to the exit status and the messages printed |
| `Language` | reference, no code | what the whole compiler owes to the grammar, the scoping rules and the command line; the products of C (`TreesInC`) |
| `Machine` | external: x86-64, assembler, linker | meaning of the instructions, words of `WordBits` bits |
| `CSem` | reference, external: C | the value `main` returns, where C defines it |
| `System` | `Compiler` and `Machine` | from a tree to an exit status |
| `AstProofs` (sequences, sets, trees), `FrontProofs` (lexer, parser, the trees of the grammar), `GrammarProofs` (the parser against the grammar), `SemCheckProofs`, `GenProofs`, `CompilerProofs`, `PaolaProofs`, `ListProofs` | | lemmas and theorems |
| `MC*` | | instances for TLC |

How state and actions correspond to the code:

* **Recursion.** Each recursive traversal (`parse_*`, `semcheck_*`, `generate_*`)
  becomes a list of pending calls.  A step is one call, or what a call does after
  an inner one has returned; the C stack is `pending` in `Parser`, `todo` in `Gen`, and
  `frames` (one per open scope) with `exprs` in `SemCheck`.  The order of the
  pending calls is that of the code.
* **Memory.** `create_symtable_entry` takes any address that is not in use, so an
  address freed by `empty_scope` may come back.  Tree nodes keep the address
  (`symbolOf`), and `Compiler` leaves it there for `Gen`, whose `slot` is
  `symbol->stack_offset` by address.  `empty_scope` frees a symbol and then follows the
  link in it; `SymTable!CloseScope` closes a scope in one step, and `SymTableLoop` has the
  loop and shows that it comes to that step (`ClosesAtOnce`).  In `List`, links are pointers, and the links
  of an element that is in no list are stale.
* **Text.** `text` is the input file and `at` the position of `next_char`; `mode`
  says in which loop of `next_token` the lexer is.  `consume_char` at the end of
  the text stays there: `fgetc` returns EOF again and again.  A letter of the model
  stands for a run of letters (`x`, `while`), all else is one character.  Writing
  behind an array ends the run (`overrun`): what the memory there holds is not
  modelled.
* **Errors.** `errors` is `error_count()`, `warnings` is `warning_count()`, and
  `messages` in `Paola` the list that `print_messages` prints.  `type_error` is silent for a type that
  is invalid already.  An assertion that fails gives `aborted`, a null read
  `crashed`, an exhausted memory `killed`.
* **Instructions** are records of an opcode and arguments in AT&T order.
* **Arguments** that begin with a dash are the members of `Dashed`: the three options and
  others, which `parse_options` passes over.
* **Data** is abstract: names are members of `Names`, positions and the wording of
  messages are left out, the datatype is `INT_DT` or `INVALID_DT` as in the code.

## 3. Runs

| Run | Instance | Checks |
|---|---|---|
| `symtable_client` | 2 names, 6 addresses, 3 scopes, the loop of `empty_scope` | `LoopOwned`: what can be looked up is allocated and stands at one place, nothing is lost, nothing freed twice, and the loop gets to every symbol although its way leads through freed ones; `ClosesAtOnce`: the loop implements closing a scope in one step; `CloseRestores`: closing a scope undoes it |
| `symtable_innermost` | same | **violated**: `symtable_find` does not search from the innermost scope as its comment says |
| `semcheck` | every program with up to 2 small functions over 2 names, and every expression in every place of every statement, functions whose body is no block; 3 addresses | `VerdictCorrect` (errors exactly for programs that break `ScopeRules`), `UniqueNames`, `FindIsInnermost`, `MemoryOwned`, `StackDiscipline`, `NeverAborted`, `AllResolved`, `ImplementsScoping` (refinement of `Scoping`), `Terminates` |
| `semcheck_prototype` | one prototype | **violated**: `int f();` makes the check read through a null body |
| `back_end` | every statement around expressions that take one to four of 3 registers, an initial value that would take too many, a symbol missing or not; loops and conditions that are compiled and run | labels placed once and found, `RegisterDiscipline` and `LeftKept`, abort exactly when registers or symbols lack, termination; `MeaningPreserved`, `MeaningReached` |
| `system_functions` | expressions, functions beside and inside each other, programs that fail, 5 addresses, 3 registers | `ExitStatus`, `OwnPlace` (freed symbols still lead to the right variable); `MeaningPreserved` of the programs that have a `main`: `ExpressionPrograms`, `InsideEachOther`, `Failures` (`TwoFunctions` and `Limits` have none and are not run) |
| `system_else`, `system_call` | one program each | **violated**: `MeaningPreserved` |
| `list` | 4 elements, 2 lists | `Linked`, `AssertionsHold`, `ReverseEnds` |
| `paola` | all texts of up to 3 of 13 characters; 12 sample programs and every edit of one character of them; texts at the limit of the token array; 4 texts under all command lines of up to 3 of 7 arguments, one of them an option that does not exist | `LexCorrect` (the tokens are those of the text), `BoundsExact` (the arrays are left for exactly the texts that do not fit), `ParseCorrect` (accepts exactly the grammar of the code, with exactly its one tree), `TreeOK` (what the later phases need), `ExitTells` (the exit status tells what became of the text), `Reported` (no message is lost), `PaolaEnds` |
| `paola_division` | `int f() { return 8/2/2; }` | **violated**: `GroupsAsInC`, the tree that is compiled is not the one C gives the text |
| `lexer_comment` | one text | **violated**: `tokenize` does not return on a text that ends in a comment |

Every property of a passing run has a mutant: a changed definition (marked
"Mutated form of" in the modules) with which TLC finds the property violated.

### Bounds, and why they are enough

* *Names, addresses.* Two names give every kind of clash; addresses are enough
  for every program of the instance, so that none blocks, and scarce enough that
  a later function gets the memory of an earlier one.  Addresses are symmetric
  where no liveness is checked.
* *Registers.* The code has ten; three make expressions that run out of them
  small.  `Gen` is parameterised by `RegisterNames`.
* *`WordBits` = 16* (64 in reality): sums and products still wrap; CSem's `Limit`
  follows it, since C leaves overflow undefined.  *`StackBytes` = 1000*: runaway
  recursion traps.  *`Garbage` = 77*: what unwritten memory and registers hold; a
  value no program computes otherwise.  *`Fuel` = 20*: loop rounds and calls after
  which CSem gives no meaning.
* *`IntBits` = 8* (32 in reality): a literal of three digits wraps.
  *`MAX_TOKENS` = 16* and *`MAX_STRING_SIZE` = 3* (10000 and 64 in reality): texts
  of one or two lexemes more than fit are part of the run.
* *`Readable`, `Writable`*: files that exist and one that does not.
* *`MaxErrors` = 8*: `parse_block_stat` goes round for ever at the end of the
  program, with two errors and a few nodes each time, until the memory is
  exhausted; the model's memory ends at `MaxErrors`.
* *`MaxScopes` = 3* in `SymTableClient` and `SymTableLoop`; with six addresses a scope has room for
  several symbols, so that the loop of `empty_scope` goes round more than once.
* *Programs* are enumerated up to the sizes in the MC modules.  An error of one
  traversal step shows in a tree of depth two or three around it, since the steps
  know nothing of the tree but the node, and the lists of pending calls.

### Fairness

Weak fairness of the next step of each traversal (`FairSpec`, `GenFairSpec`,
`PaolaFairSpec`, `BackFairSpec`): a sequential process that can take a step takes it.  `List`
assumes it of the loop of `list_reverse` only; a client need not call anything.

## 4. What is proved

### Lexer

For every text, every size of the arrays, every width of an int and every set of
runs of letters (`FrontProofs`, of `LexerSpec`: the lexer on its own):

| Theorem | |
|---|---|
| `TokensAreRight` | when `tokenize` is done, its tokens are those of the longest lexemes of the text, one for one, each literal is the int that is left of its value, and there is one warning for each unknown character; it goes on for ever only in a comment that no line break ends |
| `ArraysLeftRightly` | `tokenize` writes behind its array of tokens or its buffer of a name on no text that fits, and gets through no text that does not |

`Lexemes` cuts the text as a recursive function from the left, with the longest stretch
as a maximum over a set; the lexer looks at one character at a time and, in a loop,
at no more than one ahead.  The inductive invariant is

    LexInv == /\ IsText(text)
              /\ <<in a loop>> => \E list, start : ReadTo(list, start) /\ Inside(start)
              /\ mode = "done" => Tokenized(Lexemes) /\ ~Unclosed(Lexemes) /\ Fits(Lexemes)
              /\ mode = "overrun" => ~Fits(Lexemes)

`ReadTo`: the text before `start` is cut into the lexemes `list`, each as long as
possible, which are the first of `Lexemes`; the array holds what they stand for, an
invalid token for each comment and unknown character among them, and has had room for
it.  `Inside`: what lies between `start` and `at` is the beginning of a name (`WordFrom`),
a number (`NumberFrom`: the value so far is `Decimal` of the digits, modulo the width of
an int) or a comment (`LineFrom`).  The two recursive functions,
`LexemesFrom` and `Decimal`, are shown to exist first.  A lexeme ends where the lexer
thinks it does because every longer stretch up to there was one and no longer one
is; that the second loop of `tokenize` gives the tokens of the lexemes, whatever else is in
the array, is `Kept` of one list against `Kept` of another.

### Parser

For every list of tokens with a `PROGRAM_END_TOK` at its end and nowhere else
(`IsTokenList`), every set of names and every memory (`FrontProofs`,
`GrammarProofs`):

| Theorem | |
|---|---|
| `ParserRecognises` | `Grammar` is the grammar of the code, in which products group to the right: when the parser ends, it has found no error in exactly the token lists that the grammar derives, and what it returns is the one tree of the list |
| `TreesAreWhole` | what `parse()` returns is one block in which every node has children of the number and kinds that `parser.h` provides for; if no error was counted, there is no invalid node in it and no name is missing |
| `TreesAreHanded` | a tree that `parse()` returns without errors is what the semantic checker and the code generator take for granted (`WellFormed`, `Preorder` of `Ast`) |
| `ParserTypes` | `next_token` never leaves the array of tokens, whatever was skipped or read ahead |
| `ParserInvariant` | the invariant below |

`TreesAreWhole` speaks of the end only.  While nodes lie on the stack and parse
functions wait, what matters is that each of them will find the nodes it needs, also
after a recovery that gave it an `INVALID_EXPR` or `INVALID_STAT`.  So the tasks are
typed: `Takes(task, below, above)` says of which kinds (expression, statement, block)
the nodes on top of the stack have to be before the task and are after it; `Chain`
says it of a list of tasks.  The inductive invariant is

    ParserInv == InPlace /\ GoodTasks /\ Typed /\ WholeSoFar

`InPlace`: the position is one of the list, and the end of the program is never
matched.  `GoodTasks`: a name that is missing in a task has been counted as an error.
`Typed`: what is still to be done fits the kinds of the nodes on the stack and leaves
the program's block alone.  `WholeSoFar`: every tree built is a table of nodes in
preorder in which each has its children; when a tree is hung under another one all
its pointers are moved by as many places as there are nodes in front of it.  A step
replaces the first task by others; the lemmas say once for all that a chain stays one
if the new tasks fit where the old one did, and each action is then shown to do so.
A `DECL_STAT` that is a prototype has no child: that is what the semantic checker
falls over.

`ParserRecognises` compares the parser, which goes through the list once and never back,
with `Grammar`, which splits it in all ways at once.  The inductive invariant is
`ParserInv` with

    PathInv == /\ (errors = 0 /\ parseStatus # "killed") =>
                     \A T : T \in ParseTrees <=> Meets(tokens, pending, 1, next, built, T)
               /\ (errors # 0 \/ parseStatus = "killed") => ParseTrees = {}

that is: as long as nothing has gone wrong, the trees of the list are exactly those
that the pending tasks make, one after the other, of the tokens from `next` on and of the trees
on the stack; from the first error on there are none, whatever the recovery makes of
the rest.  `Meets` is a path: a place in the list and a stack before every task, with
`Does(task, ..)` between each and the next.  What a task that parses does is said by
the grammar: it puts a tree on the stack that the grammar gives to the tokens passed
(`Makes`), with what the parser's looking ahead adds: a term ends before no operator
of its kind, no name before an opening parenthesis, and a statement before an `else`
is "closed", so that the `else` belongs to the nearest `if`.

Each step then has to keep the set of trees.  Where the parser replaces a task by others
(`Unfolded`), a path through the new tasks is one through the old, in both directions:
one lemma for each form of expression and statement (`ReturnMeets`, `SkipMeets`, ...).
The loops need more: `parse_subexpr` groups to the left as it goes along, the grammar's sum
splits at its last operator; `Reaches` closes the loop's step, and the trees reached are
shown to be those of the sum.  Where the parser counts an error, there is no path, since no
rule of the grammar has the token that was found where it stands.  `Derived` itself is a
recursive function, which exists because each rule looks at shorter parts, or at the
same part and a kind that comes earlier; that is proved first (`DerivedRule`).

### Symbol table and semantic checker

For every program, set of names and set of addresses (`SemCheckProofs`):

| Theorem | |
|---|---|
| `TypeCorrect` | the types, that is: pending calls always have nodes of the right kind |
| `NoShadowing` | no name stands at two places of the table |
| `MemorySafe` | what is allocated stands at exactly one place of the table |
| `SearchOrderIrrelevant` | `symtable_find` returns the innermost symbol for this client, although it searches from the wrong end |
| `NamesStayFree` | a name waiting to be declared stands in no scope that will be open then |
| `AssertionHolds` | the assertion of `symtable_insert` never fails |
| `EveryNodeResolved` | after a check without errors every declaration and every name has its symbol |
| `VerdictIsRight` | a program gets an error if and only if it breaks `ScopeRules` |
| `TableImplementsScoping` | lists, pointers and reused memory implement `Scoping`, a stack of disjoint sets of names |
| `ClientTypes`, `ClientMemory` | for any other client that respects the assertion of `symtable_insert`, with the loop of `empty_scope` step by step: what can be looked up is allocated and stands at one place, nothing is lost, and the loop frees every symbol of its scope once |
| `LoopClosesAtOnce` | the loop implements closing a scope in one step, as `SymTable` has it |
| `ClosingRestores` | and `symtable_close_scope` gives every name the meaning it had when the scope was opened |

The argument.  `NeverAborted` and `UniqueNames` are not inductive: a declaration
is looked up in one step and inserted many steps later, after all of a function
body.  The inductive invariant is

    IInv == TypeOK /\ SymInv /\ StackDiscipline

`SymInv` (types of the table, `MemoryOwned`, `UniqueNames`) is kept by each table
operation on its own, the insertion provided that the name is absent
(`OpenScopeKeepsInv`, `CloseScopeKeepsInv`, `InsertKeepsInv`).
`StackDiscipline` provides it: for the function of the k-th frame the name is
absent from the scopes below the k-th, and a pending declaration is the last of the
pending calls with its name absent from all open scopes.  It is kept because the
steps in between insert in the current scope only, which is closed before the
function's own name is inserted, and because `Fresh` looks in all scopes.

The refinement maps each scope to the set of names of its symbols.  Under `IInv`
every step of the checker is `Enter`, `Leave`, `Declare` or a stutter of `Scoping`;
`Declare` needs `StackDiscipline` for its guard, and `MemoryOwned` for its effect:
the symbol that is written stands in no other scope, so no other set changes.

A client of its own (`SymTableLoop`) may shadow names, so `UniqueNames` does not
hold and `symtable_find` need not return the innermost symbol; what closing a scope
restores is what the code finds.  `empty_scope` frees a symbol and then reads the link
inside it, on every close of a scope that is not empty: that no freed memory is read is
not so, and is not claimed.  What is claimed is that the loop does what it is for.  The
inductive invariant is `EmptyingInv /\ HistoryInv` with

    EmptyingInv == /\ LoopTypes /\ Standing /\ Emptying
                   /\ <<no symbol stands twice in the scope being emptied>>
                   /\ Chained(closing.scope) /\ AllLinked
                   /\ closing.step = "none" => closing = NotClosing

`Emptying`: the first n symbols of the scope have been freed, no other, and the loop
stands behind the n-th.  `Chained`, `AllLinked`: the links lead through the scope
being emptied and through every open one, whether the symbols are allocated or not;
they stay right in freed memory because no step of the loop writes them, and because
an insertion, which would take the memory again, has to wait for the end of the loop.
`Standing`: what is allocated stands in one open scope, or in the one being emptied.
`HistoryInv`: the history's k-th entry is what the lookups find in the scopes below the
k-th (`FindBelow`).  An insertion changes the current scope only, and an address that it
takes is in no scope, so lookups below see the symbols they saw (`Untouched`).

The refinement (`LoopClosesAtOnce`) maps the symbols of the scope being emptied to free
memory (`SymbolsLeft`): popping the scope is `ClientClose`, since nobody can find its
symbols any more, and the steps of the loop are stutters, the last of them because
then all have been freed.

`AllResolved` speaks of the end only.  Its invariant is

    CoverInv == IInv /\ Covered

`Covered`: as long as there is no error, there is a set of visited nodes whose children
are visited or wait in a list of pending calls or statements, and whose symbols are
set or wait for a pending declaration or for the end of a function body.  Each step
adds the node it takes to the set.  At the end nothing waits; the first node outside
the set, were there one, would have a parent, which comes before it and so is
visited, so the node would be visited too (`NothingLeftOut`).

`VerdictCorrect` compares the checker, which walks the tree with a table of names, with
`ScopeRules`, which says of each node on its own which declarations are visible
there.  The inductive invariant is `CoverInv` with

    VerdictInv == /\ errors # 0 => ~WellScoped(prog)
                  /\ errors = 0 => SymbolsInv
                  /\ (errors = 0 /\ status = "checking") => View

`SymbolsInv`: the nodes that have got a symbol keep the rules.  `View` relates the
checker's state to the tree, as long as there is no error:

* `TodoInv`, `OwnersInv`: the statements waiting in a frame follow each other in
  the tree up to the end of the function the frame belongs to, and the functions
  of the open frames are the ones around the statement at hand;
* `TableInv`: the k-th scope holds a name if and only if a declaration of it belongs to
  the k-th of these functions (`ScopeOf`) and is behind (`Declared`);
* `ExprsInv`: a pending call for an expression stands at a place where exactly the
  declarations behind end before it; a pending declaration keeps the rules;
* `ResultsInv`: the type of an operand is there when its operator asks for it.

From `View` follows that a lookup in the table finds a name if and only if a declaration
of it is visible at the node (`LookupRight`), so each error is one that the rules see,
and each step without one gives its node a symbol rightly.  When the check ends
without errors, `NothingLeftOut` gives every node its symbol, and `SymbolsInv` the
verdict.  It needs to know of the places of nodes in a tree in preorder (`AstProofs`):
`LastOf` is a recursive function, whose existence is proved first (`LastExists`);
subtrees are disjoint or inside each other; each node but the first has a parent
(`ParentKnown`).  TLC checked `VerdictInv` on the programs of `semcheck` before it was
proved.

### Code generator

For every program, every non-empty list of register names and every way the
symbols may have been linked (`GenProofs`):

| Theorem | |
|---|---|
| `TypesHold` | pending calls have nodes of their kind and a register for their result; the output is made of known instructions |
| `DisciplineHolds` | what comes before an operation works with register sets without the register of its left operand |
| `LeftOperandsKept` | so nothing printed for a right operand overwrites the left one, except the `pop` that restores it |
| `LabelsPlacedOnce` | no label is placed twice |
| `JumpsHaveLabels` | every jump of a finished output has its label |
| `GivesUpRightly` | the generator gives up on a program if and only if it comes to an expression that takes more registers than there are, or to a missing symbol |

`LabelsUnique` and `JumpsResolve` speak of the output only and are not inductive:
labels and jumps also wait in `todo`, in code to be printed after nested statements.
The inductive invariant is

    GenInv == GenTypeOK /\ RegisterDiscipline /\ LabelInv /\ JumpInv
              /\ (genStatus = "done" => todo = <<>>)

`LabelInv` says that every label, printed or waiting, is below `next_label` and
stands in one place; `JumpInv` that the label of every jump, printed or waiting, is
printed or waiting.  Each action replaces the first pending call by new calls,
prints code and takes n labels from the counter; the lemmas say once for all such
steps (`Moves`) what of the new calls and code is enough to keep the invariant
(`Fine`), and each action is then shown to be fine.

`GivesUpOnlyIfNeeded` compares the abort in the middle of an operand with `Need`, which
is computed bottom-up on the tree.  Its invariant is `GenInv` with

    GivesUpInv == /\ WellFormed(prog) /\ Preorder(prog)
                  /\ GoodCalls
                  /\ genStatus = "aborted" => TooDeep \/ Unresolved
                  /\ genStatus # "aborted" => \E calls : Made(calls)

`GoodCalls` is for the abort: statements get all the registers, and the registers that
a pending operand does not get are in use in an expression that it is part of, so
when an operand gets none, that expression takes more than there are (`Deep`,
`GivingUp`).  `Made` is for the other direction: there is a set of calls that have been
made, and what comes of a call has been made too or waits in `todo` (`Follows`).  When
the generator is done nothing waits, so the calls made reach every node that is
`Generated`: the first one they left out would have a parent, which they did not
(`AllMade`).  The registers left then bound `Need` for every node, by induction from the
last node down (`EnoughRegisters`, `NeedBounds`).  Each action replaces the first
call by what comes of it (`Serves`, `Step`).

The proof corrected the property: it spoke of every expression of the program, while
`GenVar` never looks at the initial value of a variable, however many registers it
would take.  TLC had not seen it since no program of the run had such a value; now
one has (`Initialised`), and the property is about the nodes that are `Generated`.

### The compiler behind the parser

For every program, names, addresses and registers (`CompilerProofs`):

| Theorem | |
|---|---|
| `ExitTellsVerdict` | the exit status is 0 only for a program that keeps the scoping rules and fits the registers, 4 only for one that breaks the rules; a signal ends the process only because of a prototype or of too few registers |
| `VariablesFound` | the generator finds the place of the right variable behind every name, whichever memory the checker's symbols were given |

The invariant (`ExitInv`) puts the phases together: while the checker runs, its own
invariants (`CoverInv`, `VerdictInv`, `NeverAborted`) hold and the generator stands at
its beginning; while the generator runs, its invariants (`GenInv`, `GivesUpInv`) hold and
the program is `Accepted`: it keeps the rules, and no declaration and no name is without
a symbol.  The step between the phases is where the checker's results become the
generator's assumption: without an error, `NothingLeftOut` gives the symbols, so the
generator never gives up for a missing one.

`OwnPlace` is what makes it harmless that the generator writes stack offsets into
symbols that have been freed and, perhaps, handed out again: behind a name it finds
the offset of the variable that the scoping rules say.  It takes an argument about
each of the two phases.

The checker (`LinkInv`).  `NamesGiven`, `Lives`: exactly the declarations behind have got a
symbol, and as long as the scope of one is open it holds that symbol under that name.
So a name gets the symbol of the declaration it refers to (`Meant`), and memory given
to a declaration is in no scope that is still open: no variable shares its symbol
with one that comes before the end of its scope (`Apart`).

The generator (`PlacesInv`).  `InOrder`: the calls waiting are for statements behind
all variables that have got a place, each behind the one before; `NoneLost`: every
variable has its place or is in a statement that waits; `LaterOutside`: while the
generator is in a function, what is behind the function waits further back.  `OffsetCounts`: so the n-th variable gets
the n-th place.  `SlotsRight`: the memory of a symbol holds the place of the last of
its variables so far; when the generator comes to a name, the last one is the one
meant, because of `Apart` (`PlaceFound`).  That new calls come in the order of the
program and cover the node that made them is shown once for all actions (`EveryStep`).

### The whole program

For every set of calls, each a command line and a text, every size of the arrays and
every width of an int (`PaolaProofs`):

| Theorem | |
|---|---|
| `TreesAreRight` | what `main` hands over to the semantic checker is a tree as `Compiler` assumes it (`ProgramsAssumption`, `PreorderAssumption`) |
| `AllReported` | `main` prints every warning and every error that any phase has counted, and exits with 0 exactly if there was no error; of a process that is killed nothing is seen |
| `LexerInPlace` | what `TokensAreRight` and `ArraysLeftRightly` say of the lexer holds in the program |
| `LanguageAccepted` | from the text to the tree: the program accepts exactly the texts whose tokens the grammar derives |
| `PlacesInWhole` | from the text to the code: behind every name the generator finds the place of the right variable |
| `ExitTold` | the exit status tells what became of command line and text: 1 only if no input was named, 3 only for a text outside the grammar, 4 only for a program that breaks the scoping rules, 0 only for one that keeps them, fits the registers and could be written; a process is killed for none but five reasons |

The inductive invariant is

    PaolaInv == LexInv /\ Tallied /\ InTurn /\ PrintedAll

`InTurn` is how the phases follow each other: the parser stands at its beginning
until the lexer returns, `ParserInv` holds from then on, and the number of warnings
stays that of the unknown characters.  In the step between the two, `LexInv` gives the
list of tokens that `ParserInv` starts from (`ParserStarts`).  `Tallied`: there are as
many messages of each kind as have been counted; `errors` is one counter for the
parser and the semantic checker, and no step lowers it (`CountsGrow`).  `PrintedAll`:
who ends the program prints.

Three invariants on top of it carry the results of the components into the program.
`BackInv`: until the tree is handed over, the checker and the generator stand at their
beginning, and from then on `PlaceInv`, the invariant of `VariablesFound`, holds; the
parser's tree is one of the programs that `Compiler` assumes (`TreesAreRight`), so the
steps from there on are those of `CompilerSpec`.  `ParserOnPath`: the parser has its
`PathInv` once the lexer has delivered.  And for the exit status

    ExitKnown == OptionsKnown /\ TreeKnown /\ (phase = "killed" => KilledFor)

`OptionsKnown`: the files `main` opens are those the arguments name.  `parse_options` goes
through the arguments once and remembers whether the last one was `-o`; `ExitTells` says
which are meant by looking back: a name is the output's if it follows an odd number of `-o`, and
the last of its kind counts.  That the loop arrives there is an induction over the
arguments (`OptionsOf`, `Latest`; `OptionsMeant`).  `TreeKnown`: the tree behind the
parser is the one of the grammar, and none is behind a `PARSE_ERR`.  `KilledFor` has the five
reasons: an input or an output that cannot be opened, a block without an end, a prototype,
too few registers.  For the third, the loop of
`parse_block_stat` waits, or has used up the memory, only if there is an opening
brace in the text (`Braced`).  For the fourth, `print_stat_ast` gets through
every tree whose functions have bodies (`BodiesPrintable`).  Once they hold they stay,
since nothing writes the arguments, the tokens or the tree any more (`KnownStays`,
`KilledKnown`).

The proof found two places where guards of a `CASE` in `Paola` overlapped
(`Argument`, `ParseOptions`), so that the definition said less than the order of the `if`s in
`parse_options`; they are disjoint now.

### Linked list

For every set of elements and every set of lists (`ListProofs`):

| Theorem | |
|---|---|
| `LinksHold` | after any sequence of operations, the links of every list lead through exactly its elements, forwards and backwards |
| `AssertionsNeverFail` | no assertion of `list.c` fails for a client that inserts what is in no list and removes what is in one |
| `ListTypes` | links lead from nodes to nodes |

`Linked` says nothing while `list_reverse` is under way, and not that lists are
disjoint, without which a change of one list could break another.  The inductive
invariant is

    ListInv == ListTypeOK /\ ~aborted /\ Distinct /\ Ends /\ LinksOK

`Distinct`: no element stands at two places.  `LinksOK`: a list is linked through its
elements, and the one being reversed has the links of the elements before the
loop's position swapped and the others not.  For each operation three things are
shown: where each node of the new sequence stood before (`InsertSpots`, `CutSpots`,
`PutInSpots`, `SwapSpots`, `ReverseSpots`: a splice within a list makes two neighbouring
pieces change places), what becomes of the links (`LinkBeforeLinks`, `UnlinkLinks`,
`RelinkLinks`, `LastSwaps`), and that the two agree.  The splice that puts elements
back where they are, for which `list_splice` writes the same links twice, is a case
of its own (`RelinkInPlace`).

### Assumptions

`LettersAssumption` (a run of letters is none of the other characters), `NamesAssumption`
(what fits into the buffer of a name is a name), `BoundsAssumption` (sizes of arrays
are numbers, an int has two halves), `NoNameAssumption` (null is no name), `NodesAssumption` (an element is not the head or tail of a list, and null is no node),
`AddrAssumption`, `ProgramsAssumption` (what the parser hands
over: `TreesAreRight`), `RegisterAssumption` (register names are
distinct and none is `rax`, `rdx` or `rsp`), `LinksAssumption` (a node's symbol is an
address or missing), `PreorderAssumption` (nodes are numbered in preorder:
`TreesAreRight`), `CallsAssumption` (files hold characters, arguments are strings), `DashedAssumption` (the
three options begin with a dash).  The inductive invariants were checked with TLC, part by part, before they
were proved; except `PathInv`, which speaks of all paths through the rest of a text, more
than TLC can enumerate: of it TLC checked `ParseCorrect`.

### Only model-checked

* Liveness: `Terminates`, `GenTerminates`, `MeaningReached`, `PaolaEnds`,
  `ReverseEnds`.
* `MeaningPreserved`.  It is false in general, for the programs of section 5; a theorem
  would have to begin by saying which programs keep clear of them, and `CSem`, one of
  its two sides, evaluates with `RECURSIVE` operators, which tlapm does not take.
* The six runs that expect a violation: a counterexample is all there is to show.

Every other safety property of the passing runs is a theorem.

## 5. What was found

* `symtable_find` searches from the outermost scope; its comment says innermost
  (`symtable.c:41`).  Harmless with this checker (`SearchOrderIrrelevant`).
* A prototype crashes the semantic checker (`semcheck.c:77`).
* A comment at the end of a text without a line break keeps `skip_line` waiting for
  ever (`lexer.c:215`).
* Both branches of an if with else are executed (`gen.c:144`).
* The pushes around a call overwrite the caller's variables (`gen.c:259`).
* `/` and `*` group to the right, so `8/2/2` is 8 (`parser.c:179`); the compiler is one for C
  (`src/README.md:2`), where it is 2.  `+` and `-` group to the left.
* `empty_scope` reads the link of a symbol that it has freed (`symtable.c:81`, `83`), on
  every close of a scope that is not empty: `ReadsLiveMemory` of `SymTableLoop`, which is no
  property of the code, is violated when it is added to the invariants of `MCSymTable.cfg`.
  In C that is undefined.  It does no harm where `free()` writes into the first 16 bytes
  of a chunk only, as glibc's does with chunks of this size: `scope_elem` is at offset 16
  of a symbol, and nothing is allocated in between.  `FreeSymbolClobbering` is one way it
  could go where `free()` wrote further: the loop ends after the first symbol and the others are lost
  (`LoopOwned`).

More programs lose their meaning.  They have no run of their own; each definition
of `MCSystem` below violates `MeaningPreserved` when it is given to `Programs` in
`MCSystemElse.cfg`, and the programs of the passing runs keep clear of them:

| Definition | Cause |
|---|---|
| `InitialValue` | `int x = 5;`: no code for the value (`gen.c:196`) |
| `NegativeDividend` | `rdx` is zeroed, not sign-extended (`gen.c:299`) |
| `AssignedValue` | the value of an assignment is the variable's address (`gen.c:314`) |
| `GlobalVariable` | a global is addressed from each function's own `rsp` (`gen.c:198`) |
| `NestedFunction` | the code of a nested function stands inside the outer one's and is run into (`gen.c:193`) |
| `NoReturn` | a function without a return runs into the text after it (`gen.c:193`) |

Some properties of the program are modelled as they are, since no document of the
repository says otherwise: a variable may be called (`semcheck.c:118` does not look at
what a name is; the output does not link, `Machine!Linkable`); an argument that begins
with a dash and is no option is passed over without a word (`utils.c:8`), so that `paola
-x` is refused for want of an input.  An unknown character is a warning, not an
error: the exit status for errors of the lexer never occurs, and `x != 2` is read
as `x = 2`.  Comments and unknown characters take room in the array of tokens.  A
file that cannot be opened is not noticed; the process is killed when it is used.

## 6. What is not modelled, and what is assumed

* What is printed: the texts of messages, of `--print-tokens` and of trees, and the
  positions in them.  Nothing of it is read again.  `print_messages` passes each
  text to `fprintf` as a format (`errors.c:216`).
* The byte 0xFF in a text, which `(char) fgetc` cannot tell from EOF.
* The memory behind an array that has been overrun.
* A prototype's `func_body` and a missing initialiser are memory that nobody has
  written, null if the bytes come fresh from the system.  They do: the token
  array is large enough to be mapped and unmapped.  The buffer of a keyword, which the
  lexer frees, has the same chunk size as a statement (64 bytes for the one, 72 for the other, both in
  chunks of 80), so a statement may get it; but there is at most one, as the next name
  takes it again, a keyword has at most seven characters with its end, and `free()` writes
  into the first 16 bytes only, while `func_body` and `value` are at offset 48.
* What the heap does with a freed symbol until the loop of `empty_scope` has read its
  link: as said in section 5.
* Freed symbols are reused by symbols only.  Between the end of the semantic
  checker and the end of the generator the one other allocation is the buffer of
  the output file, which is larger than any freed chunk; a program with very many
  symbols might have chunks merged into one that is large enough.
* `Machine` and `CSem` are external: they are written from what the instructions
  and the language mean, restricted to what `gen.c` prints.
* The tests and the build files; their programs are the samples the runs are made of.

## 7. Plan

Done: every component of the program is modelled, from the command line to the exit
status of the compiled program; every component is proved about, and every safety property
that a run shows but `MeaningPreserved` is a theorem.  What is left, in this order:

1. `MeaningPreserved` for the programs that keep clear of section 5: `CSem` as
   recursive functions, then a simulation of the one by the other for
   expressions, which need no jumps and no calls.
2. `Terminates`, `GenTerminates` and the lexer's half of `PaolaEnds` by measures that
   decrease: the step is a safety property, and only the last inference is out of the prover's
   reach.
