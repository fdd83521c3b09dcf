---------------------------- MODULE PaolaProofs ----------------------------
(***************************************************************************)
(* Theorems about the whole program, for every set of calls, every size of *)
(* the lexer's arrays and every width of an int.                           *)
(*                                                                         *)
(* What has been proved of the lexer and of the parser holds when main     *)
(* calls one after the other: the tokens that the lexer delivers are a     *)
(* list that the parser can start from, and nothing else writes its state. *)
(* The number of errors passes from the parser to the semantic checker,    *)
(* and the messages are counted along with it.                             *)
(***************************************************************************)
EXTENDS Language, GrammarProofs, CompilerProofs

-----------------------------------------------------------------------------
(* Messages. *)

MessageKinds == {"Warning", "Error"}

\* How many messages of that kind there are.
Tally(list, kind) == Cardinality({i \in DOMAIN list : list[i] = kind})

\* The list with n more of one kind.
MoreOf(list, more, kind, n) ==
    /\ more \in Seq(MessageKinds)
    /\ \A k \in MessageKinds : /\ Tally(list, k) \in Nat
                               /\ Tally(more, k) = Tally(list, k) + IF k = kind THEN n ELSE 0

\* Only the messages that are added count.
LEMMA CopiesAdded ==
    ASSUME NEW list \in Seq(MessageKinds), NEW n \in Nat, NEW kind \in MessageKinds,
           NEW more, more = list \o Copies(n, kind)
    PROVE  MoreOf(list, more, kind, n)
<1>1. Copies(n, kind) \in Seq(MessageKinds) /\ Len(Copies(n, kind)) = n
      /\ \A i \in 1 .. n : Copies(n, kind)[i] = kind
  BY DEF Copies
<1>2. PICK m \in Nat : m = Len(list)
  BY LenProperties
<1>3. /\ more \in Seq(MessageKinds) /\ Len(more) = m + n
      /\ \A i \in 1 .. m : more[i] = list[i]
      /\ \A i \in m + 1 .. m + n : more[i] = kind
  <2>1. PICK c \in Seq(MessageKinds) :
           c = Copies(n, kind) /\ Len(c) = n /\ \A i \in 1 .. n : c[i] = kind
    BY <1>1
  <2>2. /\ list \o c \in Seq(MessageKinds) /\ Len(list \o c) = Len(list) + Len(c)
        /\ \A i \in 1 .. Len(list) + Len(c) :
              (list \o c)[i] = IF i <= Len(list) THEN list[i] ELSE c[i - Len(list)]
    BY ConcatProperties
  <2>3. \A i \in m + 1 .. m + n : i \in 1 .. m + n /\ ~(i <= m) /\ i - m \in 1 .. n
    BY <1>2
  <2>4. \A i \in 1 .. m : i \in 1 .. m + n /\ i <= m
    BY <1>2
  <2> QED BY <1>2, <2>1, <2>2, <2>3, <2>4
<1>4. ASSUME NEW k \in MessageKinds
      PROVE  /\ Tally(list, k) \in Nat
             /\ Tally(more, k) = Tally(list, k) + IF k = kind THEN n ELSE 0
  <2>1. PICK S : S = {i \in 1 .. m : list[i] = k}
    OBVIOUS
  <2>2. PICK T : T = IF k = kind THEN m + 1 .. m + n ELSE {}
    OBVIOUS
  <2>3. DOMAIN list = 1 .. m /\ DOMAIN more = 1 .. m + n
    BY <1>2, <1>3, LenProperties
  <2>4. {i \in DOMAIN more : more[i] = k} = S \cup T
    <3>1. \A i \in 1 .. m + n : i \in 1 .. m \/ i \in m + 1 .. m + n
      BY <1>2
    <3>2. \A i \in 1 .. m : i \in 1 .. m + n
      BY <1>2
    <3>3. \A i \in m + 1 .. m + n : i \in 1 .. m + n /\ i \notin 1 .. m
      BY <1>2
    <3> QED BY <1>3, <2>1, <2>2, <2>3, <3>1, <3>2, <3>3
  <2>5. S \cap T = {}
    BY <1>2, <2>1, <2>2
  <2>6. IsFiniteSet(S)
    <3>1. IsFiniteSet(1 .. m)
      BY <1>2, FS_Interval
    <3> QED BY <2>1, <3>1, FS_Subset
  <2>7. IsFiniteSet(T) /\ Cardinality(T) = IF k = kind THEN n ELSE 0
    <3>1. IsFiniteSet(m + 1 .. m + n) /\ Cardinality(m + 1 .. m + n) = n
      <4>1. PICK a \in Int, b \in Int : a = m + 1 /\ b = m + n
        BY <1>2
      <4>2. Cardinality(a .. b) = IF a > b THEN 0 ELSE b - a + 1
        BY FS_Interval
      <4>3. (a > b => n = 0) /\ b - a + 1 = n
        BY <1>2, <4>1
      <4>4. IsFiniteSet(a .. b)
        BY FS_Interval
      <4> QED BY <4>1, <4>2, <4>3, <4>4
    <3> QED BY <2>2, <3>1, FS_EmptySet
  <2>8. Cardinality(S \cup T) = Cardinality(S) + Cardinality(T) /\ Cardinality(S) \in Nat
    <3>1. Cardinality(S \cup T) = Cardinality(S) + Cardinality(T) - Cardinality(S \cap T)
      BY <2>6, <2>7, FS_Union
    <3>2. Cardinality(S) \in Nat /\ Cardinality(T) \in Nat /\ Cardinality(S \cap T) = 0
      BY <2>5, <2>6, <2>7, FS_CardinalityType, FS_EmptySet
    <3> QED BY <3>1, <3>2
  <2>9. Tally(list, k) = Cardinality(S) /\ Tally(more, k) = Cardinality(S \cup T)
    BY <2>1, <2>3, <2>4 DEF Tally
  <2> QED BY <2>7, <2>8, <2>9
<1> QED BY <1>3, <1>4 DEF MoreOf

-----------------------------------------------------------------------------
(* What the steps of main leave alone. *)

\* A count that was not lowered.
NotLowered(before, after) == after \in Nat /\ after >= before

\* The lexer counts warnings up.
LEMMA LexCounts ==
    ASSUME warnings \in Nat, LexStep
    PROVE  NotLowered(warnings, warnings')
<1>1. warnings' = warnings \/ warnings' = warnings + 1
  BY DEF LexStep, SkipBlank, StartString, StringChar, EndString, StartNumber, Digit, EndNumber,
         Sign, WideSymbol, StartLine, SkipChar, EndLine, Unknown
<1> QED BY <1>1 DEF NotLowered

\* The parser counts errors up.
LEMMA ParserCounts ==
    ASSUME errors \in Nat, ParseStep
    PROVE  NotLowered(errors, errors')
<1>1. ASSUME NEW tasks, Unfold(tasks)
      PROVE  errors' = errors
  BY <1>1 DEF Unfold
<1>2. ASSUME NEW opOf, NEW operand, NEW rest, Operator(opOf, operand, rest)
      PROVE  errors' = errors
  BY <1>2 DEF Operator, Unfold
<1>3. CASE MatchToken \/ MakeNode \/ AppendStat \/ OutOfMemory \/ FinishParse
  BY <1>3 DEF MatchToken, MakeNode, AppendStat, OutOfMemory, FinishParse, NotLowered
<1>4. CASE \/ ParseProgram \/ ParseReturn \/ ParseIf \/ ParseElse \/ ParseWhile \/ ParseFor
           \/ ParseBlock \/ ParseStats \/ ParseExprStat \/ ParseSkip \/ ParseDeclarator
           \/ ParseBody \/ ParseExpr \/ ParseSubexpr \/ ParseTerm \/ ParseParens
  <2>1. errors' = errors
    BY <1>1, <1>4 DEF ParseProgram, ParseReturn, ParseIf, ParseElse, ParseWhile, ParseFor,
       ParseBlock, ParseStats, ParseExprStat, ParseSkip, ParseDeclarator, ParseBody,
       ParseExpr, ParseSubexpr, ParseTerm, ParseParens
  <2> QED BY <2>1 DEF NotLowered
<1>5. CASE ParseComparison \/ ParseTerms \/ ParseFactors
  <2>1. errors' = errors
    BY <1>2, <1>5 DEF ParseComparison, ParseTerms, ParseFactors
  <2> QED BY <2>1 DEF NotLowered
<1>6. CASE ParseInvalid \/ ParseDeclaration \/ ParseIdent \/ ParseIntLit \/ ParseNoFactor
  <2>1. errors' = errors \/ errors' = errors + 1 \/ errors' = errors + 2
    BY <1>6 DEF ParseInvalid, ParseDeclaration, ParseIdent, ParseIntLit, ParseNoFactor
  <2> QED BY <2>1 DEF NotLowered
<1> QED BY <1>3, <1>4, <1>5, <1>6 DEF ParseStep

\* The semantic checker counts them on.
LEMMA CheckCounts ==
    ASSUME errors \in Nat, Check
    PROVE  NotLowered(errors, errors')
<1>1. \A expected, actual : TypeError(expected, actual) \in {0, 1}
  BY DEF TypeError
<1>2. CASE \/ CheckReturn \/ CheckIf \/ CheckWhile \/ CheckFor \/ CheckBlock
           \/ CheckExprStat \/ CheckSkip \/ CheckVarDecl \/ PrototypeCrash
           \/ LeaveFunction \/ Finish \/ CheckIntLit \/ CheckOperands
  <2>1. errors' = errors
    BY <1>2 DEF CheckReturn, CheckIf, CheckWhile, CheckFor, CheckBlock,
       CheckExprStat, CheckSkip, CheckVarDecl, PrototypeCrash,
       LeaveFunction, Finish, CheckIntLit, CheckOperands
  <2> QED BY <2>1 DEF NotLowered
<1>3. CASE Redeclare \/ EnterFunction \/ Declare \/ CheckName \/ AssignConst
  <2>1. errors' = errors \/ errors' = errors + 1
    BY <1>3 DEF Redeclare, EnterFunction, Declare, CheckName, AssignConst
  <2> QED BY <2>1 DEF NotLowered
<1>4. CASE FinishArith \/ FinishAssign \/ FinishCompare \/ CheckUse
  <2>1. PICK k \in {0, 1} : errors' = errors + k
    BY <1>1, <1>4 DEF FinishArith, FinishAssign, FinishCompare, CheckUse
  <2> QED BY <2>1 DEF NotLowered
<1> QED BY <1>2, <1>3, <1>4 DEF Check

-----------------------------------------------------------------------------
(* The inductive invariant. *)

\* main ends by itself and has printed the messages.
Printed == {"OK", "PARSE_ERR", "SEM_ERR"}

\* The lexer has returned by then.
BehindLexer == {"parser", "semcheck", "gen"} \cup Printed

\* There are as many messages as have been counted.
Tallied ==
    /\ warnings \in Nat /\ errors \in Nat
    /\ messages \in Seq(MessageKinds)
    /\ Tally(messages, "Warning") = warnings
    /\ Tally(messages, "Error") = errors

\* What each part of the program leaves for the next one.
InTurn ==
    /\ phase \in {"options", "lexer"} => ParserInit
    /\ phase = "parser" => ParserInv
    /\ phase \in BehindLexer => warnings = Len(Odd(Lexemes))
    /\ phase = "gen" => errors = 0

PrintedAll ==
    /\ phase \in Printed => printed = messages /\ (phase = "OK" <=> errors = 0)
    /\ phase \notin Printed => printed = <<>>

PaolaInv == LexInv /\ Tallied /\ InTurn /\ PrintedAll

-----------------------------------------------------------------------------
(* It holds in every state. *)

\* At the beginning nothing has been read and nothing counted.
LEMMA PaolaStarts ==
    ASSUME PaolaInit
    PROVE  PaolaInv
<1>1. IsText(text) /\ LexInit /\ ParserInit /\ phase = "options"
      /\ messages = <<>> /\ printed = <<>>
  BY CallsAssumption DEF PaolaInit
<1>2. LexInv
  BY <1>1, LexStarts
<1>3. Tallied
  <2>1. \A kind : {i \in DOMAIN messages : messages[i] = kind} = {}
    <3>1. DOMAIN messages = {}
      BY <1>1
    <3> QED BY <3>1
  <2>2. \A kind : Tally(messages, kind) = 0
    BY <2>1, FS_EmptySet DEF Tally
  <2>3. messages \in Seq(MessageKinds)
    BY <1>1
  <2> QED BY <1>1, <2>2, <2>3 DEF Tallied, LexInit, ParserInit
<1>4. InTurn /\ PrintedAll
  BY <1>1 DEF InTurn, PrintedAll, Printed, BehindLexer
<1> QED BY <1>2, <1>3, <1>4 DEF PaolaInv

\* The lexer is the only one to write its state, and writes it as it does alone.
LEMMA LexerAlone ==
    ASSUME [PaolaNext]_paolaVars
    PROVE  [LexStep \/ Deliver]_lexVars
<1>1. CASE Tokenize \/ StartParser
  BY <1>1 DEF Tokenize, StartParser
<1>2. CASE ParseOptions \/ Parsing \/ Compiling
  BY <1>2 DEF ParseOptions, Parsing, Compiling
<1>3. CASE ParseErrors \/ StartSemcheck \/ OpenOutput \/ Finishing
  BY <1>3 DEF ParseErrors, StartSemcheck, OpenOutput, Finishing, front
<1>4. CASE UNCHANGED paolaVars
  BY <1>4 DEF paolaVars, front
<1> QED BY <1>1, <1>2, <1>3, <1>4 DEF PaolaNext, Work

\* What an action does to the counts.
LEMMA CountsGrow ==
    ASSUME warnings \in Nat, errors \in Nat, Work
    PROVE  NotLowered(warnings, warnings') /\ NotLowered(errors, errors')
<1>1. \A n \in Nat : NotLowered(n, n)
  BY DEF NotLowered
<1>2. CASE Tokenize
  BY <1>1, <1>2, LexCounts DEF Tokenize, parserVars
<1>3. CASE StartParser
  BY <1>1, <1>3 DEF StartParser, Deliver
<1>4. CASE Parsing
  BY <1>1, <1>4, ParserCounts DEF Parsing, lexVars
<1>5. CASE Compiling
  <2>1. warnings' = warnings
    BY <1>5 DEF Compiling, lexVars
  <2>2. Check \/ errors' = errors
    BY <1>5 DEF Compiling, Semcheck, GenerateCode, Killed, semOnly, semVars
  <2> QED BY <1>1, <2>1, <2>2, CheckCounts
<1>6. CASE ParseOptions
  BY <1>1, <1>6 DEF ParseOptions, lexVars, parserVars
<1>7. CASE ParseErrors \/ StartSemcheck \/ OpenOutput \/ Finishing
  BY <1>1, <1>7 DEF ParseErrors, StartSemcheck, OpenOutput, Finishing, front, lexVars, parserVars
<1> QED BY <1>2, <1>3, <1>4, <1>5, <1>6, <1>7 DEF Work

\* Every action leaves a message for each warning and each error that it counts.
LEMMA MessagesLeft ==
    ASSUME Tallied, Work
    PROVE  Tallied'
<1>1. warnings' \in Nat /\ warnings' >= warnings /\ errors' \in Nat /\ errors' >= errors
  BY CountsGrow DEF Tallied, NotLowered
<1>2. PICK n \in Nat, m \in Nat : n = warnings' - warnings /\ m = errors' - errors
  <2>1. warnings \in Nat /\ errors \in Nat
    BY DEF Tallied
  <2>2. \A a, b \in Nat : b >= a => b - a \in Nat
    OBVIOUS
  <2>3. warnings' - warnings \in Nat /\ errors' - errors \in Nat
    BY <1>1, <2>1, <2>2
  <2> QED BY <2>3
<1>3. PICK more : more = messages \o Copies(n, "Warning")
  OBVIOUS
<1>4. messages' = more \o Copies(m, "Error")
  BY <1>2, <1>3 DEF Work, Report
<1>5. "Warning" \in MessageKinds /\ "Error" \in MessageKinds /\ "Warning" # "Error"
  BY DEF MessageKinds
<1>6. MoreOf(messages, more, "Warning", n)
  BY <1>3, <1>5, CopiesAdded DEF Tallied
<1>7. MoreOf(more, messages', "Error", m)
  <2>1. more \in Seq(MessageKinds)
    BY <1>6 DEF MoreOf
  <2>2. PICK all : all = messages'
    OBVIOUS
  <2>3. MoreOf(more, all, "Error", m)
    BY <1>4, <1>5, <2>1, <2>2, CopiesAdded
  <2> QED BY <2>2, <2>3
<1>8. /\ Tally(messages', "Warning") = warnings + n + 0
      /\ Tally(messages', "Error") = errors + 0 + m
      /\ messages' \in Seq(MessageKinds)
  BY <1>5, <1>6, <1>7 DEF MoreOf, Tallied
<1>9. Tally(messages', "Warning") = warnings' /\ Tally(messages', "Error") = errors'
  BY <1>1, <1>2, <1>8 DEF Tallied
<1>10. Tally(messages, "Warning")' = warnings' /\ Tally(messages, "Error")' = errors'
  BY <1>9 DEF Tally
<1> QED BY <1>1, <1>8, <1>10 DEF Tallied

\* The lexer hands its tokens over: the parser can start from them.
LEMMA ParserStarts ==
    ASSUME LexInv, ParserInit, StartParser
    PROVE  ParserInv' /\ warnings' = Len(Odd(Lexemes))' /\ warnings = Len(Odd(Lexemes))
<1>1. Tokenized(Lexemes)
  BY DEF LexInv, StartParser, Deliver
<1>2. IsTokenList(Delivered) /\ warnings = Len(Odd(Lexemes))
  BY <1>1 DEF Tokenized
<1>3. /\ tokens' = Delivered /\ text' = text /\ warnings' = warnings
      /\ UNCHANGED <<next, pending, built, errors, parseStatus>>
  BY DEF StartParser, Deliver
<1>4. PICK list : list = Delivered /\ IsTokenList(list) /\ tokens' = list
  BY <1>2, <1>3
<1>5. InPlace'
  <2>1. list \in Seq(Token) /\ list # <<>>
    BY <1>4 DEF IsTokenList
  <2>2. 1 \in 1 .. Len(list)
    BY <2>1, EmptySeq, LenProperties
  <2> QED BY <1>3, <1>4, <2>2 DEF InPlace, ParserInit
<1>6. GoodTasks /\ Typed /\ WholeSoFar
  BY ParserReady
<1>7. GoodTasks' /\ Typed' /\ WholeSoFar'
  BY <1>3, <1>6 DEF GoodTasks, Typed, WholeSoFar
<1>8. Lexemes' = Lexemes
  BY <1>3, SameText
<1> QED BY <1>2, <1>3, <1>5, <1>7, <1>8 DEF ParserInv

\* Each part leaves for the next one what it needs.
LEMMA TurnsTaken ==
    ASSUME LexInv, Tallied, InTurn, Work
    PROVE  InTurn'
<1> USE DEF BehindLexer, Printed
<1>1. CASE ParseOptions
  <2>1. /\ phase' \in {"OTHER_ERR", "lexer", "killed"} /\ phase = "options"
        /\ UNCHANGED parserVars
    BY <1>1 DEF ParseOptions, Goto
  <2> QED BY <2>1 DEF InTurn, ParserInit, parserVars
<1>2. CASE Tokenize
  <2>1. phase = "lexer" /\ phase' = "lexer" /\ UNCHANGED parserVars
    BY <1>2 DEF Tokenize, Goto
  <2> QED BY <2>1 DEF InTurn, ParserInit, parserVars
<1>3. CASE StartParser
  <2>1. phase = "lexer" /\ phase' = "parser"
    BY <1>3 DEF StartParser, Goto
  <2>2. ParserInv' /\ warnings' = Len(Odd(Lexemes))'
    BY <1>3, <2>1, ParserStarts DEF InTurn
  <2> QED BY <2>1, <2>2 DEF InTurn
<1>4. ASSUME phase \in BehindLexer, UNCHANGED lexVars
      PROVE  (warnings = Len(Odd(Lexemes)))'
  <2>1. Lexemes' = Lexemes /\ warnings' = warnings
    BY <1>4, SameText DEF lexVars
  <2> QED BY <1>4, <2>1 DEF InTurn
<1>5. CASE Parsing
  <2>1. phase = "parser" /\ phase' = "parser" /\ ParseStep /\ UNCHANGED lexVars
    BY <1>5 DEF Parsing, Goto
  <2>2. ParserInv'
    BY <2>1, ParserStepKeeps DEF InTurn
  <2> QED BY <1>4, <2>1, <2>2 DEF InTurn
<1>6. CASE ParseErrors
  <2>1. phase = "parser" /\ phase' \in {"PARSE_ERR", "killed"} /\ UNCHANGED lexVars
    BY <1>6 DEF ParseErrors, Goto, Exit, front
  <2> QED BY <1>4, <2>1 DEF InTurn
<1>7. CASE StartSemcheck
  <2>1. phase = "parser" /\ phase' \in {"semcheck", "killed"} /\ UNCHANGED lexVars
    BY <1>7 DEF StartSemcheck, HandOver, Goto, front
  <2> QED BY <1>4, <2>1 DEF InTurn
<1>8. CASE Compiling
  <2>1. /\ phase \in {"semcheck", "gen"} /\ phase' \in {phase, "killed"} /\ UNCHANGED lexVars
        /\ phase' = "gen" => errors' = errors
    BY <1>8 DEF Compiling, Semcheck, GenerateCode, Killed, semOnly
  <2> QED BY <1>4, <2>1 DEF InTurn
<1>9. CASE OpenOutput
  <2>1. /\ phase = "semcheck" /\ phase' \in {"gen", "killed"} /\ UNCHANGED lexVars
        /\ errors' = 0
    BY <1>9 DEF OpenOutput, StartGen, semVars, Goto, front, parserVars
  <2> QED BY <1>4, <2>1 DEF InTurn
<1>10. CASE Finishing
  <2>1. phase \in {"semcheck", "gen"} /\ phase' \in {"SEM_ERR", "OK"} /\ UNCHANGED lexVars
    BY <1>10 DEF Finishing, SemErrors, Succeed, front
  <2> QED BY <1>4, <2>1 DEF InTurn
<1> QED BY <1>1, <1>2, <1>3, <1>5, <1>6, <1>7, <1>8, <1>9, <1>10 DEF Work

\* Whoever ends the program prints all messages, and OK is for those without errors.
LEMMA AllPrinted ==
    ASSUME Tallied, InTurn, PrintedAll, Work
    PROVE  PrintedAll'
<1> USE DEF Printed
<1>1. CASE ParseOptions \/ Tokenize \/ StartParser \/ Parsing \/ StartSemcheck \/ Compiling
  <2>1. phase \notin Printed /\ phase' \notin Printed /\ printed' = printed
    BY <1>1 DEF ParseOptions, Tokenize, StartParser, Parsing, StartSemcheck, HandOver, Compiling,
       Goto, Semcheck, GenerateCode, Killed
  <2> QED BY <2>1 DEF PrintedAll
<1>2. CASE OpenOutput
  <2>1. phase \notin Printed /\ phase' \notin Printed /\ printed' = printed
    BY <1>2 DEF OpenOutput, StartGen, Goto
  <2> QED BY <2>1 DEF PrintedAll
<1>3. ASSUME errors' = errors, warnings' = warnings
      PROVE  messages' = messages
  <2>1. errors' - errors = 0 /\ warnings' - warnings = 0
    BY <1>3 DEF Tallied
  <2>2. messages' = messages \o Copies(0, "Warning") \o Copies(0, "Error")
    BY <2>1 DEF Work, Report
  <2>3. \A kind : Copies(0, kind) = <<>>
    BY DEF Copies
  <2> QED BY <2>2, <2>3 DEF Tallied
<1>4. CASE ParseErrors
  <2>1. errors' = errors /\ warnings' = warnings
    BY <1>4 DEF ParseErrors, front, lexVars, parserVars
  <2>2. CASE phase' = "killed" /\ printed' = printed /\ phase \notin Printed
    BY <2>2 DEF PrintedAll
  <2>3. CASE phase' = "PARSE_ERR" /\ printed' = messages /\ errors > 0
    BY <1>3, <2>1, <2>3 DEF PrintedAll, Tallied
  <2> QED BY <1>4, <2>2, <2>3 DEF ParseErrors, Goto, Exit
<1>5. CASE Finishing
  <2>1. errors' = errors /\ warnings' = warnings /\ printed' = messages
    BY <1>5 DEF Finishing, front, lexVars, parserVars
  <2>2. (phase' = "SEM_ERR" /\ errors > 0) \/ (phase' = "OK" /\ errors = 0)
    BY <1>5 DEF Finishing, SemErrors, Succeed, InTurn
  <2> QED BY <1>3, <2>1, <2>2 DEF PrintedAll, Tallied
<1> QED BY <1>1, <1>2, <1>4, <1>5 DEF Work

\* Every step keeps it.
LEMMA PaolaKeeps ==
    ASSUME PaolaInv, [PaolaNext]_paolaVars
    PROVE  PaolaInv'
<1>1. LexInv'
  BY LexerAlone, LexKeeps DEF PaolaInv
<1>2. CASE Work
  BY <1>1, <1>2, MessagesLeft, TurnsTaken, AllPrinted DEF PaolaInv
<1>3. CASE UNCHANGED paolaVars
  <2>1. UNCHANGED <<lexVars, parserVars, phase, messages, printed>>
    BY <1>3 DEF paolaVars, front, main
  <2>2. Tallied'
    BY <2>1 DEF PaolaInv, Tallied, Tally, lexVars, parserVars
  <2>3. InTurn'
    <3>1. phase = "parser" => ParserInv'
      BY <2>1, ParserStepKeeps DEF PaolaInv, InTurn
    <3>2. Lexemes' = Lexemes
      BY <2>1, SameText DEF lexVars
    <3> QED BY <2>1, <3>1, <3>2 DEF PaolaInv, InTurn, ParserInit, lexVars, parserVars
  <2>4. PrintedAll'
    BY <2>1 DEF PaolaInv, PrintedAll, parserVars
  <2> QED BY <1>1, <2>2, <2>3, <2>4 DEF PaolaInv
<1> QED BY <1>2, <1>3 DEF PaolaNext

\* So it holds always.
LEMMA PaolaInvHolds == PaolaSpec => []PaolaInv
<1>1. PaolaInit => PaolaInv
  BY PaolaStarts
<1>2. PaolaInv /\ [PaolaNext]_paolaVars => PaolaInv'
  BY PaolaKeeps
<1> QED BY <1>1, <1>2, PTL DEF PaolaSpec

-----------------------------------------------------------------------------
(* The theorems. *)

\* What the semantic checker gets from the parser, for every text: a tree in which all
\* pointers to children are there and lead to nodes of the right kinds.
THEOREM TreesAreRight == PaolaSpec => []TreeOK
<1>1. PaolaInv => TreeOK
  BY OneTree, TreeHanded DEF PaolaInv, InTurn, TreeOK
<1> QED BY <1>1, PaolaInvHolds, PTL

\* main prints every warning and every error, whatever the phase that reported it,
\* unless the process is killed.
THEOREM AllReported == PaolaSpec => []Reported
<1>1. PaolaInv => Reported
  <2> SUFFICES ASSUME PaolaInv
               PROVE  Reported
    OBVIOUS
  <2>1. phase \in Printed => /\ Tally(printed, "Warning") = Len(Odd(Lexemes))
                             /\ Tally(printed, "Error") = errors
    BY DEF PaolaInv, Tallied, InTurn, PrintedAll, BehindLexer
  <2> QED BY <2>1 DEF PaolaInv, PrintedAll, Reported, Printed, Tally
<1> QED BY <1>1, PaolaInvHolds, PTL

\* In the whole program, too, tokenize returns the longest-match tokens, and leaves its
\* arrays on the texts that do not fit only.
THEOREM LexerInPlace == PaolaSpec => [](LexCorrect /\ BoundsExact)
<1>1. PaolaInv => LexCorrect /\ BoundsExact
  BY EndlessUnclosed DEF PaolaInv, LexInv, LexCorrect, BoundsExact
<1> QED BY <1>1, PaolaInvHolds, PTL
-----------------------------------------------------------------------------
(* The compiler behind the parser, in place. *)

\* Until the parser hands its tree over, the checker and the generator are as they
\* were set up; from then on what has been proved of them holds.
BackInv ==
    /\ phase \in {"options", "lexer", "parser"} => SemInit /\ GenInit
    /\ phase \in {"semcheck", "gen", "SEM_ERR", "OK"} => PlaceInv

\* The parser's tree is one that the checker can be called for.
LEMMA CompilerCalled ==
    ASSUME PaolaInv, SemInit, GenInit, StartSemcheck, phase' = "semcheck"
    PROVE  PlaceInv'
<1>1. phase = "parser" /\ parseStatus = "done" /\ errors = 0 /\ errors' = 0
  BY DEF StartSemcheck, front, parserVars
<1>2. WellFormed(built[1]) /\ Preorder(built[1])
  BY <1>1, OneTree, TreeHanded DEF PaolaInv, InTurn, Handed
<1>3. /\ prog' = built[1] /\ symbolOf' = NoSymbols(prog') /\ result' = NoResults(prog')
      /\ UNCHANGED <<scopes, symbols, frames, exprs, status,
                     slot, todo, out, next_label, next_stack_offset, genStatus>>
  <2>1. CASE options.print_ast /\ ~Printable(built[1])
    BY <2>1 DEF StartSemcheck, HandOver, Goto
  <2>2. CASE ~(options.print_ast /\ ~Printable(built[1]))
    BY <2>2 DEF StartSemcheck, HandOver
  <2> QED BY <2>1, <2>2
<1>4. PICK p : p = built[1] /\ prog' = p /\ WellFormed(p) /\ Preorder(p)
  BY <1>2, <1>3
<1>5. WellFormed(prog)' /\ Preorder(prog)'
  BY <1>4
<1>6. SemInit'
  BY <1>3 DEF SemInit, Frame
<1>7. GenInit'
  BY <1>3 DEF GenInit, StatTask, Pending
<1>8. Started'
  BY <1>1, <1>5, <1>6, <1>7 DEF Started, Called
<1>9. (Started => PlaceInv)'
  BY StartedPlace, PTL
<1> QED BY <1>8, <1>9

\* Every action of main keeps it.
LEMMA BackKept ==
    ASSUME PaolaInv, BackInv, Work
    PROVE  BackInv'
<1>1. ASSUME UNCHANGED back
      PROVE  (SemInit => SemInit') /\ (GenInit => GenInit')
  BY <1>1 DEF back, SemInit, GenInit, NoSymbols, NoResults, Frame, StatTask, Pending
<1>2. CASE ParseOptions \/ Tokenize \/ StartParser \/ Parsing \/ ParseErrors
  <2>1. /\ phase \in {"options", "lexer", "parser"} /\ UNCHANGED back
        /\ phase' \notin {"semcheck", "gen", "SEM_ERR", "OK"}
    BY <1>2 DEF ParseOptions, Tokenize, StartParser, Parsing, ParseErrors, Goto, Exit
  <2> QED BY <1>1, <2>1 DEF BackInv
<1>3. CASE StartSemcheck
  <2>1. phase = "parser" /\ phase' \in {"semcheck", "killed"}
    BY <1>3 DEF StartSemcheck, HandOver, Goto
  <2> QED BY <1>3, <2>1, CompilerCalled DEF BackInv
<1>4. CASE Compiling
  <2>1. phase \in {"semcheck", "gen"} /\ phase' \in {phase, "killed"} /\ Compile
    BY <1>4 DEF Compiling, Semcheck, GenerateCode, Killed, Compile
  <2>2. PlaceInv /\ [CompilerNext]_compilerVars
    BY <2>1 DEF BackInv, CompilerNext
  <2> QED BY <2>1, <2>2, NextPlaceInv DEF BackInv
<1>5. CASE OpenOutput
  <2>1. phase = "semcheck" /\ ((phase' = "gen" /\ StartGen) \/ phase' = "killed")
    BY <1>5 DEF OpenOutput, StartGen, Goto
  <2>2. StartGen => [CompilerNext]_compilerVars
    BY DEF CompilerNext, Compile
  <2> QED BY <2>1, <2>2, NextPlaceInv DEF BackInv
<1>6. CASE Finishing
  <2>1. phase \in {"semcheck", "gen"} /\ phase' \in {"SEM_ERR", "OK"} /\ Compile
    BY <1>6 DEF Finishing, SemErrors, Succeed, Compile
  <2>2. PlaceInv /\ [CompilerNext]_compilerVars
    BY <2>1 DEF BackInv, CompilerNext
  <2> QED BY <2>1, <2>2, NextPlaceInv DEF BackInv
<1> QED BY <1>2, <1>3, <1>4, <1>5, <1>6 DEF Work

\* So it holds always.
LEMMA BackInvHolds == PaolaSpec => [](PaolaInv /\ BackInv)
<1>1. PaolaInit => PaolaInv /\ BackInv
  BY PaolaStarts DEF PaolaInit, BackInv
<1>2. PaolaInv /\ BackInv /\ [PaolaNext]_paolaVars => (PaolaInv /\ BackInv)'
  <2> SUFFICES ASSUME PaolaInv, BackInv, [PaolaNext]_paolaVars
               PROVE  BackInv'
    BY PaolaKeeps
  <2>1. CASE Work
    BY <2>1, BackKept
  <2>2. CASE UNCHANGED paolaVars
    <3>1. UNCHANGED back /\ UNCHANGED compilerVars /\ phase' = phase
      BY <2>2 DEF paolaVars, main, back, front, parserVars, compilerVars, semVars, genOnly
    <3>2. PlaceInv => PlaceInv'
      BY <3>1, NextPlaceInv
    <3>3. (SemInit => SemInit') /\ (GenInit => GenInit')
      BY <3>1 DEF back, SemInit, GenInit, NoSymbols, NoResults, Frame, StatTask, Pending
    <3> QED BY <3>1, <3>2, <3>3 DEF BackInv
  <2> QED BY <2>1, <2>2 DEF PaolaNext
<1> QED BY <1>1, <1>2, PTL DEF PaolaSpec

\* From the text to the code: the generator finds the place of the right variable
\* behind every name of a tree that the parser has made.
THEOREM PlacesInWhole == PaolaSpec => []OwnPlace
<1>1. BackInv => OwnPlace
  BY PlaceFound DEF BackInv, PlaceInv, ExitInv, GenInv, Accepted, OwnPlace
<1> QED BY <1>1, BackInvHolds, PTL

-----------------------------------------------------------------------------
(* The parser and the grammar, in place. *)

\* As long as the parser has the word, the trees of its list are those it will make.
ParserOnPath == phase = "parser" => PathInv

\* The lexer hands its tokens over, and the tasks make the trees of the list.
LEMMA PathStarts ==
    ASSUME LexInv, ParserInit, StartParser
    PROVE  PathInv'
<1>1. /\ tokens' = Delivered /\ IsTokenList(Delivered)
      /\ UNCHANGED <<next, pending, built, errors, parseStatus>>
  BY DEF StartParser, Deliver, LexInv, Tokenized
<1>2. ParserInit'
  BY <1>1 DEF ParserInit
<1>3. IsTokenList(tokens)'
  BY <1>1 DEF IsTokenList
<1>4. (ParserInit /\ IsTokenList(tokens) => PathInv)'
  BY StartOnPath, PTL
<1> QED BY <1>2, <1>3, <1>4

\* Every action of main keeps it.
LEMMA PathKept ==
    ASSUME PaolaInv, ParserOnPath, [PaolaNext]_paolaVars
    PROVE  ParserOnPath'
<1>1. CASE StartParser
  <2>1. phase = "lexer"
    BY <1>1 DEF StartParser
  <2> QED BY <1>1, <2>1, PathStarts DEF PaolaInv, InTurn, ParserOnPath
<1>2. CASE Parsing
  <2>1. phase = "parser" /\ ParseStep
    BY <1>2 DEF Parsing
  <2> QED BY <2>1, StepOnPath DEF PaolaInv, InTurn, ParserOnPath
<1>3. CASE ParseOptions \/ Tokenize \/ ParseErrors \/ StartSemcheck
  <2>1. phase' # "parser"
    BY <1>3 DEF ParseOptions, Tokenize, ParseErrors, StartSemcheck, HandOver, Goto, Exit
  <2> QED BY <2>1 DEF ParserOnPath
<1>4. CASE Compiling \/ OpenOutput \/ Finishing
  <2>1. phase' # "parser"
    BY <1>4 DEF Compiling, Semcheck, GenerateCode, Killed, OpenOutput, StartGen, Goto,
       Finishing, SemErrors, Succeed
  <2> QED BY <2>1 DEF ParserOnPath
<1>5. CASE UNCHANGED paolaVars
  <2>1. UNCHANGED parserVars /\ phase' = phase
    BY <1>5 DEF paolaVars, front, main
  <2> QED BY <2>1, StepOnPath DEF PaolaInv, InTurn, ParserOnPath
<1> QED BY <1>1, <1>2, <1>3, <1>4, <1>5 DEF PaolaNext, Work

\* From the text to the tree: the program accepts exactly the texts whose tokens the
\* grammar derives, and makes the one tree that the grammar gives them.
THEOREM LanguageAccepted == PaolaSpec => []ParseCorrect
<1>1. PaolaInit => ParserOnPath
  BY DEF PaolaInit, ParserOnPath
<1>2. PaolaInv /\ ParserOnPath /\ [PaolaNext]_paolaVars => ParserOnPath'
  BY PathKept
<1>3. PaolaInv /\ ParserOnPath => ParseCorrect
  BY EndOfPath DEF PaolaInv, InTurn, ParserOnPath, ParseCorrect
<1> QED BY <1>1, <1>2, <1>3, PaolaInvHolds, PTL DEF PaolaSpec

-----------------------------------------------------------------------------
(* The command line. *)

\* From k on, and not before, all arguments up to i are -o.
Dashes(k, i) ==
    /\ k \in 1 .. i - 1
    /\ \A j \in k .. i - 1 : argv[j] = "-o"
    /\ k = 1 \/ argv[k - 1] # "-o"

\* IsOutput, in terms of them.
LEMMA OutputOdd ==
    ASSUME NEW i
    PROVE  IsOutput(i) <=> \E k \in 1 .. i - 1 : (i - k) % 2 = 1 /\ Dashes(k, i)
BY DEF IsOutput, Dashes

\* Before the argument behind a -o there is such a k, and it is the same for that -o.
LEMMA DashesFrom ==
    ASSUME NEW n \in Nat, NEW i \in 1 .. n, argv[i] = "-o"
    PROVE  \E k \in 1 .. i : Dashes(k, i + 1) /\ (k < i => Dashes(k, i))
<1> DEFINE S == {k \in 1 .. i : \A j \in k .. i : argv[j] = "-o"}
<1>1. i \in S /\ S \in SUBSET Nat
  <2>1. i .. i = {i} /\ i \in 1 .. i
    OBVIOUS
  <2> QED BY <2>1
<1>2. PICK k \in S : \A j \in S : k <= j
  <2>1. Min(S) \in S /\ \A j \in S : Min(S) <= j
    <3> HIDE DEF S
    <3> QED BY <1>1, MinProperties
  <2> QED BY <2>1
<1>3. k \in 1 .. i /\ \A j \in k .. i : argv[j] = "-o"
  OBVIOUS
<1>4. k = 1 \/ argv[k - 1] # "-o"
  <2> SUFFICES ASSUME k # 1, argv[k - 1] = "-o"
               PROVE  FALSE
    OBVIOUS
  <2>1. k - 1 \in 1 .. i /\ \A j \in k - 1 .. i : j = k - 1 \/ j \in k .. i
    BY <1>3
  <2>2. k - 1 \in S
    BY <1>3, <2>1
  <2>3. k <= k - 1
    BY <1>2, <2>2
  <2> QED BY <1>3, <2>3
<1>5. i + 1 - 1 = i /\ (k < i => k \in 1 .. i - 1) /\ \A j \in k .. i - 1 : j \in k .. i
  BY <1>3
<1>6. Dashes(k, i + 1)
  BY <1>3, <1>4, <1>5 DEF Dashes
<1>7. k < i => Dashes(k, i)
  BY <1>3, <1>4, <1>5 DEF Dashes
<1> QED BY <1>3, <1>6, <1>7

\* There is one such k only.
LEMMA DashesOnce ==
    ASSUME NEW i \in Nat, NEW k, NEW l, Dashes(k, i), Dashes(l, i)
    PROVE  k = l
<1>1. ASSUME NEW a, NEW b, Dashes(a, i), Dashes(b, i), a < b
      PROVE  FALSE
  <2>1. a \in 1 .. i - 1 /\ b \in 1 .. i - 1
    BY <1>1 DEF Dashes
  <2>2. b - 1 \in a .. i - 1 /\ b # 1
    BY <1>1, <2>1
  <2> QED BY <1>1, <2>2 DEF Dashes
<1>2. k \in Int /\ l \in Int
  BY DEF Dashes
<1> QED BY <1>1, <1>2

\* An argument is the name of the output behind a -o that is none itself.
LEMMA OutputNext ==
    ASSUME NEW n \in Nat, NEW i \in 1 .. n
    PROVE  IsOutput(i + 1) <=> argv[i] = "-o" /\ ~IsOutput(i)
<1>1. i \in Nat /\ i + 1 \in Nat /\ i + 1 - 1 = i
  OBVIOUS
<1>2. CASE argv[i] # "-o"
  <2>1. \A k \in 1 .. i : i \in k .. i
    OBVIOUS
  <2>2. \A k \in 1 .. i : ~Dashes(k, i + 1)
    BY <1>1, <1>2, <2>1 DEF Dashes
  <2> QED BY <1>1, <1>2, <2>2, OutputOdd
<1>3. CASE argv[i] = "-o"
  <2>1. PICK k \in 1 .. i : Dashes(k, i + 1) /\ (k < i => Dashes(k, i))
    BY <1>3, DashesFrom
  <2>2. IsOutput(i + 1) <=> (i + 1 - k) % 2 = 1
    BY <1>1, <2>1, OutputOdd, DashesOnce
  <2>3. CASE k = i
    <3>1. (i + 1 - k) % 2 = 1
      BY <2>3
    <3>2. ~IsOutput(i)
      <4> SUFFICES ASSUME NEW l \in 1 .. i - 1, Dashes(l, i)
                   PROVE  FALSE
        BY OutputOdd
      <4>1. \A j \in l .. i : j = i \/ j \in l .. i - 1
        OBVIOUS
      <4>2. Dashes(l, i + 1)
        BY <1>1, <1>3, <4>1 DEF Dashes
      <4>3. l = k
        BY <1>1, <2>1, <4>2, DashesOnce
      <4> QED BY <2>3, <4>3
    <3> QED BY <1>3, <2>2, <3>1, <3>2
  <2>4. CASE k < i
    <3>1. k \in 1 .. i - 1 /\ Dashes(k, i)
      BY <2>1, <2>4
    <3>2. IsOutput(i) <=> (i - k) % 2 = 1
      BY <1>1, <3>1, OutputOdd, DashesOnce
    <3>3. (i + 1 - k) % 2 = 1 <=> ~((i - k) % 2 = 1)
      <4>1. PICK d \in Nat : d = i - k
        BY <3>1
      <4>2. i + 1 - k = d + 1
        BY <4>1
      <4>3. (d + 1) % 2 = 1 <=> ~(d % 2 = 1)
        OBVIOUS
      <4> QED BY <4>1, <4>2, <4>3
    <3> QED BY <1>3, <2>2, <3>2, <3>3
  <2> QED BY <2>1, <2>3, <2>4
<1> QED BY <1>2, <1>3

\* Before the first argument there is no -o.
LEMMA OutputFirst == ~IsOutput(1)
<1>1. 1 .. 1 - 1 = {}
  OBVIOUS
<1> QED BY <1>1, OutputOdd

\* The last argument of those in S up to the i-th, or what there is without one.
Latest(S, i, arg, none) ==
    \/ arg = none /\ \A j \in 1 .. i : j \notin S
    \/ \E m \in 1 .. i : m \in S /\ arg = argv[m] /\ \A j \in m + 1 .. i : j \notin S

\* What the options tell of the first i arguments.
OptionsOf(opt, i) ==
    /\ opt.named \in BOOLEAN /\ (opt.named <=> IsOutput(i + 1))
    /\ Latest(Inputs, i, opt.input, NULL)
    /\ Latest(Outputs, i, opt.output, "out.s")

\* The values an option may get.
Values == {argv[i] : i \in DOMAIN argv} \cup {NULL, "out.s"}

AllOptions == [input : Values, output : Values, print_ast : BOOLEAN, named : BOOLEAN]

\* CallsAssumption, of the call that is being made.
ArgumentsKnown == argv \in Seq(STRING \ {NULL})

\* One more argument, which belongs to S or does not.
LEMMA LatestNext ==
    ASSUME NEW n \in Nat, NEW i \in 1 .. n, NEW S, NEW arg, NEW none, Latest(S, i - 1, arg, none)
    PROVE  /\ i \in S => Latest(S, i, argv[i], none)
           /\ i \notin S => Latest(S, i, arg, none)
<1>1. CASE i \in S
  <2>1. i \in 1 .. i /\ i + 1 .. i = {}
    OBVIOUS
  <2> QED BY <1>1, <2>1 DEF Latest
<1>2. CASE i \notin S
  <2>1. \A j \in 1 .. i : j = i \/ j \in 1 .. i - 1
    OBVIOUS
  <2>2. CASE arg = none /\ \A j \in 1 .. i - 1 : j \notin S
    BY <1>2, <2>1, <2>2 DEF Latest
  <2>3. ASSUME NEW m \in 1 .. i - 1, m \in S, arg = argv[m], \A j \in m + 1 .. i - 1 : j \notin S
        PROVE  Latest(S, i, arg, none)
    <3>1. m \in 1 .. i /\ \A j \in m + 1 .. i : j = i \/ j \in m + 1 .. i - 1
      OBVIOUS
    <3> QED BY <1>2, <2>3, <3>1 DEF Latest
  <2> QED BY <1>2, <2>2, <2>3 DEF Latest
<1> QED BY <1>1, <1>2

\* parse_options, the body of its loop.
LEMMA ArgumentRead ==
    ASSUME ArgumentsKnown, NEW i \in 1 .. Len(argv), NEW opt \in AllOptions, OptionsOf(opt, i - 1)
    PROVE  Argument(opt, argv[i]) \in AllOptions /\ OptionsOf(Argument(opt, argv[i]), i)
<1>1. PICK n \in Nat : n = Len(argv)
  BY LenProperties DEF ArgumentsKnown
<1>2. /\ DOMAIN argv = 1 .. n /\ argv[i] \in Values /\ i \in 1 .. n /\ i - 1 + 1 = i
  BY <1>1, LenProperties DEF ArgumentsKnown, Values
<1>3. /\ i \in Inputs <=> argv[i] \notin Dashed /\ ~IsOutput(i)
      /\ i \in Outputs <=> IsOutput(i)
  BY <1>2 DEF Inputs, Outputs
<1>4. IsOutput(i + 1) <=> argv[i] = "-o" /\ ~IsOutput(i)
  BY <1>2, OutputNext
<1>5. opt.named \in BOOLEAN /\ (opt.named <=> IsOutput(i))
  BY <1>2 DEF OptionsOf
<1>6. /\ i \in Inputs => Latest(Inputs, i, argv[i], NULL)
      /\ i \notin Inputs => Latest(Inputs, i, opt.input, NULL)
      /\ i \in Outputs => Latest(Outputs, i, argv[i], "out.s")
      /\ i \notin Outputs => Latest(Outputs, i, opt.output, "out.s")
  BY <1>2, LatestNext DEF OptionsOf
<1>7. PICK new : new = Argument(opt, argv[i])
  OBVIOUS
<1>8. /\ opt.input \in Values /\ opt.output \in Values /\ opt.print_ast \in BOOLEAN
      /\ opt = [input |-> opt.input, output |-> opt.output, print_ast |-> opt.print_ast,
                named |-> opt.named]
  BY DEF AllOptions
<1>9. CASE opt.named
  <2>1. new = [opt EXCEPT !.output = argv[i], !.named = FALSE]
    BY <1>7, <1>9 DEF Argument
  <2>2. /\ new \in AllOptions /\ new.named = FALSE /\ new.input = opt.input /\ new.output = argv[i]
    BY <1>2, <1>8, <2>1 DEF AllOptions
  <2> QED BY <1>3, <1>4, <1>5, <1>6, <1>7, <1>9, <2>2 DEF OptionsOf
<1>10. CASE ~opt.named /\ argv[i] \notin Dashed
  <2>1. new = [opt EXCEPT !.input = argv[i]]
    BY <1>7, <1>10, DashedAssumption DEF Argument
  <2>2. /\ new \in AllOptions /\ new.named = opt.named /\ new.input = argv[i] /\ new.output = opt.output
    BY <1>2, <1>8, <2>1 DEF AllOptions
  <2>3. argv[i] # "-o"
    BY <1>10, DashedAssumption
  <2> QED BY <1>3, <1>4, <1>5, <1>6, <1>7, <1>10, <2>2, <2>3 DEF OptionsOf
<1>11. CASE ~opt.named /\ argv[i] = "-o"
  <2>1. argv[i] \in Dashed
    BY <1>11, DashedAssumption
  <2>2. new = [opt EXCEPT !.named = TRUE]
    BY <1>7, <1>11, <2>1 DEF Argument
  <2>3. /\ new \in AllOptions /\ new.named = TRUE /\ new.input = opt.input /\ new.output = opt.output
    BY <1>2, <1>8, <2>2 DEF AllOptions
  <2> QED BY <1>3, <1>4, <1>5, <1>6, <1>7, <1>11, <2>1, <2>3 DEF OptionsOf
<1>12. CASE ~opt.named /\ argv[i] \in Dashed /\ argv[i] # "-o"
  <2>1. /\ new \in AllOptions /\ new.named = opt.named /\ new.input = opt.input /\ new.output = opt.output
    <3>1. CASE argv[i] = "--print-ast"
      <4>1. new = [opt EXCEPT !.print_ast = TRUE]
        BY <1>7, <1>12, <3>1 DEF Argument
      <4> QED BY <1>2, <1>8, <4>1 DEF AllOptions
    <3>2. CASE argv[i] # "--print-ast"
      <4>1. new = opt
        BY <1>7, <1>12, <3>2 DEF Argument
      <4> QED BY <4>1
    <3> QED BY <3>1, <3>2
  <2> QED BY <1>3, <1>4, <1>5, <1>6, <1>7, <1>12, <2>1 DEF OptionsOf
<1> QED BY <1>5, <1>9, <1>10, <1>11, <1>12

\* parse_options, the whole loop.
LEMMA OptionsRead ==
    ASSUME ArgumentsKnown
    PROVE  parse_options \in AllOptions /\ OptionsOf(parse_options, Len(argv))
<1> DEFINE N == Len(argv)
           Onward(f, n) == Argument(f[n - 1], argv[n])
           Solved(f) == f = [n \in 0 .. N |-> IF n = 0 THEN NoOptions ELSE Onward(f, n)]
           reads == [n \in 1 .. N |-> [opt \in AllOptions |->
                      IF OptionsOf(opt, n - 1) THEN Argument(opt, argv[n]) ELSE opt]]
<1>1. N \in Nat
  BY LenProperties DEF ArgumentsKnown
<1>2. NoOptions \in AllOptions /\ OptionsOf(NoOptions, 0)
  <2>a. NoOptions \in AllOptions
    <3>1. NULL \in Values /\ "out.s" \in Values /\ FALSE \in BOOLEAN
      BY DEF Values
    <3> QED BY <3>1 DEF NoOptions, AllOptions
  <2>1. NoOptions.named = FALSE /\ NoOptions.input = NULL /\ NoOptions.output = "out.s"
    BY DEF NoOptions
  <2>2. 1 .. 0 = {} /\ 0 + 1 = 1
    OBVIOUS
  <2>3. ~IsOutput(0 + 1)
    BY <2>2, OutputFirst
  <2> QED BY <2>a, <2>1, <2>2, <2>3 DEF OptionsOf, Latest
<1>3. reads \in [1 .. N -> [AllOptions -> AllOptions]]
  BY ArgumentRead
<1>4. PICK f \in [0 .. N -> AllOptions] : Grows(f, N, NoOptions, reads)
  <2> HIDE DEF reads
  <2> QED BY <1>1, <1>2, <1>3, Recursion
<1>5. ASSUME NEW g, g[0] = NoOptions,
             \A n \in 1 .. N : g[n - 1] \in AllOptions /\ OptionsOf(g[n - 1], n - 1) => g[n] = Onward(g, n)
      PROVE  \A n \in 0 .. N : g[n] \in AllOptions /\ OptionsOf(g[n], n)
  <2> DEFINE S == {n \in 0 .. N : g[n] \in AllOptions /\ OptionsOf(g[n], n)}
  <2>1. 0 \in S
    BY <1>1, <1>2, <1>5
  <2>2. ASSUME NEW n \in 0 .. N, n + 1 \in 0 .. N, n \in S
        PROVE  n + 1 \in S
    <3>1. n + 1 \in 1 .. N /\ n + 1 - 1 = n
      BY <1>1, <2>2
    <3>2. g[n] \in AllOptions /\ OptionsOf(g[n], n)
      BY <2>2
    <3>3. g[n + 1] = Argument(g[n], argv[n + 1])
      BY <1>5, <3>1, <3>2
    <3> QED BY <2>2, <3>1, <3>2, <3>3, ArgumentRead
  <2>3. 0 .. N \subseteq S
    <3> HIDE DEF S, N
    <3> QED BY <1>1, <2>1, <2>2, Upward
  <2> QED BY <2>3
<1>6. /\ f[0] = NoOptions
      /\ \A n \in 1 .. N : f[n] = IF OptionsOf(f[n - 1], n - 1) THEN Onward(f, n) ELSE f[n - 1]
  <2>1. \A n \in 1 .. N : n - 1 \in 0 .. N /\ f[n - 1] \in AllOptions
    BY <1>1
  <2> QED BY <1>4, <2>1 DEF Grows
<1>7. \A n \in 0 .. N : f[n] \in AllOptions /\ OptionsOf(f[n], n)
  BY <1>5, <1>6
<1>8. Solved(f)
  <2>1. \A n \in 0 .. N : n # 0 => n \in 1 .. N /\ n - 1 \in 0 .. N
    BY <1>1
  <2>2. \A n \in 0 .. N : f[n] = IF n = 0 THEN NoOptions ELSE Onward(f, n)
    BY <1>6, <1>7, <2>1
  <2> HIDE DEF Onward
  <2> QED BY <2>2
<1>9. parse_options = (CHOOSE g : Solved(g))[Len(argv)]
  BY DEF parse_options
<1>10. PICK g : Solved(g) /\ parse_options = g[Len(argv)]
  <2> HIDE DEF Solved
  <2> QED BY <1>8, <1>9
<1>11. g[0] = NoOptions /\ \A n \in 1 .. N : g[n] = Onward(g, n)
  <2>1. 0 \in 0 .. N /\ \A n \in 1 .. N : n \in 0 .. N /\ n # 0
    BY <1>1
  <2> HIDE DEF Onward
  <2> QED BY <1>10, <2>1
<1>12. \A n \in 0 .. N : g[n] \in AllOptions /\ OptionsOf(g[n], n)
  BY <1>5, <1>11
<1>13. N \in 0 .. N
  BY <1>1
<1> QED BY <1>10, <1>12, <1>13

\* What parse_options returns: the last arguments that name an input and an output.
LEMMA OptionsMeant ==
    ASSUME ArgumentsKnown
    PROVE  /\ parse_options.input = NULL <=> Inputs = {}
           /\ CanRead <=> parse_options.input # NULL /\ parse_options.input \in Readable
           /\ CanWrite <=> parse_options.output \in Writable
<1>1. PICK n \in Nat : n = Len(argv) /\ DOMAIN argv = 1 .. n
  BY LenProperties DEF ArgumentsKnown
<1>2. /\ Latest(Inputs, n, parse_options.input, NULL)
      /\ Latest(Outputs, n, parse_options.output, "out.s")
  BY <1>1, OptionsRead DEF OptionsOf
<1>3. Inputs \subseteq 1 .. n /\ Outputs \subseteq 1 .. n
  BY <1>1 DEF Inputs, Outputs
<1>4. ASSUME NEW S \in SUBSET (1 .. n), NEW arg, NEW none, Latest(S, n, arg, none)
      PROVE  arg = IF S = {} THEN none ELSE argv[Max(S)]
  <2>1. CASE \A j \in 1 .. n : j \notin S
    <3>1. S = {}
      BY <2>1
    <3> QED BY <1>4, <3>1 DEF Latest
  <2>2. CASE ~\A j \in 1 .. n : j \notin S
    <3>1. PICK m \in 1 .. n : m \in S /\ arg = argv[m] /\ \A j \in m + 1 .. n : j \notin S
      BY <1>4, <2>2 DEF Latest
    <3>2. Max(S) \in S /\ \A j \in S : Max(S) >= j
      BY <3>1, MaxProperties
    <3>3. Max(S) \in 1 .. n /\ Max(S) >= m /\ Max(S) \notin m + 1 .. n
      BY <3>1, <3>2
    <3>4. Max(S) = m
      BY <3>1, <3>3
    <3> QED BY <3>1, <3>4
  <2> QED BY <2>1, <2>2
<1>5. /\ parse_options.input = IF Inputs = {} THEN NULL ELSE argv[Max(Inputs)]
      /\ parse_options.output = IF Outputs = {} THEN "out.s" ELSE argv[Max(Outputs)]
  BY <1>2, <1>3, <1>4
<1>6. Inputs # {} => argv[Max(Inputs)] # NULL
  <2>1. Inputs # {} => Max(Inputs) \in DOMAIN argv
    BY <1>1, <1>3, MaxProperties
  <2>2. \A i \in DOMAIN argv : argv[i] \in STRING \ {NULL}
    BY ElementOfSeq, <1>1 DEF ArgumentsKnown
  <2> QED BY <2>1, <2>2
<1> QED BY <1>5, <1>6 DEF CanRead, CanWrite

-----------------------------------------------------------------------------
(* Only a block without an end lets the parser run out of memory. *)

HasBrace == \E i \in DOMAIN tokens : tokens[i].type = "LBRACE_TOK"

\* Where a block is being parsed, or none was ended, there is an opening brace.
Braced ==
    (parseStatus = "killed" \/ \E n \in DOMAIN pending : pending[n].do = "stats") => HasBrace

\* A task, and a list of tasks, without the loop of parse_block_stat.
NoLoop(task) == task.do # "stats"

LoopFree(tasks) == \E S : tasks \in Seq(S) /\ \A task \in S : NoLoop(task)

\* None of the tasks that stand outside of a block is the loop.
LEMMA OtherTasks ==
    /\ \A token : NoLoop(Match(token))
    /\ \A made, arity : NoLoop(Make(made, arity))
    /\ \A name : NoLoop(ParserTask("body", name)) /\ NoLoop(ParserTask("declarator", name))
    /\ NoLoop(Parse("program")) /\ NoLoop(Parse("stat")) /\ NoLoop(Parse("else"))
    /\ NoLoop(Parse("append")) /\ NoLoop(Parse("expr")) /\ NoLoop(Parse("comparison"))
    /\ NoLoop(Parse("subexpr")) /\ NoLoop(Parse("terms")) /\ NoLoop(Parse("term"))
    /\ NoLoop(Parse("factors")) /\ NoLoop(Parse("factor"))
<1>1. \A do, name : ParserTask(do, name).do = do
  BY DEF ParserTask
<1>2. \A token : Match(token).do = "match"
  BY DEF Match, Parse, ParserTask
<1>3. \A made, arity : Make(made, arity).do = "make"
  BY DEF Make, Parse, ParserTask
<1> QED BY <1>1, <1>2, <1>3 DEF NoLoop, Parse

\* A list of tasks none of which is the loop.
LEMMA LoopFreeLists ==
    /\ LoopFree(<<>>)
    /\ \A a : NoLoop(a) => LoopFree(<<a>>)
    /\ \A a, b : NoLoop(a) /\ NoLoop(b) => LoopFree(<<a, b>>)
    /\ \A a, b, c : NoLoop(a) /\ NoLoop(b) /\ NoLoop(c) => LoopFree(<<a, b, c>>)
    /\ \A a, b, c, d : NoLoop(a) /\ NoLoop(b) /\ NoLoop(c) /\ NoLoop(d) => LoopFree(<<a, b, c, d>>)
    /\ \A a, b, c, d, e, f :
          NoLoop(a) /\ NoLoop(b) /\ NoLoop(c) /\ NoLoop(d) /\ NoLoop(e) /\ NoLoop(f) =>
             LoopFree(<<a, b, c, d, e, f>>)
<1>0. ASSUME NEW tasks, NEW S, tasks \in Seq(S), \A task \in S : NoLoop(task)
      PROVE  LoopFree(tasks)
  BY <1>0, Zenon DEF LoopFree
<1>1. LoopFree(<<>>)
  <2>1. PICK S : S = {}
    OBVIOUS
  <2>2. <<>> \in Seq(S) /\ \A task \in S : NoLoop(task)
    BY <2>1
  <2> QED BY <1>0, <2>2, Zenon
<1>2. ASSUME NEW a, NoLoop(a)
      PROVE  LoopFree(<<a>>)
  <2>1. PICK S : S = {a}
    OBVIOUS
  <2>2. <<a>> \in Seq(S)
    BY <2>1
  <2>3. \A task \in S : NoLoop(task)
    BY <1>2, <2>1
  <2>4. PICK tasks : tasks = <<a>>
    OBVIOUS
  <2>5. tasks \in Seq(S)
    BY <2>2, <2>4, Zenon
  <2>6. LoopFree(tasks)
    BY <1>0, <2>3, <2>5, Zenon
  <2> QED BY <2>4, <2>6, Zenon
<1>3. ASSUME NEW a, NEW b, NoLoop(a), NoLoop(b)
      PROVE  LoopFree(<<a, b>>)
  <2>1. PICK S : S = {a, b}
    OBVIOUS
  <2>2. <<a, b>> \in Seq(S)
    BY <2>1
  <2>3. \A task \in S : NoLoop(task)
    BY <1>3, <2>1
  <2>4. PICK tasks : tasks = <<a, b>>
    OBVIOUS
  <2>5. tasks \in Seq(S)
    BY <2>2, <2>4, Zenon
  <2>6. LoopFree(tasks)
    BY <1>0, <2>3, <2>5, Zenon
  <2> QED BY <2>4, <2>6, Zenon
<1>4. ASSUME NEW a, NEW b, NEW c, NoLoop(a), NoLoop(b), NoLoop(c)
      PROVE  LoopFree(<<a, b, c>>)
  <2>1. PICK S : S = {a, b, c}
    OBVIOUS
  <2>2. <<a, b, c>> \in Seq(S)
    BY <2>1
  <2>3. \A task \in S : NoLoop(task)
    BY <1>4, <2>1
  <2>4. PICK tasks : tasks = <<a, b, c>>
    OBVIOUS
  <2>5. tasks \in Seq(S)
    BY <2>2, <2>4, Zenon
  <2>6. LoopFree(tasks)
    BY <1>0, <2>3, <2>5, Zenon
  <2> QED BY <2>4, <2>6, Zenon
<1>5. ASSUME NEW a, NEW b, NEW c, NEW d, NoLoop(a), NoLoop(b), NoLoop(c), NoLoop(d)
      PROVE  LoopFree(<<a, b, c, d>>)
  <2>1. PICK S : S = {a, b, c, d}
    OBVIOUS
  <2>2. <<a, b, c, d>> \in Seq(S)
    BY <2>1
  <2>3. \A task \in S : NoLoop(task)
    BY <1>5, <2>1
  <2>4. PICK tasks : tasks = <<a, b, c, d>>
    OBVIOUS
  <2>5. tasks \in Seq(S)
    BY <2>2, <2>4, Zenon
  <2>6. LoopFree(tasks)
    BY <1>0, <2>3, <2>5, Zenon
  <2> QED BY <2>4, <2>6, Zenon
<1>6. ASSUME NEW a, NEW b, NEW c, NEW d, NEW e, NEW f,
             NoLoop(a), NoLoop(b), NoLoop(c), NoLoop(d), NoLoop(e), NoLoop(f)
      PROVE  LoopFree(<<a, b, c, d, e, f>>)
  <2>1. PICK S : S = {a, b, c, d, e, f}
    OBVIOUS
  <2>2. <<a, b, c, d, e, f>> \in Seq(S)
    BY <2>1
  <2>3. \A task \in S : NoLoop(task)
    BY <1>6, <2>1
  <2>4. PICK tasks : tasks = <<a, b, c, d, e, f>>
    OBVIOUS
  <2>5. tasks \in Seq(S)
    BY <2>2, <2>4, Zenon
  <2>6. LoopFree(tasks)
    BY <1>0, <2>3, <2>5, Zenon
  <2> QED BY <2>4, <2>6, Zenon
<1>8. \A a, b, c, d : NoLoop(a) /\ NoLoop(b) /\ NoLoop(c) /\ NoLoop(d) => LoopFree(<<a, b, c, d>>)
  BY <1>5
<1>9. \A a, b, c, d, e, f :
         NoLoop(a) /\ NoLoop(b) /\ NoLoop(c) /\ NoLoop(d) /\ NoLoop(e) /\ NoLoop(f) =>
            LoopFree(<<a, b, c, d, e, f>>)
  BY <1>6
<1> QED BY <1>1, <1>2, <1>3, <1>4, <1>8, <1>9

\* The ten tasks of a for.
LEMMA LoopFreeTen ==
    ASSUME NEW a, NEW b, NEW c, NEW d, NEW e, NEW f, NEW g, NEW h, NEW i, NEW j,
           NoLoop(a), NoLoop(b), NoLoop(c), NoLoop(d), NoLoop(e),
           NoLoop(f), NoLoop(g), NoLoop(h), NoLoop(i), NoLoop(j)
    PROVE  LoopFree(<<a, b, c, d, e, f, g, h, i, j>>)
<1>1. PICK S : S = {a, b, c, d, e, f, g, h, i, j}
  OBVIOUS
<1>2. <<a, b, c, d, e, f, g, h, i, j>> \in Seq(S)
  BY <1>1
<1>3. \A task \in S : NoLoop(task)
  BY <1>1
<1> QED BY <1>2, <1>3, Zenon DEF LoopFree

\* A step that calls no loop.
LEMMA LoopFreeKept ==
    ASSUME ParserInv, Braced, NEW do, Doing(do), NEW tasks, LoopFree(tasks), Instead(tasks),
           tokens' = tokens, parseStatus' = parseStatus
    PROVE  Braced'
<1>1. PICK S : tasks \in Seq(S) /\ \A task \in S : NoLoop(task)
  BY DEF LoopFree
<1>2. (HasBrace' <=> HasBrace) /\ parseStatus' # "killed"
  BY DEF HasBrace, Doing
<1>3. pending \in Seq(ParserTasks) /\ pending # <<>>
  BY DEF ParserInv, GoodTasks, AllGood, Doing
<1>4. /\ pending' \in Seq(ParserTasks \cup S)
      /\ \A n \in DOMAIN pending' :
            \/ n \in DOMAIN tasks /\ pending'[n] = tasks[n]
            \/ /\ n > Len(tasks) /\ n - Len(tasks) + 1 \in DOMAIN pending
               /\ pending'[n] = pending[n - Len(tasks) + 1]
  <2>1. pending \in Seq(ParserTasks \cup S) /\ tasks \in Seq(ParserTasks \cup S)
    BY <1>1, <1>3, SeqMonotonic
  <2> QED BY <1>3, <2>1, ReplaceHead DEF Instead
<1>5. ASSUME NEW n \in DOMAIN pending', pending'[n].do = "stats"
      PROVE  \E k \in DOMAIN pending : pending[k].do = "stats"
  <2>1. CASE n \in DOMAIN tasks /\ pending'[n] = tasks[n]
    <3>1. tasks[n] \in S
      BY <1>1, <2>1, ElementOfSeq, LenProperties
    <3> QED BY <1>1, <1>5, <2>1, <3>1 DEF NoLoop
  <2> QED BY <1>4, <1>5, <2>1
<1>6. ASSUME (\E n \in DOMAIN pending : pending[n].do = "stats")'
      PROVE  HasBrace
  BY <1>5, <1>6 DEF Braced
<1> QED BY <1>2, <1>6 DEF Braced

\* Neither does any other part of the parser than parse_block_stat.
LEMMA CallsNoLoop ==
    ASSUME ParserInv, Braced, NEW do, Doing(do), NEW tasks, LoopFree(tasks), Unfold(tasks)
    PROVE  Braced'
BY LoopFreeKept DEF Unfold

\* The actions that leave nothing to be done instead, or only what is no loop.
LEMMA StatBraced ==
    ASSUME ParserInv, Braced,
           \/ ParseProgram \/ ParseReturn \/ ParseIf \/ ParseElse \/ ParseWhile \/ ParseFor
           \/ ParseExprStat \/ ParseSkip
    PROVE  Braced'
<1>1. CASE ParseProgram
  <2>1. Doing("program") /\ (Unfold(<<>>) \/ Unfold(<<Parse("stat"), Parse("append"), Parse("program")>>))
    BY <1>1, Zenon DEF ParseProgram
  <2> QED BY <2>1, OtherTasks, LoopFreeLists, CallsNoLoop, Zenon
<1>2. CASE ParseReturn
  <2>1. Doing("stat") /\ Unfold(<<Match("RETURN_TOK"), Parse("expr"), Make(Plain("RETURN_STAT"), 1),
                                  Match("SCOL_TOK")>>)
    BY <1>2, Zenon DEF ParseReturn, AtStart
  <2> QED BY <2>1, OtherTasks, LoopFreeLists, CallsNoLoop, Zenon
<1>3. CASE ParseIf
  <2>1. Doing("stat") /\ Unfold(<<Match("IF_TOK"), Match("LPAREN_TOK"), Parse("expr"),
                                  Match("RPAREN_TOK"), Parse("stat"), Parse("else")>>)
    BY <1>3, Zenon DEF ParseIf, AtStart
  <2> QED BY <2>1, OtherTasks, LoopFreeLists, CallsNoLoop, Zenon
<1>4. CASE ParseElse
  <2>1. /\ Doing("else")
        /\ \/ Unfold(<<Match("ELSE_TOK"), Parse("stat"), Make(Plain("IF_STAT"), 3)>>)
           \/ Unfold(<<Make(Plain("IF_STAT"), 2)>>)
    BY <1>4, Zenon DEF ParseElse
  <2> QED BY <2>1, OtherTasks, LoopFreeLists, CallsNoLoop, Zenon
<1>5. CASE ParseWhile
  <2>1. Doing("stat") /\ Unfold(<<Match("WHILE_TOK"), Match("LPAREN_TOK"), Parse("expr"),
                                  Match("RPAREN_TOK"), Parse("stat"), Make(Plain("WHILE_STAT"), 2)>>)
    BY <1>5, Zenon DEF ParseWhile, AtStart
  <2> QED BY <2>1, OtherTasks, LoopFreeLists, CallsNoLoop, Zenon
<1>6. CASE ParseFor
  <2>1. Doing("stat") /\ Unfold(<<Match("FOR_TOK"), Match("LPAREN_TOK"),
                                  Parse("expr"), Match("SCOL_TOK"), Parse("expr"), Match("SCOL_TOK"),
                                  Parse("expr"), Match("RPAREN_TOK"),
                                  Parse("stat"), Make(Plain("FOR_STAT"), 4)>>)
    BY <1>6, Zenon DEF ParseFor, AtStart
  <2> QED BY <2>1, OtherTasks, LoopFreeTen, CallsNoLoop, Zenon
<1>7. CASE ParseExprStat
  <2>1. Doing("stat") /\ Unfold(<<Parse("expr"), Make(Plain("EXPR_STAT"), 1), Match("SCOL_TOK")>>)
    BY <1>7, Zenon DEF ParseExprStat, AtStart
  <2> QED BY <2>1, OtherTasks, LoopFreeLists, CallsNoLoop, Zenon
<1>8. CASE ParseSkip
  <2>1. Doing("stat") /\ Unfold(<<Make(Plain("SKIP_STAT"), 0), Match("SCOL_TOK")>>)
    BY <1>8, Zenon DEF ParseSkip, AtStart
  <2> QED BY <2>1, OtherTasks, LoopFreeLists, CallsNoLoop, Zenon
<1> QED BY <1>1, <1>2, <1>3, <1>4, <1>5, <1>6, <1>7, <1>8

\* The tokens and the state stay as they are in most steps.
LEMMA DeclarationBraced ==
    ASSUME ParserInv, Braced, ParseDeclaration \/ ParseDeclarator
    PROVE  Braced'
<1>1. CASE ParseDeclaration
  <2>1. PICK task : task = ParserTask("declarator", tokens[next + 1].name)
    OBVIOUS
  <2>2. Doing("stat") /\ Instead(<<task>>) /\ tokens' = tokens /\ parseStatus' = parseStatus
    BY <1>1, <2>1 DEF ParseDeclaration, AtStart
  <2> QED BY <2>1, <2>2, OtherTasks, LoopFreeLists, LoopFreeKept, Zenon
<1>2. CASE ParseDeclarator
  <2>1. PICK name : name = Head(pending).name
    OBVIOUS
  <2>2. /\ Doing("declarator")
        /\ \/ Unfold(<<Match("LPAREN_TOK"), Match("RPAREN_TOK"), ParserTask("body", name)>>)
           \/ Unfold(<<Match("ASSIGN_TOK"), Parse("expr"), Make(Named("DECL_STAT", name), 1),
                      Match("SCOL_TOK")>>)
           \/ Unfold(<<Make(Named("DECL_STAT", name), 0), Match("SCOL_TOK")>>)
    BY <1>2, <2>1 DEF ParseDeclarator
  <2> QED BY <2>2, OtherTasks, LoopFreeLists, CallsNoLoop, Zenon
<1> QED BY <1>1, <1>2

\* Expressions.
LEMMA ExprBraced ==
    ASSUME ParserInv, Braced, ParseExpr \/ ParseSubexpr \/ ParseTerm \/ ParseParens \/ ParseIdent
    PROVE  Braced'
<1>1. CASE ParseExpr
  <2>1. Doing("expr") /\ Unfold(<<Parse("subexpr"), Parse("comparison")>>)
    BY <1>1 DEF ParseExpr
  <2> QED BY <2>1, OtherTasks, LoopFreeLists, CallsNoLoop, Zenon
<1>2. CASE ParseSubexpr
  <2>1. Doing("subexpr") /\ Unfold(<<Parse("term"), Parse("terms")>>)
    BY <1>2 DEF ParseSubexpr
  <2> QED BY <2>1, OtherTasks, LoopFreeLists, CallsNoLoop, Zenon
<1>3. CASE ParseTerm
  <2>1. Doing("term") /\ Unfold(<<Parse("factor"), Parse("factors")>>)
    BY <1>3 DEF ParseTerm
  <2> QED BY <2>1, OtherTasks, LoopFreeLists, CallsNoLoop, Zenon
<1>4. CASE ParseParens
  <2>1. Doing("factor") /\ Unfold(<<Match("LPAREN_TOK"), Parse("expr"), Match("RPAREN_TOK")>>)
    BY <1>4 DEF ParseParens
  <2> QED BY <2>1, OtherTasks, LoopFreeLists, CallsNoLoop, Zenon
<1>5. CASE ParseIdent
  <2>1. PICK name : name = tokens[next].name
    OBVIOUS
  <2>2. /\ Doing("factor") /\ tokens' = tokens /\ parseStatus' = parseStatus
        /\ \/ Instead(<<Match("LPAREN_TOK"), Match("RPAREN_TOK"), Make(Named("FUNC_CALL", name), 0)>>)
           \/ Instead(<<Make(Named("VAR_REF", name), 0)>>)
    BY <1>5, <2>1 DEF ParseIdent
  <2> QED BY <2>2, OtherTasks, LoopFreeLists, LoopFreeKept, Zenon
<1> QED BY <1>1, <1>2, <1>3, <1>4, <1>5

\* The operators, and what may follow them.
LEMMA OperatorBraced ==
    ASSUME ParserInv, Braced, ParseComparison \/ ParseTerms \/ ParseFactors
    PROVE  Braced'
<1>1. ASSUME NEW do, Doing(do), NEW opOf, NEW operand, NoLoop(Parse(operand)), NEW rest, NEW goOn,
             Operator(opOf, operand, rest), NoLoop(goOn), rest = <<>> \/ rest = <<goOn>>
      PROVE  Braced'
  <2>1. PICK first, op : first = Parse(operand) /\ op = Make(BinOp(opOf[Tok]), 2)
    OBVIOUS
  <2>2. \/ Unfold(<<>>)
        \/ Instead(<<first, op>> \o rest) /\ tokens' = tokens /\ parseStatus' = parseStatus
    BY <1>1, <2>1 DEF Operator
  <2>3. NoLoop(first) /\ NoLoop(op) /\ NoLoop(goOn)
    BY <1>1, <2>1, OtherTasks, Zenon
  <2>4. LoopFree(<<>>) /\ LoopFree(<<first, op>>) /\ LoopFree(<<first, op, goOn>>)
    BY <2>3, LoopFreeLists, Zenon
  <2>5. <<first, op>> \o <<>> = <<first, op>> /\ <<first, op>> \o <<goOn>> = <<first, op, goOn>>
    <3>1. <<first, op>> \o <<>> = <<first, op>>
      OBVIOUS
    <3> QED BY <3>1, ThreeTasks, Zenon
  <2>6. LoopFree(<<first, op>> \o rest)
    BY <1>1, <2>4, <2>5, Zenon
  <2> QED BY <1>1, <2>2, <2>4, <2>6, CallsNoLoop, LoopFreeKept, Zenon
<1>2. CASE ParseComparison
  <2>1. Doing("comparison") /\ Operator(ExprOpOf, "subexpr", <<>>) /\ NoLoop(Parse("subexpr"))
    BY <1>2, OtherTasks, Zenon DEF ParseComparison
  <2> QED BY <1>1, <2>1
<1>3. CASE ParseTerms
  <2>1. /\ Doing("terms") /\ Operator(TermOpOf, "term", <<Parse("terms")>>)
        /\ NoLoop(Parse("term")) /\ NoLoop(Parse("terms"))
    BY <1>3, OtherTasks, Zenon DEF ParseTerms
  <2> QED BY <1>1, <2>1
<1>4. CASE ParseFactors
  <2>1. /\ Doing("factors") /\ Operator(FactorOpOf, "term", <<Parse("factors")>>)
        /\ NoLoop(Parse("term")) /\ NoLoop(Parse("factors"))
    BY <1>4, OtherTasks, Zenon DEF ParseFactors
  <2> QED BY <1>1, <2>1
<1> QED BY <1>2, <1>3, <1>4

\* What leaves nothing to be done.
LEMMA LeafBraced ==
    ASSUME ParserInv, Braced,
           \/ MatchToken \/ MakeNode \/ AppendStat \/ ParseInvalid \/ ParseIntLit \/ ParseNoFactor
    PROVE  Braced'
<1>1. \E do : Doing(do) /\ Instead(<<>>) /\ tokens' = tokens /\ parseStatus' = parseStatus
  BY DEF MatchToken, MakeNode, AppendStat, ParseInvalid, ParseIntLit, ParseNoFactor
<1> QED BY <1>1, LoopFreeLists, LoopFreeKept, Zenon

\* The parts of a block: there is its opening brace.
LEMMA BlockBraced ==
    ASSUME ParserInv, Braced,
           \/ ParseBlock \/ ParseBody \/ ParseStats \/ OutOfMemory \/ FinishParse
    PROVE  Braced'
<1>1. /\ pending \in Seq(ParserTasks) /\ next \in DOMAIN tokens /\ tokens' = tokens
      /\ HasBrace' <=> HasBrace
  <2>1. next \in DOMAIN tokens
    BY LenProperties DEF ParserInv, InPlace, IsTokenList
  <2>2. tokens' = tokens
    BY DEF ParseBlock, ParseBody, ParseStats, OutOfMemory, FinishParse, Unfold
  <2> QED BY <2>1, <2>2 DEF ParserInv, GoodTasks, AllGood, HasBrace
<1>2. Tok = "LBRACE_TOK" => HasBrace
  BY <1>1 DEF Tok, HasBrace
<1>3. Doing("stats") => HasBrace
  <2> SUFFICES ASSUME Doing("stats")
               PROVE  HasBrace
    OBVIOUS
  <2>1. pending[1].do = "stats" /\ 1 \in DOMAIN pending
    BY <1>1 DEF Doing
  <2> QED BY <2>1 DEF Braced
<1>4. CASE ParseBlock \/ ParseStats \/ OutOfMemory
  <2>1. HasBrace
    BY <1>2, <1>3, <1>4 DEF ParseBlock, AtStart, ParseStats, OutOfMemory
  <2> QED BY <1>1, <2>1 DEF Braced
<1>5. CASE ParseBody
  <2>1. CASE Tok = "LBRACE_TOK"
    BY <1>1, <1>2, <2>1 DEF Braced
  <2>2. CASE Tok # "LBRACE_TOK"
    <3>1. PICK name : name = Head(pending).name
      OBVIOUS
    <3>2. Doing("body") /\ Unfold(<<Make(FuncDecl(name), 0), Match("SCOL_TOK")>>)
      BY <1>5, <2>2, <3>1 DEF ParseBody
    <3> QED BY <3>2, OtherTasks, LoopFreeLists, CallsNoLoop, Zenon
  <2> QED BY <2>1, <2>2
<1>6. CASE FinishParse
  <2>1. pending' = pending /\ parseStatus' = "done"
    BY <1>6 DEF FinishParse
  <2> QED BY <1>1, <2>1 DEF Braced
<1> QED BY <1>4, <1>5, <1>6

\* Every step of the parser.
LEMMA BracedKept ==
    ASSUME ParserInv, Braced, [ParseStep]_parserVars
    PROVE  Braced'
<1>1. CASE UNCHANGED parserVars
  <2>1. tokens' = tokens /\ pending' = pending /\ parseStatus' = parseStatus
    BY <1>1 DEF parserVars
  <2> QED BY <2>1 DEF Braced, HasBrace
<1>2. CASE ParseStep
  BY <1>2, LeafBraced, StatBraced, DeclarationBraced, ExprBraced, OperatorBraced, BlockBraced, Zenon
  DEF ParseStep
<1> QED BY <1>1, <1>2

-----------------------------------------------------------------------------
(* Only a prototype gets the process killed while it prints the tree. *)

\* print_stat_ast goes through a tree in which every function has a body.
LEMMA BodiesPrintable ==
    ASSUME NEW t, WellFormed(t), \A n \in DOMAIN t : ~(t[n].is_func /\ t[n].kids = <<>>)
    PROVE  Printable(t)
<1> DEFINE Goes(f, n) ==
             /\ t[n].is_func => t[n].kids # <<>>
             /\ (t[n].is_func \/ t[n].type \in {"BLOCK_STAT", "IF_STAT"}) =>
                   \A i \in DOMAIN t[n].kids : f[t[n].kids[i]]
           Unwinds(f) == f = [n \in DOMAIN t |-> Goes(f, n)]
<1>1. PICK N \in Nat \ {0} : N = Len(t) /\ DOMAIN t = 1 .. N
  BY TreeFacts
<1>2. \A n \in 1 .. N : \A i \in DOMAIN t[n].kids : t[n].kids[i] \in 1 .. N /\ t[n].kids[i] > n
  BY <1>1, TreeFacts
<1>3. PICK all : all = [n \in DOMAIN t |-> TRUE]
  OBVIOUS
<1>4. \A n \in DOMAIN t : Goes(all, n)
  <2>1. \A n \in DOMAIN t : all[n]
    BY <1>3
  <2> QED BY <1>1, <1>2, <2>1
<1>5. Unwinds(all)
  <2> HIDE DEF Goes
  <2>1. \A n \in DOMAIN t : Goes(all, n) = TRUE
    <3>1. \A n : Goes(all, n) \in BOOLEAN
      BY DEF Goes
    <3> QED BY <1>4, <3>1
  <2>2. [n \in DOMAIN t |-> Goes(all, n)] = [n \in DOMAIN t |-> TRUE]
    BY <2>1
  <2> QED BY <1>3, <2>2
<1>6. Printable(t) <=> (CHOOSE f : Unwinds(f))[1]
  BY DEF Printable
<1>7. PICK f : Unwinds(f) /\ (Printable(t) <=> f[1])
  <2> HIDE DEF Unwinds
  <2> QED BY <1>5, <1>6
<1>8. \A n \in 1 .. N : f[n] <=> Goes(f, n)
  <2> HIDE DEF Goes
  <2> QED BY <1>1, <1>7
<1> DEFINE S == {n \in 1 .. N : \A m \in n .. N : f[m]}
<1>9. ASSUME NEW n \in 1 .. N, \A m \in n + 1 .. N : f[m]
      PROVE  f[n]
  <2>1. \A i \in DOMAIN t[n].kids : t[n].kids[i] \in n + 1 .. N
    BY <1>2
  <2>2. Goes(f, n)
    BY <1>1, <1>9, <2>1
  <2> HIDE DEF Goes
  <2> QED BY <1>8, <2>2
<1>10. N \in S
  <2>1. N + 1 .. N = {} /\ N .. N = {N} /\ N \in 1 .. N
    BY <1>1
  <2>2. f[N]
    BY <1>9, <2>1
  <2> QED BY <2>1, <2>2
<1>11. ASSUME NEW n \in 1 .. N, n + 1 \in 1 .. N, n + 1 \in S
       PROVE  n \in S
  <2>1. \A m \in n .. N : m = n \/ m \in n + 1 .. N
    OBVIOUS
  <2>2. f[n]
    BY <1>9, <1>11
  <2> QED BY <1>11, <2>1, <2>2
<1>12. 1 .. N \subseteq S
  <2> HIDE DEF S
  <2> QED BY <1>1, <1>10, <1>11, Downward
<1>13. f[1]
  <2>1. 1 \in 1 .. N /\ 1 \in 1 .. N
    BY <1>1
  <2>2. 1 \in S
    BY <1>12, <2>1
  <2> QED BY <2>1, <2>2
<1> QED BY <1>7, <1>13

-----------------------------------------------------------------------------
(* The exit status. *)

\* The phases in which main goes on, or ends by itself, with its text.
Working == {"lexer", "parser", "semcheck", "gen", "PARSE_ERR", "SEM_ERR", "OK"}

\* What there is to be known of the command line once main has read it.
OptionsKnown ==
    /\ ArgumentsKnown
    /\ phase # "options" => /\ (options.output \in Writable <=> CanWrite)
    /\ phase = "OTHER_ERR" => Inputs = {}
    /\ phase \in Working => CanRead
    /\ phase \in {"gen", "OK"} => CanWrite

\* What there is to be known of the tokens once they have been handed over.
TreeKnown ==
    /\ phase = "parser" => Braced
    /\ phase = "PARSE_ERR" => ParseTrees = {}
    /\ phase \in {"semcheck", "gen", "SEM_ERR", "OK"} => ParseTrees = {prog} /\ prog # <<>>

\* Why a process is killed.
KilledFor ==
    \/ ~CanRead \/ ~CanWrite
    \/ ParseTrees = {} /\ HasBrace
    \/ \E t \in ParseTrees : \E n \in DOMAIN t : t[n].is_func /\ t[n].kids = <<>>
    \/ prog # <<>> /\ TooDeep

ExitKnown == OptionsKnown /\ TreeKnown /\ (phase = "killed" => KilledFor)

\* Together with what is known of the compiler, that is what its status tells.
LEMMA StatusTells ==
    ASSUME ExitKnown, BackInv
    PROVE  ExitTells
<1>1. phase \in {"SEM_ERR", "OK"} => ExitStatus /\ ParseTrees = {prog}
  BY DEF ExitKnown, TreeKnown, BackInv, PlaceInv, ExitInv
<1>2. phase \in {"SEM_ERR", "OK"} => ParseTrees # {}
  BY <1>1
<1>3. /\ phase = "OK" => WellScoped(prog) /\ ~TooDeep
      /\ phase = "SEM_ERR" => ~WellScoped(prog)
  BY <1>1 DEF ExitStatus
<1>4. phase = "killed" => KilledFor
  BY DEF ExitKnown
<1>5. /\ phase = "OTHER_ERR" => Inputs = {}
      /\ phase \in {"PARSE_ERR", "SEM_ERR", "OK"} => CanRead
      /\ phase = "OK" => CanWrite
      /\ phase = "PARSE_ERR" => ParseTrees = {}
  BY DEF ExitKnown, OptionsKnown, TreeKnown, Working
<1> HIDE DEF ExitStatus
<1> QED BY <1>2, <1>3, <1>4, <1>5 DEF ExitTells, KilledFor, HasBrace

\* The command line stays as it is.
LEMMA SameArguments ==
    ASSUME argv' = argv
    PROVE  /\ ArgumentsKnown' <=> ArgumentsKnown
           /\ Inputs' = Inputs
           /\ CanRead' <=> CanRead
           /\ CanWrite' <=> CanWrite
BY DEF ArgumentsKnown, CanRead, CanWrite, Inputs, Outputs, IsOutput

\* So do the trees of the tokens.
LEMMA SameTokens ==
    ASSUME tokens' = tokens
    PROVE  ParseTrees' = ParseTrees /\ (HasBrace' <=> HasBrace)
BY DEF ParseTrees, HasBrace

\* And what the generator needs for the tree.
LEMMA SameDepth ==
    ASSUME prog' = prog
    PROVE  TooDeep' <=> TooDeep
BY DEF TooDeep, Generated, Ignored, Type

\* So a reason to be killed remains one.
LEMMA SameReasons ==
    ASSUME argv' = argv, tokens' = tokens, prog' = prog
    PROVE  KilledFor' <=> KilledFor
<1>1. PICK P : P = ParseTrees
  OBVIOUS
<1>2. ParseTrees' = P
  BY <1>1, SameTokens
<1>3. (\E t \in ParseTrees : \E n \in DOMAIN t : t[n].is_func /\ t[n].kids = <<>>)'
      <=> \E t \in ParseTrees : \E n \in DOMAIN t : t[n].is_func /\ t[n].kids = <<>>
  BY <1>1, <1>2
<1> QED BY <1>1, <1>2, <1>3, SameArguments, SameTokens, SameDepth DEF KilledFor

\* It holds before main has read its arguments.
LEMMA ExitStarts ==
    ASSUME PaolaInit
    PROVE  ExitKnown
<1>1. ArgumentsKnown /\ phase = "options"
  BY CallsAssumption DEF PaolaInit, ArgumentsKnown
<1> QED BY <1>1 DEF ExitKnown, OptionsKnown, TreeKnown, Working

\* Steps that do not end the process and do not end the parser: what was known
\* still holds.
LEMMA KnownStays ==
    ASSUME ExitKnown, argv' = argv, options' = options, tokens' = tokens, prog' = prog,
           phase # "options", phase' \in Working \ {"PARSE_ERR"},
           phase \in Working, phase' = "parser" => Braced',
           phase' \in {"gen", "OK"} => CanWrite,
           phase' \in {"semcheck", "gen", "SEM_ERR", "OK"} =>
              phase \in {"semcheck", "gen", "SEM_ERR", "OK"}
    PROVE  ExitKnown'
<1>1. phase' # "OTHER_ERR" /\ phase' # "killed" /\ phase' # "PARSE_ERR"
  BY DEF Working
<1>2. OptionsKnown'
  <2>1. ArgumentsKnown /\ (options.output \in Writable <=> CanWrite) /\ CanRead
    BY DEF ExitKnown, OptionsKnown
  <2> QED BY <1>1, <2>1, SameArguments DEF OptionsKnown
<1>3. TreeKnown'
  <2>1. PICK P : P = ParseTrees
    OBVIOUS
  <2>2. ParseTrees' = P
    BY <2>1, SameTokens
  <2>3. phase \in {"semcheck", "gen", "SEM_ERR", "OK"} => P = {prog} /\ prog # <<>>
    BY <2>1 DEF ExitKnown, TreeKnown
  <2> QED BY <1>1, <2>2, <2>3 DEF TreeKnown
<1> QED BY <1>1, <1>2, <1>3 DEF ExitKnown

\* A step that gets the process killed, for a reason there has been.
LEMMA KilledKnown ==
    ASSUME ExitKnown, argv' = argv, options' = options, tokens' = tokens, prog' = prog,
           phase # "options", phase' = "killed", KilledFor
    PROVE  ExitKnown'
<1>1. OptionsKnown'
  <2>1. ArgumentsKnown /\ (options.output \in Writable <=> CanWrite)
    BY DEF ExitKnown, OptionsKnown
  <2> QED BY <2>1, SameArguments DEF OptionsKnown, Working
<1>2. TreeKnown'
  BY DEF TreeKnown
<1>3. KilledFor'
  BY SameReasons
<1> QED BY <1>1, <1>2, <1>3 DEF ExitKnown

\* main reads its arguments.
LEMMA OptionsExit ==
    ASSUME ExitKnown, ParseOptions
    PROVE  ExitKnown'
<1>1. /\ phase = "options" /\ argv' = argv /\ tokens' = tokens /\ prog' = prog
      /\ options' = parse_options
      /\ phase' = IF options'.input = NULL THEN "OTHER_ERR"
                  ELSE IF options'.input \in Readable THEN "lexer" ELSE "killed"
  BY DEF ParseOptions, Goto, parserVars, back
<1>2. PICK opt : opt = parse_options /\ opt = options'
  BY <1>1
<1>3. /\ opt.input = NULL <=> Inputs = {}
      /\ CanRead <=> opt.input # NULL /\ opt.input \in Readable
      /\ CanWrite <=> opt.output \in Writable
      /\ ArgumentsKnown
  BY <1>2, OptionsMeant DEF ExitKnown, OptionsKnown
<1>4. \/ phase' = "OTHER_ERR" /\ Inputs = {}
      \/ phase' = "lexer" /\ CanRead
      \/ phase' = "killed" /\ ~CanRead
  <2>1. CASE opt.input = NULL
    BY <1>1, <1>2, <1>3, <2>1
  <2>2. CASE opt.input # NULL /\ opt.input \in Readable
    BY <1>1, <1>2, <1>3, <2>2
  <2>3. CASE opt.input # NULL /\ opt.input \notin Readable
    BY <1>1, <1>2, <1>3, <2>3
  <2> QED BY <2>1, <2>2, <2>3
<1>5. OptionsKnown'
  <2>1. options'.output \in Writable <=> CanWrite'
    BY <1>1, <1>2, <1>3, SameArguments
  <2>2. ArgumentsKnown' /\ (Inputs = {} => Inputs' = {}) /\ (CanRead => CanRead')
    BY <1>1, <1>3, SameArguments
  <2> QED BY <1>4, <2>1, <2>2 DEF OptionsKnown, Working
<1>6. TreeKnown'
  BY <1>4 DEF TreeKnown
<1>7. phase' = "killed" => KilledFor'
  BY <1>1, <1>4, SameArguments DEF KilledFor
<1> QED BY <1>5, <1>6, <1>7 DEF ExitKnown

\* The parser reads the tokens and does not change them.
LEMMA TokensStay ==
    ASSUME ParseStep
    PROVE  tokens' = tokens
<1>1. ASSUME NEW tasks, Unfold(tasks)
      PROVE  tokens' = tokens
  BY <1>1 DEF Unfold
<1>2. ASSUME NEW opOf, NEW operand, NEW rest, Operator(opOf, operand, rest)
      PROVE  tokens' = tokens
  BY <1>2 DEF Operator, Unfold
<1>3. CASE MatchToken \/ MakeNode \/ AppendStat \/ OutOfMemory \/ FinishParse
  BY <1>3 DEF MatchToken, MakeNode, AppendStat, OutOfMemory, FinishParse
<1>4. CASE \/ ParseProgram \/ ParseReturn \/ ParseIf \/ ParseElse \/ ParseWhile \/ ParseFor
           \/ ParseBlock \/ ParseStats \/ ParseExprStat \/ ParseSkip \/ ParseDeclarator
           \/ ParseBody \/ ParseExpr \/ ParseSubexpr \/ ParseTerm \/ ParseParens
  BY <1>1, <1>4 DEF ParseProgram, ParseReturn, ParseIf, ParseElse, ParseWhile, ParseFor,
     ParseBlock, ParseStats, ParseExprStat, ParseSkip, ParseDeclarator, ParseBody,
     ParseExpr, ParseSubexpr, ParseTerm, ParseParens
<1>5. CASE ParseComparison \/ ParseTerms \/ ParseFactors
  BY <1>2, <1>5 DEF ParseComparison, ParseTerms, ParseFactors
<1>6. CASE ParseInvalid \/ ParseDeclaration \/ ParseIdent \/ ParseIntLit \/ ParseNoFactor
  BY <1>6 DEF ParseInvalid, ParseDeclaration, ParseIdent, ParseIntLit, ParseNoFactor
<1> QED BY <1>3, <1>4, <1>5, <1>6 DEF ParseStep

\* Neither the checker nor the generator changes the tree.
LEMMA TreeStays ==
    ASSUME Check \/ Generate
    PROVE  prog' = prog
<1>1. CASE \/ CheckReturn \/ CheckIf \/ CheckWhile \/ CheckFor \/ CheckBlock
           \/ CheckExprStat \/ CheckSkip \/ CheckVarDecl \/ PrototypeCrash
           \/ LeaveFunction \/ Finish \/ CheckIntLit \/ CheckOperands
  BY <1>1 DEF CheckReturn, CheckIf, CheckWhile, CheckFor, CheckBlock,
     CheckExprStat, CheckSkip, CheckVarDecl, PrototypeCrash,
     LeaveFunction, Finish, CheckIntLit, CheckOperands
<1>2. CASE \/ Redeclare \/ EnterFunction \/ Declare \/ CheckName \/ AssignConst
           \/ FinishArith \/ FinishAssign \/ FinishCompare \/ CheckUse
  BY <1>2 DEF Redeclare, EnterFunction, Declare, CheckName, AssignConst, FinishArith,
     FinishAssign, FinishCompare, CheckUse
<1>3. CASE Generate
  BY <1>3 DEF Generate, GenReturn, GenIf, GenWhile, GenFor, Loop, GenBlock, GenFunc, GenVar,
         GenExprStat, GenSkip, GenIntLit, GenVarRef, GenFuncCall, GenBinop, GenRight,
         OutOfRegisters, NoSymbol, GenArith, GenAssign, GenCompare, GenEmit, GenFinish,
         Continue, Write
<1> QED BY <1>1, <1>2, <1>3 DEF Check

\* The lexer and the parser at work.
LEMMA FrontExit ==
    ASSUME PaolaInv, ExitKnown, Tokenize \/ StartParser \/ Parsing
    PROVE  ExitKnown'
<1>1. CASE Tokenize
  <2>1. /\ phase = "lexer" /\ phase' = "lexer" /\ argv' = argv /\ options' = options
        /\ tokens' = tokens /\ prog' = prog
    BY <1>1 DEF Tokenize, Goto, parserVars, back
  <2> QED BY <2>1, KnownStays DEF Working
<1>2. CASE StartParser
  <2>1. /\ phase = "lexer" /\ phase' = "parser" /\ argv' = argv /\ options' = options
        /\ pending' = pending /\ parseStatus' = parseStatus
    BY <1>2 DEF StartParser, Goto
  <2>2. ParserInit
    BY <2>1 DEF PaolaInv, InTurn
  <2>3. pending' = <<Parse("program")>> /\ parseStatus' = "parsing"
    BY <2>1, <2>2 DEF ParserInit
  <2>4. \A n \in DOMAIN pending' : pending'[n] = Parse("program")
    BY <2>3
  <2>5. Braced'
    BY <2>3, <2>4, OtherTasks DEF Braced, NoLoop
  <2>6. OptionsKnown'
    <3>1. ArgumentsKnown /\ (options.output \in Writable <=> CanWrite) /\ CanRead
      BY <2>1 DEF ExitKnown, OptionsKnown, Working
    <3> QED BY <2>1, <3>1, SameArguments DEF OptionsKnown
  <2> QED BY <2>1, <2>5, <2>6 DEF ExitKnown, TreeKnown
<1>3. CASE Parsing
  <2>1. /\ phase = "parser" /\ phase' = "parser" /\ argv' = argv /\ options' = options
        /\ tokens' = tokens /\ prog' = prog /\ ParseStep /\ Braced
    <3>1. /\ phase = "parser" /\ phase' = "parser" /\ argv' = argv /\ options' = options
          /\ prog' = prog /\ ParseStep /\ Braced
      BY <1>3 DEF Parsing, Goto, back, ExitKnown, TreeKnown
    <3>2. ParseStep => tokens' = tokens
      BY TokensStay
    <3> QED BY <3>1, <3>2
  <2>2. Braced'
    BY <2>1, BracedKept DEF PaolaInv, InTurn
  <2> QED BY <2>1, <2>2, KnownStays DEF Working
<1> QED BY <1>1, <1>2, <1>3

\* The parser gives up, or hands its tree over.
LEMMA HandedExit ==
    ASSUME PaolaInv, ParserOnPath, ExitKnown, ParseErrors \/ StartSemcheck
    PROVE  ExitKnown'
<1>1. /\ phase = "parser" /\ argv' = argv /\ options' = options /\ tokens' = tokens
      /\ ParserInv /\ PathInv /\ Braced /\ CanRead
  <2>1. phase = "parser" /\ UNCHANGED front
    BY DEF ParseErrors, StartSemcheck
  <2> QED BY <2>1 DEF PaolaInv, InTurn, ParserOnPath, ExitKnown, TreeKnown, OptionsKnown, Working,
                      front, parserVars
<1>2. Recognised
  BY <1>1, EndOfPath
<1>3. ArgumentsKnown /\ (options.output \in Writable <=> CanWrite)
  BY <1>1 DEF ExitKnown, OptionsKnown
<1>4. CASE ParseErrors /\ phase' = "PARSE_ERR"
  <2>1. parseStatus = "done" /\ errors > 0
    BY <1>4 DEF ParseErrors, Goto
  <2>2. errors # 0
    BY <2>1
  <2>3. ParseTrees = {}
    BY <2>1, <2>2, <1>2 DEF Recognised
  <2>4. TreeKnown'
    BY <1>1, <1>4, <2>3, SameTokens DEF TreeKnown
  <2>5. OptionsKnown'
    BY <1>1, <1>3, <1>4, SameArguments DEF OptionsKnown
  <2> QED BY <1>4, <2>4, <2>5 DEF ExitKnown
<1>5. CASE ParseErrors /\ phase' # "PARSE_ERR"
  <2>1. parseStatus = "killed" /\ phase' = "killed" /\ prog' = prog
    BY <1>5 DEF ParseErrors, Goto, Exit, back
  <2>2. ParseTrees = {} /\ HasBrace
    BY <1>1, <1>2, <2>1 DEF Recognised, Braced
  <2>3. KilledFor
    BY <2>2 DEF KilledFor
  <2> QED BY <1>1, <2>1, <2>3, KilledKnown
<1>6. CASE StartSemcheck
  <2>1. PICK tree : tree = built[1] /\ WellFormed(tree)
    <3>1. ReturnsTree
      BY <1>1, OneTree
    <3> QED BY <1>6, <3>1, TreeHanded DEF StartSemcheck, Handed
  <2>2. ParseTrees = {tree}
    BY <1>2, <1>6, <2>1 DEF Recognised, StartSemcheck
  <2>3. CASE ~Printable(tree) /\ phase' = "killed"
    <3>1. prog' = prog
      <4>1. ~(phase' = "semcheck")
        BY <2>3
      <4> QED BY <1>6, <4>1 DEF StartSemcheck, HandOver, Goto, back
    <3>2. \E n \in DOMAIN tree : tree[n].is_func /\ tree[n].kids = <<>>
      BY <2>1, <2>3, BodiesPrintable
    <3>3. KilledFor
      BY <2>2, <3>2 DEF KilledFor
    <3> QED BY <1>1, <2>3, <3>1, <3>3, KilledKnown
  <2>4. CASE phase' = "semcheck" /\ prog' = tree
    <3>1. tree # <<>>
      BY <2>1 DEF WellFormed
    <3>2. TreeKnown'
      <4>1. ParseTrees' = {tree}
        BY <1>1, <2>2, SameTokens
      <4> QED BY <2>4, <3>1, <4>1 DEF TreeKnown
    <3>3. OptionsKnown'
      BY <1>1, <1>3, <2>4, SameArguments DEF OptionsKnown
    <3> QED BY <2>4, <3>2, <3>3 DEF ExitKnown
  <2>5. (~Printable(tree) /\ phase' = "killed") \/ (phase' = "semcheck" /\ prog' = tree)
    BY <1>6, <2>1 DEF StartSemcheck, HandOver, Goto
  <2> QED BY <2>3, <2>4, <2>5
<1> QED BY <1>4, <1>5, <1>6

\* The checker and the generator.
LEMMA BackExit ==
    ASSUME BackInv, ExitKnown, Compiling \/ OpenOutput \/ Finishing
    PROVE  ExitKnown'
<1>1. /\ argv' = argv /\ options' = options /\ tokens' = tokens
      /\ phase \in {"semcheck", "gen"}
  BY DEF Compiling, Semcheck, GenerateCode, Killed, OpenOutput, StartGen, Finishing, SemErrors,
         Succeed, front, parserVars
<1>2. PlaceInv /\ ParseTrees = {prog} /\ prog # <<>>
      /\ (options.output \in Writable <=> CanWrite) /\ CanRead /\ (phase = "gen" => CanWrite)
  BY <1>1 DEF BackInv, ExitKnown, TreeKnown, OptionsKnown, Working
<1>3. CASE Compiling /\ phase' # "killed"
  <2>1. phase' = phase /\ prog' = prog
    BY <1>3, TreeStays DEF Compiling, Semcheck, GenerateCode, Killed
  <2> QED BY <1>1, <1>2, <2>1, KnownStays DEF Working
<1>4. CASE Compiling /\ phase' = "killed"
  <2>1. Killed
    BY <1>1, <1>4 DEF Compiling, Semcheck, GenerateCode
  <2>2. prog' = prog /\ symbolOf' = symbolOf
    BY <2>1 DEF Killed, semVars
  <2>3. PlaceInv'
    BY <1>2, <2>1, NextPlaceInv DEF CompilerNext, Compile
  <2>4. (HasPrototype \/ TooDeep)'
    BY <1>4, <2>3 DEF PlaceInv, ExitInv, ExitStatus
  <2>5. HasPrototype \/ TooDeep
    BY <2>2, <2>4, SameDepth DEF HasPrototype, Kids
  <2>6. KilledFor
    BY <1>2, <2>5 DEF KilledFor, HasPrototype, Kids
  <2> QED BY <1>1, <1>4, <2>2, <2>6, KilledKnown
<1>5. CASE OpenOutput /\ phase' # "killed"
  <2>1. phase' = "gen" /\ options.output \in Writable /\ prog' = prog
    BY <1>5 DEF OpenOutput, StartGen, Goto, semVars
  <2> QED BY <1>1, <1>2, <2>1, KnownStays DEF Working
<1>6. CASE OpenOutput /\ phase' = "killed"
  <2>1. options.output \notin Writable /\ prog' = prog
    BY <1>6 DEF OpenOutput, StartGen, Goto, back
  <2>2. KilledFor
    BY <1>2, <2>1 DEF KilledFor
  <2> QED BY <1>1, <1>6, <2>1, <2>2, KilledKnown
<1>7. CASE Finishing
  <2>1. /\ (phase = "semcheck" /\ phase' = "SEM_ERR") \/ (phase = "gen" /\ phase' = "OK")
        /\ prog' = prog
    BY <1>7 DEF Finishing, SemErrors, Succeed, semVars
  <2> QED BY <1>1, <1>2, <2>1, KnownStays DEF Working
<1> QED BY <1>3, <1>4, <1>5, <1>6, <1>7

\* Every step of main.
LEMMA ExitKept ==
    ASSUME PaolaInv, BackInv, ParserOnPath, ExitKnown, [PaolaNext]_paolaVars
    PROVE  ExitKnown'
<1>1. CASE Work
  BY <1>1, OptionsExit, FrontExit, HandedExit, BackExit DEF Work
<1>2. CASE UNCHANGED paolaVars
  <2>1. /\ argv' = argv /\ options' = options /\ tokens' = tokens /\ pending' = pending
        /\ parseStatus' = parseStatus /\ prog' = prog /\ phase' = phase
    BY <1>2 DEF paolaVars, front, main, back, parserVars
  <2>2. OptionsKnown'
    BY <2>1, SameArguments DEF ExitKnown, OptionsKnown
  <2>3. TreeKnown'
    <3>1. Braced' <=> Braced
      BY <2>1, SameTokens DEF Braced
    <3>2. PICK P : P = ParseTrees /\ P = ParseTrees'
      BY <2>1, SameTokens
    <3> QED BY <2>1, <3>1, <3>2 DEF ExitKnown, TreeKnown
  <2>4. KilledFor' <=> KilledFor
    BY <2>1, SameReasons
  <2> QED BY <2>1, <2>2, <2>3, <2>4 DEF ExitKnown
<1> QED BY <1>1, <1>2 DEF PaolaNext

\* The exit status tells, for every command line and every text, what became of
\* it: whether it was read, whether the grammar derives it, whether the program
\* keeps the scoping rules and whether its code has been written; and the process
\* is killed for no other reason than the five.
THEOREM ExitTold == PaolaSpec => []ExitTells
<1>1. PaolaInit => ParserOnPath /\ ExitKnown
  BY ExitStarts DEF PaolaInit, ParserOnPath
<1>2. /\ PaolaInv /\ BackInv /\ ParserOnPath /\ ExitKnown /\ [PaolaNext]_paolaVars
      => ParserOnPath' /\ ExitKnown'
  BY PathKept, ExitKept
<1>3. BackInv /\ ExitKnown => ExitTells
  BY StatusTells
<1> QED BY <1>1, <1>2, <1>3, BackInvHolds, PTL DEF PaolaSpec
=============================================================================
