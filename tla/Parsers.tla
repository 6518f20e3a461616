------------------------------- MODULE Parsers -------------------------------
(***************************************************************************)
(* The Flex and Bison examples of 07-parsers: eight programs that parse    *)
(* expressions or lists of equations, one grammar each, two that only      *)
(* scan, and the archived editions of two of the grammars. A grammar is    *)
(* its list of rules with their semantic actions. Bison's part is          *)
(* external: its tables (LR(1) states, a shift before a reduction, the     *)
(* earlier rule before the later one, default reductions) are computed     *)
(* here from the rules, conflicts included. The input is chosen lexeme by  *)
(* lexeme as the scanner asks for it.                                      *)
(***************************************************************************)
EXTENDS Integers, SequencesExt, FiniteSetsExt

CONSTANTS Lexemes,      \* what the input may consist of
          MaxExpression, MaxEquations, MaxWords   \* bounds on its length

VARIABLES prog,         \* the program
          input,        \* lexemes read so far
          look,         \* the token Bison has asked for and not used, "none" if none
          stack,        \* Bison's stack: state, and semantic value
          printed,      \* lines printed
          status        \* "run", "ok", "error" (a syntax error), "terminate"

vars == <<prog, input, look, stack, printed, status>>

-----------------------------------------------------------------------------
(* The grammars.                                                           *)

Rule(lhs, rhs, act) == [lhs |-> lhs, rhs |-> rhs, act |-> act]

simplest_amb ==
  <<Rule("program", <<"EN">>, "print"),
    Rule("EN", <<"EN", "+", "EN">>, "$1 + $3"), Rule("EN", <<"EN", "*", "EN">>, "$1 * $3"),
    Rule("EN", <<"(", "EN", ")">>, "$2"), Rule("EN", <<"NUMBER">>, "$1")>>

simplest_bad ==
  <<Rule("program", <<"EN">>, "print"),
    Rule("EN", <<"TN">>, "$1"), Rule("EN", <<"EN", "+", "TN">>, "$1 + $3"),
    Rule("TN", <<"TN", "*", "FN">>, "$1 * $3"), Rule("TN", <<"FN">>, "$1"),
    Rule("FN", <<"EN">>, "$1"), Rule("FN", <<"(", "EN", ")">>, "$2"),
    Rule("FN", <<"NUMBER">>, "$1")>>

\* Slip: a factor may be an expression without parentheses.
LrLoops == simplest_bad

simplest_lr ==
  <<Rule("program", <<"EN">>, "print"),
    Rule("EN", <<"EN", "+", "TN">>, "$1 + $3"), Rule("EN", <<"TN">>, "$1"),
    Rule("TN", <<"TN", "*", "FN">>, "$1 * $3"), Rule("TN", <<"FN">>, "$1"),
    Rule("FN", <<"(", "EN", ")">>, "$2"), Rule("FN", <<"NUMBER">>, "$1")>>

simplest_nlr ==
  <<Rule("program", <<"EN">>, "print"),
    Rule("EN", <<"TN", "EPN">>, "$1 + $2"),
    Rule("EPN", <<"+", "TN", "EPN">>, "$2 + $3"), Rule("EPN", << >>, "0"),
    Rule("TN", <<"FN", "TPN">>, "$1 * $2"),
    Rule("TPN", <<"*", "FN", "TPN">>, "$2 * $3"), Rule("TPN", << >>, "1"),
    Rule("FN", <<"(", "EN", ")">>, "$2"), Rule("FN", <<"NUMBER">>, "$1")>>

numgrammar ==
  <<Rule("program", <<"eqlist">>, "nothing"),
    Rule("eqlist", <<"equals", ";", "eqlist">>, "nothing"), Rule("eqlist", << >>, "nothing"),
    Rule("equals", <<"expr", "=", "expr">>, "check"),
    Rule("expr", <<"NUMBER", "arith">>, "$1 + $2"),
    Rule("arith", <<"+", "NUMBER", "arith">>, "$2 + $3"),
    Rule("arith", <<"-", "NUMBER", "arith">>, "-$2 + $3"), Rule("arith", << >>, "0")>>

\* %left names the characters '+' and '-', not the tokens: it decides nothing.
numgrammar_sr ==
  <<Rule("program", <<"eqlist">>, "nothing"),
    Rule("eqlist", <<"equals", ";", "eqlist">>, "nothing"), Rule("eqlist", << >>, "nothing"),
    Rule("equals", <<"expr", "=", "expr">>, "check"),
    Rule("expr", <<"expr", "+", "expr">>, "$1 + $3"),
    Rule("expr", <<"expr", "-", "expr">>, "$1 - $3"), Rule("expr", <<"NUMBER">>, "$1")>>

numgrammar_sr_fixed ==
  <<Rule("program", <<"eqlist">>, "nothing"),
    Rule("eqlist", <<"equals", ";", "eqlist">>, "nothing"), Rule("eqlist", << >>, "nothing"),
    Rule("equals", <<"expr", "=", "expr">>, "check"),
    Rule("expr", <<"expr", "+", "NUMBER">>, "$1 + $3"),
    Rule("expr", <<"expr", "-", "NUMBER">>, "$1 - $3"), Rule("expr", <<"NUMBER">>, "$1")>>

\* Terms are collected in vectors, equations in a vector for the driver.
advgrammar ==
  <<Rule("program", <<"eqlist">>, "insert"),
    Rule("eqlist", <<"equals", ";", "eqlist">>, "push equals"),
    Rule("eqlist", <<"equals", ";">>, "first equals"),
    Rule("equals", <<"expr", "=", "expr">>, "pair"),
    Rule("expr", <<"NUMBER">>, "first term"),
    Rule("expr", <<"expr", "+", "NUMBER">>, "push term"),
    Rule("expr", <<"expr", "-", "NUMBER">>, "push -term")>>

\* The archived editions of the two: conflicts, and no empty list.
old_numgrammar ==
  <<Rule("program", <<"eqlist">>, "nothing"),
    Rule("eqlist", <<"equals", ";", "eqlist">>, "nothing"),
    Rule("eqlist", <<"equals", ";">>, "nothing"),
    Rule("equals", <<"expr", "=", "expr">>, "check"), Rule("expr", <<"NUMBER">>, "$1"),
    Rule("expr", <<"expr", "+", "expr">>, "$1 + $3"),
    Rule("expr", <<"expr", "-", "expr">>, "$1 - $3")>>

old_advgrammar ==
  <<Rule("program", <<"eqlist">>, "old insert"),
    Rule("eqlist", <<"equals", ";", "eqlist">>, "push equals"),
    Rule("eqlist", <<"equals", ";">>, "first equals"),
    Rule("equals", <<"expr", "=", "expr">>, "pair"),
    Rule("expr", <<"NUMBER">>, "first term"),
    Rule("expr", <<"expr", "+", "expr">>, "join terms"),
    Rule("expr", <<"expr", "-", "expr">>, "join -terms")>>

Grammar == [amb |-> simplest_amb, bad |-> simplest_bad, lr |-> simplest_lr,
            nlr |-> simplest_nlr, num |-> numgrammar, sr |-> numgrammar_sr,
            fixed |-> numgrammar_sr_fixed, adv |-> advgrammar,
            oldnum |-> old_numgrammar, oldadv |-> old_advgrammar]

Expressions == {"amb", "bad", "lr", "nlr"}
Equations == {"num", "sr", "fixed", "adv", "oldnum", "oldadv"}
Scanners == {"numexample", "numadvanced"}

-----------------------------------------------------------------------------
(* Scanners: the token of a lexeme, and its value.                         *)

Numbers == [n1 |-> 1, n2 |-> 2, n3 |-> 3, n0 |-> 0]
IsNumber(x) == x \in DOMAIN Numbers

\* simplest.l: any digits are a number.
simplest_l(x) == CASE IsNumber(x) -> "NUMBER"
                   [] x \in {"+", "*", "(", ")"} -> x
                   [] OTHER -> "ERR"

\* numgrammar.l, both: a number does not begin with 0.
numgrammar_l(x) == CASE IsNumber(x) /\ x # "n0" -> "NUMBER"
                     [] x \in {"+", "-", "=", ";"} -> x
                     [] OTHER -> "ERR"

Token(x) == CASE x = "end" -> "end"
              [] x # "end" /\ prog \in Expressions -> simplest_l(x)
              [] OTHER -> numgrammar_l(x)

\* numlex.l prints what it finds; NumLexer keeps it for print_current.
numlex(x) == CASE x \in {"+", "-", "="} -> "operator"
               [] IsNumber(x) /\ x # "n0" -> "number"
               [] OTHER -> "unknown"

NumLexer(x) == CASE x = "+" -> "operator"       \* process_plus
                 [] x = "-" -> "operator"       \* process_minus
                 [] x = "=" -> "operator"       \* process_eq
                 [] IsNumber(x) /\ x # "n0" -> "number"     \* process_digit
                 [] OTHER -> "unknown"          \* process_unknown

-----------------------------------------------------------------------------
(* Bison: states are sets of items, a rule with a dot and a lookahead.     *)

Item(r, dot, la) == [r |-> r, dot |-> dot, la |-> la]

Nonterminals(G) == {G[r].lhs : r \in DOMAIN G}
Symbols(G) == UNION {ToSet(G[r].rhs) : r \in DOMAIN G} \cup Nonterminals(G)
Tokens(G) == (Symbols(G) \ Nonterminals(G)) \cup {"end"}

RECURSIVE EmptiesFrom(_, _)
EmptiesFrom(G, N) ==
  LET more == N \cup {G[r].lhs : r \in {q \in DOMAIN G : ToSet(G[q].rhs) \subseteq N}}
  IN  IF more = N THEN N ELSE EmptiesFrom(G, more)

\* The symbols that may derive nothing.
Empties(G) == EmptiesFrom(G, {})

RECURSIVE BeginsFrom(_, _, _)
BeginsFrom(G, E, F) ==
  LET more == F \cup {p \in Nonterminals(G) \X Tokens(G) :
                        \E r \in DOMAIN G : \E k \in DOMAIN G[r].rhs :
                          /\ G[r].lhs = p[1]
                          /\ \A j \in 1..(k - 1) : G[r].rhs[j] \in E
                          /\ <<G[r].rhs[k], p[2]>> \in F}
  IN  IF more = F THEN F ELSE BeginsFrom(G, E, more)

\* Pairs of a symbol and a token it may begin with.
Begins(G) == BeginsFrom(G, Empties(G), {<<t, t>> : t \in Tokens(G)})

\* What may follow the symbol after the dot of an item.
Follows(G, B, E, i) ==
  LET rest == SubSeq(G[i.r].rhs, i.dot + 2, Len(G[i.r].rhs))
      Upto(k) == \A j \in 1..(k - 1) : rest[j] \in E
  IN {t \in Tokens(G) : \E k \in DOMAIN rest : Upto(k) /\ <<rest[k], t>> \in B}
     \cup IF Upto(Len(rest) + 1) THEN {i.la} ELSE {}

AfterDot(G, i) == IF i.dot < Len(G[i.r].rhs) THEN G[i.r].rhs[i.dot + 1] ELSE "none"

RECURSIVE Closure(_, _, _, _)
Closure(G, B, E, I) ==
  LET more == I \cup UNION {{Item(r, 0, t) : r \in {q \in DOMAIN G : G[q].lhs = AfterDot(G, i)},
                                             t \in Follows(G, B, E, i)}
                            : i \in {k \in I : AfterDot(G, k) \in Nonterminals(G)}}
  IN  IF more = I THEN I ELSE Closure(G, B, E, more)

Goto(G, B, E, I, x) ==
  Closure(G, B, E, {[i EXCEPT !.dot = @ + 1] : i \in {k \in I : AfterDot(G, k) = x}})

RECURSIVE StatesFrom(_, _, _, _)
StatesFrom(G, B, E, S) ==
  LET more == S \cup {Goto(G, B, E, I, x) : I \in S, x \in Symbols(G)}
  IN  IF more = S THEN S ELSE StatesFrom(G, B, E, more)

States(G, B, E, first) ==
  FoldSet(LAMBDA I, s : Append(s, I), <<first>>, StatesFrom(G, B, E, {first}) \ {first, {}})

NumberOf(states, J) == IF J = {} THEN 0 ELSE CHOOSE m \in DOMAIN states : states[m] = J

\* What to do in a state from which the symbols of shifts can be shifted, and in
\* which the items of done have their dot at the end.
Row(G, go, shifts, done) ==
  [go |-> go,
   \* a state that needs no lookahead: one rule, nothing to shift
   sure |-> shifts \cap Tokens(G) = {} /\ Cardinality({i.r : i \in done}) = 1,
   \* the rule to reduce by, the default one for a token no item expects
   reduce |-> [t \in Tokens(G) \cup {"ERR"} |->
                 IF t \in shifts \/ done = {} THEN 0
                 ELSE IF \E i \in done : i.la = t THEN Min({i.r : i \in {d \in done : d.la = t}})
                 ELSE Min({i.r : i \in done})]]

Rows(G, B, E, states) ==
  [k \in DOMAIN states |->
     Row(G, [x \in Symbols(G) |-> NumberOf(states, Goto(G, B, E, states[k], x))],
         {AfterDot(G, i) : i \in states[k]} \ {"none"},
         {i \in states[k] : i.dot = Len(G[i.r].rhs)})]

TablesWith(G, B, E) == Rows(G, B, E, States(G, B, E, Closure(G, B, E, {Item(1, 0, "end")})))

Tables(G) == TablesWith(G, Begins(G), Empties(G))

Table == [g \in DOMAIN Grammar |-> Tables(Grammar[g])]

-----------------------------------------------------------------------------
(* Semantic actions.                                                       *)

Sum(s) == FoldLeft(LAMBDA a, b : a + b, 0, s)

\* What is printed of an equation: both sides.
Line(l, r) == <<l, r>>

\* Slip: the driver keeps the equations as the parser pushed them.
InsertAsPushed(v) == v

\* NumDriver::insert: the list was built from its end.
insert(v) == Reverse(v)

\* The archived driver keeps them in the order they were pushed.
old_insert(v) == v

\* NumDriver::printout
printout(v) == [k \in DOMAIN v |-> Line(Sum(v[k][1]), Sum(v[k][2]))]

Value(act, v) ==
  CASE act = "$1" -> v[1]
    [] act = "$2" -> v[2]
    [] act = "0" -> 0
    [] act = "1" -> 1
    [] act = "$1 + $2" -> v[1] + v[2]
    [] act = "$1 * $2" -> v[1] * v[2]
    [] act = "$1 + $3" -> v[1] + v[3]
    [] act = "$1 - $3" -> v[1] - v[3]
    [] act = "$1 * $3" -> v[1] * v[3]
    [] act = "$2 + $3" -> v[2] + v[3]
    [] act = "$2 * $3" -> v[2] * v[3]
    [] act = "-$2 + $3" -> v[3] - v[2]
    [] act = "first term" -> <<v[1]>>
    [] act = "push term" -> Append(v[1], v[3])
    [] act = "push -term" -> Append(v[1], -v[3])
    [] act = "join terms" -> v[1] \o v[3]
    [] act = "join -terms" -> v[1] \o [k \in DOMAIN v[3] |-> -v[3][k]]
    [] act = "pair" -> <<v[1], v[3]>>
    [] act = "first equals" -> <<v[1]>>
    [] act = "push equals" -> Append(v[3], v[1])
    [] OTHER -> 0

Printed(act, v) ==
  CASE act = "print" -> <<v[1]>>
    [] act = "check" -> <<Line(v[1], v[3])>>
    [] act = "insert" -> printout(insert(v[1]))
    [] act = "old insert" -> printout(old_insert(v[1]))
    [] OTHER -> << >>

-----------------------------------------------------------------------------

Init == /\ prog \in DOMAIN Grammar \cup Scanners
        /\ input = << >> /\ look = "none"
        /\ stack = <<[state |-> 1, val |-> 0]>>
        /\ printed = << >> /\ status = "run"

Top == Table[prog][Last(stack).state]
Parsing == status = "run" /\ prog \in DOMAIN Grammar

MaxLexemes == CASE prog \in Expressions -> MaxExpression
                [] prog \in Equations -> MaxEquations
                [] prog \in Scanners -> MaxWords

NextLexeme == IF Len(input) < MaxLexemes THEN Lexemes \cup {"end"} ELSE {"end"}

\* Driver::yylex: the number is converted at once; the driver of the expressions
\* terminates on a lexeme it does not know.
yylex(x) ==
  /\ Parsing /\ look = "none" /\ ~Top.sure
  /\ input' = IF x = "end" THEN input ELSE Append(input, x)
  /\ look' = Token(x)
  /\ status' = IF Token(x) = "ERR" /\ prog \in Expressions THEN "terminate" ELSE "run"
  /\ UNCHANGED <<prog, stack, printed>>

\* The state after the lookahead is shifted, 0 if it cannot be.
Target == IF look \in DOMAIN Top.go THEN Top.go[look] ELSE 0

Shift ==
  /\ Parsing /\ Target # 0
  /\ stack' = Append(stack, [state |-> Target,
                             val |-> IF look = "NUMBER" THEN Numbers[Last(input)] ELSE 0])
  /\ look' = "none"
  /\ UNCHANGED <<prog, input, printed, status>>

\* The rule that is due, 0 if none; a sure state does not look ahead.
Due == IF Top.sure THEN Max({Top.reduce[t] : t \in DOMAIN Top.reduce})
       ELSE IF look = "none" THEN 0
       ELSE Top.reduce[IF look \in DOMAIN Top.reduce THEN look ELSE "ERR"]

Reduce ==
  /\ Parsing /\ Due > 1
  /\ LET rule == Grammar[prog][Due]
         n == Len(stack) - Len(rule.rhs)
         vals == [k \in DOMAIN rule.rhs |-> stack[n + k].val]
         under == Table[prog][stack[n].state]
     IN /\ stack' = Append(SubSeq(stack, 1, n),
                           [state |-> under.go[rule.lhs], val |-> Value(rule.act, vals)])
        /\ printed' = printed \o Printed(rule.act, vals)
  /\ UNCHANGED <<prog, input, look, status>>

\* The first rule, program, is reduced; what follows must be the end.
Accept ==
  /\ Parsing /\ Due = 1
  /\ LET rule == Grammar[prog][1]
     IN printed' = printed \o Printed(rule.act, <<Last(stack).val>>)
  /\ status' = IF look = "end" THEN "ok" ELSE "error"
  /\ UNCHANGED <<prog, input, look, stack>>

\* parser::error does nothing, and without error rules the parser gives up.
SyntaxError ==
  /\ Parsing /\ look # "none" /\ Due = 0 /\ Target = 0
  /\ status' = "error"
  /\ UNCHANGED <<prog, input, look, stack, printed>>

\* main of the scanners: one line for each lexeme.
ScanNext(x) ==
  /\ status = "run" /\ prog \in Scanners
  /\ IF x = "end" THEN status' = "ok" /\ UNCHANGED <<input, printed>>
     ELSE /\ input' = Append(input, x)
          /\ printed' = Append(printed, IF prog = "numexample" THEN numlex(x) ELSE NumLexer(x))
          /\ UNCHANGED status
  /\ UNCHANGED <<prog, look, stack>>

Work == \/ \E x \in NextLexeme : yylex(x) \/ ScanNext(x)
        \/ Shift \/ Reduce \/ Accept \/ SyntaxError

Next == Work

Spec == Init /\ [][Next]_vars /\ WF_vars(Work)

-----------------------------------------------------------------------------
(* What the inputs mean.                                                   *)

\* Positions of the operators in ops that are in no parentheses.
Depth(s, k) == Cardinality({j \in 1..k : s[j] = "("}) - Cardinality({j \in 1..k : s[j] = ")"})
At(s, ops) == {k \in DOMAIN s : s[k] \in ops /\ Depth(s, k) = 0}
Before(s, k) == SubSeq(s, 1, k - 1)
After(s, k) == SubSeq(s, k + 1, Len(s))

Compute(op, a, b) == CASE op = "+" -> a + b [] op = "-" -> a - b [] op = "*" -> a * b

\* Sums of products, grouped from the left, as arithmetic has it.
RECURSIVE Arithmetic(_)
Arithmetic(s) ==
  LET sums == At(s, {"+", "-"})
      products == At(s, {"*"})
      k == IF sums # {} THEN Max(sums) ELSE Max(products)
  IN IF sums \cup products # {}
     THEN Compute(s[k], Arithmetic(Before(s, k)), Arithmetic(After(s, k)))
     ELSE IF Len(s) = 1 THEN Numbers[s[1]]
     ELSE Arithmetic(SubSeq(s, 2, Len(s) - 1))

\* Every operator takes all that follows it.
RECURSIVE FromTheRight(_)
FromTheRight(s) ==
  LET ops == At(s, {"+", "-", "*"})
      k == Min(ops)
  IN IF ops # {} THEN Compute(s[k], FromTheRight(Before(s, k)), FromTheRight(After(s, k)))
     ELSE IF Len(s) = 1 THEN Numbers[s[1]]
     ELSE FromTheRight(SubSeq(s, 2, Len(s) - 1))

Meaning(s) == IF prog \in {"amb", "sr", "oldnum", "oldadv"} THEN FromTheRight(s) ELSE Arithmetic(s)

\* The lines an accepted input calls for.
RECURSIVE LinesOf(_)
LinesOf(s) ==
  LET semi == SelectInSeq(s, LAMBDA x : x = ";")
      eq == SelectInSeq(s, LAMBDA x : x = "=")
  IN IF s = << >> THEN << >>
     ELSE <<Line(Meaning(Before(s, eq)), Meaning(SubSeq(s, eq + 1, semi - 1)))>>
          \o LinesOf(After(s, semi))

Wanted == CASE prog \in Expressions -> <<Meaning(input)>>
            [] prog = "oldadv" -> Reverse(LinesOf(input))
            [] OTHER -> LinesOf(input)

-----------------------------------------------------------------------------
(* Properties.                                                             *)

\* An accepted input is answered as arithmetic has it, equation by equation and
\* in the order of the input (advgrammar collects them backwards and turns them
\* round, its archived edition does not); the four grammars with conflicts group
\* from the right whatever the operators are.  The two scanners print the same.
AnswersRight ==
  status = "ok" =>
    printed = IF prog \in Scanners THEN [k \in DOMAIN input |-> numlex(input[k])] ELSE Wanted

\* Every parser but the one of simplest-bad, which on a sum reduces in a circle,
\* comes to an end on every input.
AllEnd == prog # "bad" => <>(status # "run")
=============================================================================
