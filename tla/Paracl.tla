------------------------------- MODULE Paracl -------------------------------
(***************************************************************************)
(* ParaCL of 15-llvm: the parser's actions (compiler.y) build a tree of    *)
(* scopes and a symbol table; ParaCLi interprets the tree (calc), ParaCL   *)
(* generates LLVM IR from it (codegen), which is linked with pcllib.       *)
(*                                                                         *)
(* The program text is an arbitrary sequence of statements, heads and      *)
(* braces; lexing and the grouping of expressions are done by Flex and     *)
(* Bison.  Then the tree is run both ways on the same standard input and   *)
(* destroyed.  A variable of the interpreter is its declaration; one of    *)
(* the generated code is the stack slot that NamedValues_ has for its name.*)
(***************************************************************************)
EXTENDS ParaclNodes, Integers, Sequences, FiniteSets, SequencesExt

CONSTANTS Names,
          Fragments,       \* of the language: what may be assigned, printed and
                           \* tested, and a bound on the statements, heads and braces
          Inputs,          \* what standard input may hold
          MaxSteps         \* bound on the statements a run executes

VARIABLES
  language,       \* the fragment the program is written in
  phase,          \* "parse", "run", "destroy", "end"
  items,          \* how many the parser has read
  scopes,         \* PrevScope_, Branches_ and the table of each scope made
  CurrentScope,
  pending,        \* blocks and heads whose end has not come yet, innermost last
  names,          \* Varname_ of each declaration
  NamedValues_,   \* the slot of each name, 0 when there is none
  selfRead,       \* history: a declaring assignment reads what it declares
  accepted,       \* the whole program was parsed
  interpreted,    \* the outcome of ParaCLi
  compiled,       \* the outcome of the generated program
  destroyed       \* what the destructors did, in order

tree == <<scopes, CurrentScope, pending, names, NamedValues_, selfRead>>
vars == <<language, phase, items, tree, accepted, interpreted, compiled, destroyed>>

-----------------------------------------------------------------------------
(* Scopes                                                                  *)

\* Scope(prev), with an empty table.
NewScope(prev) == [prev |-> prev, branches |-> << >>, table |-> [x \in Names |-> 0]]

RECURSIVE visible(_, _, _)
visible(sc, s, x) ==
  CASE s = 0 -> 0
    [] s # 0 /\ sc[s].table[x] # 0 -> sc[s].table[x]
    [] OTHER -> visible(sc, sc[s].prev, x)

\* What the rule expr: NAME does to the names in an expression.
RECURSIVE Bound(_, _, _)
Bound(sc, s, e) ==
  CASE e.op = "Name" -> Decl(visible(sc, s, e.name))
    [] e.op \in Leaves \ {"Name"} -> e
    [] OTHER -> makeOperand(Bound(sc, s, e.left), e.op, Bound(sc, s, e.right))

Undeclared(e) == Decl(0) \in Subterms(e)

\* A run: memory and input, what was printed, the value computed last, and whether
\* a variable was read before its first assignment or the input after its end.
Start(in) == [mem |-> [d \in 1..Len(names) |-> 0], assigned |-> {}, in |-> in, out |-> << >>,
              val |-> 0, steps |-> 0, status |-> "ok", undefined |-> FALSE, ended |-> FALSE,
              given |-> in]
NotRun == [status |-> "none"]

Init ==
  /\ language \in Fragments
  /\ phase = "parse"
  /\ items = 0
  /\ scopes = <<NewScope(0)>>
  /\ CurrentScope = 1
  /\ pending = << >>
  /\ names = << >>
  /\ NamedValues_ = [x \in Names |-> 0]
  /\ selfRead = FALSE
  /\ accepted = FALSE
  /\ interpreted = NotRun
  /\ compiled = NotRun
  /\ destroyed = << >>

-----------------------------------------------------------------------------
(* compiler.y                                                              *)

\* A statement or scope is complete: it is added to the current scope; if a head
\* was waiting for it, that scope is closed and the if or while is complete too.
RECURSIVE Completed(_, _)
Completed(p, stm) ==
  LET added == [p.sc EXCEPT ![p.cur].branches = Append(@, stm)]
      head == Last(p.pend)
  IN IF p.pend = << >> \/ head.op = "block"
     THEN [p EXCEPT !.sc = added]
     ELSE Completed([sc |-> added, cur |-> added[p.cur].prev, pend |-> Front(p.pend)],
                    IF head.op = "if" THEN makeIf(head.cond, p.cur)
                                      ELSE makeWhile(head.cond, p.cur))

Reduce(sc, cur, pend, stm) ==
  LET p == Completed([sc |-> sc, cur |-> cur, pend |-> pend], stm)
  IN scopes' = p.sc /\ CurrentScope' = p.cur /\ pending' = p.pend

Reading == /\ phase = "parse"
           /\ items < language.items
           /\ items' = items + 1
           /\ UNCHANGED language

\* PrintError throws; the scopes that are open are not reachable from the root.
Rejected == /\ phase' = "destroy"
            /\ UNCHANGED <<CurrentScope, pending, selfRead, accepted, interpreted, compiled,
                           destroyed>>

Parsed == UNCHANGED <<phase, accepted, interpreted, compiled, destroyed>>

\* Slip: access looks only into the scope it is called for.
accessHere(x) ==
  IF scopes[CurrentScope].table[x] # 0 THEN <<scopes, names, NamedValues_>>
  ELSE LET d == Len(names) + 1
       IN <<[scopes EXCEPT ![CurrentScope].table[x] = d], Append(names, x),
            [NamedValues_ EXCEPT ![x] = d]>>

\* Slip: every variable is declared in the outermost scope.
accessRoot(x) ==
  IF visible(scopes, CurrentScope, x) # 0 THEN <<scopes, names, NamedValues_>>
  ELSE LET d == Len(names) + 1
       IN <<[scopes EXCEPT ![1].table[x] = d], Append(names, x),
            [NamedValues_ EXCEPT ![x] = d]>>

\* Scope::access and CodeGen::AddDecl: the tables after it.
access(x) ==
  IF visible(scopes, CurrentScope, x) # 0 THEN <<scopes, names, NamedValues_>>
  ELSE LET d == Len(names) + 1
       IN <<[scopes EXCEPT ![CurrentScope].table[x] = d], Append(names, x),
            [NamedValues_ EXCEPT ![x] = d]>>

\* lval ASG expr SM: the left side is looked up, and declared, first.
assign(x, e) ==
  /\ Reading
  /\ LET a == access(x)
         rhs == Bound(a[1], CurrentScope, e)
         lhs == Decl(visible(a[1], CurrentScope, x))
     IN /\ names' = a[2]
        /\ NamedValues_' = a[3]
        /\ IF Undeclared(rhs) THEN Rejected /\ scopes' = a[1]
           ELSE
             /\ Reduce(a[1], CurrentScope, pending, makeOperand(lhs, "Assign", rhs))
             /\ selfRead' = (selfRead \/ (a[2] # names /\ lhs \in Subterms(rhs)))
             /\ Parsed

output(e) ==
  /\ Reading
  /\ LET arg == Bound(scopes, CurrentScope, e)
     IN IF Undeclared(arg) THEN Rejected /\ UNCHANGED <<scopes, names, NamedValues_>>
        ELSE /\ Reduce(scopes, CurrentScope, pending, makeOperand(nullptr, "StdOut", arg))
             /\ UNCHANGED <<names, NamedValues_, selfRead>>
             /\ Parsed

\* if_head and while_head: the condition is looked up outside the scope they open.
head(kind, c) ==
  /\ Reading
  /\ LET cond == Bound(scopes, CurrentScope, c)
     IN IF Undeclared(cond) THEN Rejected /\ UNCHANGED <<scopes, names, NamedValues_>>
        ELSE /\ scopes' = Append(scopes, NewScope(CurrentScope))
             /\ CurrentScope' = Len(scopes) + 1
             /\ pending' = Append(pending, [op |-> kind, cond |-> cond])
             /\ UNCHANGED <<names, NamedValues_, selfRead>>
             /\ Parsed

AfterHead == pending # << >> /\ Last(pending).op # "block"

\* A scope is the body of a head, or comes after a statement.
open_sc ==
  /\ Reading
  /\ AfterHead \/ scopes[CurrentScope].branches # << >>
  /\ scopes' = Append(scopes, NewScope(CurrentScope))
  /\ CurrentScope' = Len(scopes) + 1
  /\ pending' = Append(pending, [op |-> "block"])
  /\ UNCHANGED <<names, NamedValues_, selfRead>>
  /\ Parsed

close_sc ==
  /\ Reading
  /\ pending # << >> /\ ~AfterHead
  /\ scopes[CurrentScope].branches # << >>
  /\ Reduce(scopes, scopes[CurrentScope].prev, Front(pending), ScopeNode(CurrentScope))
  /\ UNCHANGED <<names, NamedValues_, selfRead>>
  /\ Parsed

\* Whatever else comes, or the end of the file too early.
yyerror ==
  /\ phase = "parse"
  /\ Rejected
  /\ UNCHANGED <<language, items, scopes, names, NamedValues_>>

\* The end of the file where a program may end.
program ==
  /\ phase = "parse"
  /\ pending = << >>
  /\ scopes[CurrentScope].branches # << >>
  /\ phase' = "run"
  /\ accepted' = TRUE
  /\ UNCHANGED <<language, items, tree, interpreted, compiled, destroyed>>

-----------------------------------------------------------------------------
(* The operations on integers that both ways of running share.             *)

Bool(p) == IF p THEN 1 ELSE 0

\* Division of C++ and of sdiv rounds to zero.
Quotient(a, b) ==
  LET q == (IF a < 0 THEN -a ELSE a) \div (IF b < 0 THEN -b ELSE b)
  IN IF (a < 0) = (b < 0) THEN q ELSE -q

Apply(o, a, b) ==
  CASE o = "Plus" -> a + b          [] o = "Minus" -> a - b
    [] o = "Mul" -> a * b           [] o = "Div" -> Quotient(a, b)
    [] o = "Mod" -> a - b * Quotient(a, b)
    [] o = "Greater" -> Bool(a > b) [] o = "GreaterEq" -> Bool(a >= b)
    [] o = "Less" -> Bool(a < b)    [] o = "LessEq" -> Bool(a <= b)
    [] o = "Equal" -> Bool(a = b)   [] o = "NotEqual" -> Bool(a # b)
    [] o = "And" -> Bool(a # 0 /\ b # 0)
    [] o = "Or" -> Bool(a # 0 \/ b # 0)

\* A division by zero is undefined behaviour.
Divided(o, l, r) ==
  IF o \in {"Div", "Mod"} /\ r.val = 0 THEN [r EXCEPT !.status = "trap"]
  ELSE [r EXCEPT !.val = Apply(o, l.val, r.val)]

Halted(s) == s.status # "ok"
Answer(s, v) == IF Halted(s) THEN s ELSE [s EXCEPT !.val = v]

Step(s) == [s EXCEPT !.steps = @ + 1, !.status = IF s.steps >= MaxSteps THEN "long" ELSE @]

-----------------------------------------------------------------------------
(* calc, the interpreter: operands are evaluated from left to right.       *)

RECURSIVE calc(_, _)
calc(e, s) ==
  IF Halted(s) THEN s ELSE
  CASE e.op = "Value" -> [s EXCEPT !.val = e.val]
    [] e.op = "Decl" ->
         [s EXCEPT !.val = s.mem[e.decl],
                   !.undefined = @ \/ e.decl \notin s.assigned]
    [] e.op = "StdIn" ->
         IF s.in = << >> THEN [s EXCEPT !.val = 0, !.ended = TRUE]
         ELSE [s EXCEPT !.val = Head(s.in), !.in = Tail(@)]
    [] e.op = "Assign" ->
         LET r == calc(e.right, s)
         IN IF Halted(r) THEN r
            ELSE [r EXCEPT !.mem[e.left.decl] = r.val, !.assigned = @ \cup {e.left.decl}]
    [] e.op = "StdOut" ->
         LET r == calc(e.right, s)
         IN IF Halted(r) THEN r ELSE [r EXCEPT !.out = Append(@, r.val)]
    [] e.op = "Not" ->
         LET r == calc(e.right, s) IN Answer(r, Bool(r.val = 0))
    [] e.op \in {"And", "Or"} ->
         LET l == calc(e.left, s)
             r == calc(e.right, l)
         IN IF Bool(l.val # 0) = Bool(e.op = "Or") THEN Answer(l, Bool(e.op = "Or"))
            ELSE Answer(r, Bool(r.val # 0))
    [] e.op = "Div" ->          \* the divisor is evaluated twice
         LET test == calc(e.right, s)
             l == calc(e.left, test)
             r == calc(e.right, l)
         IN IF ~Halted(test) /\ test.val = 0 THEN [test EXCEPT !.status = "threw"]
            ELSE IF Halted(r) THEN r ELSE Divided(e.op, l, r)
    [] e.op = "Scope" ->
         FoldLeft(LAMBDA t, b : calc(b, t), s, scopes[e.scope].branches)
    [] e.op = "If" ->
         LET c == calc(e.cond, s)
         IN IF c.val # 0 THEN calc(ScopeNode(e.scope), c) ELSE c
    [] e.op = "While" ->
         LET c == calc(e.cond, s)
         IN IF c.val # 0 THEN calc(e, Step(calc(ScopeNode(e.scope), c))) ELSE c
    [] OTHER ->
         LET l == calc(e.left, s)
             r == calc(e.right, l)
         IN IF Halted(r) THEN r ELSE Divided(e.op, l, r)

-----------------------------------------------------------------------------
(* codegen: blocks of straight-line code.  An instruction is the node it   *)
(* is generated from; term is how the block ends.                          *)

NewBlock == [code |-> << >>, term |-> [op |-> "none"]]
Br(b) == [op |-> "br", to |-> b]
CondBr(c, b1, b2) == [op |-> "condbr", cond |-> c, then |-> b1, else |-> b2]
Ret == [op |-> "ret"]

Ends(g, term) == [g EXCEPT !.blocks[g.at].term = term]
SetInsertPoint(g, b) == [g EXCEPT !.at = b]
AddBlocks(g) == [g EXCEPT !.blocks = @ \o <<NewBlock, NewBlock>>]

\* StartIf and StartWhile: the body comes next, and the block after it last.
StartBody(g, c) ==
  LET body == Len(g.blocks) + 1
  IN SetInsertPoint(Ends(AddBlocks(g), CondBr(c, body, body + 1)), body)

EndWhile(g, c, body) == SetInsertPoint(Ends(g, CondBr(c, body, body + 1)), body + 1)
EndIf(g, body) == SetInsertPoint(Ends(g, Br(body + 1)), body + 1)

RECURSIVE codegen(_, _)
codegen(e, g) ==
  LET body == Len(g.blocks) + 1
      Inside == codegen(ScopeNode(e.scope), StartBody(g, e.cond))
  IN CASE e.op = "Scope" ->
            FoldLeft(LAMBDA h, b : codegen(b, h), g, scopes[e.scope].branches)
       [] e.op = "If" -> EndIf(Inside, body)
       [] e.op = "While" -> EndWhile(Inside, e.cond, body)
       [] OTHER -> [g EXCEPT !.blocks[g.at].code = Append(@, e)]

\* StartFunction, the tree, EndCurrentFunction.
Generated == Ends(codegen(ScopeNode(1), [blocks |-> <<NewBlock>>, at |-> 1]), Ret).blocks

\* Comparisons have the type i1, everything else i32.
RECURSIVE IsI1(_)
IsI1(e) == \/ e.op \in Relations
           \/ e.op = "Not" /\ IsI1(e.right)
           \/ e.op \in {"And", "Or"} /\ IsI1(e.left) /\ IsI1(e.right)

Nodes == UNION {Range(scopes[k].branches) : k \in DOMAIN scopes}
Tested == {n.cond : n \in {m \in Nodes : m.op \in {"If", "While"}}}

\* A branch takes an i1: otherwise clang refuses the module.
ValidModule == \A c \in Tested : IsI1(c)

-----------------------------------------------------------------------------
(* The generated program, linked with pcllib.                              *)

Slot(d) == NamedValues_[names[d]]

\* The code that AddOperation emits for a node: both operands, then the operation.
RECURSIVE eval(_, _)
eval(e, s) ==
  IF Halted(s) THEN s ELSE
  CASE e.op = "nullptr" -> s
    [] e.op = "Value" -> [s EXCEPT !.val = e.val]
    [] e.op = "Decl" -> [s EXCEPT !.val = s.mem[Slot(e.decl)]]
    [] e.op = "StdIn" ->                                  \* __pcl_scan
         IF s.in = << >> THEN [s EXCEPT !.status = "exit"]
         ELSE [s EXCEPT !.val = Head(s.in), !.in = Tail(@)]
    [] e.op = "Assign" ->
         LET r == eval(e.right, eval(e.left, s))
         IN IF Halted(r) THEN r ELSE [r EXCEPT !.mem[Slot(e.left.decl)] = r.val]
    [] e.op = "StdOut" ->                                 \* __pcl_print
         LET r == eval(e.right, s)
         IN IF Halted(r) THEN r ELSE [r EXCEPT !.out = Append(@, r.val)]
    [] e.op = "Not" -> LET r == eval(e.right, s) IN Answer(r, 1 - r.val)
    [] OTHER ->
         LET l == eval(e.left, s)
             r == eval(e.right, l)
         IN IF Halted(r) THEN r ELSE Divided(e.op, l, r)

RECURSIVE exec(_, _, _)
exec(blocks, b, s) ==
  LET t == FoldLeft(LAMBDA u, e : eval(e, u), s, blocks[b].code)
      term == blocks[b].term
      c == eval(term.cond, t)
  IN IF Halted(t) THEN t ELSE
     CASE term.op = "ret" -> [t EXCEPT !.status = "done"]
       [] term.op = "br" -> exec(blocks, term.to, t)
       [] term.op = "condbr" ->
            IF Halted(c) THEN c
            ELSE IF c.val # 0 THEN exec(blocks, term.then, Step(c))
            ELSE exec(blocks, term.else, c)

-----------------------------------------------------------------------------
(* wholeProgramAction of the two programs, and their end.                  *)

Run(in) ==
  /\ phase = "run"
  /\ LET i == calc(ScopeNode(1), Start(in))
     IN interpreted' = IF Halted(i) THEN i ELSE [i EXCEPT !.status = "done"]
  /\ compiled' = IF ValidModule THEN exec(Generated, 1, Start(in))
                 ELSE [Start(in) EXCEPT !.status = "invalid"]
  /\ phase' = "destroy"
  /\ UNCHANGED <<language, items, tree, accepted, destroyed>>

\* The destructors ask a child for its type and leave declarations alone.
Child(c) == IF c.op = "Decl" THEN <<[what |-> "look", id |-> c.decl]>> ELSE << >>

Declared(k) == SetToSeq({scopes[k].table[x] : x \in Names} \ {0})

\* The looks at declarations, and the deletions of declarations and scopes, that
\* deleting a node leads to.
RECURSIVE Deleted(_)
Deleted(e) ==
  CASE e.op = "Scope" ->
         FlattenSeq([k \in DOMAIN scopes[e.scope].branches |->
                       Deleted(scopes[e.scope].branches[k])])
         \o [k \in DOMAIN Declared(e.scope) |->
               [what |-> "decl", id |-> Declared(e.scope)[k]]]
         \o <<[what |-> "scope", id |-> e.scope]>>
    [] e.op \in {"If", "While"} ->
         Child(e.cond) \o Deleted(e.cond) \o Deleted(ScopeNode(e.scope))
    [] e.op \in Leaves -> << >>
    [] OTHER -> Child(e.left) \o Deleted(e.left) \o Child(e.right) \o Deleted(e.right)

\* CurrentScopeOwner deletes the root, also when an exception leaves main.
Destroy ==
  /\ phase = "destroy"
  /\ destroyed' = Deleted(ScopeNode(1))
  /\ phase' = "end"
  /\ UNCHANGED <<language, items, tree, accepted, interpreted, compiled>>

Ended == phase = "end" /\ UNCHANGED vars

Parse ==
  \/ \E x \in Names, e \in language.assigned : assign(x, e)
  \/ \E e \in language.printed : output(e)
  \/ \E c \in language.tested, kind \in {"if", "while"} : head(kind, c)
  \/ open_sc \/ close_sc \/ yyerror \/ program

Next ==
  \/ Parse
  \/ \E in \in Inputs : Run(in)
  \/ Destroy \/ Ended

Spec == Init /\ [][Next]_vars

-----------------------------------------------------------------------------
\* The interpreter reads a variable before anything was assigned to it only if an
\* assignment that declares a variable reads it, as x = x does: a name that is
\* visible where it is read has been assigned whenever control comes there, in
\* whatever way heads, loops and blocks are nested.
DefinedBeforeRead ==
  interpreted.status # "none" /\ interpreted.undefined => selfRead

\* Where the two programs may differ: an operand that && or || skips in the
\* interpreter, and a divisor that it evaluates twice, must not read or trap.
Effects == {"StdIn", "Div", "Mod"}
HasEffect(e) == \E f \in Subterms(e) : f.op \in Effects
Portable(e) ==
  \A f \in Subterms(e) : f.op \in {"And", "Or", "Div"} => ~HasEffect(f.right)
Used == Tested \cup (Nodes \ {n \in Nodes : n.op \in {"Scope", "If", "While"}})

\* ParaCL and ParaCLi agree: a program that the interpreter runs to its end and
\* clang accepts prints the same when compiled, although all variables of one name
\* share the slot of the last one declared; if the input ends early, it has
\* printed the same up to there.
SameOutput ==
  /\ interpreted.status = "done" /\ ~interpreted.undefined
  /\ compiled.status # "invalid"
  /\ \A e \in Used : Portable(e)
  => IF interpreted.ended
     THEN compiled.status = "exit" /\ IsPrefix(compiled.out, interpreted.out)
     ELSE compiled.status = "done" /\ compiled.out = interpreted.out

\* Destructors look at a declaration only while it exists, delete nothing twice
\* and, when the program was accepted, forget nothing, although declarations
\* belong to the symbol table and nodes of other scopes point to them.
DestructorsSafe ==
  phase = "end" =>
    /\ \A k, m \in DOMAIN destroyed :
         (k < m /\ destroyed[k].what = "decl" /\ destroyed[m].id = destroyed[k].id)
           => destroyed[m].what = "scope"
    /\ accepted => /\ \A d \in DOMAIN names : [what |-> "decl", id |-> d] \in Range(destroyed)
                   /\ \A k \in DOMAIN scopes : [what |-> "scope", id |-> k] \in Range(destroyed)
    /\ \A k, m \in DOMAIN destroyed :
         (k # m /\ destroyed[k] = destroyed[m]) => destroyed[k].what = "look"
=============================================================================
