---------------------------- MODULE ParaclNaive -----------------------------
(***************************************************************************)
(* ParaCL of archive/13-llvm/01-naive, the first version.  The grammar and *)
(* the tables are those of Paracl, whose parser it shares here; the nodes  *)
(* calculate and generate code themselves, if and while generate none yet  *)
(* ("to implement"), and an error ends the process at once, without a      *)
(* destructor.  The same source is built twice: CODEGEN is 0 for the       *)
(* interpreter and 1 for the compiler.                                     *)
(***************************************************************************)
EXTENDS Paracl

Ops == {"Plus", "Minus", "Assign", "StdOut", "StdIn", "Div", "Mul", "Mod", "Not", "And",
        "Or"} \cup Relations

-----------------------------------------------------------------------------
(* calc, without code generation.                                          *)

Value_calc(e, s) == [s EXCEPT !.val = e.val]

\* val of a declaration is uninitialised until SetValue.
Decl_calc(e, s) ==
  [s EXCEPT !.val = s.mem[e.decl], !.undefined = @ \/ e.decl \notin s.assigned]

Decl_SetValue(e, r) ==
  IF Halted(r) THEN r
  ELSE [r EXCEPT !.mem[e.decl] = r.val, !.assigned = @ \cup {e.decl}]

StdIn_calc(s) ==
  IF s.in = << >> THEN [s EXCEPT !.val = 0, !.ended = TRUE]
  ELSE [s EXCEPT !.val = Head(s.in), !.in = Tail(@)]

Shown(r) == IF Halted(r) THEN r ELSE [r EXCEPT !.out = Append(@, r.val)]

RECURSIVE ncalc(_, _)

\* Operands from left to right; && and || may not come to the second; the divisor is
\* calculated once for the test and again for the quotient, % has no test.
Op_calc(e, s) ==
  LET l == ncalc(e.left, s)
      r == ncalc(e.right, l)
  IN CASE e.op = "Assign" -> Decl_SetValue(e.left, ncalc(e.right, s))
       [] e.op = "StdOut" -> Shown(ncalc(e.right, s))
       [] e.op = "StdIn" -> StdIn_calc(s)
       [] e.op = "Not" -> LET n == ncalc(e.right, s) IN Answer(n, Bool(n.val = 0))
       [] e.op = "And" -> IF l.val = 0 THEN l ELSE Answer(r, Bool(r.val # 0))
       [] e.op = "Or" -> IF l.val # 0 THEN Answer(l, 1) ELSE Answer(r, Bool(r.val # 0))
       [] e.op = "Div" ->
            LET divisor == ncalc(e.right, s)
                l2 == ncalc(e.left, divisor)
                r2 == ncalc(e.right, l2)
            IN CASE Halted(divisor) -> divisor
                 [] divisor.val = 0 -> [divisor EXCEPT !.status = "exit"]
                 [] OTHER -> IF Halted(r2) THEN r2 ELSE Divided("Div", l2, r2)
       [] OTHER -> IF Halted(r) THEN r ELSE Divided(e.op, l, r)

Scope_calc(e, s) == FoldLeft(LAMBDA t, b : ncalc(b, t), s, scopes[e.scope].branches)

If_calc(e, s) ==
  LET c == ncalc(e.cond, s)
  IN IF c.val # 0 THEN ncalc(ScopeNode(e.scope), c) ELSE c

While_calc(e, s) ==
  LET c == ncalc(e.cond, s)
  IN IF c.val # 0 THEN ncalc(e, Step(ncalc(ScopeNode(e.scope), c))) ELSE c

\* The virtual call.
ncalc(e, s) ==
  CASE Halted(s) -> s
    [] ~Halted(s) /\ e.op = "Value" -> Value_calc(e, s)
    [] ~Halted(s) /\ e.op = "Decl" -> Decl_calc(e, s)
    [] ~Halted(s) /\ e.op = "Scope" -> Scope_calc(e, s)
    [] ~Halted(s) /\ e.op = "If" -> If_calc(e, s)
    [] ~Halted(s) /\ e.op = "While" -> While_calc(e, s)
    [] ~Halted(s) /\ e.op \in Ops -> Op_calc(e, s)

-----------------------------------------------------------------------------
(* codegen: one block, in which an instruction stands for its node.        *)

RECURSIVE Scope_codegen(_)

If_codegen == << >>
While_codegen == << >>

ncodegen(e) ==
  CASE e.op = "Scope" -> Scope_codegen(e)
    [] e.op = "If" -> If_codegen
    [] e.op = "While" -> While_codegen
    [] OTHER -> <<e>>

Scope_codegen(e) ==
  FlattenSeq([k \in DOMAIN scopes[e.scope].branches |->
                ncodegen(scopes[e.scope].branches[k])])

\* What the instructions do when they are run: Decl::codegen loads from, Decl::assign
\* stores to the slot of the name; Op::codegen emits both operands, then the
\* operation; input and output are calls of pcllib.
RECURSIVE Op_codegen(_, _)
Op_codegen(e, s) ==
  LET r == Op_codegen(e.right, Op_codegen(e.left, s))
  IN CASE Halted(s) \/ e.op = "nullptr" -> s
       [] ~Halted(s) /\ e.op = "Value" -> [s EXCEPT !.val = e.val]
       [] ~Halted(s) /\ e.op = "Decl" -> [s EXCEPT !.val = s.mem[Slot(e.decl)]]
       [] ~Halted(s) /\ e.op = "StdIn" ->
            IF s.in = << >> THEN [s EXCEPT !.status = "exit"]
            ELSE [s EXCEPT !.val = Head(s.in), !.in = Tail(@)]
       [] ~Halted(s) /\ e.op = "StdOut" -> Shown(r)
       [] ~Halted(s) /\ e.op = "Assign" ->
            IF Halted(r) THEN r ELSE [r EXCEPT !.mem[Slot(e.left.decl)] = r.val]
       [] OTHER ->
            IF Halted(r) THEN r ELSE Divided(e.op, Op_codegen(e.left, s), r)

RunBlock(code, s) == FoldLeft(LAMBDA u, e : Op_codegen(e, u), s, code)

-----------------------------------------------------------------------------
(* wholeProgramAction, and the end of main.                                *)

Finished(s) == IF Halted(s) THEN s ELSE [s EXCEPT !.status = "done"]

wholeProgramAction(in) ==
  /\ phase = "run"
  /\ interpreted' = Finished(ncalc(ScopeNode(CurrentScope), Start(in)))
  /\ compiled' = Finished(RunBlock(Scope_codegen(ScopeNode(CurrentScope)), Start(in)))
  /\ phase' = "destroy"
  /\ UNCHANGED <<language, items, tree, accepted, destroyed>>

Looks(c) == IF c.op = "Decl" THEN <<[what |-> "look", id |-> c.decl]>> ELSE << >>

RECURSIVE Dtor(_)

\* ~Op, ~If and ~While ask a child for its type and leave declarations alone.
Op_dtor(e) == Looks(e.left) \o Dtor(e.left) \o Looks(e.right) \o Dtor(e.right)
If_dtor(e) == Looks(e.cond) \o Dtor(e.cond) \o Dtor(ScopeNode(e.scope))

\* Slip: the table is freed before the branches are deleted.
ScopeDtorTableFirst(e) ==
  LET sc == scopes[e.scope]
  IN [k \in DOMAIN Declared(e.scope) |-> [what |-> "decl", id |-> Declared(e.scope)[k]]]
     \o FlattenSeq([k \in DOMAIN sc.branches |-> Dtor(sc.branches[k])])
     \o <<[what |-> "scope", id |-> e.scope]>>

\* Branches first, then Symtab::free for the scope.
Scope_dtor(e) ==
  LET sc == scopes[e.scope]
  IN FlattenSeq([k \in DOMAIN sc.branches |-> Dtor(sc.branches[k])])
     \o [k \in DOMAIN Declared(e.scope) |-> [what |-> "decl", id |-> Declared(e.scope)[k]]]
     \o <<[what |-> "scope", id |-> e.scope]>>

Dtor(e) == CASE e.op \in Leaves -> << >>
             [] e.op = "Scope" -> Scope_dtor(e)
             [] e.op \in {"If", "While"} -> If_dtor(e)
             [] OTHER -> Op_dtor(e)

\* exit(1), from PrintError while the program is parsed or from a division.
Exits == ~accepted \/ interpreted.status = "exit"

PrintError ==
  /\ phase = "destroy" /\ Exits
  /\ phase' = "end"
  /\ UNCHANGED <<language, items, tree, accepted, interpreted, compiled, destroyed>>

\* delete currentScope
main ==
  /\ phase = "destroy" /\ ~Exits
  /\ destroyed' = Dtor(ScopeNode(CurrentScope))
  /\ phase' = "end"
  /\ UNCHANGED <<language, items, tree, accepted, interpreted, compiled>>

NaiveNext ==
  \/ Parse
  \/ \E in \in Inputs : wholeProgramAction(in)
  \/ PrintError \/ main \/ Ended

-----------------------------------------------------------------------------
(* Properties.                                                             *)

\* The tree as the compiler sees it, without its ifs and whiles.
RECURSIVE Straight(_)
Straight(e) ==
  IF e.op # "Scope" THEN <<e>>
  ELSE FlattenSeq([k \in DOMAIN scopes[e.scope].branches |->
                     LET b == scopes[e.scope].branches[k]
                     IN IF b.op \in {"If", "While"} THEN << >> ELSE Straight(b)])

NaivePortable == \A e \in Range(Straight(ScopeNode(1))) : Portable(e)
Branches == \E n \in Nodes : n.op \in {"If", "While"}

\* A program without if and while prints the same interpreted and compiled, although
\* all variables of one name share a slot; with them the compiled one does what
\* is left when they are cut out, wherever they stand.
NaiveSameOutput ==
  phase \in {"destroy", "end"} /\ accepted /\ NaivePortable =>
    LET cut == FoldLeft(LAMBDA t, e : ncalc(e, t), Start(interpreted.given), Straight(ScopeNode(1)))
    IN cut.status = "ok" /\ ~cut.undefined =>
         /\ IF cut.ended THEN compiled.status = "exit" /\ IsPrefix(compiled.out, cut.out)
            ELSE compiled.status = "done" /\ compiled.out = cut.out
         /\ ~Branches => interpreted.out = cut.out
=============================================================================
