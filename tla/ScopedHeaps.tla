----------------------------- MODULE ScopedHeaps ----------------------------
(***************************************************************************)
(* Programs about who deletes what: the scoped pointers of 04-raii         *)
(* (scopeswap.cc and drilldown.cc) under std::swap, copies and moves, and  *)
(* the stacks of Heavy objects of 13-sfinae and archive/older/emplace,     *)
(* which push copies or emplace.  An operation is the sequence of its      *)
(* steps on named slots; what allocates may throw, and the temporaries are *)
(* then dropped on the way out.                                            *)
(***************************************************************************)
EXTENDS Naturals, Sequences, FiniteSets, SequencesExt, FiniteSetsExt, Functions

CONSTANTS Blocks, nullptr,    \* addresses that operator new may return
          MaxNodes            \* bound on the nodes of a stack

Owners == <<"s1", "s2", "s3">>            \* the scoped pointers
Temps == {"tmp", "temp", "arg", "node", "elem"}

VARIABLES
  prog,    \* "nomove", "move", "drilldown", or the kind of stack
  own,     \* the block that each slot holds
  heap,    \* what is in a block, "free" when it is not allocated
  op,      \* the steps still to be made
  stack,   \* the nodes from top_ on: their block and their Heavy
  want,    \* history: the value each scoped pointer should hold, nullptr for none
  state    \* "run", "over" (left the scope), "double" (deleted twice), "null", "dangling"

vars == <<prog, own, heap, op, stack, want, state>>

Scoped == {"nomove", "move", "drilldown"}
Stacks == {"ineff", "older-ineff", "eff", "older-emplace", "older-optimized"}

Used == {b \in Blocks : heap[b] # "free"}
\* The allocator of the model returns no block that a dangling pointer still names, so
\* that a use of that pointer is always seen.
Fresh == CHOOSE b \in Blocks \ (Used \cup Range(own)) : TRUE

\* main makes two scoped pointers, or an empty stack.
Init ==
  /\ prog \in Scoped \cup Stacks
  /\ stack = << >> /\ op = << >> /\ state = "run"
  /\ LET b == CHOOSE f \in [{"s1", "s2"} -> Blocks] : f["s1"] # f["s2"]
     IN IF prog \in Scoped
        THEN /\ own = [s \in Range(Owners) \cup Temps |-> IF s \in {"s1", "s2"} THEN b[s] ELSE nullptr]
             /\ heap = [x \in Blocks |-> IF x = b["s1"] THEN "ten" ELSE IF x = b["s2"] THEN "eleven" ELSE "free"]
             /\ want = [s \in Range(Owners) |->
                          IF s = "s1" THEN "ten" ELSE IF s = "s2" THEN "eleven" ELSE nullptr]
        ELSE /\ own = [s \in Range(Owners) \cup Temps |-> nullptr]
             /\ heap = [x \in Blocks |-> "free"]
             /\ want = [s \in Range(Owners) |-> nullptr]

Step(verb, slot, from) == [verb |-> verb, slot |-> slot, from |-> from]
New(s) == Step("new", s, s)
Copy(s, t) == Step("copy", s, t)
Delete(s) == Step("delete", s, s)     \* the pointer stays
Drop(s) == Step("drop", s, s)         \* the owner goes
Take(s, t) == Step("take", s, t)
Exchange(s, t) == Step("exchange", s, t)
Alias(s, t) == Step("alias", s, t)

Start(steps, w) ==
  /\ state = "run" /\ op = << >> /\ steps # << >>
  /\ op' = steps /\ want' = w
  /\ UNCHANGED <<prog, own, heap, stack, state>>

-----------------------------------------------------------------------------
(* The scoped pointers.                                                    *)

\* operator=(const scoped &): delete first, then new; nothing for itself.
AssignSteps(s, t) == IF s = t THEN << >> ELSE <<Delete(s), Copy(s, t)>>

\* operator=(scoped_move &&): the pointers change places.
MoveSteps(s, t) == IF s = t THEN << >> ELSE <<Exchange(s, t)>>

\* std::swap: a temporary from the first, two assignments, and it goes.
SwapSteps(s, t) ==
  IF prog = "move" THEN <<Take("tmp", s)>> \o MoveSteps(s, t) \o MoveSteps(t, "tmp") \o <<Drop("tmp")>>
  ELSE <<Copy("tmp", s)>> \o AssignSteps(s, t) \o AssignSteps(t, "tmp") \o <<Drop("tmp")>>

swap(s, t) ==
  /\ prog \in {"nomove", "move"} /\ s # t
  /\ Start(SwapSteps(s, t), [want EXCEPT ![s] = want[t], ![t] = want[s]])

assign(s, t) ==
  /\ prog \in {"nomove", "move"}
  /\ Start(AssignSteps(s, t), [want EXCEPT ![s] = want[t]])

NoThird == own["s3"] = nullptr /\ want["s3"] = nullptr

\* The copy constructor of a third one.
construct(t) ==
  /\ prog \in {"nomove", "move"} /\ NoThird
  /\ Start(<<Copy("s3", t)>>, [want EXCEPT !["s3"] = want[t]])

\* The one of drilldown.cc copies the pointer.
scoped_ptr(t) ==
  /\ prog = "drilldown" /\ NoThird
  /\ Start(<<Alias("s3", t)>>, [want EXCEPT !["s3"] = want[t]])

\* The move constructor leaves nullptr behind.
move_construct(t) ==
  /\ prog = "move" /\ NoThird
  /\ Start(<<Take("s3", t)>>, [want EXCEPT !["s3"] = want[t], ![t] = nullptr])

-----------------------------------------------------------------------------
(* The stacks.                                                             *)

Room == Len(stack) < MaxNodes

\* Heavy(100), the caller's temporary, around what is done with it.
WithHeavy(steps) == <<New("temp")>> \o steps \o <<Drop("temp")>>

\* new StackElem(elem, top_): the node, the parameter e and elem(e).
ByCopy == <<New("node"), Copy("arg", "temp"), Copy("elem", "arg"), Drop("arg"), Step("link", "node", "elem")>>

\* new StackElem(top_, std::forward<Args>(args)...): elem is built in its place.
InPlace == <<New("node"), New("elem"), Step("link", "node", "elem")>>

\* s.push_back(Heavy(100)).
ineff_push == prog = "ineff" /\ Room /\ Start(WithHeavy(ByCopy), want)
older_push == prog = "older-ineff" /\ Room /\ Start(WithHeavy(ByCopy), want)

\* The call that is commented out in main: the constructor that takes T is preferred to
\* the template, so it copies twice as well.
emplace_push == prog = "older-emplace" /\ Room /\ Start(WithHeavy(ByCopy), want)
optimized_push == prog = "older-optimized" /\ Room /\ Start(WithHeavy(ByCopy), want)

\* s.emplace_back(100).
eff_emplace == prog = "eff" /\ Room /\ Start(InPlace, want)
emplace_emplace == prog = "older-emplace" /\ Room /\ Start(InPlace, want)
optimized_emplace == prog = "older-optimized" /\ Room /\ Start(InPlace, want)

\* Slip: the last node is left.
StackDtorStopsEarly ==
  [i \in 1..(2 * (IF stack = << >> THEN 0 ELSE Len(stack) - 1)) |-> Step("pop", "node", "elem")]

\* ~Stack: each node is deleted, with its elem, after its next was read.
StackDtor == [i \in 1..(2 * Len(stack)) |-> Step("pop", "node", "elem")]

-----------------------------------------------------------------------------
(* Steps, exceptions and the end of the scope.                             *)

First == Head(op)
Held(s) == heap[own[s]]
Now(o, h) == /\ own' = o /\ heap' = h /\ op' = Tail(op)
             /\ UNCHANGED <<prog, stack, want, state>>
Stop(s) == state' = s /\ UNCHANGED <<prog, own, heap, op, stack, want>>

Allocate ==
  /\ op # << >> /\ state = "run" /\ First.verb \in {"new", "copy"}
  /\ IF First.verb = "new"
     THEN Now([own EXCEPT ![First.slot] = Fresh], [heap EXCEPT ![Fresh] = "heavy"])
     ELSE IF own[First.from] = nullptr THEN Stop("null")
     ELSE IF Held(First.from) = "free" THEN Stop("dangling")
     ELSE Now([own EXCEPT ![First.slot] = Fresh], [heap EXCEPT ![Fresh] = Held(First.from)])

\* delete of nullptr does nothing.
Release ==
  /\ op # << >> /\ state = "run" /\ First.verb \in {"delete", "drop"}
  /\ LET left == IF First.verb = "drop" THEN [own EXCEPT ![First.slot] = nullptr] ELSE own
     IN IF own[First.slot] = nullptr THEN Now(left, heap)
        ELSE IF Held(First.slot) = "free" THEN Stop("double")
        ELSE Now(left, [heap EXCEPT ![own[First.slot]] = "free"])

Pass ==
  /\ op # << >> /\ state = "run" /\ First.verb \in {"take", "exchange", "alias"}
  /\ LET s == First.slot
         t == First.from
     IN Now([own EXCEPT ![s] = own[t],
                        ![t] = CASE First.verb = "take" -> nullptr
                                 [] First.verb = "exchange" -> own[s]
                                 [] OTHER -> @], heap)

Link ==
  /\ op # << >> /\ state = "run" /\ First.verb = "link"
  /\ stack' = <<[node |-> own["node"], elem |-> own["elem"]]>> \o stack
  /\ own' = [own EXCEPT !["node"] = nullptr, !["elem"] = nullptr]
  /\ op' = Tail(op)
  /\ UNCHANGED <<prog, heap, want, state>>

\* delete nxt: the element first, then the node.
Pop ==
  /\ op # << >> /\ state = "run" /\ First.verb = "pop"
  /\ LET top == Head(stack)
         elem == heap[top.elem] # "free"
     IN /\ heap' = [heap EXCEPT ![IF elem THEN top.elem ELSE top.node] = "free"]
        /\ stack' = IF elem THEN stack ELSE Tail(stack)
  /\ op' = Tail(op)
  /\ UNCHANGED <<prog, own, want, state>>

\* bad_alloc: temporaries are dropped, a node without an element is given back,
\* and what was asked for is not done.  A caller catches it inside the scope.
Throw ==
  /\ op # << >> /\ state = "run" /\ First.verb \in {"new", "copy"}
  /\ op' = SelectSeq(<<Drop("elem"), Drop("arg"), Drop("node"), Drop("temp"), Drop("tmp")>>,
                     LAMBDA s : own[s.slot] # nullptr)
  /\ want' = [s \in Range(Owners) |->
                IF own[s] = nullptr \/ Held(s) = "free" THEN nullptr ELSE Held(s)]
  /\ UNCHANGED <<prog, own, heap, stack, state>>

\* The destructors, the last one constructed first.
LeaveScope ==
  /\ state = "run" /\ op = << >>
  /\ op' = (IF prog \in Scoped THEN <<Drop("s3"), Drop("s2"), Drop("s1")>> ELSE StackDtor)
           \o <<Step("leave", "s1", "s1")>>
  /\ want' = [s \in Range(Owners) |-> nullptr]
  /\ UNCHANGED <<prog, own, heap, stack, state>>

Left == /\ op # << >> /\ state = "run" /\ First.verb = "leave"
        /\ op' = << >> /\ state' = "over"
        /\ UNCHANGED <<prog, own, heap, stack, want>>

Ended == state # "run" /\ UNCHANGED vars

Next ==
  \/ \E s, t \in {"s1", "s2"} : swap(s, t) \/ assign(s, t)
  \/ \E t \in {"s1", "s2"} : construct(t) \/ scoped_ptr(t) \/ move_construct(t)
  \/ ineff_push \/ older_push \/ emplace_push \/ optimized_push
  \/ eff_emplace \/ emplace_emplace \/ optimized_emplace
  \/ Allocate \/ Release \/ Pass \/ Link \/ Pop \/ Throw \/ LeaveScope \/ Left \/ Ended

Spec == Init /\ [][Next]_vars

-----------------------------------------------------------------------------
(* Properties.                                                             *)

\* The slots and nodes that hold block b.
HoldersOf(b) == Cardinality({s \in DOMAIN own : own[s] = b})
                + Cardinality({i \in DOMAIN stack : b \in {stack[i].node, stack[i].elem}})

\* The copy assignment of a scoped pointer has deleted and not yet replaced, or
\* never will because new threw.
Severed(s) == own[s] # nullptr /\ Held(s) = "free"

\* Nothing leaks: every block has exactly one holder, and none is left when the
\* scope is.  Between operations each scoped pointer holds the value asked for,
\* through any swap.  Only the pointer whose assignment failed after its delete
\* dangles, and only it and the shared pointer of drilldown.cc die twice.
OwnersSound ==
  /\ \A b \in Used : HoldersOf(b) = 1 \/ prog = "drilldown"
  /\ state = "over" => Used = {}
  /\ state = "run" /\ op = << >> =>
       \A s \in Range(Owners) :
         IF Severed(s) THEN want[s] = nullptr /\ prog \in {"nomove", "move"}
         ELSE want[s] = IF own[s] = nullptr THEN nullptr ELSE Held(s)
  /\ state = "double" =>
       Severed(First.slot) /\ (First.verb = "drop" => prog = "drilldown" \/ want[First.slot] = nullptr)
  /\ state = "null" => prog = "move"
  /\ state = "dangling" => prog \in {"nomove", "move"}
  /\ prog \in Stacks => state \in {"run", "over"}
=============================================================================
