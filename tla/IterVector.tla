----------------------------- MODULE IterVector -----------------------------
(***************************************************************************)
(* The vector of 14-iterators/wrongit.cc: containers::Vector over          *)
(* VectorStorage, its constructors, assignments, push, pop and iterators.  *)
(* Elements move without throwing, or realloc has to copy them.  Each      *)
(* allocation and each construction of an element is a step of its own,    *)
(* and may throw unless it moves.  push takes a reference, which may be to *)
(* an element of the vector itself; a behaviour is followed up to a read   *)
(* through one that dangles.                                               *)
(***************************************************************************)
EXTENDS Naturals, Sequences, FiniteSets, SequencesExt

CONSTANTS Vectors, Values, Given,
          Buffers, nullptr,      \* addresses that operator new may return
          MaxUsed                \* bound on the elements of a vector

VARIABLES
  version, \* 5 when realloc moves elements, 6 when it copies them
  vec,     \* the members data_ (arr), allocated_ (size) and size_ (used)
  heap,    \* a block and its slots, << >> when it is free
  op,      \* the operation under way and where it is
  tmp      \* the storage it builds

vars == <<version, vec, heap, op, tmp>>

VectorStorage(a, s, u) == [arr |-> a, size |-> s, used |-> u]
NoStorage == VectorStorage(nullptr, 0, 0)
Idle == [pc |-> "idle"]

\* operator new: a block for no elements has an address as well.
Block(n) == <<"block">> \o [i \in 1..n |-> "raw"]
Allocated == {b \in Buffers : heap[b] # << >>}
Slot(s, i) == heap[s.arr][i + 1]

At(label) == op.pc = label
Goto(label) == op' = [op EXCEPT !.pc = label]

\* Vector() for each.
Init ==
  /\ version \in {5, 6}
  /\ vec = [v \in Vectors |-> NoStorage]
  /\ heap = [b \in Buffers |-> << >>]
  /\ op = Idle
  /\ tmp = NoStorage

\* An operation builds a storage of alloc slots and fills it from the sequence
\* list, or from vector from where list is empty.
Build(name, v, from, alloc, list, arg) ==
  op' = [pc |-> "alloc", name |-> name, v |-> v, from |-> from, alloc |-> alloc,
         list |-> list, arg |-> arg]

-----------------------------------------------------------------------------
(* Operations start.                                                       *)

\* The constructors from a list, from a size and a value, from a size.  The
\* storage is the base of the new vector: thrown out of, it destroys itself.
construct(v, list) ==
  /\ At("idle") /\ vec[v] = NoStorage
  /\ Build("construct", v, v, Len(list), list, "none")
  /\ UNCHANGED <<version, vec, heap, tmp>>

\* operator=(const Vector &): copy(sd) first.
assign(v, w) ==
  /\ At("idle")
  /\ Build("assign", v, w, vec[w].used, << >>, "none")
  /\ UNCHANGED <<version, vec, heap, tmp>>

\* operator=(Vector &&), and swap.
move(v, w) ==
  /\ At("idle")
  /\ vec' = [vec EXCEPT ![v] = vec[w], ![w] = vec[v]]
  /\ UNCHANGED <<version, heap, op, tmp>>

\* realloc(2 * allocated_ + 1) when it is full; arg is a value or the place of
\* an element, as back(), front() and operator[] give it.
push(v, arg) ==
  /\ At("idle") /\ vec[v].used < MaxUsed
  /\ IF vec[v].used = vec[v].size
     THEN Build("push", v, v, 2 * vec[v].size + 1, << >>, arg)
     ELSE op' = [pc |-> "here", name |-> "push", v |-> v, arg |-> arg]
  /\ UNCHANGED <<version, vec, heap, tmp>>

pop(v) ==
  /\ At("idle") /\ vec[v].used # 0
  /\ heap' = [heap EXCEPT ![vec[v].arr][vec[v].used + 1] = "raw"]
  /\ vec' = [vec EXCEPT ![v].used = @ - 1]
  /\ UNCHANGED <<version, op, tmp>>

\* A loop from begin() to end(), or back with --.
walk(v, back) ==
  /\ At("idle")
  /\ op' = [pc |-> "walk", name |-> "walk", v |-> v, back |-> back, seen |-> << >>,
            ptr |-> IF back THEN vec[v].used ELSE 0]
  /\ UNCHANGED <<version, vec, heap, tmp>>

-----------------------------------------------------------------------------
(* Their steps.                                                            *)

Allocate(b) ==
  /\ At("alloc") /\ b \notin Allocated
  /\ heap' = [heap EXCEPT ![b] = Block(op.alloc)]
  /\ tmp' = VectorStorage(b, op.alloc, 0)
  /\ Goto("fill")
  /\ UNCHANGED <<version, vec>>

FillCount == IF op.name = "construct" THEN Len(op.list) ELSE vec[op.from].used

\* Only realloc moves, and only what moves without throwing.
moveOrCopyT == version = 5 /\ op.name = "push"

Fill ==
  LET i == tmp.used + 1
      x == IF op.name = "construct" THEN op.list[i] ELSE Slot(vec[op.from], i)
      left == IF moveOrCopyT THEN [heap EXCEPT ![vec[op.from].arr][i + 1] = "moved"] ELSE heap
  IN /\ At("fill") /\ tmp.used < FillCount
     /\ heap' = [left EXCEPT ![tmp.arr][i + 1] = x]
     /\ tmp' = [tmp EXCEPT !.used = i]
     /\ UNCHANGED <<version, vec, op>>

\* *this = std::move(...) exchanges the storages.
Exchange ==
  /\ At("fill") /\ tmp.used = FillCount
  /\ vec' = [vec EXCEPT ![op.v] = tmp]
  /\ tmp' = vec[op.v]
  /\ Goto("drop")
  /\ UNCHANGED <<version, heap>>

\* ~VectorStorage: the elements and the block.
Destroy ==
  /\ heap' = IF tmp.arr = nullptr THEN heap ELSE [heap EXCEPT ![tmp.arr] = << >>]
  /\ tmp' = NoStorage

Drop ==
  /\ At("drop")
  /\ Destroy
  /\ IF op.name = "push" THEN Goto("here") ELSE op' = Idle
  /\ UNCHANGED <<version, vec>>

\* An argument that is an element is where it was when push was called.
Element(b, i) == [block |-> b, place |-> i]
IsElement(arg) == arg \in [block : Buffers, place : 1..MaxUsed]
Dangles(arg) == IsElement(arg) /\ arg.block # vec[op.v].arr

\* new (data_ + size_) T{std::forward<Arg>(value)}
Here ==
  LET x == IF IsElement(op.arg) THEN heap[op.arg.block][op.arg.place + 1] ELSE op.arg
  IN /\ At("here")
     /\ IF Dangles(op.arg) THEN Goto("dangling") /\ UNCHANGED <<vec, heap>>
        ELSE /\ heap' = [heap EXCEPT ![vec[op.v].arr][vec[op.v].used + 2] = x]
             /\ vec' = [vec EXCEPT ![op.v].used = @ + 1]
             /\ op' = Idle
     /\ UNCHANGED <<version, tmp>>

\* operator* and ++, or -- and operator*.
Iterate ==
  LET at == IF op.back THEN op.ptr - 1 ELSE op.ptr
  IN /\ At("walk") /\ op.ptr # (IF op.back THEN 0 ELSE vec[op.v].used)
     /\ op' = [op EXCEPT !.ptr = IF op.back THEN at ELSE at + 1,
                         !.seen = Append(@, Slot(vec[op.v], at + 1))]
     /\ UNCHANGED <<version, vec, heap, tmp>>

IterateEnds ==
  /\ At("walk") /\ op.ptr = (IF op.back THEN 0 ELSE vec[op.v].used)
  /\ op' = Idle
  /\ UNCHANGED <<version, vec, heap, tmp>>

\* What is under construction goes; after realloc the vector keeps its new room.
Throw ==
  /\ \/ At("alloc")
     \/ At("fill") /\ tmp.used < FillCount /\ ~moveOrCopyT
     \/ At("here") /\ ~Dangles(op.arg)
  /\ Destroy
  /\ op' = Idle
  /\ UNCHANGED <<version, vec>>

Step == \/ \E b \in Buffers : Allocate(b)
        \/ Fill \/ Exchange \/ Drop \/ Here \/ Iterate \/ IterateEnds \/ Throw

Next ==
  \/ Step
  \/ \E v \in Vectors :
       \/ \E list \in Given : construct(v, list)
       \/ \E x \in Values : push(v, x)
       \/ \E i \in 1..vec[v].used : push(v, Element(vec[v].arr, i))
       \/ pop(v)
       \/ \E back \in BOOLEAN : walk(v, back)
       \/ \E w \in Vectors : assign(v, w) \/ move(v, w)

-----------------------------------------------------------------------------
(* Properties.                                                             *)

\* An element that realloc has moved on is found in tmp until the exchange.
Contents ==
  [v \in Vectors |->
     [i \in 1..vec[v].used |->
        IF Slot(vec[v], i) = "moved" THEN Slot(tmp, i) ELSE Slot(vec[v], i)]]

Owners == [v \in Vectors \cup {"tmp"} |-> IF v \in Vectors THEN vec[v] ELSE tmp]

\* Whatever throws, each block has one owner that knows its length, exactly the
\* first size_ slots hold elements, and a loop has seen what it has passed.
\* Only an element pushed into its own full vector is read after it is gone.
StorageOwned ==
  /\ \A b \in Allocated : Cardinality({v \in DOMAIN Owners : Owners[v].arr = b}) = 1
  /\ \A v \in DOMAIN Owners :
       LET s == Owners[v]
       IN IF s.arr = nullptr THEN s = NoStorage
          ELSE /\ s.arr \in Allocated /\ Len(heap[s.arr]) = s.size + 1
               /\ \A i \in 1..s.size : Slot(s, i) = "raw" <=> i > s.used
  /\ At("walk") => op.seen = IF op.back THEN Reverse(SubSeq(Contents[op.v], op.ptr + 1, Len(Contents[op.v])))
                             ELSE SubSeq(Contents[op.v], 1, op.ptr)
  /\ At("dangling") => /\ IsElement(op.arg)
                       /\ vec[op.v].size = 2 * vec[op.v].used + 1
=============================================================================
