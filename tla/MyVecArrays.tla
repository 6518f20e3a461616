---------------------------- MODULE MyVecArrays -----------------------------
(***************************************************************************)
(* The first and the second vector of 08-exceptions/myvec-demo, which keep *)
(* an array of constructed elements and assign to them.  Version 1 leaves  *)
(* an exception to its luck; version 2 goes through safe_copy.  Creating   *)
(* an array and assigning an element may throw.  Version 1 is followed up  *)
(* to the first exception, either one up to the first access outside an    *)
(* array.                                                                  *)
(***************************************************************************)
EXTENDS Naturals, Sequences, FiniteSets

CONSTANTS Vectors, Values,
          Buffers, nullptr,      \* addresses that new[] may return
          MaxUsed                \* bound on the elements of a vector

VARIABLES
  version, \* which of the two programs this is
  vec,     \* the members arr_, size_ and used_ of each vector
  heap,    \* what new[] keeps before an array, and its elements; << >> when free
  op,      \* the operation under way and where it is
  tmp      \* its new array and how far it is filled

vars == <<version, vec, heap, op, tmp>>

Vector(a, s, u) == [arr |-> a, size |-> s, used |-> u]
NoVector == Vector(nullptr, 0, 0)
Idle == [pc |-> "idle"]

\* new T[n]: an array of no elements has an address as well.
NewArray(n) == <<"count">> \o [i \in 1..n |-> "default"]
Allocated == {b \in Buffers : heap[b] # << >>}
Length(b) == Len(heap[b]) - 1
Within(b, i) == b \in Allocated /\ i <= Length(b)

\* delete[], which takes nullptr as well.
Without(a) == IF a = nullptr THEN heap ELSE [heap EXCEPT ![a] = << >>]

\* MyVector(sz) for one vector; the others have been moved from: they are empty,
\* have no array and can be used like any other.
Init ==
  /\ version \in {1, 2}
  /\ op = Idle
  /\ tmp = NoVector
  /\ \E first \in Vectors, b \in Buffers, sz \in {0, 1} :
       /\ vec = [v \in Vectors |-> IF v = first THEN Vector(b, sz, 0) ELSE NoVector]
       /\ heap = [a \in Buffers |-> IF a = b THEN NewArray(sz) ELSE << >>]

HasArray(v) == vec[v].arr # nullptr
At(label) == op.pc = label

Stored(v) == [i \in 1..vec[v].used |-> heap[vec[v].arr][i + 1]]

\* What a caller finds in the vectors; an assignment of version 1 is under way
\* between two states that count.
Contents == IF At("idle") \/ op.name # "assign" THEN [v \in Vectors |-> Stored(v)] ELSE op.old

Start(label, name, v, w) ==
  [pc |-> label, name |-> name, v |-> v, from |-> w, t |-> "default", old |-> Contents]

-----------------------------------------------------------------------------
(* Operations start.                                                       *)

push(v, x) ==
  /\ At("idle")
  /\ vec[v].used < MaxUsed
  /\ op' = [Start(IF vec[v].used = vec[v].size THEN "alloc" ELSE "store", "push", v, v)
              EXCEPT !.t = x]
  /\ UNCHANGED <<version, vec, heap, tmp>>

\* Version 1 returns a copy of the element, and has shortened the vector before.
pop(v) ==
  /\ At("idle")
  /\ vec[v].used >= 1
  /\ vec' = [vec EXCEPT ![v].used = @ - 1]
  /\ UNCHANGED <<version, heap, tmp>>
  /\ \/ UNCHANGED op
     \/ version = 1 /\ op' = [Start("thrown", "pop", v, v) EXCEPT !.pc = "thrown"]

\* MyVector(const MyVector &), in the place of a vector without an array.
construct(v, w) ==
  /\ At("idle") /\ ~HasArray(v) /\ v # w
  /\ op' = Start("alloc", "construct", v, w)
  /\ UNCHANGED <<version, vec, heap, tmp>>

\* MyVector(MyVector &&), likewise.
steal(v, w) ==
  /\ At("idle") /\ ~HasArray(v) /\ HasArray(w)
  /\ vec' = [vec EXCEPT ![v] = vec[w], ![w] = NoVector]
  /\ UNCHANGED <<version, heap, op, tmp>>

\* operator=(const MyVector &) of version 1: the old array goes first.  The one
\* of version 2 cannot be instantiated, it names no swap that takes vectors.
assign(v, w) ==
  /\ At("idle")
  /\ version = 1 /\ v # w
  /\ vec' = [vec EXCEPT ![v].size = vec[w].size, ![v].used = vec[w].used]
  /\ heap' = Without(vec[v].arr)
  /\ op' = Start("alloc", "assign", v, w)
  /\ UNCHANGED <<version, tmp>>

-----------------------------------------------------------------------------
(* Their steps.                                                            *)

\* How long the new array is.  Version 2 copies no more than is used.
NewSize == CASE op.name = "push" -> 2 * vec[op.v].size + 1
             [] op.name = "construct" /\ version = 2 -> vec[op.from].used
             [] OTHER -> vec[op.from].size

\* How many elements are copied into it.
CopyCount == IF op.name = "push" THEN vec[op.v].size ELSE NewSize

Allocate(b) ==
  /\ At("alloc") /\ b \notin Allocated
  /\ heap' = [heap EXCEPT ![b] = NewArray(NewSize)]
  /\ tmp' = Vector(b, NewSize, 0)
  /\ op' = [op EXCEPT !.pc = "fill"]
  /\ UNCHANGED <<version, vec>>

Overrun == op' = [op EXCEPT !.pc = "overrun"] /\ UNCHANGED <<version, vec, heap, tmp>>

\* dest[idx] = src[idx]
Fill ==
  LET src == vec[op.from].arr
      i == tmp.used + 1
  IN /\ At("fill") /\ tmp.used < CopyCount
     /\ IF ~Within(src, i) THEN Overrun
        ELSE /\ heap' = [heap EXCEPT ![tmp.arr][i + 1] = heap[src][i + 1]]
             /\ tmp' = [tmp EXCEPT !.used = i]
             /\ UNCHANGED <<version, vec, op>>

\* The new array replaces the old one, or is the first one.
Filled ==
  /\ At("fill") /\ tmp.used = CopyCount
  /\ vec' = [vec EXCEPT ![op.v] =
               CASE op.name = "push" -> Vector(tmp.arr, NewSize, @.used)
                 [] op.name = "construct" -> [vec[op.from] EXCEPT !.arr = tmp.arr]
                 [] op.name = "assign" -> [@ EXCEPT !.arr = tmp.arr]]
  /\ heap' = IF op.name = "push" THEN Without(vec[op.v].arr) ELSE heap
  /\ op' = IF op.name = "push" THEN [op EXCEPT !.pc = "store"] ELSE Idle
  /\ tmp' = NoVector
  /\ UNCHANGED version

\* arr_[used_] = t
Store ==
  LET i == vec[op.v].used + 1
  IN /\ At("store")
     /\ IF ~Within(vec[op.v].arr, i) THEN Overrun
        ELSE /\ heap' = [heap EXCEPT ![vec[op.v].arr][i + 1] = op.t]
             /\ vec' = [vec EXCEPT ![op.v].used = i]
             /\ op' = Idle
             /\ UNCHANGED <<version, tmp>>

Throws == At("alloc") \/ At("store") \/ (At("fill") /\ tmp.used < CopyCount)

\* The handler of safe_copy; without it (no array yet, or none any more) the
\* exception just passes.
safe_copy ==
  /\ version = 2 /\ Throws
  /\ heap' = Without(tmp.arr)
  /\ tmp' = NoVector
  /\ op' = Idle
  /\ UNCHANGED <<version, vec>>

\* Nothing is undone in version 1.
Unprotected ==
  /\ version = 1 /\ Throws
  /\ op' = [op EXCEPT !.pc = "thrown"]
  /\ UNCHANGED <<version, vec, heap, tmp>>

Step == \/ \E b \in Buffers : Allocate(b)
        \/ Fill \/ Filled \/ Store \/ safe_copy \/ Unprotected

Next ==
  \/ Step
  \/ \E v \in Vectors : \/ \E x \in Values : push(v, x)
                        \/ pop(v)
                        \/ \E w \in Vectors : construct(v, w) \/ steal(v, w) \/ assign(v, w)

-----------------------------------------------------------------------------
(* Properties.                                                             *)

\* The vector under an assignment of version 1 has lost its array.
Bereft(v) == op.pc \in {"alloc", "fill"} /\ op.name = "assign" /\ op.v = v

Holders ==
  [v \in Vectors \cup {"tmp"} |->
     IF v \notin Vectors THEN tmp ELSE IF Bereft(v) THEN NoVector ELSE vec[v]]

\* In version 2 through every exception, in version 1 up to the first one: each
\* array has exactly one owner and no vector keeps one that was deleted, but for
\* an assignment of version 1 between delete and new.  Only a copy that version 2
\* made of a vector with room to spare is shorter than its size_ says, and only
\* such a copy is ever overrun.
ArraysOwned ==
  /\ ~At("thrown") =>
       /\ \A b \in Allocated : Cardinality({v \in DOMAIN Holders : Holders[v].arr = b}) = 1
       /\ \A v \in Vectors :
            ~HasArray(v) \/ vec[v].arr \in Allocated \/ Bereft(v)
  /\ \A v \in Vectors :
       HasArray(v) /\ vec[v].arr \in Allocated /\ vec[v].size # Length(vec[v].arr) =>
         version = 2 \/ ~At("idle")
  /\ At("overrun") => version = 2 /\ vec[op.v].size > Length(vec[op.v].arr)

\* myvec-2.cc, line 9: "Second better implementation: exception safe".  No
\* operation of version 2 reaches outside its arrays.
SecondIsSafe == version = 2 => ~At("overrun")
=============================================================================
