------------------------------- MODULE MyVec --------------------------------
(***************************************************************************)
(* The third and the fourth vector of 08-exceptions/myvec-demo: MyVector   *)
(* over MyVectorBuf, whose operations build a temporary and swap it in.    *)
(* Version 3 copies elements, which may throw; version 4 moves them.       *)
(* Each construction of an element and each allocation is a step of its    *)
(* own, so that an exception can come between any two.                     *)
(***************************************************************************)
EXTENDS Naturals, Sequences, FiniteSets

CONSTANTS Versions, Vectors, Values,
          Buffers, nullptr,      \* addresses that operator new may return
          MaxUsed                \* bound on the elements of a vector

ASSUME VersionAssumption == Versions \subseteq {3, 4}
ASSUME NullAssumption == nullptr \notin Buffers
ASSUME BoundAssumption == MaxUsed \in Nat
\* Slots of a buffer without an element, and with one that was moved from.
ASSUME SlotAssumption == {"raw", "moved"} \cap Values = {}
\* The temporary of an operation is none of them.
ASSUME TmpAssumption == "tmp" \notin Vectors

VARIABLES
  version, \* which of the two programs this is
  vec,     \* the members arr_, size_ and used_ of each vector
  heap,    \* the slots of each buffer, << >> when it is free
  op,      \* the operation under way and where it is
  tmp      \* the vector tmp of that operation

vars == <<version, vec, heap, op, tmp>>

Vector(a, s, u) == [arr |-> a, size |-> s, used |-> u]
NoVector == Vector(nullptr, 0, 0)
Idle == [pc |-> "idle"]

Allocated == {b \in Buffers : heap[b] # << >>}

\* operator new for n elements, or nullptr for none.
New(n, b, h) == [h EXCEPT ![b] = [i \in 1..n |-> "raw"]]

\* MyVector(sz) for each vector; their buffers differ.
Init ==
  /\ version \in Versions
  /\ op = Idle
  /\ tmp = NoVector
  /\ \E s \in [Vectors -> {0, 1}] :
     \E a \in [Vectors -> Buffers] :
       /\ \A v, w \in Vectors : a[v] = a[w] => v = w
       /\ vec = [v \in Vectors |-> Vector(IF s[v] = 0 THEN nullptr ELSE a[v], s[v], 0)]
       /\ heap = [b \in Buffers |->
                    IF \E v \in Vectors : a[v] = b /\ s[v] = 1 THEN <<"raw">> ELSE << >>]

At(label) == op.pc = label
Goto(label) == op' = [op EXCEPT !.pc = label]

-----------------------------------------------------------------------------
(* Operations start.                                                       *)

BeginPush(v) == IF vec[v].used = vec[v].size THEN "alloc" ELSE "here"

\* Version 4 first copies t to t2.
push(v, x) ==
  /\ At("idle")
  /\ vec[v].used < MaxUsed
  /\ op' = [pc |-> IF version = 4 THEN "copy" ELSE BeginPush(v), name |-> "push",
            v |-> v, from |-> v, t |-> x]
  /\ UNCHANGED <<version, vec, heap, tmp>>

pop(v) ==
  /\ At("idle")
  /\ vec[v].used >= 1
  /\ vec' = [vec EXCEPT ![v].used = @ - 1]
  /\ heap' = [heap EXCEPT ![vec[v].arr][vec[v].used] = "raw"]
  /\ UNCHANGED <<version, op, tmp>>

\* operator=(const MyVector &): tmp(rhs) first.
copy(v, w) ==
  /\ At("idle")
  /\ op' = [pc |-> "alloc", name |-> "copy", v |-> v, from |-> w]
  /\ UNCHANGED <<version, vec, heap, tmp>>

\* operator=(MyVector &&)
move(v, w) ==
  /\ At("idle")
  /\ vec' = [vec EXCEPT ![v] = vec[w], ![w] = vec[v]]
  /\ UNCHANGED <<version, heap, op, tmp>>

-----------------------------------------------------------------------------
(* Their steps.                                                            *)

\* T t2(t) of version 4.
CopyArgument ==
  /\ At("copy")
  /\ Goto(BeginPush(op.v))
  /\ UNCHANGED <<version, vec, heap, tmp>>

TmpSize == IF op.name = "push" THEN 2 * vec[op.v].size + 1 ELSE vec[op.from].used

Allocate(b) ==
  /\ At("alloc")
  /\ TmpSize > 0
  /\ b \notin Allocated
  /\ heap' = New(TmpSize, b, heap)
  /\ tmp' = Vector(b, TmpSize, 0)
  /\ Goto("fill")
  /\ UNCHANGED <<version, vec>>

AllocateNone ==
  /\ At("alloc")
  /\ TmpSize = 0
  /\ tmp' = NoVector
  /\ Goto("swap")
  /\ UNCHANGED <<version, vec, heap>>

Source == vec[op.from].arr
Constructed(h, x) == [h EXCEPT ![tmp.arr][tmp.used + 1] = x]

\* A copy leaves its source alone; push of version 4 moves.
Moves == version = 4 /\ op.name = "push"

Fill ==
  LET x == heap[Source][tmp.used + 1]
      taken == IF Moves THEN [heap EXCEPT ![Source][tmp.used + 1] = "moved"] ELSE heap
  IN /\ At("fill")
     /\ tmp.used < vec[op.from].used
     /\ heap' = Constructed(taken, x)
     /\ tmp' = [tmp EXCEPT !.used = @ + 1]
     /\ UNCHANGED <<version, vec, op>>

\* tmp.push(t) after the others.
FillLast ==
  /\ At("fill")
  /\ op.name = "push"
  /\ tmp.used = vec[op.v].used
  /\ heap' = Constructed(heap, op.t)
  /\ tmp' = [tmp EXCEPT !.used = @ + 1]
  /\ Goto("swap")
  /\ UNCHANGED <<version, vec>>

FillCopied ==
  /\ At("fill")
  /\ op.name = "copy"
  /\ tmp.used = vec[op.from].used
  /\ Goto("swap")
  /\ UNCHANGED <<version, vec, heap, tmp>>

Swap ==
  /\ At("swap")
  /\ vec' = [vec EXCEPT ![op.v] = tmp]
  /\ tmp' = vec[op.v]
  /\ Goto("drop")
  /\ UNCHANGED <<version, heap>>

\* Slip: the buffer is not given back.
DestroyTmpLeaks == UNCHANGED heap /\ tmp' = NoVector

\* ~MyVectorBuf of tmp: its elements and its buffer.
DestroyTmp ==
  /\ heap' = IF tmp.arr = nullptr THEN heap ELSE [heap EXCEPT ![tmp.arr] = << >>]
  /\ tmp' = NoVector

Drop ==
  /\ At("drop")
  /\ DestroyTmp
  /\ op' = Idle
  /\ UNCHANGED <<version, vec>>

\* push without reallocation.
Here ==
  /\ At("here")
  /\ heap' = [heap EXCEPT ![vec[op.v].arr][vec[op.v].used + 1] = op.t]
  /\ vec' = [vec EXCEPT ![op.v].used = @ + 1]
  /\ op' = Idle
  /\ UNCHANGED <<version, tmp>>

\* Slip: moving an element may throw.
MayThrowOnMove ==
  \/ At("copy")
  \/ At("alloc") /\ TmpSize > 0
  \/ At("here")
  \/ At("fill") /\ (tmp.used < vec[op.from].used \/ op.name = "push")

\* Allocations and copies of elements may throw: tmp is destroyed on the way out.
MayThrow ==
  \/ At("copy")
  \/ At("alloc") /\ TmpSize > 0
  \/ At("here") /\ version = 3
  \/ At("fill") /\ ~Moves /\ (tmp.used < vec[op.from].used \/ op.name = "push")

\* Slip: the operation is tried again.
ThrowRetries ==
  /\ MayThrow
  /\ DestroyTmp
  /\ Goto("alloc")
  /\ UNCHANGED <<version, vec>>

Throw ==
  /\ MayThrow
  /\ DestroyTmp
  /\ op' = Idle
  /\ UNCHANGED <<version, vec>>

Step ==
  \/ CopyArgument \/ (\E b \in Buffers : Allocate(b)) \/ AllocateNone
  \/ Fill \/ FillLast \/ FillCopied \/ Swap \/ Drop \/ Here \/ Throw

Next ==
  \/ Step
  \/ \E v \in Vectors : \/ \E x \in Values : push(v, x)
                        \/ pop(v)
                        \/ \E w \in Vectors : copy(v, w) \/ move(v, w)

Spec == Init /\ [][Next]_vars

\* An operation that was called goes on.
FairSpec == Spec /\ WF_vars(Step)

-----------------------------------------------------------------------------
Owners == [v \in Vectors \cup {"tmp"} |-> IF v \in Vectors THEN vec[v] ELSE tmp]

\* Whatever is thrown and where, every buffer has exactly one owner, no vector
\* points to freed memory, and size_ is the size of the buffer.
OwnedOnce ==
  /\ \A b \in Allocated : Cardinality({v \in DOMAIN Owners : Owners[v].arr = b}) = 1
  /\ \A v \in DOMAIN Owners :
       LET o == Owners[v]
       IN IF o.arr = nullptr THEN o.size = 0 ELSE o.size = Len(heap[o.arr]) /\ o.size > 0

\* Exactly the first used_ slots hold elements: none is destroyed twice or never,
\* none is built over another.
ElementsExact ==
  \A v \in DOMAIN Owners :
    /\ Owners[v].used <= Owners[v].size
    /\ \A i \in 1..Owners[v].size :
         (heap[Owners[v].arr][i] = "raw") <=> i > Owners[v].used

\* What a caller would find in v once the operation under way has been undone or
\* completed: an element that was moved on is in tmp.
ContentsOf(v) ==
  [i \in 1..vec[v].used |->
     LET x == heap[vec[v].arr][i]
     IN IF x = "moved" /\ tmp.arr # nullptr THEN heap[tmp.arr][i] ELSE x]

\* Every operation ends, with or without an exception.
Returns == []<>(op = Idle)
=============================================================================
