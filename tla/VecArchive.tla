----------------------------- MODULE VecArchive -----------------------------
(***************************************************************************)
(* The three vectors of archive/09-exceptions.  myvec-1.cc and myvec-2.cc  *)
(* have no destructor, and their move assignment returns nothing;          *)
(* myvec-3.cc builds its elements in raw storage.  What may throw in an    *)
(* operation is numbered from 1: the allocation, then each copy of an      *)
(* element; an operation is given the number at which it throws.           *)
(***************************************************************************)
EXTENDS Naturals, Sequences, FiniteSets, SequencesExt

CONSTANTS Blocks,      \* what operator new returns, numbers from 1
          MaxSize      \* bound on the capacity

VARIABLES
  prog,    \* 1, 2 or 3
  vec,     \* the two vectors: arr_, size_ and used_
  heap,    \* the elements of a block, and whether it is allocated
  want,    \* history: what each vector holds for its user
  torn,    \* vectors that an assignment left half done
  drops,   \* history: arrays of vectors that ended without a destructor
  stray,   \* how far behind the elements a destructor has run
  state    \* "run", or "undefined" when a function ends without its return

vars == <<prog, vec, heap, want, torn, drops, stray, state>>

Names == {"v", "w"}
Values == {1, 2}
Nullptr == 0
NoVector == [on |-> FALSE, arr |-> Nullptr, size |-> 0, used |-> 0]
Vector(arr, size, used) == [on |-> TRUE, arr |-> arr, size |-> size, used |-> used]
Freed == [live |-> FALSE, cells |-> << >>]
Array(cells) == [live |-> TRUE, cells |-> cells]
Leaked == Array(<< >>)        \* what it has is of no interest any more

Live == {b \in Blocks : heap[b].live}
\* The allocator of the model returns no block that a dangling arr_ names.
Free == Blocks \ (Live \cup {vec[n].arr : n \in Names})
New == CHOOSE b \in Free : TRUE
Points == 1..(MaxSize + 2)

Zeros(k) == [i \in 1..k |-> 0]
Cells(n) == heap[vec[n].arr].cells
Elements(n) == IF vec[n].used = 0 THEN << >> ELSE SubSeq(Cells(n), 1, vec[n].used)
Fit(n) == vec[n].on /\ n \notin torn
Put(n, v) == vec' = [vec EXCEPT ![n] = v]
Wanted(n, s) == want' = [want EXCEPT ![n] = s]
Without(h, b) == IF b = Nullptr THEN h ELSE [h EXCEPT ![b] = Freed]
Lost(h, b) == IF b # Nullptr /\ h[b].live THEN [h EXCEPT ![b] = Leaked] ELSE h
Quiet == UNCHANGED <<prog, torn, drops, stray, state>>
Failed == UNCHANGED <<prog, vec, want, torn, drops, stray, state>>

\* The first k elements of src copied into n new ones.
Copied(src, k, n) == [i \in 1..n |-> IF i <= k THEN src[i] ELSE 0]

Init ==
  /\ prog \in 1..3
  /\ vec = [n \in Names |-> NoVector]
  /\ heap = [b \in Blocks |-> Freed]
  /\ want = [n \in Names |-> << >>]
  /\ torn = {} /\ drops = 0 /\ stray = 0 /\ state = "run"

\* MyVector(size_t sz); only the third one has no array for 0.
make(n, sz) ==
  /\ ~vec[n].on /\ Free # {}
  /\ IF prog = 3 /\ sz = 0 THEN Put(n, Vector(Nullptr, 0, 0)) /\ UNCHANGED heap
     ELSE Put(n, Vector(New, sz, 0)) /\ heap' = [heap EXCEPT ![New] = Array(Zeros(sz))]
  /\ Wanted(n, << >>) /\ Quiet

\* The move constructor of the first two.
move(d, s) ==
  /\ prog \in {1, 2} /\ ~vec[d].on /\ Fit(s)
  /\ vec' = [vec EXCEPT ![d] = vec[s], ![s] = Vector(Nullptr, 0, 0)]
  /\ want' = [want EXCEPT ![d] = want[s], ![s] = << >>]
  /\ UNCHANGED heap /\ Quiet

\* operator=(MyVector &&) exchanges the members and does not return: what happens
\* then is undefined, with or without the effect.
move_assign(d, s) ==
  /\ prog \in {1, 2} /\ d # s /\ Fit(d) /\ Fit(s)
  /\ vec' = [vec EXCEPT ![d] = vec[s], ![s] = vec[d]]
  /\ want' = [want EXCEPT ![d] = want[s], ![s] = want[d]]
  /\ state' \in {"run", "undefined"}
  /\ UNCHANGED <<prog, heap, torn, drops, stray>>

-----------------------------------------------------------------------------
(* The first version.                                                      *)

\* The members are set before the loop; the array is lost if an assignment throws.
copy_1(d, s, at) ==
  /\ prog = 1 /\ ~vec[d].on /\ Fit(s) /\ Free # {}
  /\ LET size == vec[s].size
         full == Array(Copied(Cells(s), size, size))
     IN CASE at = 1 -> UNCHANGED heap /\ Failed
          [] at \in 2..(size + 1) -> heap' = [heap EXCEPT ![New] = Leaked] /\ Failed
          [] OTHER -> /\ heap' = [heap EXCEPT ![New] = full]
                      /\ Put(d, Vector(New, size, vec[s].used))
                      /\ Wanted(d, want[s]) /\ Quiet

\* size_ and used_ are set and the old array is deleted before anything can throw.
assign_1(d, s, at) ==
  /\ prog = 1 /\ d # s /\ Fit(d) /\ Fit(s) /\ Free # {}
  /\ LET size == vec[s].size
         gone == Without(heap, vec[d].arr)
     IN /\ IF at = 1
           THEN heap' = gone /\ Put(d, Vector(vec[d].arr, size, vec[s].used))
           ELSE /\ heap' = [gone EXCEPT ![New] =
                              Array(Copied(Cells(s), IF at - 2 < size THEN at - 2 ELSE size, size))]
                /\ Put(d, Vector(New, size, vec[s].used))
        /\ torn' = IF at <= size + 1 THEN torn \cup {d} ELSE torn
        /\ Wanted(d, want[s])
  /\ UNCHANGED <<prog, drops, stray, state>>

\* pop returns a copy, which may throw when used_ is already less: the element is gone.
pop_1(n) ==
  /\ prog = 1 /\ Fit(n) /\ vec[n].used >= 1
  /\ Put(n, [vec[n] EXCEPT !.used = @ - 1])
  /\ Wanted(n, Front(want[n]))
  /\ UNCHANGED heap /\ Quiet

\* A full vector first moves to a longer array; t is assigned last.
push_1(n, t, at) ==
  /\ prog = 1 /\ Fit(n) /\ Free # {}
  /\ LET v == vec[n]
         longer == v.size * 2 + 1
         grown == [Without(heap, v.arr) EXCEPT ![New] = Array(Copied(Cells(n), v.size, longer))]
     IN IF v.used < v.size
        THEN IF at = 1 THEN UNCHANGED heap /\ Failed
             ELSE /\ heap' = [heap EXCEPT ![v.arr].cells[v.used + 1] = t]
                  /\ Put(n, [v EXCEPT !.used = @ + 1]) /\ Wanted(n, Append(want[n], t)) /\ Quiet
        ELSE /\ longer <= MaxSize
             /\ CASE at = 1 -> UNCHANGED heap /\ Failed
                  [] at \in 2..(v.size + 1) ->
                       heap' = [heap EXCEPT ![New] = Leaked] /\ Failed
                  [] at = v.size + 2 ->
                       /\ heap' = grown
                       /\ Put(n, Vector(New, longer, v.used)) /\ UNCHANGED want /\ Quiet
                  [] OTHER ->
                       /\ heap' = [grown EXCEPT ![New].cells[v.used + 1] = t]
                       /\ Put(n, Vector(New, longer, v.used + 1))
                       /\ Wanted(n, Append(want[n], t)) /\ Quiet

-----------------------------------------------------------------------------
(* The second version.                                                     *)

\* Slip: nothing catches, so the new array is left.
SafeCopyKeeps(src, srcsize, dstsize, at) ==
  CASE at = 1 -> [ok |-> FALSE, heap |-> heap]
    [] at \in 2..(srcsize + 1) -> [ok |-> FALSE, heap |-> [heap EXCEPT ![New] = Leaked]]
    [] OTHER -> [ok |-> TRUE, heap |-> [heap EXCEPT ![New] = Array(Copied(src, srcsize, dstsize))]]

\* safe_copy deletes what it made when a copy throws.
safe_copy(src, srcsize, dstsize, at) ==
  IF at <= srcsize + 1 THEN [ok |-> FALSE, heap |-> heap]
  ELSE [ok |-> TRUE, heap |-> [heap EXCEPT ![New] = Array(Copied(src, srcsize, dstsize))]]

copy_2(d, s, at) ==
  /\ prog = 2 /\ ~vec[d].on /\ Fit(s) /\ Free # {}
  /\ LET c == safe_copy(Cells(s), vec[s].size, vec[s].size, at)
     IN /\ heap' = c.heap
        /\ IF ~c.ok THEN Failed
           ELSE Put(d, Vector(New, vec[s].size, vec[s].used)) /\ Wanted(d, want[s]) /\ Quiet

\* Copy and swap; swap moves three times, twice by the assignment without a return.
\* tmp has the old array in the end, and no destructor.
assign_2(d, s, at) ==
  /\ prog = 2 /\ Fit(d) /\ Fit(s) /\ Free # {}
  /\ LET c == safe_copy(Cells(s), vec[s].size, vec[s].size, at)
     IN /\ heap' = IF c.ok THEN Lost(c.heap, vec[d].arr) ELSE c.heap
        /\ IF ~c.ok THEN Failed
           ELSE /\ Put(d, Vector(New, vec[s].size, vec[s].used)) /\ Wanted(d, want[s])
                /\ drops' = drops + (IF vec[d].arr = Nullptr THEN 0 ELSE 1)
                /\ state' \in {"run", "undefined"}
                /\ UNCHANGED <<prog, torn, stray>>

pop_2(n) ==
  /\ prog = 2 /\ Fit(n) /\ vec[n].used >= 1
  /\ Put(n, [vec[n] EXCEPT !.used = @ - 1])
  /\ Wanted(n, Front(want[n]))
  /\ UNCHANGED heap /\ Quiet

push_2(n, t, at) ==
  /\ prog = 2 /\ Fit(n) /\ Free # {}
  /\ LET v == vec[n]
         longer == v.size * 2 + 1
         c == safe_copy(Cells(n), v.size, longer, at)
         moved == Without(c.heap, v.arr)
     IN IF v.used < v.size
        THEN IF at = 1 THEN UNCHANGED heap /\ Failed
             ELSE /\ heap' = [heap EXCEPT ![v.arr].cells[v.used + 1] = t]
                  /\ Put(n, [v EXCEPT !.used = @ + 1]) /\ Wanted(n, Append(want[n], t)) /\ Quiet
        ELSE /\ longer <= MaxSize
             /\ CASE ~c.ok -> heap' = c.heap /\ Failed
                  [] at = v.size + 2 ->
                       /\ heap' = moved
                       /\ Put(n, Vector(New, longer, v.used)) /\ UNCHANGED want /\ Quiet
                  [] OTHER ->
                       /\ heap' = [moved EXCEPT ![New].cells[v.used + 1] = t]
                       /\ Put(n, Vector(New, longer, v.used + 1))
                       /\ Wanted(n, Append(want[n], t)) /\ Quiet

-----------------------------------------------------------------------------
(* The third version.                                                      *)

\* destroy(first, last) compares, advances, and destroys what it has advanced to:
\* not the first element, and the place behind the last one.
destroyed(used) == {i + 1 : i \in 0..(used - 1)}

Behind(used) == Cardinality({i \in destroyed(used) : i >= used})

\* ~MyVectorBuf of a buffer with that many elements.
Torn(used) == stray' = IF Behind(used) > stray THEN Behind(used) ELSE stray

\* A buffer for rhs.used_ elements; when a copy throws, ~MyVectorBuf has at - 2 of them.
Built(s, at) ==
  IF at = 1 \/ vec[s].used = 0 THEN [ok |-> at # 1 \/ vec[s].used = 0, made |-> 0]
  ELSE IF at \in 2..(vec[s].used + 1) THEN [ok |-> FALSE, made |-> at - 2]
  ELSE [ok |-> TRUE, made |-> vec[s].used]

Buffer(s) == IF vec[s].used = 0 THEN [heap |-> heap, arr |-> Nullptr]
             ELSE [heap |-> [heap EXCEPT ![New] = Array(Elements(s))], arr |-> New]

copy_3(d, s, at) ==
  /\ prog = 3 /\ ~vec[d].on /\ Fit(s) /\ Free # {}
  /\ LET b == Built(s, at)
     IN IF ~b.ok
        THEN Torn(b.made) /\ UNCHANGED <<prog, vec, heap, want, torn, drops, state>>
        ELSE /\ heap' = Buffer(s).heap
             /\ Put(d, Vector(Buffer(s).arr, vec[s].used, vec[s].used))
             /\ Wanted(d, want[s]) /\ Quiet

\* tmp takes the old buffer and destroys it.
assign_3(d, s, at) ==
  /\ prog = 3 /\ Fit(d) /\ Fit(s) /\ Free # {}
  /\ LET b == Built(s, at)
     IN /\ UNCHANGED <<prog, torn, drops, state>>
        /\ IF ~b.ok THEN Torn(b.made) /\ UNCHANGED <<vec, heap, want>>
           ELSE /\ heap' = Without(Buffer(s).heap, vec[d].arr)
                /\ Put(d, Vector(Buffer(s).arr, vec[s].used, vec[s].used))
                /\ Wanted(d, want[s]) /\ Torn(vec[d].used)

pop_3(n) ==
  /\ prog = 3 /\ Fit(n) /\ vec[n].used >= 1
  /\ Put(n, [vec[n] EXCEPT !.used = @ - 1])
  /\ Wanted(n, Front(want[n]))
  /\ UNCHANGED heap /\ Quiet

\* A full vector pushes all its elements and t into a longer tmp, and swaps.
push_3(n, t, at) ==
  /\ prog = 3 /\ Fit(n) /\ Free # {}
  /\ LET v == vec[n]
         longer == v.size * 2 + 1
         tmp == Array(Elements(n) \o <<t>> \o Zeros(longer - v.used - 1))
     IN /\ UNCHANGED <<prog, torn, drops, state>>
        /\ IF v.used < v.size
           THEN /\ UNCHANGED stray
                /\ IF at = 1 THEN UNCHANGED <<vec, heap, want>>
                   ELSE /\ heap' = [heap EXCEPT ![v.arr].cells[v.used + 1] = t]
                        /\ Put(n, [v EXCEPT !.used = @ + 1]) /\ Wanted(n, Append(want[n], t))
           ELSE /\ longer <= MaxSize
                /\ IF at <= v.used + 2
                   THEN Torn(IF at = 1 THEN 0 ELSE at - 2) /\ UNCHANGED <<vec, heap, want>>
                   ELSE /\ heap' = [Without(heap, v.arr) EXCEPT ![New] = tmp]
                        /\ Put(n, Vector(New, longer, v.used + 1))
                        /\ Wanted(n, Append(want[n], t)) /\ Torn(v.used)

-----------------------------------------------------------------------------
\* The end of a vector: only the third version has a destructor.
end(n) ==
  /\ vec[n].on
  /\ vec' = [vec EXCEPT ![n] = NoVector] /\ Wanted(n, << >>)
  /\ torn' = torn \ {n}
  /\ IF prog = 3 THEN heap' = Without(heap, vec[n].arr) /\ Torn(vec[n].used) /\ UNCHANGED drops
     ELSE /\ drops' = drops + (IF vec[n].arr # Nullptr /\ heap[vec[n].arr].live THEN 1 ELSE 0)
          /\ heap' = Lost(heap, vec[n].arr) /\ UNCHANGED stray
  /\ UNCHANGED <<prog, state>>

\* The bound on blocks: all are lost, and no vector is left.
Exhausted == Free = {} /\ \A n \in Names : ~vec[n].on

Next ==
  \/ /\ state = "run"
     /\ \/ \E n \in Names, sz \in 0..1 : make(n, sz)
        \/ \E d, s \in Names : move(d, s) \/ move_assign(d, s)
        \/ \E d, s \in Names, at \in Points :
             \/ copy_1(d, s, at) \/ assign_1(d, s, at)
             \/ copy_2(d, s, at) \/ assign_2(d, s, at)
             \/ copy_3(d, s, at) \/ assign_3(d, s, at)
        \/ \E n \in Names : pop_1(n) \/ pop_2(n) \/ pop_3(n) \/ end(n)
        \/ \E n \in Names, t \in Values, at \in Points :
             push_1(n, t, at) \/ push_2(n, t, at) \/ push_3(n, t, at)
  \/ (state = "undefined" \/ Exhausted) /\ UNCHANGED vars

Spec == Init /\ [][Next]_vars

-----------------------------------------------------------------------------
(* Properties.                                                             *)

Owned == {vec[n].arr : n \in {m \in Names : vec[m].on}} \ {Nullptr}
Unowned == Cardinality(Live \ Owned)

\* Whatever throws, and wherever, every vector holds what its user put into it, in an
\* array of its own: only the assignment of the first version can leave a vector
\* half done.  The second version loses exactly the arrays that a destructor would
\* have freed, the first one also those of failed copies, the third none; its
\* destructor never goes further than one place behind the elements.
ArchiveKept ==
  /\ \A n \in Names : Fit(n) =>
       /\ Elements(n) = want[n]
       /\ vec[n].arr # Nullptr => heap[vec[n].arr].live /\ Len(Cells(n)) = vec[n].size
       /\ vec[n].used <= vec[n].size
       /\ \A m \in Names \ {n} : Fit(m) => vec[m].arr # vec[n].arr \/ vec[n].arr = Nullptr
  /\ torn # {} => prog = 1
  /\ CASE prog = 1 -> Unowned >= drops
       [] prog = 2 -> Unowned = drops
       [] prog = 3 -> Unowned = 0 /\ stray <= 1
=============================================================================
