------------------------------ MODULE CopyBench -----------------------------
(***************************************************************************)
(* The copy benchmarks of 13-sfinae and archive/12-iters: naive_copy, and  *)
(* nonnaive_copy, which picks memcpy or a loop from the types alone.  They *)
(* run under their own main, over vectors and new int[n], or are called    *)
(* with other iterators and with ranges that overlap.  Memory is a row of  *)
(* cells; a range is the sequence of the cells of its elements, a deque    *)
(* has a gap after every second one and a list behind each.                *)
(***************************************************************************)
EXTENDS Integers, Sequences, SequencesExt

CONSTANTS MaxElts      \* bound on the elements

VARIABLES
  prog,    \* "naive", "sel", and "old-naive", "old-sel" of the archive
  call,    \* the range copied, where to, and what the types are
  mem,     \* the cells
  pos,     \* elements copied by the loop
  pc,      \* "start", "memcpy", "call", "check", or "done"
  out      \* "none", "ok", "mismatch", "usage", "throws", "undefined"

vars == <<prog, call, mem, pos, pc, out>>

Cells == 1..(6 * MaxElts + 2)
Region == 2 * MaxElts       \* arr, arrcopy and arrcopy2 have one each
Untouched == 0

Layout(kind, n, base) ==
  [i \in 1..n |-> base + CASE kind \in {"pointer", "vector"} -> i
                           [] kind = "deque" -> i + (i - 1) \div 2
                           [] kind = "list" -> 2 * i - 1]

Call(kind, n, to, trivial, main) ==
  [kind |-> kind, n |-> n, src |-> Layout(kind, n, 1), dst |-> Layout(kind, n, to),
   trivial |-> trivial, main |-> main]

\* main has vectors, or arrays in the archive.
Own(p) == IF p \in {"naive", "sel"} THEN "vector" ELSE "pointer"

\* The ranges lie apart, or the target is one cell before or behind the source.
Targets(kind) == {1 + 2 * Region} \cup (IF kind \in {"pointer", "vector"} THEN {0, 2} ELSE {})

Init ==
  /\ prog \in {"naive", "sel", "old-naive", "old-sel"}
  /\ \/ \E n \in -1..MaxElts, argc \in {1, 2} :
          /\ call = [Call(Own(prog), n, 1 + 2 * Region, TRUE, TRUE) EXCEPT !.main = argc = 2]
          /\ pc = "start"
     \/ \E kind \in {"pointer", "vector", "deque", "list"}, n \in 0..MaxElts, trivial \in BOOLEAN :
          \E to \in Targets(kind) :
            call = Call(kind, n, to, trivial, FALSE) /\ pc = "call"
  /\ mem = [c \in Cells |-> IF c \in 2..(Region + 1) THEN c ELSE Untouched]
  /\ pos = 0 /\ out = "none"

Goto(l) == pc' = l /\ UNCHANGED <<prog, call, mem, pos, out>>
Ends(o) == pc' = "done" /\ out' = o /\ UNCHANGED <<prog, call, mem, pos>>
CopyRow == Layout(call.kind, call.n, 1 + Region)      \* arrcopy

\* No argument, a negative number of elements, or three ranges of them.
Started == IF ~call.main THEN Ends("usage") ELSE IF call.n < 0 THEN Ends("throws") ELSE Goto("memcpy")

start_naive == prog = "naive" /\ pc = "start" /\ Started
start_sel == prog = "sel" /\ pc = "start" /\ Started
start_old_naive == prog = "old-naive" /\ pc = "start" /\ Started
start_old_sel == prog = "old-sel" /\ pc = "start" /\ Started

\* Cells from one place on to another.
memcpy(from, to, n) == [c \in Cells |-> IF c \in to..(to + n - 1) THEN mem[from + c - to] ELSE mem[c]]

\* memcpy(arrcopy, arr, nelts * sizeof(int))
main_memcpy ==
  /\ pc = "memcpy"
  /\ mem' = IF call.n = 0 THEN mem ELSE memcpy(call.src[1], CopyRow[1], call.n)
  /\ pc' = "call"
  /\ UNCHANGED <<prog, call, pos, out>>

After == IF call.main THEN "check" ELSE "done"

\* *d_first++ = *first++
Loop ==
  IF pos = call.n
  THEN pc' = After /\ out' = (IF call.main THEN "none" ELSE "ok") /\ UNCHANGED <<prog, call, mem, pos>>
  ELSE /\ mem' = [mem EXCEPT ![call.dst[pos + 1]] = mem[call.src[pos + 1]]]
       /\ pos' = pos + 1
       /\ UNCHANGED <<prog, call, pc, out>>

naive_copy == prog = "naive" /\ pc = "call" /\ Loop
old_naive_copy == prog = "old-naive" /\ pc = "call" /\ Loop

\* Slip: the archive's test for pointers is gone.
OldSelAnyIterator == call.trivial

\* Which types select memcpy: only the archive wants pointers.
Sel == call.trivial
OldSel == call.kind = "pointer" /\ call.trivial

\* end - begin of a list does not compile.
Compiles == call.kind # "list"

Overlap == \E i, j \in 1..call.n : call.src[i] = call.dst[j]

\* memcpy(&*out, &*begin, sz): the end of an empty vector is not to be dereferenced,
\* and overlapping ranges are not to be given to memcpy.
Select ==
  IF (call.n = 0 /\ prog = "sel" /\ call.kind # "pointer") \/ (call.n > 0 /\ Overlap) THEN Ends("undefined")
  ELSE /\ mem' = IF call.n = 0 THEN mem ELSE memcpy(call.src[1], call.dst[1], call.n)
       /\ pc' = After /\ out' = IF call.main THEN "none" ELSE "ok"
       /\ UNCHANGED <<prog, call, pos>>

long_copy == prog = "sel" /\ pc = "call" /\ ~Sel /\ Loop
old_long_copy == prog = "old-sel" /\ pc = "call" /\ ~OldSel /\ Loop
CpSel == prog = "sel" /\ pc = "call" /\ Sel /\ Compiles /\ Select
OldCpSel == prog = "old-sel" /\ pc = "call" /\ OldSel /\ Compiles /\ Select

\* std::mismatch of the two copies.
Checked == Ends(IF \A i \in 1..call.n : mem[CopyRow[i]] = mem[call.dst[i]] THEN "ok" ELSE "mismatch")

check_naive == prog = "naive" /\ pc = "check" /\ Checked
check_sel == prog = "sel" /\ pc = "check" /\ Checked
check_old_naive == prog = "old-naive" /\ pc = "check" /\ Checked
check_old_sel == prog = "old-sel" /\ pc = "check" /\ Checked

\* The end, or a call that does not compile.
Done == /\ \/ pc = "done"
           \/ pc = "call" /\ ~Compiles /\ (prog = "sel" /\ Sel)
        /\ UNCHANGED vars

Next ==
  \/ start_naive \/ start_sel \/ start_old_naive \/ start_old_sel
  \/ main_memcpy
  \/ naive_copy \/ old_naive_copy \/ long_copy \/ old_long_copy \/ CpSel \/ OldCpSel
  \/ check_naive \/ check_sel \/ check_old_naive \/ check_old_sel
  \/ Done

Spec == Init /\ [][Next]_vars

-----------------------------------------------------------------------------
(* Properties.                                                             *)

Original(c) == c

Exact == /\ \A i \in 1..call.n : mem[call.dst[i]] = Original(call.src[i])
         /\ \A c \in Cells : c \notin ToSet(call.dst) /\ c > 1 + 2 * Region => mem[c] = Untouched

Forward == call.n > 0 /\ call.dst[1] > call.src[1] /\ Overlap

\* "sanity: do we have mismatch (we shall not)": no main reports one, and every copy
\* is exact, with no cell outside the target touched, over every kind of iterator; but
\* a loop into a target that overlaps behind its source repeats the first element,
\* and memcpy over a deque, which only the newer selection allows, goes through the
\* gap of a third element.  What is undefined is so only for the newer selection on
\* an empty range or for memcpy of overlapping ranges.
CopiesExact ==
  /\ out # "mismatch"
  /\ out = "ok" =>
       \/ Exact
       \/ Forward /\ \A i \in 1..call.n : mem[call.dst[i]] = Original(call.src[1])
       \/ prog = "sel" /\ call.trivial /\ call.kind = "deque" /\ call.n > 2
  /\ out = "undefined" =>
       /\ prog \in {"sel", "old-sel"} /\ call.trivial
       /\ call.n = 0 => prog = "sel"
       /\ call.kind # "pointer" => prog = "sel"
=============================================================================
