----------------------------- MODULE IterRanges -----------------------------
(***************************************************************************)
(* The iterator programs of 14-iterators: the zip range of ziprange.hpp    *)
(* under the loops of ziptests.cc, the conversions of meyers.cc and        *)
(* hinnant.cc from constant and reverse iterators, the ranges of fibit.cc  *)
(* and revcont.cc, and the two matrix products of matrix_repro.cc (and of  *)
(* archive/interesting, which has a third).  A container is a sequence, an *)
(* iterator an offset into it, Len at its end; a read past the end ends a  *)
(* behaviour with "overrun".                                               *)
(***************************************************************************)
EXTENDS Integers, Sequences, SequencesExt, FiniteSetsExt, Functions

CONSTANTS Conts,      \* containers, sequences of numbers
          Matrices    \* [lines, columns, m] with the elements of m row by row

VARIABLES prog,       \* the program
          in,         \* its input
          at,         \* its iterator: an offset, or a pair for zip, [cur, prev] for fib
          cont,       \* the containers as they are now
          out,        \* what was printed
          status      \* "run", "ok", "abort", "overrun", "dangling", "divergence"

vars == <<prog, in, at, cont, out, status>>

End(s) == /\ status' = s
          /\ UNCHANGED <<prog, in, at, cont, out>>

-----------------------------------------------------------------------------
(* zip_iterator_t and zip_range_t                                          *)

zip_begin == <<0, 0>>
zip_end(c) == <<Len(c[1]), Len(c[2])>>

\* operator++ moves both.
increment(it) == <<it[1] + 1, it[2] + 1>>

\* Slip: the range ends with the shorter container.
EqualsEither(it, rhs) == it[1] = rhs[1] \/ it[2] = rhs[2]

\* equals: both are equal.
equals(it, rhs) == it[1] = rhs[1] /\ it[2] = rhs[2]

InRange(it, c) == it[1] < Len(c[1]) /\ it[2] < Len(c[2])

\* operator*, and operator-> through its proxy: references into both.
dereference(it, c) == <<c[1][it[1] + 1], c[2][it[2] + 1]>>

Assigned(it, c, x) == [c EXCEPT ![1][it[1] + 1] = x]

\* for (auto &&both : make_zip_range(k, v))
ZipLoop ==
  /\ prog = "zip" /\ status = "run"
  /\ IF equals(at, zip_end(cont)) THEN End("ok")
     ELSE IF ~InRange(at, cont) THEN End("overrun")
     ELSE /\ out' = Append(out, dereference(at, cont))
          /\ at' = increment(at)
          /\ UNCHANGED <<prog, in, cont, status>>

\* (*zit).first = 42, as the first part of ziptests.cc does before the loop.
ZipAssign ==
  /\ prog = "zip" /\ status = "run" /\ at = zip_begin /\ InRange(at, cont)
  /\ cont' = Assigned(at, cont, 42)
  /\ UNCHANGED <<prog, in, at, out, status>>

\* operator++(int) returns a reference to its local temp.
ZipPostIncrement == prog = "zip" /\ status = "run" /\ InRange(at, cont) /\ End("dangling")

-----------------------------------------------------------------------------
(* meyers.cc, hinnant.cc, revcont.cc, fibit.cc                             *)

\* A reverse iterator stands one behind what it reads.
base(rit, c) == Len(c) - rit

\* std::advance from begin() by the distance to the constant one.
Begin == 0
remove_constness_meyers(it) == Begin + (it - Begin)
remove_constness_reverse_meyers(rit) == Begin + (rit - Begin)

\* c.erase(it, it) erases nothing and returns a plain iterator to the place.
remove_constness(c, it) == it

Times(c, i, k) == [c EXCEPT ![i + 1] = k * @]

\* Slip: what a reverse iterator stands on is taken for what it reads.
MeyersOffByOne ==
  /\ prog = "meyers" /\ status = "run"
  /\ cont' = LET vi == remove_constness_meyers(base(in.steps, cont))
                 rvi == remove_constness_reverse_meyers(in.steps)
             IN  Times(Times(cont, vi, 3), Len(cont) - 1 - (rvi - 1), 2)
  /\ status' = "ok"
  /\ UNCHANGED <<prog, in, at, out>>

\* test(): crbegin advanced by in.steps (four), the element after it times 3 and
\* the one it reads times 2.
meyers ==
  /\ prog = "meyers" /\ status = "run"
  /\ cont' = LET vi == remove_constness_meyers(base(in.steps, cont))
                 rvi == remove_constness_reverse_meyers(in.steps)
             IN  Times(Times(cont, vi, 3), Len(cont) - 1 - rvi, 2)
  /\ status' = "ok"
  /\ UNCHANGED <<prog, in, at, out>>

hinnant ==
  /\ prog = "hinnant" /\ status = "run"
  /\ cont' = Times(cont, remove_constness(cont, base(in.steps, cont)), 3)
  /\ status' = "ok"
  /\ UNCHANGED <<prog, in, at, out>>

\* begin and end of reversion_wrapper are rbegin and rend.
reverse_cont ==
  /\ prog = "revcont" /\ status = "run"
  /\ IF at = Len(cont) THEN End("ok")
     ELSE /\ out' = Append(out, cont[Len(cont) - at])
          /\ at' = at + 1
          /\ UNCHANGED <<prog, in, cont, status>>

\* Members compare one by one; prev takes the old cur.
fib_end == [cur |-> 89, prev |-> 55]
fibonacci ==
  /\ prog = "fib" /\ status = "run"
  /\ IF at = fib_end THEN End("ok")
     ELSE /\ out' = Append(out, at.cur)
          /\ at' = [cur |-> at.cur + at.prev, prev |-> at.cur]
          /\ UNCHANGED <<prog, in, cont, status>>

-----------------------------------------------------------------------------
(* matrix_repro.cc                                                         *)

Index(i, j, columns) == i * columns + j + 1

\* resizeto on an empty matrix: zeros.
resizeto(l, c) == [lines |-> l, columns |-> c, m |-> [q \in 1..(l * c) |-> 0]]

\* The sum over k < AY of a's row i and column j of b, transposed in tmp.
Cell(A, B, ac, bc, i, j) ==
  LET tmp == [q \in 1..(bc * ac) |-> B[Index((q - 1) % ac, (q - 1) \div ac, bc)]]
  IN  MapThenSumSet(LAMBDA k : A[Index(i, k, ac)] * tmp[Index(j, k, ac)], 0..(ac - 1))

\* The places that the loops over i < AX and j < BY write, by the row length.
Written(ar, bc, columns) == {Index(i, j, columns) : i \in 0..(ar - 1), j \in 0..(bc - 1)}

\* Does a product with result c stay inside its vectors?
Inside(a, b, c, columns) ==
  /\ a.columns * b.columns <= Len(b.m)
  /\ \A q \in Written(a.lines, b.columns, columns) : q <= Len(c.m)

\* Slip: the row length of the result is the one of B.
AtByB(a, b, c) ==
  [c EXCEPT !.m = [q \in DOMAIN c.m |->
     IF q \in Written(a.lines, b.columns, b.columns)
     THEN Cell(a.m, b.m, a.columns, b.columns, (q - 1) \div b.columns, (q - 1) % b.columns)
     ELSE c.m[q]]]

\* c.at(i, j) goes by the row length of c, which has the shape of a.
cpp_transpose_mult(a, b, c) ==
  [c EXCEPT !.m = [q \in DOMAIN c.m |->
     IF q \in Written(a.lines, b.columns, c.columns)
     THEN Cell(a.m, b.m, a.columns, b.columns, (q - 1) \div c.columns, (q - 1) % c.columns)
     ELSE c.m[q]]]

\* C[i * BY + j] goes by the row length of b.
iter_transpose_mult(a, b, c) ==
  [c EXCEPT !.m = [q \in DOMAIN c.m |->
     IF q <= a.lines * b.columns
     THEN Cell(a.m, b.m, a.columns, b.columns, (q - 1) \div b.columns, (q - 1) % b.columns)
     ELSE c.m[q]]]

\* The one over pointers of archive/interesting.
c_transpose_mult(a, b, c) == iter_transpose_mult(a, b, c)

\* How a main of the two may end early: an assertion on the lines, one that wants
\* no zeros, and an overrun in either product; the older one goes the other way.
Failures(older) ==
  LET a == in.a
      z == resizeto(a.lines, a.columns)
      lines == <<a.lines # in.b.lines, "abort">>
      zero == <<0 \in {a.lines, a.columns, in.b.columns}, "abort">>
      over(columns) == <<~Inside(a, in.b, z, columns), "overrun">>
  IN  IF older THEN <<zero, over(in.b.columns), lines, over(a.columns)>>
      ELSE <<lines, over(a.columns), zero, over(in.b.columns)>>

\* A cell that differs is reported, and the program goes on.
matrix_main(older) ==
  LET z == resizeto(in.a.lines, in.a.columns)
      fail == SelectInSeq(Failures(older), LAMBDA f : f[1])
      cpp == cpp_transpose_mult(in.a, in.b, z)
      other == IF older THEN c_transpose_mult(in.a, in.b, z)
               ELSE iter_transpose_mult(in.a, in.b, z)
  IN /\ prog = (IF older THEN "older" ELSE "matrix") /\ status = "run"
     /\ IF fail # 0 THEN End(Failures(older)[fail][2])
        ELSE /\ cont' = <<cpp, other>>
             /\ status' = IF cpp = other THEN "ok" ELSE "divergence"
             /\ UNCHANGED <<prog, in, at, out>>

-----------------------------------------------------------------------------
Fresh(p, i, a, c) ==
  /\ prog = p /\ in = i /\ at = a /\ cont = c
  /\ out = << >> /\ status = "run"

Init ==
  \/ \E k, v \in Conts : Fresh("zip", <<k, v>>, zip_begin, <<k, v>>)
  \/ \E p \in {"meyers", "hinnant"}, c \in Conts : \E n \in 1..(Len(c) - 1) :
       Fresh(p, [c |-> c, steps |-> n], 0, c)
  \/ \E c \in Conts : Fresh("revcont", c, 0, c)
  \/ Fresh("fib", << >>, [cur |-> 1, prev |-> 0], << >>)
  \/ \E p \in {"matrix", "older"}, a, b \in Matrices : Fresh(p, [a |-> a, b |-> b], 0, << >>)

Ended == status # "run" /\ UNCHANGED vars

Next == \/ ZipLoop \/ ZipAssign \/ ZipPostIncrement
        \/ meyers \/ hinnant \/ reverse_cont \/ fibonacci
        \/ \E older \in BOOLEAN : matrix_main(older)
        \/ Ended

Spec == Init /\ [][Next]_vars

-----------------------------------------------------------------------------
(* Properties.                                                             *)

Zipped(c) == [i \in 1..Min({Len(c[1]), Len(c[2])}) |-> <<c[1][i], c[2][i]>>]

\* A loop over a zip range reads the pairs in order; it ends after the last one
\* when the containers are equally long, and otherwise runs past the shorter
\* one instead of stopping there.
ZipPairs ==
  prog = "zip" =>
    /\ out = SubSeq(Zipped(cont), 1, Len(out)) /\ Len(out) = at[1]
    /\ status = "ok" => Len(in[1]) = Len(in[2]) /\ out = Zipped(cont)
    /\ status = "overrun" => Len(in[1]) # Len(in[2]) /\ out = Zipped(cont)

\* The conversions find the place the constant iterator had: the two elements on
\* either side of it, and no others, are multiplied, as the comment in test()
\* draws it.  The reversed range and the Fibonacci range end where they should.
PlacesKept ==
  status = "ok" =>
    /\ prog \in {"meyers", "hinnant"} =>
         cont = [i \in 1..Len(in.c) |->
                   CASE i = Len(in.c) - in.steps + 1 -> 3 * in.c[i]
                     [] i = Len(in.c) - in.steps /\ prog = "meyers" -> 2 * in.c[i]
                     [] OTHER -> in.c[i]]
    /\ prog = "revcont" => out = Reverse(in)
    /\ prog = "fib" => /\ Len(out) = 10 /\ out[10] = 55
                       /\ \A i \in 3..10 : out[i] = out[i - 1] + out[i - 2]

Product(a, b, i, j) ==
  MapThenSumSet(LAMBDA k : a.m[Index(i, k, a.columns)] * b.m[Index(k, j, b.columns)],
                0..(a.columns - 1))

\* Two square matrices of one size are multiplied rightly and no divergence is
\* reported.  Whatever else passes the assertion has a B that is too small or too
\* wide for the vectors, or rows that the two results place differently.
MatrixRight ==
  prog \in {"matrix", "older"} /\ status # "run" =>
    LET a == in.a
        b == in.b
        square == a.lines = a.columns /\ b.lines = a.columns /\ b.columns = a.columns
    IN /\ square /\ a.lines > 0 => status = "ok"
       /\ status = "ok" /\ square =>
            \A c \in {1, 2} : \A i, j \in 0..(a.lines - 1) :
              cont[c].m[Index(i, j, a.columns)] = Product(a, b, i, j)
       /\ status = "overrun" => a.columns > b.lines \/ b.columns > a.columns
       /\ status = "divergence" => b.columns < a.columns
       /\ status \in {"ok", "divergence"} /\ b.lines = a.columns =>
            \A i \in 0..(a.lines - 1), j \in 0..(b.columns - 1) :
              cont[1].m[Index(i, j, a.columns)] = Product(a, b, i, j)
=============================================================================
