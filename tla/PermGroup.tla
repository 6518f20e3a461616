----------------------------- MODULE PermGroup ------------------------------
(***************************************************************************)
(* Permutations of an integral domain: idomain.hpp, permloops.hpp,         *)
(* perms.hpp and groups.hpp of 17-algorithms/permutations, and the         *)
(* constexpr edition of the loops in 18-constexpr/permutations.            *)
(*                                                                         *)
(* A loop is the sequence loop_; a table, which the code indexes by        *)
(* element - start, is a function on the domain.  Loops have distinct      *)
(* elements: the code states that as its main assumption and checks it     *)
(* only under -DCHECKS.  A Permutation is its loops_ in canonical form; a  *)
(* caller constructs one, multiplies it on either side, inverts it, and    *)
(* asks for orbits under two generators.  orbit and orbit_reps advance by  *)
(* one round of their while loop.                                          *)
(***************************************************************************)
EXTENDS Integers, SequencesExt, FiniteSetsExt, Relation

CONSTANTS start, fin,  \* the bounds of Idom<T, start, fin>
          Lists,       \* the lists of loops permutations are constructed from
          Factors      \* the ones multiplied by and used as generators

VARIABLES pc,        \* "new", "group", "orbit", "reps", "done", "constexpr"
          loops_,    \* the permutation at hand
          f,         \* history: the map of the domain it stands for
          num, gens, \* the arguments of orbit and orbit_reps
          orb, next  \* their locals: representatives by element

vars == <<pc, loops_, f, num, gens, orb, next>>

Idom == start..fin

\* Idom::iota as a table: every element at its own place.
iota == [x \in Idom |-> x]

\* Loops as a caller may write them: distinct elements in any order.
RawLoops == {l \in UNION {[1..n -> Idom] : n \in 1..(fin - start + 1)} : IsInjective(l)}

-----------------------------------------------------------------------------
(* PermLoop                                                                *)

\* min_element, then rotate it to the front.
reroll(l) ==
  LET m == SelectInSeq(l, LAMBDA x : \A y \in ToSet(l) : x <= y)
  IN  SubSeq(l, m, Len(l)) \o SubSeq(l, 1, m - 1)

\* What check() insists on.
check(l) == l # << >> /\ IsInjective(l) /\ \A x \in ToSet(l) : l[1] <= x

\* The constructors, from a list and from a range.
PermLoop(ls) == reroll(ls)

smallest(l) == Head(l)

contains(l, x) == x \in ToSet(l)

add(l, x) == reroll(Append(l, x))

\* The smallest element stays, the rest is reversed.
inverse(l) == IF Len(l) < 3 THEN l ELSE <<Head(l)>> \o Reverse(Tail(l))

apply(l, x) ==
  LET at == SelectInSeq(l, LAMBDA y : y = x)
  IN  IF at = 0 THEN x ELSE IF at = Len(l) THEN l[1] ELSE l[at + 1]

\* The hole starts at the first element and moves along the loop; what stood
\* there first fills it at the end.
apply_table(l, t) ==
  LET move(s, x) == IF x = l[1] THEN [s EXCEPT !.nxt = x]
                    ELSE [t |-> [s.t EXCEPT ![s.nxt] = s.t[x]], nxt |-> x]
      s == FoldLeft(move, [t |-> t, nxt |-> l[1]], l)
  IN  [s.t EXCEPT ![s.nxt] = t[l[1]]]

\* Size first, then the first place that differs.
less(l, r) ==
  IF Len(l) # Len(r) THEN Len(l) < Len(r)
  ELSE \E i \in 1..Len(l) : l[i] < r[i] /\ \A j \in 1..(i - 1) : l[j] = r[j]

-----------------------------------------------------------------------------
(* Loops from tables and back.                                             *)

\* The elements after t until the table leads back to t.
AfterIn(table, t) ==
  LET nth[k \in Nat] == IF k = 0 THEN t ELSE table[nth[k - 1]]
      len == CHOOSE k \in 1..(fin - start + 1) :
               nth[k] = t /\ \A j \in 1..(k - 1) : nth[j] # t
  IN  [k \in 1..(len - 1) |-> nth[k]]

\* One loop from each element that no earlier loop has marked.
create_loops(table) ==
  LET visit(s, t) ==
        IF t \in s.marked THEN s
        ELSE LET rest == AfterIn(table, t)
             IN  [marked |-> s.marked \cup {t} \cup ToSet(rest),
                  out |-> Append(s.out, FoldLeft(add, PermLoop(<<t>>), rest))]
  IN  FoldLeft(visit, [marked |-> {}, out |-> << >>],
               [i \in 1..(fin - start + 1) |-> start + i - 1]).out

\* Slip: the loops are applied to the table first to last.
SimplifyForward(ls) ==
  create_loops(FoldLeft(LAMBDA t, l : apply_table(l, t), iota, ls))

\* The product of the loops, the last one applied to the table first.
simplify_loops(ls) ==
  create_loops(FoldLeft(LAMBDA t, l : apply_table(l, t), iota, Reverse(ls)))

-----------------------------------------------------------------------------
(* The constexpr edition: loop_ is an array of N elements, so the list of  *)
(* the constructor is cut to its first N, and N is fixed from then on.     *)

ConstexprIdom == start..fin

ConstexprIota == [x \in ConstexprIdom |-> x]

make_array(ls, n) == SubSeq(ls, 1, n)

ConstexprReroll(l) ==
  LET at == SelectInSeq(l, LAMBDA x : \A y \in ToSet(l) : x <= y)
  IN  SubSeq(l, at, Len(l)) \o SubSeq(l, 1, at - 1)

ConstexprLoop(ls, n) == ConstexprReroll(make_array(ls, n))

ConstexprCheck(l) == l # << >> /\ IsInjective(l) /\ Head(l) = Min(ToSet(l))

ConstexprContains(l, x) == SelectInSeq(l, LAMBDA y : y = x) # 0

\* Loops of one type are equally long, so the sizes never decide.
ConstexprLess(l, r) == \E i \in DOMAIN l : l[i] < r[i] /\ SubSeq(l, 1, i - 1) = SubSeq(r, 1, i - 1)

ConstexprInverse(l) == inverse(l)

ConstexprElem(l, x) == apply(l, x)

ConstexprApply(l, t) == apply_table(l, t)

-----------------------------------------------------------------------------
(* Permutation                                                             *)

sortloops(ls) == SortSeq(ls, LAMBDA l, r : smallest(l) > smallest(r))

\* The identity: one loop for every element.
DefaultPermutation == sortloops([i \in 1..(fin - start + 1) |-> <<start + i - 1>>])

Permutation(ls) == sortloops(simplify_loops([i \in DOMAIN ls |-> PermLoop(ls[i])]))

lmul(p, input) == sortloops(simplify_loops(input \o p))

rmul(p, input) == sortloops(simplify_loops(p \o input))

\* Slip: the representatives are multiplied in the other order.
ProductSwapped(lhs, rhs) == lmul(lhs, rhs)

product(lhs, rhs) == rmul(lhs, rhs)

inverse_all(p) == [i \in DOMAIN p |-> inverse(p[i])]

apply_elem(p, x) == FoldLeft(LAMBDA y, l : apply(l, y), x, p)

apply_all(p, t) == FoldLeft(LAMBDA u, l : apply_table(l, u), t, p)

\* check(): the domain is covered and smallest elements strictly decrease.
check_all(p) ==
  /\ p # << >>
  /\ \A x \in Idom : \E i \in DOMAIN p : contains(p[i], x)
  /\ \A i \in 1..(Len(p) - 1) : smallest(p[i]) > smallest(p[i + 1])

contains_all(p, x) == \E i \in DOMAIN p : contains(p[i], x)

equals_all(p, q) == q = p

less_all(p, q) ==
  IF Len(p) # Len(q) THEN Len(p) < Len(q)
  ELSE \E i \in 1..Len(p) : less(p[i], q[i]) /\ \A j \in 1..(i - 1) : p[j] = q[j]

-----------------------------------------------------------------------------
(* What loops and their products mean.                                     *)

LoopMap(l) ==
  [x \in Idom |-> IF x \in ToSet(l) THEN l[((CHOOSE i \in DOMAIN l : l[i] = x) % Len(l)) + 1]
                  ELSE x]

Then(g, h) == [x \in Idom |-> h[g[x]]]

MapOf(ls) == FoldLeft(LAMBDA g, l : Then(g, LoopMap(l)), iota, ls)

Nobody == [x \in {} |-> << >>]

Init == /\ pc = "new"
        /\ loops_ = << >> /\ f = iota
        /\ num = start /\ gens = << >>
        /\ orb = Nobody /\ next = Nobody

Construct(ls) ==
  /\ pc = "new"
  /\ loops_' = Permutation(ls) /\ f' = MapOf(ls)
  /\ pc' = "group"
  /\ UNCHANGED <<num, gens, orb, next>>

ConstructDefault ==
  /\ pc = "new"
  /\ loops_' = DefaultPermutation /\ f' = iota
  /\ pc' = "group"
  /\ UNCHANGED <<num, gens, orb, next>>

MultiplyLeft(ls) ==
  /\ pc = "group"
  /\ loops_' = lmul(loops_, Permutation(ls)) /\ f' = Then(MapOf(ls), f)
  /\ UNCHANGED <<pc, num, gens, orb, next>>

MultiplyRight(ls) ==
  /\ pc = "group"
  /\ loops_' = rmul(loops_, Permutation(ls)) /\ f' = Then(f, MapOf(ls))
  /\ UNCHANGED <<pc, num, gens, orb, next>>

Invert ==
  /\ pc = "group"
  /\ loops_' = inverse_all(loops_) /\ f' = AntiFunction(f)
  /\ UNCHANGED <<pc, num, gens, orb, next>>

\* The program of 18-constexpr: one loop of n elements, applied or inverted.
ConstructConstexpr(l, n) ==
  /\ pc = "new"
  /\ loops_' = <<ConstexprLoop(l, n)>> /\ f' = LoopMap(SubSeq(l, 1, n))
  /\ pc' = "constexpr"
  /\ UNCHANGED <<num, gens, orb, next>>

InvertConstexpr ==
  /\ pc = "constexpr"
  /\ loops_' = <<ConstexprInverse(loops_[1])>> /\ f' = AntiFunction(f)
  /\ UNCHANGED <<pc, num, gens, orb, next>>

-----------------------------------------------------------------------------
(* orbit and orbit_reps                                                    *)

\* The caller asks for the orbit of x under the permutation and one factor.
Call(kind, x, ls) ==
  /\ pc = "group"
  /\ pc' = kind
  /\ num' = x /\ gens' = <<loops_, Permutation(ls)>>
  /\ orb' = Nobody /\ next' = (x :> DefaultPermutation)
  /\ UNCHANGED <<loops_, f>>

\* Slip: only the first generator is tried.
ReachedByFirst(o) == {apply_elem(gens[1], e) : e \in DOMAIN next} \ DOMAIN o

\* The elements not yet in the orbit that one generator reaches from next.
Reached(o) ==
  {apply_elem(gens[i], e) : i \in DOMAIN gens, e \in DOMAIN next} \ DOMAIN o

\* One round of orbit: the elements alone, so every representative is the same.
orbit ==
  /\ pc = "orbit" /\ next # Nobody
  /\ orb' = next @@ orb
  /\ next' = [e \in Reached(orb') |-> << >>]
  /\ UNCHANGED <<pc, loops_, f, num, gens>>

\* One round of orbit_reps.  next is walked in an order the hash table gives;
\* try_emplace keeps the first representative offered.
orbit_reps ==
  /\ pc = "reps" /\ next # Nobody
  /\ orb' = next @@ orb
  /\ \E order \in SetToSeqs(DOMAIN next) :
       LET offers == FlattenSeq([j \in DOMAIN order |->
                       [i \in DOMAIN gens |-> <<order[j], gens[i]>>]])
           target(o) == apply_elem(o[2], o[1])
           first(e) == offers[SelectInSeq(offers, LAMBDA o : target(o) = e)]
       IN  next' = [e \in Reached(orb') |-> product(next[first(e)[1]], first(e)[2])]
  /\ UNCHANGED <<pc, loops_, f, num, gens>>

Return ==
  /\ pc \in {"orbit", "reps"} /\ next = Nobody
  /\ pc' = "done"
  /\ UNCHANGED <<loops_, f, num, gens, orb, next>>

Next == \/ pc = "new" /\ \E ls \in Lists : Construct(ls)
        \/ ConstructDefault
        \/ \E ls \in Factors : MultiplyLeft(ls) \/ MultiplyRight(ls)
        \/ Invert
        \/ pc = "new" /\ \E l \in RawLoops : \E n \in 1..Len(l) : ConstructConstexpr(l, n)
        \/ InvertConstexpr
        \/ \E kind \in {"orbit", "reps"}, x \in Idom, ls \in Factors : Call(kind, x, ls)
        \/ orbit \/ orbit_reps
        \/ Return

Spec == Init /\ [][Next]_vars

-----------------------------------------------------------------------------
(* Properties.                                                             *)

\* The canonical loops of a map: from every element that is the smallest of its
\* cycle, the largest of these first.
Canonical(g) ==
  LET power[k \in 0..(fin - start + 1)] == IF k = 0 THEN iota ELSE Then(power[k - 1], g)
      cycle(x) == {power[k][x] : k \in DOMAIN power}
      mins == {x \in Idom : \A y \in cycle(x) : x <= y}
  IN  [i \in 1..Cardinality(mins) |->
         LET m == SetToSortSeq(mins, >)[i]
         IN  [k \in 1..Cardinality(cycle(m)) |-> power[k - 1][m]]]

\* However a permutation came about, its loops are the one canonical form of
\* the map it stands for, so comparing loops compares maps; applying it to an
\* element and to a table both perform that map, and < orders it against any
\* other permutation.
Denotes ==
  /\ pc = "constexpr" =>
    LET l == loops_[1]
        i == ConstexprInverse(l)
    IN /\ ConstexprCheck(l)
       /\ ConstexprApply(l, ConstexprIota) = f
       /\ \A x \in ConstexprIdom : ConstexprElem(l, x) = f[x]
       /\ \A x \in ConstexprIdom : ConstexprContains(l, x) = (f[x] # x \/ l = <<x>>)
       /\ (i # l) = (ConstexprLess(i, l) # ConstexprLess(l, i))
  /\ pc = "group" =>
    /\ loops_ = Canonical(f)
    /\ check_all(loops_) /\ \A i \in DOMAIN loops_ : check(loops_[i])
    /\ \A x \in Idom : contains_all(loops_, x) /\ apply_elem(loops_, x) = f[x]
    /\ apply_all(loops_, iota) = f
    /\ \A ls \in Factors :
         LET q == Permutation(ls)
         IN  ~equals_all(q, loops_) = (less_all(q, loops_) # less_all(loops_, q))

\* Every permutation that orbit_reps hands out takes num to the element it is
\* filed under, whatever order the hash tables were walked in.
RepsCarry ==
  pc \in {"reps", "done"} =>
    \A m \in {orb, next} : \A e \in DOMAIN m :
      m[e] # << >> => apply_elem(m[e], num) = e

\* On return the orbit is what the generators can reach from num and no more.
OrbitExact ==
  pc = "done" =>
    LET R == [p \in Idom \X Idom |->
                \E i \in DOMAIN gens : apply_elem(gens[i], p[1]) = p[2]]
    IN  DOMAIN orb = {y \in Idom : ReflexiveTransitiveClosure(R, Idom)[num, y]}
=============================================================================
