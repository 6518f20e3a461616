------------------------------ MODULE Worklists -----------------------------
(***************************************************************************)
(* Programs that work on a container until it is empty: prim.cc and        *)
(* orbit.cc of 16-containers, and the walks over the Stern-Brocot tree of  *)
(* archive/older/09-containers with a stack, a queue and a priority queue. *)
(* An iteration of the while loop is a step.                               *)
(***************************************************************************)
EXTENDS Integers, Sequences, FiniteSets, SequencesExt

CONSTANT Graphs         \* inputs of prim: sequences of edges [u, v, w]

Modulus == 7            \* of the type Z7
Bound == 4              \* in the three walks

VARIABLES
  job,       \* the program: "prim", "orbit", "stack", "queue", "priqueue"
  input,     \* the graph, or the start and the generators of an orbit
  work,      \* pq, next, s or q
  mst, key, parent,     \* the vectors of prim; -1 for INT_MIN as for no parent
  orb,       \* the set that orbit returns
  sorted,    \* pq of test_priqueue
  printed    \* the rationals printed, or the vertices of prim as they are taken

vars == <<job, input, work, mst, key, parent, orb, sorted, printed>>

-----------------------------------------------------------------------------
(* Prim                                                                    *)

Order(G) == 1 + Max({G[k].u : k \in DOMAIN G} \cup {G[k].v : k \in DOMAIN G})

\* addEdge: the list of v, in the order in which the edges came.
adjacent(G, v) ==
  FoldLeft(LAMBDA l, e : l \o (IF e.u = v THEN <<<<e.v, e.w>>>> ELSE << >>)
                           \o (IF e.v = v THEN <<<<e.u, e.w>>>> ELSE << >>),
           << >>, G)

\* The order of std::pair: by vertex, then by weight.
PairLess(p, q) == p[1] < q[1] \/ (p[1] = q[1] /\ p[2] < q[2])

\* Slip: edges to vertices that are taken already count as well.
OpenForgets(m, k, v, w) == k[v] < w

Open(m, k, v, w) == ~m[v] /\ k[v] < w

\* The body of the loop over the neighbours of elt.
Relaxed(elt, st, p) ==
  LET v == p[1]
      w == p[2]
  IN IF Open(st.mst, st.key, v, w)
     THEN [st EXCEPT !.key[v] = w, !.parent[v] = elt, !.pq = Append(@, p)]
     ELSE st

prim ==
  /\ job = "prim" /\ work # << >>
  /\ \E i \in DOMAIN work :
       LET top == work[i]
           elt == top[1]
           rest == RemoveAt(work, i)
           st == FoldLeft(LAMBDA t, p : LET u == t IN Relaxed(elt, u, p),
                          [pq |-> rest, mst |-> [mst EXCEPT ![elt] = TRUE], key |-> key,
                           parent |-> parent],
                          adjacent(input, elt))
       IN /\ \A j \in DOMAIN work : ~PairLess(top, work[j])
          /\ IF mst[elt]
             THEN work' = rest /\ UNCHANGED <<mst, key, parent, printed>>
             ELSE /\ work' = st.pq /\ mst' = st.mst /\ key' = st.key /\ parent' = st.parent
                  /\ printed' = Append(printed, elt)
  /\ UNCHANGED <<job, input, orb, sorted>>

-----------------------------------------------------------------------------
(* Orbit                                                                   *)

Product(a, b) == (a * b) % Modulus

\* Slip: the loop over the generators stops at the first.
NewFirst(found, elem, gen) == Product(gen, elem) \notin found /\ gen = input[2][1]

New(found, elem, gen) == Product(gen, elem) \notin found

\* One round: next may come to hold an element several times.
orbit ==
  /\ job = "orbit" /\ work # << >>
  /\ LET found == orb \cup ToSet(work)
         gens == input[2]
         Tries(elem) == SelectSeq([g \in DOMAIN gens |-> <<elem, gens[g]>>],
                                  LAMBDA t : New(found, t[1], t[2]))
     IN /\ orb' = found
        /\ work' = FlattenSeq([k \in DOMAIN work |->
                     LET t == Tries(work[k]) IN [j \in DOMAIN t |-> Product(t[j][2], t[j][1])]])
  /\ UNCHANGED <<job, input, mst, key, parent, sorted, printed>>

-----------------------------------------------------------------------------
(* The Stern-Brocot tree; a rational is <<first, second>>.                 *)

RECURSIVE gcd(_, _)
gcd(a, b) == IF b = 0 THEN a ELSE gcd(b, a % b)
Reduced(x, y) == <<x \div gcd(x, y), y \div gcd(x, y)>>

RECURSIVE to_contfrac(_, _)
to_contfrac(x, y) ==
  <<x \div y>> \o IF x % y = 0 THEN << >>
                  ELSE LET r == Reduced(y, x % y) IN to_contfrac(r[1], r[2])

from_contfrac(cf) ==
  FoldRight(LAMBDA cur, r : Reduced(cur * r[1] + r[2], r[1]), Front(cf), <<Last(cf), 1>>)

RationalLess(r, q) == r[1] * q[2] < q[1] * r[2]

\* Slip: the second child continues with 1.
ChildsUnreduced(cur) ==
  LET cf == to_contfrac(cur[1], cur[2])
      elt1 == from_contfrac([cf EXCEPT ![Len(cf)] = @ + 1])
      elt2 == from_contfrac(Append([cf EXCEPT ![Len(cf)] = @ - 1], 1))
  IN IF RationalLess(elt1, elt2) THEN <<elt1, elt2>> ELSE <<elt2, elt1>>

childs(cur) ==
  LET cf == to_contfrac(cur[1], cur[2])
      elt1 == from_contfrac([cf EXCEPT ![Len(cf)] = @ + 1])
      elt2 == from_contfrac(Append([cf EXCEPT ![Len(cf)] = @ - 1], 2))
  IN IF RationalLess(elt1, elt2) THEN <<elt1, elt2>> ELSE <<elt2, elt1>>

Small(cur) == cur[1] < Bound /\ cur[2] < Bound

test_stack ==
  /\ job = "stack" /\ work # << >>
  /\ LET cur == Last(work)
     IN /\ work' = Front(work) \o IF Small(cur) THEN Reverse(childs(cur)) ELSE << >>
        /\ printed' = Append(printed, cur)
  /\ UNCHANGED <<job, input, mst, key, parent, orb, sorted>>

test_queue ==
  /\ job = "queue" /\ work # << >>
  /\ LET cur == Head(work)
     IN /\ work' = Tail(work) \o IF Small(cur) THEN childs(cur) ELSE << >>
        /\ printed' = Append(printed, cur)
  /\ UNCHANGED <<job, input, mst, key, parent, orb, sorted>>

test_priqueue ==
  /\ job = "priqueue" /\ work # << >>
  /\ LET cur == Head(work)
     IN /\ work' = Tail(work) \o IF Small(cur) THEN childs(cur) ELSE << >>
        /\ sorted' = sorted \cup {cur}
  /\ UNCHANGED <<job, input, mst, key, parent, orb, printed>>

\* The second loop; Rational_Greater puts the smallest on top.
Drain ==
  /\ job = "priqueue" /\ work = << >> /\ sorted # {}
  /\ \E cur \in sorted :
       /\ \A q \in sorted : ~RationalLess(q, cur)
       /\ sorted' = sorted \ {cur}
       /\ printed' = Append(printed, cur)
  /\ UNCHANGED <<job, input, work, mst, key, parent, orb>>

-----------------------------------------------------------------------------
top == <<1, 1>>
NoVectors == mst = << >> /\ key = << >> /\ parent = << >>
Nothing == orb = {} /\ sorted = {} /\ printed = << >>

Init ==
  /\ Nothing
  /\ \/ /\ job = "prim" /\ input \in Graphs
        /\ work = <<<<0, 0>>>>
        /\ mst = [v \in 0..(Order(input) - 1) |-> FALSE]
        /\ key = [v \in 0..(Order(input) - 1) |-> -1]
        /\ parent = [v \in 0..(Order(input) - 1) |-> -1]
     \/ /\ job = "orbit" /\ NoVectors
        /\ input \in (1..(Modulus - 1)) \X {<<g, h>> : g, h \in 1..(Modulus - 1)}
        /\ work = <<input[1]>>
     \/ /\ job \in {"stack", "queue", "priqueue"} /\ NoVectors
        /\ input = << >>
        /\ work = <<top>>

Finished == work = << >> /\ sorted = {}
Ended == Finished /\ UNCHANGED vars

Next == prim \/ orbit \/ test_stack \/ test_queue \/ test_priqueue \/ Drain \/ Ended

Spec == Init /\ [][Next]_vars

-----------------------------------------------------------------------------
(* Properties.                                                             *)

Edges == {<<input[k].u, input[k].v>> : k \in DOMAIN input}
         \cup {<<input[k].v, input[k].u>> : k \in DOMAIN input}

RECURSIVE Reach(_)
Reach(S) == LET T == S \cup {e[2] : e \in {f \in Edges : f[1] \in S}}
            IN IF T = S THEN S ELSE Reach(T)

\* prim takes every vertex that can be reached exactly once, and the parents are a
\* tree: a vertex hangs on one that was taken before it, by an edge whose weight
\* is its key, however often a better edge has replaced its parent.
SpanningTree ==
  job = "prim" =>
    /\ \A i, j \in DOMAIN printed : i < j => printed[i] # printed[j]
    /\ Finished => ToSet(printed) = Reach({0})
    /\ \A j \in DOMAIN printed :
         LET v == printed[j]
         IN IF v = 0 THEN parent[v] = -1
            ELSE /\ \E i \in 1..(j - 1) : printed[i] = parent[v]
                 /\ <<v, key[v]>> \in ToSet(adjacent(input, parent[v]))

RECURSIVE Generated(_)
Generated(S) == LET T == S \cup {Product(g, s) : g \in ToSet(input[2]), s \in S}
                IN IF T = S THEN S ELSE Generated(T)

\* orbit returns what the generators make of the start, although it queues one
\* element several times.
OrbitComplete == job = "orbit" /\ Finished => orb = Generated({input[1]})

Visited == ToSet(printed) \cup sorted \cup ToSet(work)

\* The tree is walked without loss or repetition: all rationals are in lowest terms,
\* every small one is met, no two are equal, and the priority queue prints them
\* in ascending order.
TreeWalked ==
  job \in {"stack", "queue", "priqueue"} =>
    /\ \A r \in Visited : gcd(r[1], r[2]) = 1
    /\ \A i, j \in DOMAIN printed :
         i < j => /\ printed[i] # printed[j]
                  /\ job = "priqueue" => RationalLess(printed[i], printed[j])
    /\ Finished => {<<x, y>> \in (1..Bound) \X (1..Bound) :
                       gcd(x, y) = 1 /\ (x < Bound \/ y < Bound)} \subseteq ToSet(printed)
=============================================================================
