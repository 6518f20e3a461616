------------------------------- MODULE LinGeo -------------------------------
(***************************************************************************)
(* 02-lrefs/triangles: the intersection of two triangles, one cut of the   *)
(* second one by a side of the first in each step.  Coordinates are        *)
(* rationals: on the grids explored the tolerances of the program are far  *)
(* above the errors of float and far below what it has to tell apart.      *)
(***************************************************************************)
EXTENDS Integers, Sequences, SequencesExt

CONSTANT Triangles     \* the inputs: sequences of three points

VARIABLES pc,          \* "read", "cut", "done", "abort"
          triangle1, triangle2,
          another,     \* what is left of the second one
          side         \* the index of the side that cuts next

vars == <<pc, triangle1, triangle2, another, side>>

-----------------------------------------------------------------------------
(* Points are <<X, Y, D>> for (X/D, Y/D) in lowest terms, D > 0; a point   *)
(* or a line that is not valid is NaN.                                     *)

NaN == << >>
AbsOf(n) == IF n < 0 THEN -n ELSE n
Sign(n) == CASE n > 0 -> 1 [] n = 0 -> 0 [] n < 0 -> -1

RECURSIVE Gcd(_, _)
Gcd(a, b) == IF b = 0 THEN AbsOf(a) ELSE Gcd(b, a % AbsOf(b))

Scaled(t, d) == <<t[1] \div d, t[2] \div d, t[3] \div d>>
Lowest(t) == IF t = <<0, 0, 0>> THEN t ELSE Scaled(t, Gcd(t[1], Gcd(t[2], t[3])))

equal(p, q) == p = q

\* The constructor of line_t takes the angle from atan: b is positive, or the line is
\* vertical; two equal points give a line of NaNs.
line_t(p1, p2) ==
  LET dx == p2[1] * p1[3] - p1[1] * p2[3]
      dy == p2[2] * p1[3] - p1[2] * p2[3]
      up == IF dx < 0 THEN -1 ELSE 1
      a == -(up * dy)
      b == up * dx
  IN IF dx = 0 /\ dy = 0 THEN NaN
     ELSE Lowest(<<a * p1[3], b * p1[3], -(a * p1[1] + b * p1[2])>>)

\* Slip: the half-planes of a line are both closed.
SideAreaClosed(l, p) ==
  IF l = NaN THEN "RIGHT_SIDE"
  ELSE IF l[1] * p[1] + l[2] * p[2] + l[3] * p[3] >= 0 THEN "LEFT_SIDE" ELSE "RIGHT_SIDE"

\* No comparison with a NaN holds, so it is on the right.
get_side_area(l, p) ==
  IF l = NaN THEN "RIGHT_SIDE"
  ELSE LET offset == l[1] * p[1] + l[2] * p[2] + l[3] * p[3]
       IN CASE offset > 0 -> "LEFT_SIDE"
            [] offset = 0 -> "INTER_SIDE"
            [] offset < 0 -> "RIGHT_SIDE"

separates(l, p, q) ==
  LET sides == {get_side_area(l, p), get_side_area(l, q)}
  IN sides = {"LEFT_SIDE", "RIGHT_SIDE"}

point_of_intersect(l, m) ==
  IF l = NaN \/ m = NaN THEN NaN
  ELSE LET det == l[1] * m[2] - m[1] * l[2]
           det1 == m[3] * l[2] - l[3] * m[2]
           det2 == m[1] * l[3] - l[1] * m[3]
           s == Sign(det)
       IN IF det = 0 THEN NaN ELSE Lowest(<<s * det1, s * det2, s * det>>)

-----------------------------------------------------------------------------
(* polygon_t, a sequence of points; indices from 0 as in the code.         *)

Vertex(poly, i) == poly[(i % Len(poly)) + 1]
get_side(poly, i) == line_t(Vertex(poly, i), Vertex(poly, i + 1))

separable_from(poly, other) ==
  \E i \in 0..(Len(poly) - 1) :
    LET half_space == get_side_area(get_side(poly, i), Vertex(poly, i + 2))
    IN /\ half_space # "INTER_SIDE"
       /\ \A j \in DOMAIN other : get_side_area(get_side(poly, i), other[j]) # half_space

intersect(poly, other) == ~(separable_from(poly, other) \/ separable_from(other, poly))

side_line_intersect(poly, i, l) ==
  IF separates(l, Vertex(poly, i), Vertex(poly, i + 1))
  THEN point_of_intersect(l, get_side(poly, i)) ELSE NaN

holding(poly, p) == p \in ToSet(poly)
add(poly, p) == IF p = NaN \/ holding(poly, p) THEN poly ELSE Append(poly, p)

cut_poly_by_line(poly, l, half_space_pt) ==
  LET kept == {get_side_area(l, half_space_pt), "INTER_SIDE"}
      Vertices(ret, i) ==
        add(IF get_side_area(l, Vertex(poly, i)) \in kept THEN add(ret, Vertex(poly, i)) ELSE ret,
            side_line_intersect(poly, i, l))
  IN FoldLeft(Vertices, << >>, [k \in DOMAIN poly |-> k - 1])

\* Twice the area.
square2(poly) ==
  LET Term(i) == LET p == Vertex(poly, i)
                     q == Vertex(poly, i + 1)
                 IN <<p[1] * q[2] - q[1] * p[2], p[3] * q[3]>>
      Plus(r, i) == LET t == Term(i)
                        sum == <<r[1] * t[2] + t[1] * r[2], r[2] * t[2]>>
                        g == Gcd(sum[1], sum[2])
                    IN <<sum[1] \div g, sum[2] \div g>>
      total == FoldLeft(Plus, <<0, 1>>, [k \in DOMAIN poly |-> k - 1])
  IN IF Len(poly) < 3 THEN <<0, 1>> ELSE <<AbsOf(total[1]), total[2]>>

-----------------------------------------------------------------------------
Init ==
  /\ pc = "read"
  /\ triangle1 \in Triangles
  /\ triangle2 \in Triangles
  /\ another = << >>
  /\ side = 0

\* get_poly_intersection up to its loop.
Begin ==
  /\ pc = "read"
  /\ IF intersect(triangle1, triangle2)
     THEN pc' = "cut" /\ another' = triangle2
     ELSE pc' = "done" /\ UNCHANGED another
  /\ UNCHANGED <<triangle1, triangle2, side>>

\* assert(side != INTER_SIDE)
Cut ==
  LET l == get_side(triangle1, side)
      pt == Vertex(triangle1, side + 2)
  IN /\ pc = "cut" /\ side < 3
     /\ IF get_side_area(l, pt) = "INTER_SIDE"
        THEN pc' = "abort" /\ UNCHANGED <<another, side>>
        ELSE /\ another' = cut_poly_by_line(another, l, pt)
             /\ side' = side + 1
             /\ pc' = IF side = 2 THEN "done" ELSE pc
     /\ UNCHANGED <<triangle1, triangle2>>

Ended == pc \in {"done", "abort"} /\ UNCHANGED vars

Next == Begin \/ Cut \/ Ended

Spec == Init /\ [][Next]_vars

-----------------------------------------------------------------------------
(* What the program computes.                                              *)

\* On which side of the directed line from p to q is r.
Turn(p, q, r) ==
  Sign(p[3] * (q[1] * r[2] - r[1] * q[2]) - q[3] * (p[1] * r[2] - r[1] * p[2])
       + r[3] * (p[1] * q[2] - q[1] * p[2]))

Flat(t) == Turn(t[1], t[2], t[3]) = 0
Within(p, t) == LET turns == {Turn(Vertex(t, i), Vertex(t, i + 1), p) : i \in 0..2}
                IN ~({1, -1} \subseteq turns)

Crossing(a, b, i, j) ==
  LET p == Vertex(a, i) q == Vertex(a, i + 1) r == Vertex(b, j) s == Vertex(b, j + 1)
  IN IF Turn(p, q, r) * Turn(p, q, s) = -1 /\ Turn(r, s, p) * Turn(r, s, q) = -1
     THEN {point_of_intersect(line_t(p, q), line_t(r, s))} ELSE {}

\* The corners that two overlapping triangles have in common.
Corners(a, b) ==
  {p \in ToSet(a) : Within(p, b)} \cup {p \in ToSet(b) : Within(p, a)}
  \cup UNION {Crossing(a, b, i, j) : i, j \in 0..2}

Spread(points) == \E p, q, r \in points : Turn(p, q, r) # 0

Convex(poly) ==
  LET turns == {Turn(Vertex(poly, i), Vertex(poly, i + 1), Vertex(poly, i + 2)) :
                  i \in DOMAIN poly}
  IN ~({1, -1} \subseteq turns)

\* Whatever two triangles share is found, in order around it: the answer has the
\* corners of the overlap and no others and is convex, and it is empty if the
\* triangles only touch.
IntersectionRight ==
  pc = "done" /\ ~Flat(triangle1) /\ ~Flat(triangle2) =>
    LET corners == Corners(triangle1, triangle2)
    IN IF Spread(corners)
       THEN ToSet(another) = corners /\ Len(another) = Len(SetToSeq(corners)) /\ Convex(another)
       ELSE another = << >>

\* Flat input: the assertion stops the program only when the first triangle is flat,
\* a flat second one has no area in common, and a first one that is a single
\* point, whose sides are NaN, cuts nothing off.
FlatInput ==
  /\ pc = "abort" => Flat(triangle1)
  /\ pc = "done" /\ Flat(triangle1) =>
       square2(another) \in {<<0, 1>>, IF Len(SetToSeq(ToSet(triangle1))) = 1
                                       THEN square2(triangle2) ELSE <<0, 1>>}
  /\ pc = "done" /\ Flat(triangle2) => square2(another) = <<0, 1>>
=============================================================================
