------------------------------ MODULE VecSpec -------------------------------
(***************************************************************************)
(* What the vectors of 08-exceptions/myvec-demo and of 14-iterators        *)
(* promise: each is a sequence, and an operation takes effect at once and  *)
(* wholly, or not at all (the strong exception guarantee).                 *)
(***************************************************************************)
EXTENDS Naturals, Sequences

CONSTANTS Vectors, Values,
          Given      \* what a vector may be constructed from

VARIABLE contents

Init == contents = [v \in Vectors |-> << >>]

\* A vector before its construction counts as empty.
construct(v, list) ==
  /\ contents[v] = << >>
  /\ contents' = [contents EXCEPT ![v] = list]

push(v, x) == contents' = [contents EXCEPT ![v] = Append(@, x)]

pop(v) ==
  /\ contents[v] # << >>
  /\ contents' = [contents EXCEPT ![v] = SubSeq(@, 1, Len(@) - 1)]

copy(v, w) == contents' = [contents EXCEPT ![v] = contents[w]]

\* Move assignment exchanges the two.
move(v, w) == contents' = [contents EXCEPT ![v] = contents[w], ![w] = contents[v]]

Next ==
  \E v \in Vectors :
    \/ \E list \in Given : construct(v, list)
    \/ \E x \in Values : push(v, x)
    \/ pop(v)
    \/ \E w \in Vectors : copy(v, w) \/ move(v, w)

Spec == Init /\ [][Next]_contents
=============================================================================
