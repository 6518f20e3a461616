---------------------------- MODULE RecencyList ----------------------------
(***************************************************************************)
(* Operations on a recency list, the most recently used element first.     *)
(* They are written position by position, the form the proofs reason about.*)
(***************************************************************************)
EXTENDS Naturals, Sequences

PushFront(s, x) == [j \in 1..(Len(s) + 1) |-> IF j = 1 THEN x ELSE s[j - 1]]

PopBack(s) == [j \in 1..(Len(s) - 1) |-> s[j]]

MoveToFront(s, i) ==
  [j \in 1..Len(s) |-> IF j = 1 THEN s[i] ELSE IF j <= i THEN s[j - 1] ELSE s[j]]

Elems(s) == {s[i] : i \in 1..Len(s)}

Distinct(s) == \A i, j \in 1..Len(s) : s[i] = s[j] => i = j

PositionOf(s, x) == CHOOSE i \in 1..Len(s) : s[i] = x

\* A request for k makes it the most recent key, whether it was seen or not.
Touch(s, k) ==
  IF k \in Elems(s) THEN MoveToFront(s, PositionOf(s, k)) ELSE PushFront(s, k)

\* The keys that a cache of c pages holds when s is the history of requests.
Resident(s, c) == {s[i] : i \in {j \in 1..Len(s) : j <= c}}
=============================================================================
