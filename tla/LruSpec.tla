------------------------------ MODULE LruSpec ------------------------------
(***************************************************************************)
(* What every LRU cache of 01-basics promises its caller, with no list, no *)
(* index and no memory.                                                    *)
(*                                                                         *)
(* The state is the LRU stack: all the keys ever requested, the most       *)
(* recently requested first.  A cache of capacity pages holds the keys of  *)
(* the first capacity positions and nothing else, so whether a request     *)
(* hits, and which page is given up on a miss, follows from the history of *)
(* requests alone.  A page is kept as the miss that brought it in loaded   *)
(* it: another loader does not replace it.                                 *)
(***************************************************************************)
EXTENDS LruBase

VARIABLES capacity,   \* how many pages the cache may hold
          stack,   \* keys requested so far, most recent first
          page,    \* the page held for each key, NoPage when not resident
          res      \* outcome of the last request

specVars == <<capacity, stack, page, res>>

Outcomes == [kind : {"none", "hit", "miss", "error"},
             value : Pages \cup {NoPage}]

SpecInit == /\ capacity \in Nat
            /\ stack = << >>
            /\ page = [k \in Keys |-> NoPage]
            /\ res = [kind |-> "none", value |-> NoPage]

Hit(k) == /\ k \in Resident(stack, capacity)
          /\ stack' = Touch(stack, k)
          /\ res' = [kind |-> "hit", value |-> page[k]]
          /\ UNCHANGED <<capacity, page>>

\* The loaded page is kept, and only the keys that stay resident keep theirs.
Miss(k, p) ==
  /\ k \notin Resident(stack, capacity)
  /\ stack' = Touch(stack, k)
  /\ page' = [j \in Keys |-> IF j \notin Resident(stack', capacity) THEN NoPage
                             ELSE IF j = k THEN p ELSE page[j]]
  /\ res' = [kind |-> "miss", value |-> p]
  /\ UNCHANGED capacity

\* A cache of no pages may answer without asking the loader (cache.hpp does).
Bypass(k) == /\ capacity = 0
             /\ stack' = Touch(stack, k)
             /\ res' = [kind |-> "miss", value |-> NoPage]
             /\ UNCHANGED <<capacity, page>>

\* A request that fails leaves the cache as it was and delivers no page.
Fail == /\ res' = [kind |-> "error", value |-> NoPage]
        /\ UNCHANGED <<capacity, stack, page>>

\* The cache is destroyed, or a new one created: the next one starts empty.
Clear == /\ capacity' \in Nat
         /\ stack' = << >>
         /\ page' = [k \in Keys |-> NoPage]
         /\ res' = [kind |-> "none", value |-> NoPage]

SpecNext == \/ \E k \in Keys : \/ Hit(k)
                               \/ Bypass(k)
                               \/ \E p \in Pages : Miss(k, p)
            \/ Fail
            \/ Clear

Spec == SpecInit /\ [][SpecNext]_specVars
=============================================================================
