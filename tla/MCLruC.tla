------------------------------- MODULE MCLruC -------------------------------
(***************************************************************************)
(* The two LRU libraries in C of 01-basics: a behaviour is one of lru-in-c *)
(* (LruC) or of lru-in-c-datastructs (LruIntrusive), which has one key     *)
(* more, for its larger capacity.  The two share the variables of LruC,    *)
(* and r1 and r2.                                                          *)
(***************************************************************************)
EXTENDS LruC, TLC

CONSTANTS MoreKeys, MoreCapacities

VARIABLES part, r1, r2

anyVars == <<vars, part, r1, r2>>

Intrusive == INSTANCE LruIntrusive
  WITH Keys <- MoreKeys, Capacities <- MoreCapacities,
       list <- cache, map <- out, used <- ret, result <- r1, asserted <- r2

\* The array of entries lies apart from the sentinel and from NULL, and a key of
\* lru-in-c is a key of the abstract cache of both.
ASSUME IntrusiveAssumption == Intrusive!ConstantsRight /\ Keys \subseteq MoreKeys

AnyInit ==
  \/ part = "c" /\ Init /\ r1 = 0 /\ r2 = 0
  \/ part = "datastructs" /\ Intrusive!Init

AnyNext ==
  /\ \/ part = "c" /\ Next /\ UNCHANGED <<r1, r2>>
     \/ part = "datastructs" /\ Intrusive!Next
  /\ UNCHANGED part

AnySpec == AnyInit /\ [][AnyNext]_anyVars

\* The addresses of a pool are interchangeable: no action orders them.
Interchangeable == Permutations(ListAddrs) \cup Permutations(EntryAddrs)

-----------------------------------------------------------------------------
(* Properties.                                                             *)

\* List and index are sound and agree.  In lru-in-c the list is one ring, prev
\* undoes next, and each key is found at its node and nowhere else; in
\* lru-in-c-datastructs every prev_next points at its entry, every entry is in
\* the chain of its key, and the insertion is never refused.
StructuresSound ==
  CASE part = "c" -> RingSound /\ IndexAgrees
    [] part = "datastructs" -> Intrusive!ChainsSound /\ Intrusive!InsertAccepted

\* lru-in-c loses no block and shares none, whichever allocation fails.
BlocksOwned == part = "c" => NoLeak

\* lru.h: errors leave *value and the cache contents unchanged, although by then
\* the new page may already have been put on the list.
FailuresChangeNothing ==
  [][part = "c" /\ ret' \in {"NO_MEMORY", "INVALID_ARGUMENT", "INDEX_ERROR"} =>
       out' = out /\ Contents' = Contents]_anyVars

AllPagesHeld ==
  IF part = "c" THEN [k \in MoreKeys |-> IF k \in Keys THEN PagesHeld[k] ELSE NoPage]
  ELSE Intrusive!PagesHeld

AbstractLru == INSTANCE LruSpec
  WITH Keys <- MoreKeys, page <- AllPagesHeld, res <- IF part = "c" THEN Outcome ELSE r1

\* Both behave as the abstract LRU cache: across failed allocations, reused
\* addresses and entries, hash collisions, destruction and creation.
CachesImplementLru == AbstractLru!Spec
=============================================================================
