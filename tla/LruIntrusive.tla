---------------------------- MODULE LruIntrusive ----------------------------
(***************************************************************************)
(* The LRU cache of 01-basics/lru-in-c-datastructs: entries live in one    *)
(* array and carry their own list link and map link, so that nothing is    *)
(* allocated after lru_create.  A miss on a full cache turns the oldest    *)
(* entry into the new one, in place.                                       *)
(*                                                                         *)
(* A map entry knows the pointer that points to it (prev_next): the bucket *)
(* <<"bucket", b>> or the next field <<"next", e>> of another entry.       *)
(***************************************************************************)
EXTENDS LruBase, FiniteSets

CONSTANTS NULL,
          Sentinel      \* &cache->recency

Entries(c) == 0..(c - 1)         \* &cache->entries[i]
Buckets(c) == 0..(c - 1)
Links(c) == Entries(c) \cup {Sentinel}

\* No entry lies where the sentinel is or at NULL, and no pointer to a pointer is
\* NULL.
ConstantsRight ==
  /\ Capacities \subseteq Nat /\ Pages # {}
  /\ \A c \in Capacities : /\ Sentinel \notin Entries(c)
                           /\ NULL \notin Entries(c)
                           /\ \A i \in Entries(c) : NULL \notin {<<"bucket", i>>, <<"next", i>>}

VARIABLES blocks,     \* which blocks are allocated
          capacity,   \* cache->capacity
          list,       \* prev and next of every link
          map,        \* buckets, and key, next, prev_next of every entry
          used,       \* entries taken from the array so far
          bucket_for, \* the hash function, unknown, modulo the bucket count
          result,     \* what the last call did
          asserted,   \* assert(inserted) has not failed
          stack       \* history: keys requested, most recent first

vars == <<blocks, capacity, list, map, used, bucket_for, result, asserted, stack>>

thePage == CHOOSE p \in Pages : TRUE     \* the cache keeps keys, no contents

Outcome(kind) ==
  [kind |-> kind,
   value |-> IF kind \in {"hit", "miss"} /\ capacity # 0 THEN thePage ELSE NoPage]

NeededBlocks(c) ==
  IF c = 0 THEN {"cache"} ELSE {"cache", "entries", "buckets"}

\* calloc and list_init: an empty ring, no entry linked anywhere.
EmptyList(c) == [prev |-> [a \in Links(c) |-> a], next |-> [a \in Links(c) |-> a]]

EmptyMap(c) == [buckets |-> [b \in Buckets(c) |-> NULL],
                key |-> [e \in Entries(c) |-> NULL],
                next |-> [e \in Entries(c) |-> NULL],
                prev_next |-> [e \in Entries(c) |-> NULL]]

\* Where the keys may hash to: nowhere while there are no buckets.
HashFunctions(c) == [Keys -> IF c = 0 THEN {NULL} ELSE Buckets(c)]

Init == /\ blocks = {}
        /\ capacity = 0
        /\ list = EmptyList(0)
        /\ map = EmptyMap(0)
        /\ used = 0
        /\ bucket_for \in HashFunctions(0)
        /\ result = Outcome("none")
        /\ asserted = TRUE
        /\ stack = << >>

-----------------------------------------------------------------------------
(* list.c                                                                  *)

list_push_front(l, x) ==
  LET first == l.next[Sentinel]
      l1 == [l EXCEPT !.prev[x] = Sentinel, !.next[x] = first]
  IN  [l1 EXCEPT !.prev[first] = x, !.next[Sentinel] = x]

list_remove(l, x) ==
  LET l1 == [l EXCEPT !.next[l.prev[x]] = l.next[x]]
      l2 == [l1 EXCEPT !.prev[l1.next[x]] = l1.prev[x]]
  IN  [l2 EXCEPT !.prev[x] = x, !.next[x] = x]

-----------------------------------------------------------------------------
(* int_map.c                                                               *)

\* *link = e
Assign(m, link, e) ==
  IF link[1] = "bucket" THEN [m EXCEPT !.buckets[link[2]] = e]
  ELSE [m EXCEPT !.next[link[2]] = e]

\* *link
Deref(m, link) ==
  IF link[1] = "bucket" THEN m.buckets[link[2]] ELSE m.next[link[2]]

int_map_remove(m, e) ==
  LET m1 == Assign(m, m.prev_next[e], m.next[e])
      m2 == IF m1.next[e] = NULL THEN m1
            ELSE [m1 EXCEPT !.prev_next[m1.next[e]] = m1.prev_next[e]]
  IN  [m2 EXCEPT !.next[e] = NULL, !.prev_next[e] = NULL]

\* The entries of bucket b in chain order, NULL from the end on.
Chain(m, b) ==
  LET at[i \in 0..capacity] ==
        IF i = 0 THEN m.buckets[b]
        ELSE LET e == at[i - 1] IN IF e = NULL THEN NULL ELSE m.next[e]
  IN  at

InChain(m, b) == {Chain(m, b)[i] : i \in 0..capacity} \ {NULL}

int_map_find(m, k) ==
  LET at == Chain(m, bucket_for[k])
      found == {i \in 0..capacity : at[i] # NULL /\ m.key[at[i]] = k}
  IN  IF found = {} THEN NULL
      ELSE at[CHOOSE i \in found : \A j \in found : i <= j]

\* What makes int_map_insert return false.
Refused(m, e) == m.prev_next[e] # NULL \/ int_map_find(m, m.key[e]) # NULL

\* Slip: the entry that was first in the bucket keeps its prev_next.
int_map_insert_stale(m, e) ==
  LET b == bucket_for[m.key[e]]
  IN  IF Refused(m, e) THEN m
      ELSE [m EXCEPT !.next[e] = m.buckets[b], !.prev_next[e] = <<"bucket", b>>,
                     !.buckets[b] = e]

int_map_insert(m, e) ==
  LET b == bucket_for[m.key[e]]
      first == m.buckets[b]
      m1 == [m EXCEPT !.next[e] = first, !.prev_next[e] = <<"bucket", b>>]
      m2 == IF first = NULL THEN m1
            ELSE [m1 EXCEPT !.prev_next[first] = <<"next", e>>]
  IN  IF Refused(m, e) THEN m ELSE [m2 EXCEPT !.buckets[b] = e]

-----------------------------------------------------------------------------
(* lru.c                                                                   *)

\* lru_create(cap), where the allocations in ok succeed and the keys will hash
\* into the buckets as f says; lru_destroy undoes a partial creation.
lru_create(ok, cap, f) ==
  /\ blocks = {}
  /\ blocks' = IF NeededBlocks(cap) \subseteq ok THEN NeededBlocks(cap) ELSE {}
  /\ capacity' = cap
  /\ list' = EmptyList(cap) /\ map' = EmptyMap(cap) /\ used' = 0
  /\ bucket_for' = f
  /\ result' = Outcome("none")
  /\ stack' = << >>
  /\ UNCHANGED asserted

\* int_map_destroy takes the first entry of a bucket off until none is left.
Unlinked(m) ==
  LET empty[b \in 0..capacity] ==      \* after the first b buckets
        LET pop[i \in 0..capacity] ==
              IF i = 0 THEN empty[b - 1]
              ELSE LET before == pop[i - 1]
                       first == before.buckets[b - 1]
                   IN  IF first = NULL THEN before ELSE int_map_remove(before, first)
        IN  IF b = 0 THEN m ELSE pop[capacity]
  IN  empty[capacity]

\* What the freed entries held is lost, but for the links that are still there.
lru_destroy ==
  /\ blocks = NeededBlocks(capacity)
  /\ blocks' = {}
  /\ map' = [Unlinked(map) EXCEPT !.key = EmptyMap(capacity).key]
  /\ list' = EmptyList(capacity) /\ used' = 0
  /\ result' = Outcome("none")
  /\ stack' = << >>
  /\ UNCHANGED <<capacity, bucket_for, asserted>>

AccessZero(k) ==
  /\ blocks = NeededBlocks(capacity)
  /\ capacity = 0
  /\ result' = Outcome("miss")
  /\ stack' = Touch(stack, k)
  /\ UNCHANGED <<blocks, capacity, list, map, used, bucket_for, asserted>>

\* Slip: the entry found is not moved to the front.
AccessHitNotMoved(k) ==
  /\ blocks = NeededBlocks(capacity)
  /\ capacity # 0
  /\ int_map_find(map, k) # NULL
  /\ result' = Outcome("hit")
  /\ stack' = Touch(stack, k)
  /\ UNCHANGED <<blocks, capacity, list, map, used, bucket_for, asserted>>

AccessHit(k) ==
  /\ blocks = NeededBlocks(capacity)
  /\ capacity # 0
  /\ LET e == int_map_find(map, k)
     IN  /\ e # NULL
         /\ list' = list_push_front(list_remove(list, e), e)
  /\ result' = Outcome("hit")
  /\ stack' = Touch(stack, k)
  /\ UNCHANGED <<blocks, capacity, map, used, bucket_for, asserted>>

\* The end of the miss path, with entry e free to take key k.
TakeKey(k, e, l, m) ==
  LET keyed == [m EXCEPT !.key[e] = k]
  IN  /\ asserted' = (asserted /\ ~Refused(keyed, e))
      /\ map' = int_map_insert(keyed, e)
      /\ list' = list_push_front(l, e)
      /\ result' = Outcome("miss")
      /\ stack' = Touch(stack, k)
      /\ UNCHANGED <<blocks, capacity, bucket_for>>

Absent(k) == /\ blocks = NeededBlocks(capacity)
             /\ capacity # 0
             /\ int_map_find(map, k) = NULL

AccessFresh(k) ==
  /\ Absent(k)
  /\ used < capacity
  /\ used' = used + 1
  /\ TakeKey(k, used, [list EXCEPT !.prev[used] = used, !.next[used] = used], map)

AccessReuse(k) ==
  /\ Absent(k)
  /\ used = capacity
  /\ LET e == list.prev[Sentinel]
     IN  TakeKey(k, e, list_remove(list, e), int_map_remove(map, e))
  /\ UNCHANGED used

lru_access(k) == AccessZero(k) \/ AccessHit(k) \/ AccessFresh(k) \/ AccessReuse(k)

Next == \/ \E ok \in SUBSET {"cache", "entries", "buckets"}, cap \in Capacities :
             \E f \in HashFunctions(cap) : lru_create(ok, cap, f)
        \/ lru_destroy
        \/ \E k \in Keys : lru_access(k)

Spec == Init /\ [][Next]_vars

-----------------------------------------------------------------------------
(* Properties.                                                             *)

InUse == {e \in Entries(capacity) : e < used}

\* Removal in O(1) rests on this: the pointer an entry remembers in prev_next
\* really points to it, and every entry in use is in the chain of its key; a
\* destroyed map has let go of every entry.
ChainsSound ==
  IF blocks = {} THEN map = EmptyMap(capacity)
  ELSE
    /\ \A e \in InUse : /\ map.prev_next[e] # NULL
                        /\ Deref(map, map.prev_next[e]) = e
                        /\ e \in InChain(map, bucket_for[map.key[e]])
    /\ \A b \in Buckets(capacity) : \A e \in InChain(map, b) : e \in InUse
                                                     /\ bucket_for[map.key[e]] = b

\* assert(inserted) of lru_access holds: the entry is unlinked and its key new.
InsertAccepted == asserted

PagesHeld == [k \in Keys |-> IF capacity = 0 \/ blocks = {} THEN NoPage
                             ELSE IF int_map_find(map, k) = NULL THEN NoPage ELSE thePage]
=============================================================================
