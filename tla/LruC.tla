-------------------------------- MODULE LruC --------------------------------
(***************************************************************************)
(* The LRU cache in C of 01-basics/lru-in-c at the level of its pointers:  *)
(* a circular list with a sentinel (list.c), a hash map with chained       *)
(* entries (hash_map.c) and the cache that owns both (lru.c).              *)
(*                                                                         *)
(* Every malloc may fail, and may return an address freed before.  The     *)
(* heap is three records, one per kind of block: a field of a C struct is  *)
(* a function from addresses, live is the set of allocated addresses, and  *)
(* the contents of a freed block are lost.  The single blocks (the cache,  *)
(* the list head, the map and its bucket array) are named in blocks.  A    *)
(* call is one step; the loader must not reenter.                          *)
(***************************************************************************)
EXTENDS LruBase, FiniteSets

CONSTANTS NULL,
          Sentinel,     \* &list->head, the sentinel
          ListAddrs,    \* addresses of ListNode blocks
          EntryAddrs,   \* addresses of CacheEntry blocks
          MapAddrs      \* addresses of HashMapEntry blocks

\* The heap is finite, and no block lies where the sentinel is or at NULL.
ASSUME AddressAssumption ==
  /\ IsFiniteSet(ListAddrs) /\ IsFiniteSet(MapAddrs)
  /\ Sentinel \notin ListAddrs
  /\ NULL \notin ListAddrs \cup EntryAddrs \cup MapAddrs

VARIABLES blocks,     \* which single blocks are allocated
          capacity,   \* cache->capacity
          cache,      \* list, entries, map and cache->size
          bucket_for, \* the hash function, unknown, modulo the bucket count
          out,        \* the caller's *value
          ret,        \* what the last call returned
          stack       \* history: keys requested, most recent first

vars == <<blocks, capacity, cache, bucket_for, out, ret, stack>>

AllBlocks == {"cache", "list", "map", "buckets"}

\* lru_create asks for capacity ? capacity : 1 of them.
Buckets(c) == IF c = 0 THEN {0} ELSE 0..(c - 1)

EmptyList == [live |-> {}, prev |-> [a \in ListAddrs \cup {Sentinel} |-> Sentinel],
              next |-> [a \in ListAddrs \cup {Sentinel} |-> Sentinel],
              value |-> [a \in ListAddrs |-> NULL]]

NoEntries == [live |-> {}, key |-> [a \in EntryAddrs |-> NULL],
              value |-> [a \in EntryAddrs |-> NoPage]]

EmptyMap(c) ==
            [live |-> {}, buckets |-> [b \in Buckets(c) |-> NULL],
             key |-> [a \in MapAddrs |-> NULL],
             value |-> [a \in MapAddrs |-> NULL],
             next |-> [a \in MapAddrs |-> NULL]]

EmptyCache(c) ==
  [list |-> EmptyList, entry |-> NoEntries, map |-> EmptyMap(c), size |-> 0]

\* Before lru_create nothing is allocated.
Init == /\ blocks = {}
        /\ capacity = 0
        /\ cache = EmptyCache(0)
        /\ bucket_for = [k \in Keys |-> 0]
        /\ out = NoPage
        /\ ret = "none"
        /\ stack = << >>

-----------------------------------------------------------------------------
(* list.c                                                                  *)

list_empty(l) == l.next[Sentinel] = Sentinel

list_back(l) == IF list_empty(l) THEN NULL ELSE l.prev[Sentinel]

prepend(l, n) ==
  LET l1 == [l EXCEPT !.prev[n] = Sentinel, !.next[n] = l.next[Sentinel]]
  IN  [l1 EXCEPT !.prev[l1.next[n]] = n, !.next[Sentinel] = n]

detach(l, n) ==
  LET l1 == [l EXCEPT !.next[l.prev[n]] = l.next[n]]
  IN  [l1 EXCEPT !.prev[l1.next[n]] = l1.prev[n]]

list_push_front(l, n, v) ==
  prepend([l EXCEPT !.live = @ \cup {n}, !.value[n] = v], n)

\* Slip: the page is not made the most recent one.
list_move_nowhere(l, n) == l

list_move_front(l, n) == prepend(detach(l, n), n)

list_remove(l, n) ==
  [detach(l, n) EXCEPT !.live = @ \ {n}, !.value[n] = NULL,
                       !.prev[n] = Sentinel, !.next[n] = Sentinel]

-----------------------------------------------------------------------------
(* hash_map.c                                                              *)

\* The entries of bucket b in chain order, NULL from the end on.
ChainAt(m, b) ==
  LET at[i \in 0..Cardinality(MapAddrs)] ==
        IF i = 0 THEN m.buckets[b]
        ELSE LET e == at[i - 1] IN IF e = NULL THEN NULL ELSE m.next[e]
  IN  at

Chain(m, k) == ChainAt(m, bucket_for[k])

free_entry(m, e) ==
  [m EXCEPT !.live = @ \ {e}, !.key[e] = NULL, !.value[e] = NULL, !.next[e] = NULL]

\* What hash_map_destroy reaches and frees.
InChains(m) ==
  (UNION {{ChainAt(m, b)[i] : i \in 0..Cardinality(MapAddrs)} : b \in Buckets(capacity)})
    \ {NULL}

\* Where a walk along the chain stops: at the key, or at the end.
Stop(m, k) ==
  LET at == Chain(m, k)
      stops == {i \in DOMAIN at : at[i] = NULL \/ m.key[at[i]] = k}
  IN  CHOOSE i \in stops : \A j \in stops : i <= j

hash_map_find(m, k) ==
  LET e == Chain(m, k)[Stop(m, k)] IN IF e = NULL THEN NULL ELSE m.value[e]

hash_map_insert(m, k, v, e) ==
  LET b == bucket_for[k]
  IN  [m EXCEPT !.live = @ \cup {e}, !.key[e] = k, !.value[e] = v,
                !.next[e] = m.buckets[b], !.buckets[b] = e]

\* Slip: an entry further down its chain is unlinked from the bucket itself,
\* which loses the entries in front of it.
hash_map_remove_cuts(m, k) ==
  LET i == Stop(m, k)
      e == Chain(m, k)[i]
  IN  IF e = NULL THEN m
      ELSE [free_entry(m, e) EXCEPT !.buckets[bucket_for[k]] = m.next[e]]

\* link is the bucket, or the next field of the entry before.
hash_map_remove(m, k) ==
  LET i == Stop(m, k)
      e == Chain(m, k)[i]
  IN  IF e = NULL THEN m
      ELSE IF i = 0
           THEN [free_entry(m, e) EXCEPT !.buckets[bucket_for[k]] = m.next[e]]
           ELSE [free_entry(m, e) EXCEPT !.next[Chain(m, k)[i - 1]] = m.next[e]]

-----------------------------------------------------------------------------
(* lru.c                                                                   *)

FreeEntry(ents, e) ==
  [ents EXCEPT !.live = @ \ {e}, !.key[e] = NULL, !.value[e] = NoPage]

\* Slip: the entry is not freed with its node.
evict_oldest_leaks(c) ==
  LET n == list_back(c.list)
      e == c.list.value[n]
  IN  [c EXCEPT !.map = hash_map_remove(c.map, c.entry.key[e]),
                !.list = list_remove(c.list, n),
                !.size = @ - 1]

evict_oldest(c) ==
  LET n == list_back(c.list)
      e == c.list.value[n]
  IN  [c EXCEPT !.map = hash_map_remove(c.map, c.entry.key[e]),
                !.list = list_remove(c.list, n),
                !.entry = FreeEntry(c.entry, e),
                !.size = @ - 1]

\* malloc and the first assignment of insert_page: a node for an entry with a
\* key and no page yet, in front of the list.
WithNode(c, k, e, n) ==
  [c EXCEPT !.entry.live = @ \cup {e}, !.entry.key[e] = k,
            !.list = list_push_front(c.list, n, e)]

\* The way back when the index refuses the node.
WithoutNode(c, e, n) ==
  [c EXCEPT !.list = list_remove(c.list, n), !.entry = FreeEntry(c.entry, e)]

\* Evict after the insertion, when the new node already counts on the list.
MadeRoom(c) == IF c.size = capacity THEN evict_oldest(c) ELSE c

\* lru_destroy's loop.
Drained(c) ==
  LET step[i \in 0..Cardinality(ListAddrs)] ==
        IF i = 0 THEN c
        ELSE LET left == step[i - 1]
             IN  IF list_empty(left.list) THEN left ELSE evict_oldest(left)
  IN  step[Cardinality(ListAddrs)]

-----------------------------------------------------------------------------
(* The calls.                                                              *)

\* The blocks lru_create holds when the allocations in ok succeed;
\* hash_map_create gives the map back when it gets no bucket array.
Created(ok) ==
  IF "cache" \notin ok THEN {}
  ELSE {"cache"} \cup (ok \cap {"list"})
       \cup (IF {"map", "buckets"} \subseteq ok THEN {"map", "buckets"} ELSE {})

\* lru_create(cap), where the keys will hash into the buckets as f says.
lru_create(ok, cap, f) ==
  /\ blocks = {}
  /\ blocks' = IF Created(ok) = AllBlocks THEN AllBlocks
               ELSE Created(ok) \ {"cache", "list", "map", "buckets"}
  /\ capacity' = cap
  /\ cache' = EmptyCache(cap)
  /\ bucket_for' = f
  /\ ret' = "none"
  /\ stack' = << >>
  /\ UNCHANGED out

lru_destroy ==
  /\ blocks = AllBlocks
  /\ LET c == Drained(cache)
     IN  cache' = [c EXCEPT !.map.live = @ \ InChains(c.map)]
  /\ blocks' = {}
  /\ ret' = "none"
  /\ stack' = << >>
  /\ UNCHANGED <<capacity, bucket_for, out>>

\* lookup_update with a null cache, loader or result pointer.
InvalidArgument ==
  /\ ret' = "INVALID_ARGUMENT"
  /\ UNCHANGED <<blocks, capacity, cache, bucket_for, out, stack>>

ZeroCapacity(k, p) ==
  /\ blocks = AllBlocks
  /\ capacity = 0
  /\ out' = p
  /\ ret' = "miss"
  /\ stack' = Touch(stack, k)
  /\ UNCHANGED <<blocks, capacity, cache, bucket_for>>

Hit(k) ==
  /\ blocks = AllBlocks
  /\ capacity # 0
  /\ LET n == hash_map_find(cache.map, k)
     IN  /\ n # NULL
         /\ cache' = [cache EXCEPT !.list = list_move_front(cache.list, n)]
         /\ out' = cache.entry.value[cache.list.value[n]]
  /\ ret' = "hit"
  /\ stack' = Touch(stack, k)
  /\ UNCHANGED <<blocks, capacity, bucket_for>>

Missing(k) == /\ blocks = AllBlocks
              /\ capacity # 0
              /\ hash_map_find(cache.map, k) = NULL

\* insert_page gets no memory for the entry, or for the list node.
NoMemory(k) ==
  /\ Missing(k)
  /\ ret' = "NO_MEMORY"
  /\ UNCHANGED <<blocks, capacity, cache, bucket_for, out, stack>>

\* Slip: room is made before the last allocation that can fail.
NotIndexedEvicted(k, e, n) ==
  /\ Missing(k)
  /\ cache' = MadeRoom(cache)
  /\ ret' = "NO_MEMORY"
  /\ UNCHANGED <<blocks, capacity, bucket_for, out, stack>>

\* The index takes no new entry: there is no memory, or the key is in it.
NotIndexed(k, e, n) ==
  /\ Missing(k)
  /\ LET c == WithNode(cache, k, e, n)
     IN  /\ ret' = IF hash_map_find(c.map, k) # NULL THEN "INDEX_ERROR" ELSE "NO_MEMORY"
         /\ cache' = WithoutNode(c, e, n)
  /\ UNCHANGED <<blocks, capacity, bucket_for, out, stack>>

Miss(k, p, e, n, h) ==
  /\ Missing(k)
  /\ LET c == WithNode(cache, k, e, n)
         indexed == [c EXCEPT !.map = hash_map_insert(c.map, k, n, h),
                              !.entry.value[e] = p]
         room == MadeRoom(indexed)
     IN  cache' = [room EXCEPT !.size = @ + 1]
  /\ out' = p
  /\ ret' = "miss"
  /\ stack' = Touch(stack, k)
  /\ UNCHANGED <<blocks, capacity, bucket_for>>

lookup_update(k) ==
  \/ \E p \in Pages : ZeroCapacity(k, p)
  \/ Hit(k)
  \/ NoMemory(k)
  \/ \E e \in EntryAddrs \ cache.entry.live, n \in ListAddrs \ cache.list.live :
       \/ NotIndexed(k, e, n)
       \/ \E p \in Pages, h \in MapAddrs \ cache.map.live : Miss(k, p, e, n, h)

Next == \/ \E ok \in SUBSET AllBlocks, cap \in Capacities :
             \E f \in [Keys -> Buckets(cap)] : lru_create(ok, cap, f)
        \/ lru_destroy
        \/ InvalidArgument
        \/ \E k \in Keys : lookup_update(k)

Spec == Init /\ [][Next]_vars

-----------------------------------------------------------------------------
(* Properties.                                                             *)

\* The nodes met from the sentinel along next, the sentinel from the end on.
Walk(l) ==
  LET at[i \in 1..(Cardinality(ListAddrs) + 1)] ==
        IF i = 1 THEN l.next[Sentinel]
        ELSE IF at[i - 1] = Sentinel THEN Sentinel ELSE l.next[at[i - 1]]
  IN  at

\* The list is one ring through the sentinel: it meets every allocated node and
\* no freed one, there are size of them, and prev undoes next everywhere.
RingSound ==
  LET l == cache.list
      met == {Walk(l)[i] : i \in DOMAIN Walk(l)} \ {Sentinel}
  IN  /\ met = l.live
      /\ Cardinality(l.live) = cache.size
      /\ \A a \in l.live \cup {Sentinel} : l.prev[l.next[a]] = a

KeyOf(n) == cache.entry.key[cache.list.value[n]]

\* The index finds each listed node under its key and nothing else; its chains
\* hold every allocated entry, each in the bucket of its key.
IndexAgrees ==
  /\ \A n \in cache.list.live : hash_map_find(cache.map, KeyOf(n)) = n
  /\ InChains(cache.map) = cache.map.live
  /\ \A h \in cache.map.live : /\ cache.map.value[h] \in cache.list.live
                               /\ KeyOf(cache.map.value[h]) = cache.map.key[h]

\* No block is lost and none is shared: one entry and one index entry per list
\* node, whichever allocation failed before, and nothing at all is allocated
\* once the cache is destroyed or could not be created.
NoLeak ==
  /\ cache.entry.live = {cache.list.value[n] : n \in cache.list.live}
  /\ Cardinality(cache.entry.live) = Cardinality(cache.list.live)
  /\ Cardinality(cache.map.live) = Cardinality(cache.list.live)
  /\ blocks \in {{}, AllBlocks}
  /\ blocks = {} => cache.list.live = {}

\* What a caller can tell about the cache: keys and pages in recency order.
Contents ==
  [i \in 1..cache.size |->
     LET e == cache.list.value[Walk(cache.list)[i]]
     IN  <<cache.entry.key[e], cache.entry.value[e]>>]

PagesHeld ==
  [k \in Keys |->
     LET n == hash_map_find(cache.map, k)
     IN  IF n = NULL THEN NoPage ELSE cache.entry.value[cache.list.value[n]]]

Outcome == [kind |-> IF ret \in {"none", "hit", "miss"} THEN ret ELSE "error",
            value |-> IF ret \in {"hit", "miss"} THEN out ELSE NoPage]
=============================================================================
