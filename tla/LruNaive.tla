------------------------------ MODULE LruNaive ------------------------------
(***************************************************************************)
(* The single-file program 01-basics/lru-in-c-naive/main.c: a list with    *)
(* NULL at both ends, hash chains threaded through the same nodes, an      *)
(* array of nodes that are reused in place, and the loop that reads keys   *)
(* and counts hits.  The capacity is cut down to the number of requests    *)
(* before anything is allocated.                                           *)
(***************************************************************************)
EXTENDS RecencyList, FiniteSets

CONSTANTS Keys,
          NULL,
          MaxCapacity,    \* bound on the capacity asked for
          MaxCount        \* bound on the number of requests

Nodes == 0..(MaxCapacity - 1)    \* &nodes[i]

VARIABLES pc,         \* "read", "loop", "done" (EXIT_SUCCESS), "failed"
          requested, count,      \* the two numbers read first
          blocks,     \* "nodes" and "buckets" while allocated
          cache,      \* head, tail, capacity, buckets and the nodes
          used, i, hits,
          hash,       \* the mixed bits of each key, before % capacity
          stack,      \* history: keys requested, most recent first
          lruHits     \* history: hits of an LRU cache of the size asked for

vars == <<pc, requested, count, blocks, cache, used, i, hits, hash, stack, lruHits>>

Zeroed == [head |-> NULL, tail |-> NULL, capacity |-> 0,
           buckets |-> [n \in Nodes |-> NULL], value |-> [n \in Nodes |-> NULL],
           prev |-> [n \in Nodes |-> NULL], next |-> [n \in Nodes |-> NULL],
           hash_next |-> [n \in Nodes |-> NULL]]

Init == /\ pc = "read"
        /\ requested = 0 /\ count = 0
        /\ blocks = {}
        /\ cache = Zeroed
        /\ used = 0 /\ i = 0 /\ hits = 0
        /\ hash \in [Keys -> Nodes]
        /\ stack = << >> /\ lruHits = 0

bucket_for(k, capacity) == hash[k] % capacity

-----------------------------------------------------------------------------
(* The list.                                                               *)

unlink_node(c, n) ==
  LET c1 == IF c.prev[n] # NULL THEN [c EXCEPT !.next[c.prev[n]] = c.next[n]]
            ELSE [c EXCEPT !.head = c.next[n]]
  IN  IF c.next[n] # NULL THEN [c1 EXCEPT !.prev[c.next[n]] = c.prev[n]]
      ELSE [c1 EXCEPT !.tail = c.prev[n]]

prepend(c, n) ==
  LET c1 == [c EXCEPT !.prev[n] = NULL, !.next[n] = c.head]
      c2 == IF c.head # NULL THEN [c1 EXCEPT !.prev[c.head] = n]
            ELSE [c1 EXCEPT !.tail = n]
  IN  [c2 EXCEPT !.head = n]

-----------------------------------------------------------------------------
(* The hash chains.                                                        *)

\* The nodes of bucket b in chain order, NULL from the end on.
Chain(c, b) ==
  LET at[j \in 0..MaxCapacity] ==
        IF j = 0 THEN c.buckets[b]
        ELSE LET n == at[j - 1] IN IF n = NULL THEN NULL ELSE c.hash_next[n]
  IN  at

InChain(c, b) == {Chain(c, b)[j] : j \in 0..MaxCapacity} \ {NULL}

Search(c, k) ==
  LET found == {n \in InChain(c, bucket_for(k, c.capacity)) : c.value[n] = k}
  IN  IF found = {} THEN NULL ELSE CHOOSE n \in found : TRUE

\* Slip: the bucket is computed from the new key instead of the old one.
UnchainNewKey(c, n, k) ==
  LET b == bucket_for(k, c.capacity)
      before == {m \in InChain(c, b) : c.hash_next[m] = n}
  IN  IF c.buckets[b] = n \/ before = {}
      THEN [c EXCEPT !.buckets[b] = c.hash_next[n]]
      ELSE [c EXCEPT !.hash_next[CHOOSE m \in before : TRUE] = c.hash_next[n]]

\* The walk along link stops at the pointer to n, which its chain must hold.
Unchain(c, n, k) ==
  LET b == bucket_for(c.value[n], c.capacity)
      before == {m \in InChain(c, b) : c.hash_next[m] = n}
  IN  IF c.buckets[b] = n THEN [c EXCEPT !.buckets[b] = c.hash_next[n]]
      ELSE [c EXCEPT !.hash_next[CHOOSE m \in before : TRUE] = c.hash_next[n]]

-----------------------------------------------------------------------------
(* main                                                                    *)

Limit(c, n) == IF c < n THEN c ELSE n

\* The sizes are read and the blocks allocated.
Start(c, n) ==
  /\ pc = "read"
  /\ requested' = c /\ count' = n
  /\ cache' = [Zeroed EXCEPT !.capacity = Limit(c, n)]
  /\ blocks' = IF Limit(c, n) = 0 THEN {} ELSE {"nodes", "buckets"}
  /\ pc' = "loop"
  /\ UNCHANGED <<used, i, hits, hash, stack, lruHits>>

\* Bad sizes, a cache too large, or one of two allocations failing.
StartFails ==
  /\ pc = "read"
  /\ pc' = "failed"
  /\ UNCHANGED <<requested, count, blocks, cache, used, i, hits, hash, stack, lruHits>>

\* The history of the request for k, and whether an LRU cache would hit.
Remember(k) ==
  /\ stack' = Touch(stack, k)
  /\ lruHits' = lruHits + (IF k \in Resident(stack, requested) THEN 1 ELSE 0)

RequestZero(k) ==
  /\ pc = "loop" /\ i < count
  /\ cache.capacity = 0
  /\ i' = i + 1
  /\ Remember(k)
  /\ UNCHANGED <<pc, requested, count, blocks, cache, used, hits, hash>>

\* Slip: a hit leaves the node where it is.
RequestHitNotMoved(k) ==
  /\ pc = "loop" /\ i < count
  /\ cache.capacity # 0
  /\ Search(cache, k) # NULL
  /\ hits' = hits + 1
  /\ i' = i + 1
  /\ Remember(k)
  /\ UNCHANGED <<pc, requested, count, blocks, cache, used, hash>>

RequestHit(k) ==
  /\ pc = "loop" /\ i < count
  /\ cache.capacity # 0
  /\ LET n == Search(cache, k)
     IN  /\ n # NULL
         /\ cache' = prepend(unlink_node(cache, n), n)
  /\ hits' = hits + 1
  /\ i' = i + 1
  /\ Remember(k)
  /\ UNCHANGED <<pc, requested, count, blocks, used, hash>>

\* The node takes the key and goes to the front of its chain and of the list.
TakeKey(c, n, k) ==
  LET b == bucket_for(k, c.capacity)
  IN  prepend([c EXCEPT !.value[n] = k, !.hash_next[n] = c.buckets[b], !.buckets[b] = n], n)

RequestMiss(k) ==
  /\ pc = "loop" /\ i < count
  /\ cache.capacity # 0
  /\ Search(cache, k) = NULL
  /\ IF used < cache.capacity
     THEN /\ cache' = TakeKey(cache, used, k)
          /\ used' = used + 1
     ELSE /\ cache' = LET n == cache.tail
                      IN  TakeKey(unlink_node(Unchain(cache, n, k), n), n, k)
          /\ UNCHANGED used
  /\ i' = i + 1
  /\ Remember(k)
  /\ UNCHANGED <<pc, requested, count, blocks, hits, hash>>

BadElement ==
  /\ pc = "loop" /\ i < count
  /\ blocks' = {}
  /\ pc' = "failed"
  /\ UNCHANGED <<requested, count, cache, used, i, hits, hash, stack, lruHits>>

Finish ==
  /\ pc = "loop" /\ i = count
  /\ blocks' = {}
  /\ pc' = "done"
  /\ UNCHANGED <<requested, count, cache, used, i, hits, hash, stack, lruHits>>

Next == \/ \E c \in 0..MaxCapacity, n \in 0..MaxCount : Start(c, n)
        \/ StartFails
        \/ \E k \in Keys : RequestZero(k) \/ RequestHit(k) \/ RequestMiss(k)
        \/ BadElement
        \/ Finish

Spec == Init /\ [][Next]_vars

-----------------------------------------------------------------------------
(* Properties.                                                             *)

InUse == {n \in Nodes : n < used}

\* Each node in use is in the chain of its key's bucket and in no other, so the
\* walk that unchains a node before it is reused always arrives.
ChainsSound ==
  cache.capacity # 0 =>
    \A b \in 0..(cache.capacity - 1) :
      InChain(cache, b) = {n \in InUse : bucket_for(cache.value[n], cache.capacity) = b}

\* The hits counted are those of an LRU cache of the capacity asked for:
\* cutting the capacity down to the number of requests changes no answer.
HitsAreLru == hits = lruHits
=============================================================================
