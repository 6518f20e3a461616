------------------------------- MODULE LruCxx -------------------------------
(***************************************************************************)
(* caches::cache_t of 01-basics/lru-in-cxx/cache.hpp: a std::list of       *)
(* {key, page} nodes and a std::unordered_map from keys to list iterators. *)
(*                                                                         *)
(* A list iterator is the node it points to.  A node that is popped may be *)
(* handed out again by the allocator, so an iterator left behind in hash_  *)
(* would silently come to mean another page.  lookup_update is one step:   *)
(* the class is single-threaded and the loader must not reenter it.  The   *)
(* calls that can throw are slow_get_page, before anything has changed,    *)
(* cache_.emplace_front, after the eviction, and hash_.emplace, after the  *)
(* node is already on the list.                                            *)
(***************************************************************************)
EXTENDS LruBase, FiniteSets

CONSTANTS Nodes,      \* addresses the list's allocator may return
          NoNode,     \* hash_.end()
          NoKey,      \* the key of an address never allocated
          MaxLost     \* bound on the number of throwing hash_.emplace calls

ASSUME NoNodeAssumption == NoNode \notin Nodes

VARIABLES sz_,        \* the capacity
          cache_,     \* the list: node addresses, front first
          node,       \* what each address holds, {key, page}
          hash_,      \* the index: an iterator for each key
          result,     \* what the last lookup_update did
          stack,      \* history: keys requested, most recent first
          lost,       \* history: hash_.emplace calls that threw
          intact      \* history: no emplace call has thrown

vars == <<sz_, cache_, node, hash_, result, stack, lost, intact>>

Init == /\ sz_ \in Capacities
        /\ cache_ = << >>
        /\ node = [n \in Nodes |-> [key |-> NoKey, page |-> NoPage]]
        /\ hash_ = [k \in Keys |-> NoNode]
        /\ result = [kind |-> "none", value |-> NoPage]
        /\ stack = << >>
        /\ lost = 0
        /\ intact = TRUE

-----------------------------------------------------------------------------
(* The pieces of lookup_update's miss path.  A definition marked Slip is a *)
(* mistake a maintainer could make in the one that follows it, which one   *)
(* of the properties catches.                                              *)

full == Len(cache_) = sz_

BackKey == node[cache_[Len(cache_)]].key

\* Slip: the oldest page is taken from the wrong end.
ListWithoutFront == IF full THEN Tail(cache_) ELSE cache_

\* cache_.pop_back(), if the cache is full
ListAfterEviction == IF full THEN PopBack(cache_) ELSE cache_

\* Slips: the victim's entry stays in the index, or another entry goes.
HashNotErased == hash_

HashErasesFront ==
  IF full THEN [hash_ EXCEPT ![node[cache_[1]].key] = NoNode] ELSE hash_

\* hash_.erase(cache_.back().first), if the cache is full
HashAfterEviction ==
  IF full THEN [hash_ EXCEPT ![BackKey] = NoNode] ELSE hash_

FreeNodes == Nodes \ Elems(ListAfterEviction)

Found(k) == hash_[k] # NoNode

-----------------------------------------------------------------------------
(* lookup_update(key, slow_get_page), one action per way it can end.       *)

ZeroCapacity(k) ==
  /\ sz_ = 0
  /\ result' = [kind |-> "miss", value |-> NoPage]
  /\ stack' = Touch(stack, k)
  /\ UNCHANGED <<sz_, cache_, node, hash_, lost, intact>>

\* Slip: a hit does not refresh the page (first in, first out).
LookupHitNoSplice(k) ==
  /\ sz_ # 0
  /\ Found(k)
  /\ result' = [kind |-> "hit", value |-> node[hash_[k]].page]
  /\ stack' = Touch(stack, k)
  /\ UNCHANGED <<sz_, cache_, node, hash_, lost, intact>>

LookupHit(k) ==
  /\ sz_ # 0
  /\ Found(k)
  /\ cache_' = MoveToFront(cache_, PositionOf(cache_, hash_[k]))
  /\ result' = [kind |-> "hit", value |-> node[hash_[k]].page]
  /\ stack' = Touch(stack, k)
  /\ UNCHANGED <<sz_, node, hash_, lost, intact>>

\* Slip: the node is linked but its pair is never constructed.
LookupMissUnwritten(k, p, n) ==
  /\ sz_ # 0
  /\ ~Found(k)
  /\ n \in FreeNodes
  /\ cache_' = PushFront(ListAfterEviction, n)
  /\ hash_' = [HashAfterEviction EXCEPT ![k] = n]
  /\ result' = [kind |-> "miss", value |-> p]
  /\ stack' = Touch(stack, k)
  /\ UNCHANGED <<sz_, node, lost, intact>>

LookupMiss(k, p, n) ==
  /\ sz_ # 0
  /\ ~Found(k)
  /\ n \in FreeNodes
  /\ cache_' = PushFront(ListAfterEviction, n)
  /\ node' = [node EXCEPT ![n] = [key |-> k, page |-> p]]
  /\ hash_' = [HashAfterEviction EXCEPT ![k] = n]
  /\ result' = [kind |-> "miss", value |-> p]
  /\ stack' = Touch(stack, k)
  /\ UNCHANGED <<sz_, lost, intact>>

LoaderThrows(k) ==
  /\ sz_ # 0
  /\ ~Found(k)
  /\ result' = [kind |-> "error", value |-> NoPage]
  /\ UNCHANGED <<sz_, cache_, node, hash_, stack, lost, intact>>

\* emplace_front throws: the victim is gone and nothing has taken its place.
ListThrows(k) ==
  /\ sz_ # 0
  /\ ~Found(k)
  /\ cache_' = ListAfterEviction
  /\ hash_' = HashAfterEviction
  /\ result' = [kind |-> "error", value |-> NoPage]
  /\ intact' = FALSE
  /\ UNCHANGED <<sz_, node, stack, lost>>

\* hash_.emplace throws: the new node stays on the list without an index entry.
HashThrows(k, p, n) ==
  /\ lost < MaxLost
  /\ sz_ # 0
  /\ ~Found(k)
  /\ n \in FreeNodes
  /\ cache_' = PushFront(ListAfterEviction, n)
  /\ node' = [node EXCEPT ![n] = [key |-> k, page |-> p]]
  /\ hash_' = HashAfterEviction
  /\ result' = [kind |-> "error", value |-> NoPage]
  /\ lost' = lost + 1
  /\ intact' = FALSE
  /\ UNCHANGED <<sz_, stack>>

lookup_update(k) ==
  \/ ZeroCapacity(k)
  \/ LookupHit(k)
  \/ \E p \in Pages, n \in Nodes : LookupMiss(k, p, n)
  \/ LoaderThrows(k)
  \/ ListThrows(k)
  \/ \E p \in Pages, n \in Nodes : HashThrows(k, p, n)

Next == \E k \in Keys : lookup_update(k)

Spec == Init /\ [][Next]_vars

-----------------------------------------------------------------------------
(* Properties.                                                             *)

\* The list is a list of constructed nodes, the index a partial map of keys.
TypeOK ==
  /\ sz_ \in Nat
  /\ cache_ \in Seq(Nodes)
  /\ node \in [Nodes -> [key : Keys \cup {NoKey}, page : Pages \cup {NoPage}]]
  /\ \A n \in Elems(cache_) : node[n] \in [key : Keys, page : Pages]
  /\ hash_ \in [Keys -> Nodes \cup {NoNode}]
  /\ result \in [kind : {"none", "hit", "miss", "error"},
                 value : Pages \cup {NoPage}]
  /\ stack \in Seq(Keys)
  /\ lost \in Nat
  /\ intact \in BOOLEAN

\* The list never holds one node twice and never more than sz_ of them: a
\* throwing emplace after an eviction does not make full() miss its mark.
ListSound == Distinct(cache_) /\ Len(cache_) <= sz_

\* Whatever throws, an iterator stored in hash_ points to a node that is on
\* the list and holds the page of that very key.  An address is reused as soon
\* as it is popped, so a stale iterator would answer with another key's page.
IndexSafe ==
  \A k \in Keys : hash_[k] # NoNode => /\ hash_[k] \in Elems(cache_)
                                       /\ node[hash_[k]].key = k

Indexed(i) == hash_[node[cache_[i]].key] = cache_[i]

\* A node without an index entry is dead weight until it is evicted.  Only a
\* throwing hash_.emplace makes one: evicting such a node may take the entry
\* of a newer node with the same key with it, but never makes one more.
OrphansBounded == Cardinality({i \in 1..Len(cache_) : ~Indexed(i)}) <= lost

\* While no emplace throws, list and index hold exactly the sz_ most
\* recently requested keys, in the order of their last request.
MostRecent ==
  intact =>
    /\ Len(cache_) = IF Len(stack) < sz_ THEN Len(stack) ELSE sz_
    /\ \A i \in 1..Len(cache_) : node[cache_[i]].key = stack[i] /\ Indexed(i)

\* The pages the cache holds, seen through the index as lookup_update does.
PagesHeld == [k \in Keys |-> IF Found(k) THEN node[hash_[k]].page ELSE NoPage]

Abstract == INSTANCE LruSpec WITH capacity <- sz_, page <- PagesHeld, res <- result

\* Until an emplace throws, the list and the index together behave as the
\* abstract LRU cache: hits, misses, victims and pages are those the history of
\* requests dictates, and a throwing loader changes nothing.
ImplementsLru ==
  Abstract!SpecInit /\ [][intact' => Abstract!SpecNext]_(Abstract!specVars)
=============================================================================
