---------------------------- MODULE LruCxxProofs ----------------------------
(***************************************************************************)
(* Proofs about cache_t (LruCxx) for every set of keys, pages and nodes    *)
(* and every capacity.                                                     *)
(***************************************************************************)
EXTENDS LruCxx, LruLemmas

\* The inductive invariant that no exception can break.
Safe == TypeOK /\ ListSound /\ IndexSafe

-----------------------------------------------------------------------------
(* The list and the index after the eviction step of the miss path.        *)

\* The eviction leaves room for one node, and an index of what is left.
LEMMA EvictionSafe ==
  ASSUME Safe, sz_ # 0
  PROVE  /\ ListAfterEviction \in Seq(Nodes)
         /\ Distinct(ListAfterEviction)
         /\ Len(ListAfterEviction) + 1 <= sz_
         /\ Elems(ListAfterEviction) \subseteq Elems(cache_)
         /\ HashAfterEviction \in [Keys -> Nodes \cup {NoNode}]
         /\ \A k \in Keys : HashAfterEviction[k] # NoNode =>
                /\ HashAfterEviction[k] = hash_[k]
                /\ HashAfterEviction[k] \in Elems(ListAfterEviction)
<1>a. sz_ \in Nat
  BY DEF Safe, TypeOK
<1> USE <1>a
<1>1. CASE ~full
  <2>1. ListAfterEviction = cache_ /\ HashAfterEviction = hash_
    BY <1>1 DEF ListAfterEviction, HashAfterEviction
  <2>2. cache_ \in Seq(Nodes) /\ Len(cache_) # sz_ /\ Len(cache_) <= sz_
    BY <1>1 DEF Safe, TypeOK, ListSound, full
  <2>3. Len(cache_) + 1 <= sz_
    BY <2>2
  <2> QED BY <2>1, <2>2, <2>3 DEF Safe, TypeOK, ListSound, IndexSafe
<1>2. CASE full
  <2> DEFINE last == cache_[Len(cache_)]
  <2>1. cache_ \in Seq(Nodes) /\ Distinct(cache_) /\ Len(cache_) = sz_
    BY <1>2 DEF Safe, TypeOK, ListSound, full
  <2>2. cache_ # << >> /\ Len(cache_) \in 1..Len(cache_)
    BY <2>1
  <2>3. ListAfterEviction = PopBack(cache_)
    BY <1>2 DEF ListAfterEviction
  <2>4. /\ PopBack(cache_) \in Seq(Nodes)
        /\ Len(PopBack(cache_)) = Len(cache_) - 1
        /\ Elems(PopBack(cache_)) = Elems(cache_) \ {last}
        /\ Distinct(PopBack(cache_))
    BY <2>1, <2>2, PopBackType, PopBackElems
  <2>5. last \in Elems(cache_) /\ BackKey \in Keys /\ node[last].key = BackKey
    BY <2>2 DEF Elems, BackKey, Safe, TypeOK
  <2>6. HashAfterEviction = [hash_ EXCEPT ![BackKey] = NoNode]
    BY <1>2 DEF HashAfterEviction
  <2>7. HashAfterEviction \in [Keys -> Nodes \cup {NoNode}]
    BY <2>5, <2>6 DEF Safe, TypeOK
  <2>8. ASSUME NEW k \in Keys, HashAfterEviction[k] # NoNode
        PROVE  /\ HashAfterEviction[k] = hash_[k]
               /\ HashAfterEviction[k] \in Elems(PopBack(cache_))
    <3>1. k # BackKey /\ HashAfterEviction[k] = hash_[k]
      BY <2>5, <2>6, <2>8 DEF Safe, TypeOK
    <3>2. hash_[k] \in Elems(cache_) /\ node[hash_[k]].key = k
      BY <2>8, <3>1 DEF Safe, IndexSafe
    <3> QED BY <2>4, <2>5, <3>1, <3>2
  <2>9. Len(PopBack(cache_)) + 1 <= sz_
    BY <2>1, <2>4
  <2> QED BY <2>3, <2>4, <2>7, <2>8, <2>9
<1> QED BY <1>1, <1>2

\* A fresh node in front of the evicted list keeps the list and the index sound,
\* whether its index entry is made (LookupMiss) or not (HashThrows).
LEMMA PushSafe ==
  ASSUME Safe, sz_ # 0,
         NEW k \in Keys, NEW p \in Pages, NEW n \in FreeNodes,
         sz_' = sz_,
         cache_' = PushFront(ListAfterEviction, n),
         node' = [node EXCEPT ![n] = [key |-> k, page |-> p]],
         \/ hash_' = [HashAfterEviction EXCEPT ![k] = n]
         \/ hash_' = HashAfterEviction
  PROVE  /\ cache_' \in Seq(Nodes)
         /\ node' \in [Nodes -> [key : Keys \cup {NoKey}, page : Pages \cup {NoPage}]]
         /\ hash_' \in [Keys -> Nodes \cup {NoNode}]
         /\ \A m \in Elems(cache_') : node'[m] \in [key : Keys, page : Pages]
         /\ ListSound'
         /\ IndexSafe'
<1>a. sz_ \in Nat
  BY DEF Safe, TypeOK
<1> USE <1>a
<1> DEFINE L == ListAfterEviction
           H == HashAfterEviction
<1>1. n \in Nodes /\ n \notin Elems(L)
  BY DEF FreeNodes
<1>2. /\ L \in Seq(Nodes) /\ Distinct(L) /\ Len(L) + 1 <= sz_
      /\ Elems(L) \subseteq Elems(cache_)
      /\ H \in [Keys -> Nodes \cup {NoNode}]
      /\ \A j \in Keys : H[j] # NoNode => H[j] = hash_[j] /\ H[j] \in Elems(L)
  BY EvictionSafe
<1> HIDE DEF L, H
<1>3. cache_' = PushFront(L, n) /\ (hash_' = [H EXCEPT ![k] = n] \/ hash_' = H)
  BY DEF L, H
<1>4. /\ cache_' \in Seq(Nodes)
      /\ Len(cache_') = Len(L) + 1
      /\ Elems(cache_') = Elems(L) \cup {n}
      /\ Distinct(cache_')
  <2>1. PushFront(L, n) \in Seq(Nodes) /\ Len(PushFront(L, n)) = Len(L) + 1
    BY <1>1, <1>2, PushFrontType
  <2>2. Elems(PushFront(L, n)) = Elems(L) \cup {n}
    BY <1>1, <1>2, PushFrontElems
  <2>3. Distinct(PushFront(L, n))
    BY <1>1, <1>2, PushFrontDistinct
  <2> QED BY <1>3, <2>1, <2>2, <2>3
<1>5. node' \in [Nodes -> [key : Keys \cup {NoKey}, page : Pages \cup {NoPage}]]
  BY <1>1 DEF Safe, TypeOK
<1>6. hash_' \in [Keys -> Nodes \cup {NoNode}]
  BY <1>1, <1>2, <1>3
<1>7. node'[n] = [key |-> k, page |-> p] /\ \A m \in Nodes : m # n => node'[m] = node[m]
  BY <1>1 DEF Safe, TypeOK
<1>8. Elems(L) \subseteq Nodes
  BY <1>2 DEF Elems
<1>9. \A m \in Elems(cache_') : node'[m] \in [key : Keys, page : Pages]
  BY <1>2, <1>4, <1>7, <1>8 DEF Safe, TypeOK
<1>10. ListSound'
  BY <1>2, <1>4 DEF ListSound
<1>11. IndexSafe'
  <2> SUFFICES ASSUME NEW j \in Keys, hash_'[j] # NoNode
               PROVE  hash_'[j] \in Elems(cache_') /\ node'[hash_'[j]].key = j
    BY DEF IndexSafe, Elems
  <2>1. CASE j = k /\ hash_'[j] = n
    BY <1>4, <1>7, <2>1
  <2>2. CASE hash_'[j] = H[j]
    <3>1. H[j] = hash_[j] /\ H[j] \in Elems(L) /\ H[j] # n /\ hash_[j] # NoNode
      BY <1>1, <1>2, <2>2
    <3>2. node[H[j]].key = j
      BY <3>1 DEF Safe, IndexSafe
    <3> QED BY <1>4, <1>7, <1>8, <2>2, <3>1, <3>2
  <2> QED BY <1>2, <1>3, <2>1, <2>2
<1> QED BY <1>4, <1>5, <1>6, <1>9, <1>10, <1>11

-----------------------------------------------------------------------------
\* A new cache_t is sound: nothing listed, nothing indexed.
LEMMA InitSafe == Init => Safe
BY CapacityAssumption DEF Init, Safe, TypeOK, ListSound, IndexSafe, Distinct, Elems

\* A request keeps the history a sequence of keys.
LEMMA TouchKeepsType ==
  ASSUME NEW s \in Seq(Keys), NEW k \in Keys
  PROVE  Touch(s, k) \in Seq(Keys)
BY PushFrontType, PositionOfElem, MoveToFrontType DEF Touch

\* Every way lookup_update can end keeps the list and the index sound.
LEMMA NextSafe == Safe /\ [Next]_vars => Safe'
<1> SUFFICES ASSUME Safe, [Next]_vars PROVE Safe'
  OBVIOUS
<1>a. sz_ \in Nat
  BY DEF Safe, TypeOK
<1> USE <1>a, NoPageAssumption, NoNodeAssumption
<1>1. ASSUME NEW k \in Keys, ZeroCapacity(k) PROVE Safe'
  BY <1>1, TouchKeepsType DEF ZeroCapacity, Safe, TypeOK, ListSound, IndexSafe
<1>2. ASSUME NEW k \in Keys, LookupHit(k) PROVE Safe'
  <2> DEFINE i == PositionOf(cache_, hash_[k])
  <2>1. cache_ \in Seq(Nodes) /\ hash_[k] \in Elems(cache_) /\ node[hash_[k]].page \in Pages
    BY <1>2 DEF LookupHit, Found, Safe, TypeOK, IndexSafe
  <2>2. i \in 1..Len(cache_)
    BY <2>1, PositionOfElem
  <2>3. /\ cache_' \in Seq(Nodes) /\ Len(cache_') = Len(cache_)
        /\ Elems(cache_') = Elems(cache_) /\ Distinct(cache_')
    BY <1>2, <2>1, <2>2, MoveToFrontType, MoveToFrontElems, MoveToFrontDistinct
       DEF LookupHit, Safe, ListSound
  <2>4. TypeOK'
    BY <1>2, <2>1, <2>3, TouchKeepsType DEF LookupHit, Safe, TypeOK
  <2>5. ListSound' /\ IndexSafe'
    BY <1>2, <2>3 DEF LookupHit, Safe, ListSound, IndexSafe
  <2> QED BY <2>4, <2>5 DEF Safe
<1>3. ASSUME NEW k \in Keys, NEW p \in Pages, NEW n \in Nodes, LookupMiss(k, p, n)
      PROVE  Safe'
  BY <1>3, PushSafe, TouchKeepsType DEF LookupMiss, Safe, TypeOK
<1>4. ASSUME NEW k \in Keys, LoaderThrows(k) PROVE Safe'
  BY <1>4 DEF LoaderThrows, Safe, TypeOK, ListSound, IndexSafe
<1>5. ASSUME NEW k \in Keys, ListThrows(k) PROVE Safe'
  <2>1. TypeOK'
    BY <1>5, EvictionSafe DEF ListThrows, Safe, TypeOK
  <2>2. Len(cache_') + 1 <= sz_ /\ Len(cache_') \in Nat /\ Distinct(cache_') /\ sz_' = sz_
    BY <1>5, <2>1, EvictionSafe DEF ListThrows, TypeOK
  <2>3. ListSound'
    BY <2>2 DEF ListSound
  <2>4. IndexSafe'
    BY <1>5, EvictionSafe DEF ListThrows, Safe, IndexSafe
  <2> QED BY <2>1, <2>3, <2>4 DEF Safe
<1>6. ASSUME NEW k \in Keys, NEW p \in Pages, NEW n \in Nodes, HashThrows(k, p, n)
      PROVE  Safe'
  <2>1. n \in FreeNodes /\ sz_ # 0 /\ hash_' = HashAfterEviction
    BY <1>6 DEF HashThrows
  <2>2. ListSound' /\ IndexSafe'
    BY <1>6, <2>1, PushSafe DEF HashThrows
  <2>3. lost' \in Nat
    BY <1>6 DEF HashThrows, Safe, TypeOK
  <2>4. TypeOK'
    BY <1>6, <2>1, <2>3, PushSafe DEF HashThrows, Safe, TypeOK
  <2> QED BY <2>2, <2>4 DEF Safe
<1>7. CASE UNCHANGED vars
  BY <1>7 DEF vars, Safe, TypeOK, ListSound, IndexSafe
<1> QED
  BY <1>1, <1>2, <1>3, <1>4, <1>5, <1>6, <1>7 DEF Next, lookup_update

\* The list and the index are well formed in every reachable state.
THEOREM TypeCorrect == Spec => []TypeOK
<1>1. Safe => TypeOK
  BY DEF Safe
<1> QED BY <1>1, InitSafe, NextSafe, PTL DEF Spec

\* Whatever throws, an iterator of hash_ is never stale: it points to a node of
\* the list that holds the page of its key.
THEOREM IndexAlwaysSafe == Spec => []IndexSafe
<1>1. Safe => IndexSafe
  BY DEF Safe
<1> QED BY <1>1, InitSafe, NextSafe, PTL DEF Spec

\* Whatever throws, the list has no node twice and at most sz_ nodes.
THEOREM ListAlwaysSound == Spec => []ListSound
<1>1. Safe => ListSound
  BY DEF Safe
<1> QED BY <1>1, InitSafe, NextSafe, PTL DEF Spec

-----------------------------------------------------------------------------
(* Recency.  While no emplace throws, the list follows the history of      *)
(* requests position by position.                                          *)

\* What is needed besides Safe: the history has no key twice, and the list is
\* its beginning.
Ordered == Distinct(stack) /\ MostRecent

\* Without failing emplace calls, list position and history position agree.
LEMMA PositionsAgree ==
  ASSUME Safe, Ordered, intact
  PROVE  /\ Len(cache_) <= Len(stack)
         /\ Len(cache_) = Len(stack) \/ Len(cache_) = sz_
         /\ \A i \in 1..Len(cache_) :
              /\ i \in 1..Len(stack)
              /\ node[cache_[i]].key = stack[i]
              /\ hash_[stack[i]] = cache_[i]
         /\ \A k \in Keys : Found(k) =>
              \E i \in 1..Len(cache_) : cache_[i] = hash_[k] /\ stack[i] = k
<1>a. sz_ \in Nat
  BY DEF Safe, TypeOK
<1> USE <1>a
<1>1. cache_ \in Seq(Nodes) /\ stack \in Seq(Keys)
  BY DEF Safe, TypeOK
<1>2. /\ Len(cache_) = IF Len(stack) < sz_ THEN Len(stack) ELSE sz_
      /\ \A i \in 1..Len(cache_) : node[cache_[i]].key = stack[i] /\ Indexed(i)
  BY DEF Ordered, MostRecent
<1>3. /\ Len(cache_) <= Len(stack)
      /\ Len(cache_) = Len(stack) \/ Len(cache_) = sz_
  BY <1>1, <1>2
<1>4. ASSUME NEW i \in 1..Len(cache_)
      PROVE  i \in 1..Len(stack) /\ node[cache_[i]].key = stack[i]
                                 /\ hash_[stack[i]] = cache_[i]
  BY <1>1, <1>2, <1>3 DEF Indexed
<1>5. ASSUME NEW k \in Keys, Found(k)
      PROVE  \E i \in 1..Len(cache_) : cache_[i] = hash_[k] /\ stack[i] = k
  <2>1. hash_[k] \in Elems(cache_) /\ node[hash_[k]].key = k
    BY <1>5 DEF Found, Safe, IndexSafe
  <2>2. PICK i \in 1..Len(cache_) : cache_[i] = hash_[k]
    BY <2>1 DEF Elems
  <2> QED BY <1>2, <2>1, <2>2
<1> QED BY <1>3, <1>4, <1>5

\* The keys found in the index are those the history makes resident.
FoundAreResident ==
  intact =>
    \A k \in Keys : Found(k) <=> k \in Resident(stack, sz_)

\* It follows from list and history agreeing.
LEMMA FoundIsResident == Safe /\ Ordered => FoundAreResident
<1> SUFFICES ASSUME Safe, Ordered, intact, NEW k \in Keys
             PROVE  Found(k) <=> k \in Resident(stack, sz_)
  BY DEF FoundAreResident
<1>a. sz_ \in Nat
  BY DEF Safe, TypeOK
<1> USE <1>a
<1>1. cache_ \in Seq(Nodes) /\ stack \in Seq(Keys) /\ Len(cache_) <= sz_
  BY DEF Safe, TypeOK, ListSound
<1>2. ASSUME Found(k) PROVE k \in Resident(stack, sz_)
  <2>1. PICK i \in 1..Len(cache_) : stack[i] = k
    BY <1>2, PositionsAgree
  <2>2. i \in 1..Len(stack) /\ i <= sz_
    BY <1>1, <2>1, PositionsAgree
  <2> QED BY <2>1, <2>2 DEF Resident
<1>3. ASSUME k \in Resident(stack, sz_) PROVE Found(k)
  <2>1. PICK i \in 1..Len(stack) : i <= sz_ /\ stack[i] = k
    BY <1>3 DEF Resident
  <2>2. i \in 1..Len(cache_)
    BY <1>1, <2>1, PositionsAgree
  <2>3. hash_[k] = cache_[i] /\ cache_[i] \in Nodes
    BY <1>1, <2>1, <2>2, PositionsAgree
  <2> QED BY <2>3, NoNodeAssumption DEF Found
<1> QED BY <1>2, <1>3

\* A hit moves the page and its key from the same position to the front.
LEMMA HitOrdered ==
  ASSUME Safe, Ordered, NEW k \in Keys, LookupHit(k)
  PROVE  Ordered'
<1>a. sz_ \in Nat
  BY DEF Safe, TypeOK
<1> USE <1>a
<1>1. cache_ \in Seq(Nodes) /\ stack \in Seq(Keys) /\ Distinct(stack) /\ Distinct(cache_)
  BY DEF Safe, TypeOK, Ordered, ListSound
<1>2. Distinct(stack') /\ stack' = Touch(stack, k)
  BY <1>1, TouchType DEF LookupHit
<1>3. ASSUME intact
      PROVE  /\ Len(cache_') = IF Len(stack') < sz_ THEN Len(stack') ELSE sz_
             /\ \A j \in 1..Len(cache_') : /\ node'[cache_'[j]].key = stack'[j]
                                           /\ hash_'[node'[cache_'[j]].key] = cache_'[j]
  <2>1. PICK i \in 1..Len(cache_) : cache_[i] = hash_[k] /\ stack[i] = k
    BY <1>3, PositionsAgree DEF LookupHit
  <2>2. i \in 1..Len(stack)
    BY <1>3, PositionsAgree
  <2>3. k \in Elems(stack) /\ hash_[k] \in Elems(cache_)
    BY <2>1, <2>2 DEF Elems
  <2>4. PositionOf(stack, k) = i
    BY <1>1, <2>1, <2>2, <2>3, PositionOfElem DEF Distinct
  <2>5. PositionOf(cache_, hash_[k]) = i
    BY <1>1, <2>1, <2>3, PositionOfElem DEF Distinct
  <2>6. stack' = MoveToFront(stack, i) /\ cache_' = MoveToFront(cache_, i)
    BY <1>2, <2>3, <2>4, <2>5 DEF Touch, LookupHit
  <2>7. Len(stack') = Len(stack) /\ Len(cache_') = Len(cache_)
    BY <1>1, <2>2, <2>6, MoveToFrontType
  <2>8. node' = node /\ hash_' = hash_
    BY DEF LookupHit
  <2>9. Len(cache_) = IF Len(stack) < sz_ THEN Len(stack) ELSE sz_
    BY <1>3 DEF Ordered, MostRecent
  <2>10. ASSUME NEW j \in 1..Len(cache_')
         PROVE  \E m \in 1..Len(cache_) : cache_'[j] = cache_[m] /\ stack'[j] = stack[m]
    <3>1. j \in 1..Len(cache_) /\ j \in 1..Len(stack)
      BY <1>3, <2>7, PositionsAgree
    <3>2. CASE j = 1
      BY <2>6, <3>1, <3>2 DEF MoveToFront
    <3>3. CASE j # 1 /\ j <= i
      <4>1. j - 1 \in 1..Len(cache_)
        BY <3>1, <3>3
      <4>2. cache_'[j] = cache_[j - 1] /\ stack'[j] = stack[j - 1]
        BY <2>6, <3>1, <3>3 DEF MoveToFront
      <4> QED BY <4>1, <4>2
    <3>4. CASE j > i
      BY <2>6, <3>1, <3>4 DEF MoveToFront
    <3> QED BY <3>1, <3>2, <3>3, <3>4
  <2>11. ASSUME NEW j \in 1..Len(cache_')
         PROVE  /\ node'[cache_'[j]].key = stack'[j]
                /\ hash_'[node'[cache_'[j]].key] = cache_'[j]
    <3>1. PICK m \in 1..Len(cache_) : cache_'[j] = cache_[m] /\ stack'[j] = stack[m]
      BY <2>10
    <3>2. node[cache_[m]].key = stack[m] /\ hash_[stack[m]] = cache_[m]
      BY <1>3, PositionsAgree
    <3> QED BY <2>8, <3>1, <3>2
  <2> QED BY <2>7, <2>9, <2>11
<1>4. sz_' = sz_ /\ intact' = intact
  BY DEF LookupHit
<1> QED BY <1>2, <1>3, <1>4 DEF Ordered, MostRecent, Indexed

\* A key that misses is not among the resident ones, so a request for it shifts
\* the resident part of the history by one.
LEMMA MissShiftsHistory ==
  ASSUME Safe, Ordered, intact, NEW k \in Keys, ~Found(k)
  PROVE  /\ Touch(stack, k)[1] = k
         /\ \A j \in 1..Len(cache_) :
               j + 1 \in 1..Len(Touch(stack, k)) =>
                 Touch(stack, k)[j + 1] = stack[j]
         /\ \/ Len(Touch(stack, k)) = Len(stack) + 1
            \/ Len(Touch(stack, k)) = Len(stack) /\ Len(cache_) = sz_
         /\ \A j \in 1..Len(cache_) : stack[j] # k
<1>a. sz_ \in Nat
  BY DEF Safe, TypeOK
<1> USE <1>a
<1>1. cache_ \in Seq(Nodes) /\ stack \in Seq(Keys)
  BY DEF Safe, TypeOK
<1>2. ASSUME NEW j \in 1..Len(cache_) PROVE j \in 1..Len(stack) /\ stack[j] # k
  <2>1. j \in 1..Len(stack) /\ hash_[stack[j]] = cache_[j] /\ cache_[j] \in Nodes
    BY <1>1, PositionsAgree
  <2> QED BY <2>1, NoNodeAssumption DEF Found
<1>3. CASE k \notin Elems(stack)
  <2>1. Touch(stack, k) = PushFront(stack, k)
    BY <1>3 DEF Touch
  <2>2. /\ Len(PushFront(stack, k)) = Len(stack) + 1
        /\ PushFront(stack, k)[1] = k
        /\ \A j \in 1..Len(stack) : PushFront(stack, k)[j + 1] = stack[j]
    <3>1. Len(PushFront(stack, k)) = Len(stack) + 1
      BY <1>1, PushFrontType
    <3>2. PushFront(stack, k)[1] = k
      BY <1>1 DEF PushFront
    <3>3. ASSUME NEW j \in 1..Len(stack) PROVE PushFront(stack, k)[j + 1] = stack[j]
      BY <1>1 DEF PushFront
    <3> QED BY <3>1, <3>2, <3>3
  <2> QED BY <1>2, <2>1, <2>2
<1>4. CASE k \in Elems(stack)
  <2> DEFINE q == PositionOf(stack, k)
  <2>1. q \in 1..Len(stack) /\ stack[q] = k
    BY <1>1, <1>4, PositionOfElem
  <2>2. Touch(stack, k) = MoveToFront(stack, q)
    BY <1>4 DEF Touch
  <2> HIDE DEF q
  <2>3. Len(MoveToFront(stack, q)) = Len(stack)
    BY <1>1, <2>1, MoveToFrontType
  <2>4. q \notin 1..Len(cache_)
    BY <1>2, <2>1
  <2>5. q > Len(cache_) /\ Len(cache_) = sz_
    BY <1>1, <2>1, <2>4, PositionsAgree
  <2>6. MoveToFront(stack, q)[1] = k
    BY <2>1 DEF MoveToFront
  <2>7. ASSUME NEW j \in 1..Len(cache_), j + 1 \in 1..Len(stack)
        PROVE  MoveToFront(stack, q)[j + 1] = stack[j]
    BY <1>1, <2>1, <2>5, <2>7 DEF MoveToFront
  <2> QED BY <1>2, <2>2, <2>3, <2>5, <2>6, <2>7
<1> QED BY <1>3, <1>4

\* A miss evicts the last list position and prepends: the list is again the
\* beginning of the history.
LEMMA MissOrdered ==
  ASSUME Safe, Ordered, NEW k \in Keys, NEW p \in Pages, NEW n \in Nodes,
         LookupMiss(k, p, n)
  PROVE  Ordered'
<1>a. sz_ \in Nat
  BY DEF Safe, TypeOK
<1> USE <1>a
<1>1. cache_ \in Seq(Nodes) /\ stack \in Seq(Keys) /\ Distinct(stack)
  BY DEF Safe, TypeOK, Ordered
<1>2. Distinct(stack') /\ stack' = Touch(stack, k) /\ stack' \in Seq(Keys)
  BY <1>1, TouchType DEF LookupMiss
<1>3. ASSUME intact
      PROVE  /\ Len(cache_') = IF Len(stack') < sz_ THEN Len(stack') ELSE sz_
             /\ \A j \in 1..Len(cache_') : /\ node'[cache_'[j]].key = stack'[j]
                                           /\ hash_'[node'[cache_'[j]].key] = cache_'[j]
  <2> DEFINE L == ListAfterEviction
             H == HashAfterEviction
  <2>1. /\ L \in Seq(Nodes) /\ Len(L) + 1 <= sz_
        /\ H \in [Keys -> Nodes \cup {NoNode}] /\ Elems(L) \subseteq Nodes
    BY EvictionSafe DEF LookupMiss, Elems
  <2>2. /\ n \notin Elems(L) /\ sz_ # 0 /\ ~Found(k)
        /\ cache_' = PushFront(L, n)
        /\ hash_' = [H EXCEPT ![k] = n]
        /\ node' = [node EXCEPT ![n] = [key |-> k, page |-> p]]
    BY DEF LookupMiss, FreeNodes
  <2>3. /\ stack'[1] = k
        /\ \A j \in 1..Len(cache_) : j + 1 \in 1..Len(stack') => stack'[j + 1] = stack[j]
        /\ \/ Len(stack') = Len(stack) + 1
           \/ Len(stack') = Len(stack) /\ Len(cache_) = sz_
        /\ \A j \in 1..Len(cache_) : stack[j] # k
    BY <1>2, <1>3, <2>2, MissShiftsHistory
  <2>4. /\ \A j \in 1..Len(L) : j \in 1..Len(cache_) /\ L[j] = cache_[j]
        /\ Len(L) = IF full THEN Len(cache_) - 1 ELSE Len(cache_)
    <3>1. CASE ~full
      BY <3>1 DEF ListAfterEviction
    <3>2. CASE full
      <4>1. cache_ # << >>
        BY <1>1, <2>2, <3>2 DEF full
      <4>2. /\ Len(PopBack(cache_)) = Len(cache_) - 1
            /\ \A j \in 1..(Len(cache_) - 1) : PopBack(cache_)[j] = cache_[j]
        BY <1>1, <4>1, PopBackType
      <4> QED BY <1>1, <3>2, <4>2 DEF ListAfterEviction
    <3> QED BY <3>1, <3>2
  <2>5. /\ Len(cache_) <= Len(stack)
        /\ Len(cache_) = IF Len(stack) < sz_ THEN Len(stack) ELSE sz_
    BY <1>3, PositionsAgree DEF Ordered, MostRecent
  <2>6. ASSUME NEW j \in 1..Len(L) PROVE H[stack[j]] = cache_[j]
    <3>1. /\ j \in 1..Len(cache_) /\ j \in 1..Len(stack)
          /\ hash_[stack[j]] = cache_[j] /\ stack[j] \in Keys
      BY <1>1, <1>3, <2>4, PositionsAgree
    <3>2. CASE ~full
      BY <3>1, <3>2 DEF HashAfterEviction
    <3>3. CASE full
      <4>1. Len(cache_) \in 1..Len(cache_) /\ j # Len(cache_)
        BY <1>1, <2>4, <3>1, <3>3
      <4>2. BackKey = stack[Len(cache_)] /\ Len(cache_) \in 1..Len(stack)
        BY <1>3, <4>1, PositionsAgree DEF BackKey
      <4>3. stack[j] # BackKey
        BY <1>1, <3>1, <4>1, <4>2 DEF Distinct
      <4> QED BY <3>1, <3>3, <4>3 DEF HashAfterEviction, Safe, TypeOK
    <3> QED BY <3>2, <3>3
  <2>7. /\ Len(cache_') = Len(L) + 1 /\ cache_'[1] = n
        /\ \A j \in 1..Len(L) : cache_'[j + 1] = L[j]
    <3> HIDE DEF L, H
    <3>1. /\ Len(PushFront(L, n)) = Len(L) + 1 /\ PushFront(L, n)[1] = n
          /\ \A j \in 1..Len(L) : PushFront(L, n)[j + 1] = L[j]
      <4>1. L \in Seq(Nodes) /\ n \in Nodes /\ Len(L) \in Nat
        BY <2>1
      <4>2. Len(PushFront(L, n)) = Len(L) + 1
        BY <4>1, PushFrontType
      <4>3. PushFront(L, n)[1] = n
        BY <4>1 DEF PushFront
      <4>4. ASSUME NEW j \in 1..Len(L) PROVE PushFront(L, n)[j + 1] = L[j]
        BY <4>1 DEF PushFront
      <4> QED BY <4>2, <4>3, <4>4
    <3> QED BY <2>2, <3>1
  <2> HIDE DEF L, H
  <2>8. Len(cache_') = IF Len(stack') < sz_ THEN Len(stack') ELSE sz_
    BY <1>1, <1>2, <2>1, <2>3, <2>4, <2>5, <2>7 DEF full
  <2>9. ASSUME NEW j \in 1..Len(cache_')
        PROVE  /\ node'[cache_'[j]].key = stack'[j]
               /\ hash_'[node'[cache_'[j]].key] = cache_'[j]
    <3>1. CASE j = 1
      <4>1. node'[n].key = k /\ hash_'[k] = n
        BY <2>1, <2>2 DEF Safe, TypeOK
      <4> QED BY <2>3, <2>7, <3>1, <4>1
    <3>2. CASE j # 1
      <4> DEFINE i == j - 1
      <4>1. i \in 1..Len(L) /\ j = i + 1
        BY <2>1, <2>7, <3>2
      <4> HIDE DEF i
      <4>2. i \in 1..Len(cache_) /\ L[i] = cache_[i] /\ cache_'[j] = cache_[i]
        BY <2>4, <2>7, <4>1
      <4>3. j \in 1..Len(stack')
        BY <1>2, <2>8
      <4>4. stack'[j] = stack[i] /\ stack[i] # k
        BY <2>3, <4>1, <4>2, <4>3
      <4>5. node[cache_[i]].key = stack[i] /\ stack[i] \in Keys
        BY <1>1, <1>3, <4>2, PositionsAgree
      <4>6. cache_[i] # n /\ cache_[i] \in Nodes
        BY <1>1, <2>2, <4>1, <4>2 DEF Elems
      <4>7. node'[cache_[i]] = node[cache_[i]]
        BY <2>2, <4>6 DEF Safe, TypeOK
      <4>8. hash_'[stack[i]] = cache_[i]
        BY <2>1, <2>2, <2>6, <4>1, <4>4, <4>5
      <4> QED BY <4>2, <4>4, <4>5, <4>7, <4>8
    <3> QED BY <3>1, <3>2
  <2> QED BY <2>8, <2>9
<1>4. sz_' = sz_ /\ intact' = intact
  BY DEF LookupMiss
<1> QED BY <1>2, <1>3, <1>4 DEF Ordered, MostRecent, Indexed

\* A new cache_t agrees with the empty history.
LEMMA InitOrdered == Init => Ordered
BY CapacityAssumption DEF Init, Ordered, MostRecent, Distinct

\* Every step keeps the list the beginning of the history.
LEMMA NextOrdered == Safe /\ Ordered /\ [Next]_vars => Ordered'
<1> SUFFICES ASSUME Safe, Ordered, [Next]_vars PROVE Ordered'
  OBVIOUS
<1>a. sz_ \in Nat
  BY DEF Safe, TypeOK
<1> USE <1>a
<1>1. ASSUME NEW k \in Keys, ZeroCapacity(k) PROVE Ordered'
  <2>1. Distinct(stack') /\ stack' \in Seq(Keys)
    BY <1>1, TouchType DEF ZeroCapacity, Safe, TypeOK, Ordered
  <2>2. cache_' = << >>
    BY <1>1 DEF ZeroCapacity, Safe, TypeOK, ListSound
  <2>3. MostRecent'
    BY <1>1, <2>1, <2>2 DEF ZeroCapacity, MostRecent
  <2> QED BY <2>1, <2>3 DEF Ordered
<1>2. ASSUME NEW k \in Keys, LookupHit(k) PROVE Ordered'
  BY <1>2, HitOrdered
<1>3. ASSUME NEW k \in Keys, NEW p \in Pages, NEW n \in Nodes, LookupMiss(k, p, n)
      PROVE  Ordered'
  BY <1>3, MissOrdered
<1>4. ASSUME NEW k \in Keys, LoaderThrows(k) PROVE Ordered'
  BY <1>4 DEF LoaderThrows, Ordered, MostRecent, Indexed
<1>5. ASSUME NEW k \in Keys, ListThrows(k) PROVE Ordered'
  BY <1>5 DEF ListThrows, Ordered, MostRecent
<1>6. ASSUME NEW k \in Keys, NEW p \in Pages, NEW n \in Nodes, HashThrows(k, p, n)
      PROVE  Ordered'
  BY <1>6 DEF HashThrows, Ordered, MostRecent
<1>7. CASE UNCHANGED vars
  BY <1>7 DEF vars, Ordered, MostRecent, Indexed
<1> QED
  BY <1>1, <1>2, <1>3, <1>4, <1>5, <1>6, <1>7 DEF Next, lookup_update

\* As long as no emplace throws, the list holds exactly the sz_ most recently
\* requested keys, in the order of their last request, all of them indexed.
THEOREM AlwaysMostRecent == Spec => []MostRecent
<1>1. Ordered => MostRecent
  BY DEF Ordered
<1> QED BY <1>1, InitSafe, NextSafe, InitOrdered, NextOrdered, PTL DEF Spec

-----------------------------------------------------------------------------
(* Refinement.                                                             *)

\* The list operations of the two modules are the same operations.
LEMMA SameOperators ==
  /\ \A s, k : Abstract!Touch(s, k) = Touch(s, k)
  /\ \A s, c : Abstract!Resident(s, c) = Resident(s, c)
BY DEF Abstract!Touch, Touch, Abstract!Elems, Elems, Abstract!PushFront, PushFront,
       Abstract!MoveToFront, MoveToFront, Abstract!PositionOf, PositionOf,
       Abstract!Resident, Resident

\* A miss of the code is a miss of the abstract cache: the same keys stay, with
\* the pages they had, and the new key has the page just loaded.
LEMMA MissRefines ==
  ASSUME Safe, Ordered, Safe', Ordered', intact',
         NEW k \in Keys, NEW p \in Pages, NEW n \in Nodes, LookupMiss(k, p, n)
  PROVE  Abstract!Miss(k, p)
<1>0. sz_' = sz_ /\ intact' = intact /\ intact
  BY DEF LookupMiss
<1>1. k \notin Resident(stack, sz_)
  BY <1>0, FoundIsResident DEF LookupMiss, FoundAreResident
<1>2. \A j \in Keys : Found(j)' <=> j \in Resident(stack', sz_)
  <2>1. (Safe /\ Ordered => FoundAreResident)'
    BY FoundIsResident, PTL
  <2> QED BY <1>0, <2>1 DEF FoundAreResident, Resident
<1>3. ASSUME NEW j \in Keys
      PROVE  PagesHeld'[j] = IF j \notin Resident(stack', sz_) THEN NoPage
                             ELSE IF j = k THEN p ELSE PagesHeld[j]
  <2>1. PagesHeld'[j] = IF Found(j)' THEN node'[hash_'[j]].page ELSE NoPage
    BY DEF PagesHeld
  <2>2. CASE j \notin Resident(stack', sz_)
    BY <1>2, <2>1, <2>2
  <2>3. CASE j \in Resident(stack', sz_) /\ j = k
    <3>1. hash_'[k] = n /\ node'[n].page = p
      BY EvictionSafe DEF LookupMiss, Safe, TypeOK
    <3> QED BY <1>2, <2>1, <2>3, <3>1
  <2>4. CASE j \in Resident(stack', sz_) /\ j # k
    <3>1. hash_'[j] = HashAfterEviction[j] /\ hash_'[j] # NoNode
      BY <1>2, <2>4, EvictionSafe DEF LookupMiss, Found
    <3>2. /\ hash_'[j] = hash_[j] /\ hash_[j] \in Elems(ListAfterEviction)
          /\ hash_[j] # NoNode
      BY <3>1, EvictionSafe DEF LookupMiss
    <3>3. hash_[j] # n /\ hash_[j] \in Nodes
      BY <3>2 DEF LookupMiss, FreeNodes, Safe, TypeOK
    <3>4. node'[hash_[j]] = node[hash_[j]]
      BY <3>3 DEF LookupMiss, Safe, TypeOK
    <3>5. PagesHeld[j] = node[hash_[j]].page
      BY <3>2 DEF PagesHeld, Found
    <3> QED BY <1>2, <2>1, <2>4, <3>2, <3>4, <3>5
  <2> QED BY <2>2, <2>3, <2>4
<1>4. PagesHeld' = [j \in Keys |-> IF j \notin Resident(stack', sz_) THEN NoPage
                                   ELSE IF j = k THEN p ELSE PagesHeld[j]]
  BY <1>3 DEF PagesHeld
<1>5. stack' = Touch(stack, k) /\ result' = [kind |-> "miss", value |-> p]
  BY DEF LookupMiss
<1> QED BY <1>0, <1>1, <1>4, <1>5, SameOperators DEF Abstract!Miss

\* Every step of the code is a step of the abstract cache, or changes nothing.
LEMMA StepRefines ==
  ASSUME Safe, Ordered, Safe', Ordered', intact', [Next]_vars
  PROVE  [Abstract!SpecNext]_(Abstract!specVars)
<1>1. ASSUME NEW k \in Keys, ZeroCapacity(k) PROVE Abstract!Bypass(k)
  BY <1>1, SameOperators DEF ZeroCapacity, Abstract!Bypass, PagesHeld, Found
<1>2. ASSUME NEW k \in Keys, LookupHit(k) PROVE Abstract!Hit(k)
  <2>1. k \in Resident(stack, sz_) /\ Found(k)
    BY <1>2, FoundIsResident DEF LookupHit, FoundAreResident
  <2>2. PagesHeld[k] = node[hash_[k]].page
    BY <2>1 DEF PagesHeld
  <2>3. PagesHeld' = PagesHeld
    BY <1>2 DEF LookupHit, PagesHeld, Found
  <2> QED BY <1>2, <2>1, <2>2, <2>3, SameOperators DEF LookupHit, Abstract!Hit
<1>3. ASSUME NEW k \in Keys, NEW p \in Pages, NEW n \in Nodes, LookupMiss(k, p, n)
      PROVE  Abstract!Miss(k, p)
  BY <1>3, MissRefines
<1>4. ASSUME NEW k \in Keys, LoaderThrows(k) PROVE Abstract!Fail
  BY <1>4 DEF LoaderThrows, Abstract!Fail, PagesHeld, Found
<1>5. ASSUME NEW k \in Keys PROVE ~ListThrows(k)
  BY DEF ListThrows
<1>6. ASSUME NEW k \in Keys, NEW p \in Pages, NEW n \in Nodes PROVE ~HashThrows(k, p, n)
  BY DEF HashThrows
<1>7. CASE UNCHANGED vars
  BY <1>7 DEF vars, Abstract!specVars, PagesHeld, Found
<1>8. ASSUME NEW k \in Keys, lookup_update(k) PROVE Abstract!SpecNext
  BY <1>1, <1>2, <1>3, <1>4, <1>5, <1>6, <1>8 DEF lookup_update, Abstract!SpecNext
<1> QED BY <1>7, <1>8 DEF Next

\* The list and index cache implements the abstract LRU cache, for every
\* capacity (zero included) and any number of keys, until an emplace throws.
THEOREM Refinement == Spec => ImplementsLru
<1>1. Init => Abstract!SpecInit
  BY CapacityAssumption DEF Init, Abstract!SpecInit, PagesHeld, Found
<1>2. Safe /\ Ordered /\ Safe' /\ Ordered' /\ [Next]_vars
        => [intact' => Abstract!SpecNext]_(Abstract!specVars)
  BY StepRefines
<1> QED
  BY <1>1, <1>2, InitSafe, NextSafe, InitOrdered, NextOrdered, PTL
     DEF Spec, ImplementsLru

-----------------------------------------------------------------------------
(* Orphans.  They are counted as nodes, not as list positions: a splice    *)
(* moves positions and leaves nodes alone.                                 *)

\* Nodes of list L that index H does not lead to, when N is what the nodes hold.
OrphansOf(L, H, N) == {n \in Elems(L) : H[N[n].key] # n}

Orphans == OrphansOf(cache_, hash_, node)

\* The inductive form of OrphansBounded.
FewOrphans == Cardinality(Orphans) <= lost

\* A list has finitely many nodes, so finitely many orphans.
LEMMA ElemsFinite ==
  ASSUME NEW S, NEW s \in Seq(S)
  PROVE  IsFiniteSet(Elems(s))
<1> DEFINE f == [i \in 1..Len(s) |-> s[i]]
<1>1. f \in Surjection(1..Len(s), Elems(s))
  BY DEF Surjection, Elems
<1>2. Len(s) \in Nat
  OBVIOUS
<1>3. IsFiniteSet(1..Len(s))
  BY <1>2, FS_Interval
<1> HIDE DEF f
<1> QED BY <1>1, <1>3, FS_Surjection

\* Where a smaller finite set is counted.
LEMMA FewerElements ==
  ASSUME NEW S, IsFiniteSet(S), NEW T, T \subseteq S
  PROVE  IsFiniteSet(T) /\ Cardinality(T) <= Cardinality(S) /\ Cardinality(T) \in Nat
                        /\ Cardinality(S) \in Nat
<1>1. IsFiniteSet(T) /\ Cardinality(T) <= Cardinality(S)
  BY FS_Subset
<1> QED BY <1>1, FS_CardinalityType

\* An element takes the place of another.
LEMMA ExchangedElement ==
  ASSUME NEW S, IsFiniteSet(S), NEW x, NEW y \in S, NEW T, T \subseteq (S \ {y}) \cup {x}
  PROVE  IsFiniteSet(T) /\ Cardinality(T) <= Cardinality(S)
<1>1. IsFiniteSet(S \ {y}) /\ Cardinality(S \ {y}) = Cardinality(S) - 1
  BY FS_RemoveElement
<1>2. Cardinality(S) \in Nat
  BY FS_CardinalityType
<1>3. /\ IsFiniteSet((S \ {y}) \cup {x})
      /\ Cardinality((S \ {y}) \cup {x}) \in {Cardinality(S \ {y}), Cardinality(S \ {y}) + 1}
  BY <1>1, FS_AddElement
<1>4. Cardinality((S \ {y}) \cup {x}) <= Cardinality(S)
  BY <1>1, <1>2, <1>3
<1>5. /\ IsFiniteSet(T) /\ Cardinality(T) <= Cardinality((S \ {y}) \cup {x})
      /\ Cardinality(T) \in Nat /\ Cardinality((S \ {y}) \cup {x}) \in Nat
  BY <1>3, FewerElements
<1> QED BY <1>2, <1>4, <1>5

\* Evicting a page makes no orphan more: if the index entry that hash_.erase takes away is
\* that of another node, the evicted node was an orphan itself.
LEMMA EvictionOrphans ==
  ASSUME Safe, sz_ # 0
  PROVE  LET E == OrphansOf(ListAfterEviction, HashAfterEviction, node)
         IN  IsFiniteSet(E) /\ Cardinality(E) <= Cardinality(Orphans)
<1> DEFINE E == OrphansOf(ListAfterEviction, HashAfterEviction, node)
<1>0. IsFiniteSet(Orphans)
  <2>1. IsFiniteSet(Elems(cache_))
    BY ElemsFinite DEF Safe, TypeOK
  <2> QED BY <2>1, FewerElements DEF Orphans, OrphansOf
<1>1. CASE ~full
  <2>1. E = Orphans
    BY <1>1 DEF ListAfterEviction, HashAfterEviction, Orphans
  <2> QED BY <1>0, <2>1, FewerElements
<1>2. CASE full
  <2> DEFINE last == cache_[Len(cache_)]
  <2>1. cache_ \in Seq(Nodes) /\ Distinct(cache_) /\ Len(cache_) = sz_ /\ sz_ \in Nat
    BY <1>2 DEF Safe, TypeOK, ListSound, full
  <2>2. cache_ # << >> /\ Len(cache_) \in 1..Len(cache_)
    BY <2>1
  <2>3. Elems(ListAfterEviction) = Elems(cache_) \ {last}
    BY <1>2, <2>1, <2>2, PopBackElems DEF ListAfterEviction
  <2>4. last \in Elems(cache_) /\ BackKey = node[last].key
    BY <2>2 DEF Elems, BackKey
  <2>5. HashAfterEviction = [hash_ EXCEPT ![BackKey] = NoNode]
    BY <1>2 DEF HashAfterEviction
  <2>6. /\ hash_ \in [Keys -> Nodes \cup {NoNode}]
        /\ \A n \in Elems(cache_) : node[n].key \in Keys /\ n # NoNode
    <3>1. Elems(cache_) \subseteq Nodes
      BY <2>1 DEF Elems
    <3> QED BY <3>1, NoNodeAssumption DEF Safe, TypeOK
  <2>7. E \subseteq (Orphans \ {last}) \cup {hash_[BackKey]}
    BY <2>3, <2>4, <2>5, <2>6 DEF OrphansOf, Orphans
  <2>8. CASE hash_[BackKey] = last
    <3>1. E \subseteq Orphans
      BY <2>3, <2>7, <2>8 DEF OrphansOf
    <3> QED BY <1>0, <3>1, FewerElements
  <2>9. CASE hash_[BackKey] # last
    <3>1. last \in Orphans
      BY <2>4, <2>9 DEF OrphansOf, Orphans
    <3> QED BY <1>0, <2>7, <3>1, ExchangedElement
  <2> QED BY <2>8, <2>9
<1> QED BY <1>1, <1>2

\* A new node is an orphan only if its index entry is not made.
LEMMA PushOrphans ==
  ASSUME Safe, sz_ # 0, FewOrphans,
         NEW k \in Keys, NEW p \in Pages, NEW n \in FreeNodes, ~Found(k),
         cache_' = PushFront(ListAfterEviction, n),
         node' = [node EXCEPT ![n] = [key |-> k, page |-> p]],
         \/ hash_' = [HashAfterEviction EXCEPT ![k] = n] /\ lost' = lost
         \/ hash_' = HashAfterEviction /\ lost' = lost + 1
  PROVE  FewOrphans'
<1> DEFINE L == ListAfterEviction
           H == HashAfterEviction
           E == OrphansOf(L, H, node)
<1>1. n \in Nodes /\ n \notin Elems(L)
  BY DEF FreeNodes
<1>2. /\ L \in Seq(Nodes) /\ H \in [Keys -> Nodes \cup {NoNode}]
      /\ Elems(L) \subseteq Elems(cache_)
      /\ \A j \in Keys : H[j] # NoNode => H[j] = hash_[j] /\ H[j] \in Elems(L)
  BY EvictionSafe
<1>3. IsFiniteSet(E) /\ Cardinality(E) <= Cardinality(Orphans)
  BY EvictionOrphans
<1>4. Cardinality(E) \in Nat /\ Cardinality(Orphans) <= lost /\ lost \in Nat
  BY <1>3, FS_CardinalityType DEF FewOrphans, Safe, TypeOK
<1>c. Cardinality(Orphans) \in Nat
  <2>1. IsFiniteSet(Elems(cache_))
    BY ElemsFinite DEF Safe, TypeOK
  <2> QED BY <2>1, FewerElements DEF Orphans, OrphansOf
<1>5. H[k] = NoNode
  BY <1>2 DEF Found
<1>6. /\ \A m \in Elems(L) : node[m].key \in Keys /\ m # NoNode /\ m \in Nodes
      /\ n # NoNode
  <2>1. Elems(L) \subseteq Nodes
    BY <1>2 DEF Elems
  <2> QED BY <1>1, <1>2, <2>1, NoNodeAssumption DEF Safe, TypeOK
<1> HIDE DEF L, H
<1>7. Elems(cache_') = Elems(L) \cup {n}
  BY <1>1, <1>2, PushFrontElems DEF L
<1>8. node'[n].key = k /\ \A m \in Elems(L) : node'[m] = node[m]
  BY <1>1, <1>6 DEF Safe, TypeOK
<1>9. CASE hash_' = [H EXCEPT ![k] = n] /\ lost' = lost
  <2>1. Orphans' \subseteq E
    BY <1>1, <1>2, <1>5, <1>6, <1>7, <1>8, <1>9 DEF Orphans, OrphansOf
  <2>2. Cardinality(Orphans') <= Cardinality(E) /\ Cardinality(Orphans') \in Nat
    BY <1>3, <2>1, FewerElements
  <2> QED BY <1>3, <1>4, <1>c, <1>9, <2>2 DEF FewOrphans
<1>10. CASE hash_' = H /\ lost' = lost + 1
  <2>1. Orphans' \subseteq E \cup {n}
    BY <1>1, <1>2, <1>7, <1>8, <1>10 DEF Orphans, OrphansOf
  <2>2. IsFiniteSet(E \cup {n}) /\ Cardinality(E \cup {n}) \in {Cardinality(E), Cardinality(E) + 1}
    BY <1>3, FS_AddElement
  <2>3. /\ Cardinality(Orphans') <= Cardinality(E \cup {n}) /\ Cardinality(Orphans') \in Nat
        /\ Cardinality(E \cup {n}) \in Nat
    BY <2>1, <2>2, FewerElements
  <2> HIDE DEF E
  <2>4. Cardinality(Orphans') <= lost + 1
    BY <1>3, <1>4, <1>c, <2>2, <2>3
  <2> QED BY <1>10, <2>4 DEF FewOrphans
<1> QED BY <1>9, <1>10 DEF H

\* No way lookup_update can end makes more orphans than hash_.emplace has failed.
LEMMA NextFewOrphans == Safe /\ FewOrphans /\ [Next]_vars => FewOrphans'
<1> SUFFICES ASSUME Safe, FewOrphans, [Next]_vars PROVE FewOrphans'
  OBVIOUS
<1>1. ASSUME NEW k \in Keys, ZeroCapacity(k) \/ LoaderThrows(k) PROVE FewOrphans'
  BY <1>1 DEF ZeroCapacity, LoaderThrows, FewOrphans, Orphans
<1>2. ASSUME NEW k \in Keys, LookupHit(k) PROVE FewOrphans'
  <2>1. cache_ \in Seq(Nodes) /\ hash_[k] \in Elems(cache_)
    BY <1>2 DEF LookupHit, Found, Safe, TypeOK, IndexSafe
  <2>2. PositionOf(cache_, hash_[k]) \in 1..Len(cache_)
    BY <2>1, PositionOfElem
  <2>3. Elems(cache_') = Elems(cache_)
    BY <1>2, <2>1, <2>2, MoveToFrontElems DEF LookupHit
  <2> QED BY <1>2, <2>3 DEF LookupHit, FewOrphans, Orphans, OrphansOf
<1>3. ASSUME NEW k \in Keys, NEW p \in Pages, NEW n \in Nodes,
             LookupMiss(k, p, n) \/ HashThrows(k, p, n)
      PROVE  FewOrphans'
  BY <1>3, PushOrphans DEF LookupMiss, HashThrows
<1>4. ASSUME NEW k \in Keys, ListThrows(k) PROVE FewOrphans'
  <2>1. Orphans' = OrphansOf(ListAfterEviction, HashAfterEviction, node) /\ lost' = lost
    BY <1>4 DEF ListThrows, Orphans
  <2>2. IsFiniteSet(Orphans') /\ Cardinality(Orphans') <= Cardinality(Orphans)
    BY <1>4, <2>1, EvictionOrphans DEF ListThrows
  <2>3. IsFiniteSet(Elems(cache_))
    BY ElemsFinite DEF Safe, TypeOK
  <2>4. Cardinality(Orphans') \in Nat /\ Cardinality(Orphans) \in Nat /\ lost \in Nat
    BY <2>2, <2>3, FewerElements, FS_CardinalityType DEF Orphans, OrphansOf, Safe, TypeOK
  <2> QED BY <2>1, <2>2, <2>4 DEF FewOrphans
<1>5. CASE UNCHANGED vars
  BY <1>5 DEF vars, FewOrphans, Orphans
<1> QED BY <1>1, <1>2, <1>3, <1>4, <1>5 DEF Next, lookup_update

\* Orphans never outnumber the hash_.emplace calls that threw, whatever the cache does
\* to their keys' index entries when it evicts them.
THEOREM OrphansAlwaysBounded == Spec => []OrphansBounded
<1>1. Init => FewOrphans
  <2> SUFFICES ASSUME Init PROVE FewOrphans
    OBVIOUS
  <2>1. Orphans = {}
    BY DEF Init, Orphans, OrphansOf, Elems
  <2> QED BY <2>1, FS_EmptySet DEF Init, FewOrphans
<1>2. Safe /\ FewOrphans => OrphansBounded
  <2> SUFFICES ASSUME Safe, FewOrphans PROVE OrphansBounded
    OBVIOUS
  <2> DEFINE P == {i \in 1..Len(cache_) : ~Indexed(i)}
             f == [i \in P |-> cache_[i]]
  <2>1. f \in Injection(P, Orphans)
    <3>1. f \in [P -> Orphans]
      BY DEF Orphans, OrphansOf, Elems, Indexed
    <3>2. \A i, j \in P : f[i] = f[j] => i = j
      BY DEF Safe, ListSound, Distinct
    <3> QED BY <3>1, <3>2 DEF Injection, IsInjective
  <2>2. IsFiniteSet(Elems(cache_))
    BY ElemsFinite DEF Safe, TypeOK
  <2>3. IsFiniteSet(Orphans) /\ Cardinality(Orphans) \in Nat
    BY <2>2, FewerElements DEF Orphans, OrphansOf
  <2> HIDE DEF P, f
  <2>4. IsFiniteSet(P) /\ Cardinality(P) <= Cardinality(Orphans)
    BY <2>1, <2>3, FS_Injection
  <2>5. Cardinality(P) \in Nat /\ lost \in Nat
    BY <2>4, FS_CardinalityType DEF Safe, TypeOK
  <2>6. Cardinality(P) <= lost
    BY <2>3, <2>4, <2>5 DEF FewOrphans
  <2> QED BY <2>6 DEF OrphansBounded, P
<1> QED BY <1>1, <1>2, InitSafe, NextSafe, NextFewOrphans, PTL DEF Spec
=============================================================================
