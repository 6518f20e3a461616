----------------------------- MODULE LruCProofs -----------------------------
(***************************************************************************)
(* Proofs about the two LRU caches in C (MCLruC), for every set of keys,   *)
(* every capacity and every heap: their lists and indexes are sound, no    *)
(* block is lost, a failure changes nothing, and they implement LruSpec.   *)
(*                                                                         *)
(* In three parts: lru-in-c, whose heap represents a sequence of nodes and *)
(* a sequence of entries per bucket; lru-in-c-datastructs, by the          *)
(* invariant of LruIntrusiveProofs; and the theorems about both.           *)
(***************************************************************************)
EXTENDS MCLruC, LruLemmas

-----------------------------------------------------------------------------
(* The shape of the heap.  A list represents the sequence s of its nodes,  *)
(* a map the chains of its buckets; what is not allocated holds nothing.   *)

ListType == [live : SUBSET ListAddrs,
             prev : [ListAddrs \cup {Sentinel} -> ListAddrs \cup {Sentinel}],
             next : [ListAddrs \cup {Sentinel} -> ListAddrs \cup {Sentinel}],
             value : [ListAddrs -> EntryAddrs \cup {NULL}]]

EntryType == [live : SUBSET EntryAddrs,
              key : [EntryAddrs -> Keys \cup {NULL}],
              value : [EntryAddrs -> Pages \cup {NoPage}]]

MapType(B) == [live : SUBSET MapAddrs, buckets : [B -> MapAddrs \cup {NULL}],
               key : [MapAddrs -> Keys \cup {NULL}],
               value : [MapAddrs -> ListAddrs \cup {NULL}],
               next : [MapAddrs -> MapAddrs \cup {NULL}]]

CacheType(B) == [list : ListType, entry : EntryType, map : MapType(B), size : Int]

\* Freed nodes and entries are blank, as they are before their first use.
ListBlank(l) == \A a \in ListAddrs \ l.live :
                  l.prev[a] = Sentinel /\ l.next[a] = Sentinel /\ l.value[a] = NULL

EntriesBlank(ents) ==
  \A a \in EntryAddrs \ ents.live : ents.key[a] = NULL /\ ents.value[a] = NoPage

\* The links of the list go through s.
LinksThrough(l, s) ==
  /\ l \in ListType
  /\ s \in Seq(ListAddrs) /\ Distinct(s)
  /\ Ring(l.next, l.prev, s, Sentinel)

ListRep(l, s) == LinksThrough(l, s) /\ Elems(s) = l.live /\ ListBlank(l)

-----------------------------------------------------------------------------
(* list.c                                                                  *)

\* Pointers that go around the sentinel.
Pointers == [ListAddrs \cup {Sentinel} -> ListAddrs \cup {Sentinel}]

LEMMA PrependFields ==
  ASSUME NEW l \in ListType, NEW n \in ListAddrs
  PROVE  /\ prepend(l, n) \in ListType
         /\ prepend(l, n).live = l.live /\ prepend(l, n).value = l.value
         /\ prepend(l, n).next[Sentinel] = n
         /\ prepend(l, n).next[n] = l.next[Sentinel]
         /\ prepend(l, n).prev[l.next[Sentinel]] = n
         /\ l.next[Sentinel] # n => prepend(l, n).prev[n] = Sentinel
         /\ \A a \in ListAddrs \cup {Sentinel} :
              /\ a \notin {n, Sentinel} => prepend(l, n).next[a] = l.next[a]
              /\ a \notin {n, l.next[Sentinel]} => prepend(l, n).prev[a] = l.prev[a]
<1> DEFINE l1 == [l EXCEPT !.prev[n] = Sentinel, !.next[n] = l.next[Sentinel]]
           p == prepend(l, n)
<1>1. l.next \in Pointers /\ l.prev \in Pointers
  BY DEF ListType, Pointers
<1>2. /\ l1 \in ListType /\ l1.live = l.live /\ l1.value = l.value
      /\ l1.next = [l.next EXCEPT ![n] = l.next[Sentinel]]
      /\ l1.prev = [l.prev EXCEPT ![n] = Sentinel]
  BY DEF ListType
<1>3. l1.next[n] = l.next[Sentinel]
  BY <1>1, <1>2 DEF Pointers
<1>4. p = [l1 EXCEPT !.prev[l.next[Sentinel]] = n, !.next[Sentinel] = n]
  BY <1>3 DEF prepend
<1> HIDE DEF l1, p
<1>5. /\ p \in ListType /\ p.live = l1.live /\ p.value = l1.value
      /\ p.next = [l1.next EXCEPT ![Sentinel] = n]
      /\ p.prev = [l1.prev EXCEPT ![l.next[Sentinel]] = n]
  BY <1>1, <1>2, <1>4 DEF ListType, Pointers
<1>6. p.live = l.live /\ p.value = l.value
  BY <1>2, <1>5
<1>7. /\ p.next[Sentinel] = n /\ p.next[n] = l.next[Sentinel]
      /\ \A a \in ListAddrs \cup {Sentinel} : a \notin {n, Sentinel} => p.next[a] = l.next[a]
  BY <1>1, <1>2, <1>5, AddressAssumption DEF Pointers
<1>8. /\ p.prev[l.next[Sentinel]] = n
      /\ l.next[Sentinel] # n => p.prev[n] = Sentinel
      /\ \A a \in ListAddrs \cup {Sentinel} :
           a \notin {n, l.next[Sentinel]} => p.prev[a] = l.prev[a]
  BY <1>1, <1>2, <1>5 DEF Pointers
<1> QED BY <1>5, <1>6, <1>7, <1>8 DEF p

LEMMA DetachFields ==
  ASSUME NEW l \in ListType, NEW n \in ListAddrs, l.prev[n] # n
  PROVE  /\ detach(l, n) \in ListType
         /\ detach(l, n).live = l.live /\ detach(l, n).value = l.value
         /\ detach(l, n).next[l.prev[n]] = l.next[n]
         /\ detach(l, n).prev[l.next[n]] = l.prev[n]
         /\ \A a \in ListAddrs \cup {Sentinel} :
              /\ a # l.prev[n] => detach(l, n).next[a] = l.next[a]
              /\ a # l.next[n] => detach(l, n).prev[a] = l.prev[a]
<1> DEFINE l1 == [l EXCEPT !.next[l.prev[n]] = l.next[n]]
           d == detach(l, n)
<1>1. l.next \in Pointers /\ l.prev \in Pointers
  BY DEF ListType, Pointers
<1>2. /\ l1 \in ListType /\ l1.live = l.live /\ l1.value = l.value
      /\ l1.next = [l.next EXCEPT ![l.prev[n]] = l.next[n]]
      /\ l1.prev = l.prev
  BY <1>1 DEF ListType, Pointers
<1>3. l1.next[n] = l.next[n]
  BY <1>1, <1>2 DEF Pointers
<1>4. d = [l1 EXCEPT !.prev[l.next[n]] = l.prev[n]]
  BY <1>2, <1>3 DEF detach
<1> HIDE DEF l1, d
<1>5. /\ d \in ListType /\ d.live = l1.live /\ d.value = l1.value
      /\ d.next = l1.next
      /\ d.prev = [l1.prev EXCEPT ![l.next[n]] = l.prev[n]]
  BY <1>1, <1>2, <1>4 DEF ListType, Pointers
<1>6. d.live = l.live /\ d.value = l.value
  BY <1>2, <1>5
<1>7. /\ d.next[l.prev[n]] = l.next[n] /\ d.prev[l.next[n]] = l.prev[n]
      /\ \A a \in ListAddrs \cup {Sentinel} :
              /\ a # l.prev[n] => d.next[a] = l.next[a]
              /\ a # l.next[n] => d.prev[a] = l.prev[a]
  BY <1>1, <1>2, <1>5 DEF Pointers
<1> QED BY <1>5, <1>6, <1>7 DEF d

\* Prepending a node that is not linked links it before the others.
LEMMA Prepended ==
  ASSUME NEW l, NEW s, LinksThrough(l, s), NEW n \in ListAddrs, n \notin Elems(s)
  PROVE  /\ LinksThrough(prepend(l, n), PushFront(s, n))
         /\ prepend(l, n).live = l.live /\ prepend(l, n).value = l.value
         /\ \A a \in ListAddrs : a # n /\ a \notin Elems(s) =>
              /\ prepend(l, n).next[a] = l.next[a]
              /\ prepend(l, n).prev[a] = l.prev[a]
<1>1. /\ l \in ListType /\ s \in Seq(ListAddrs) /\ Distinct(s)
      /\ Ring(l.next, l.prev, s, Sentinel)
  BY DEF LinksThrough
<1>2. PushFront(s, n) \in Seq(ListAddrs) /\ Distinct(PushFront(s, n))
  BY <1>1, PushFrontType, PushFrontDistinct
<1>3. l.next[Sentinel] \in Elems(s) \cup {Sentinel} /\ l.next[Sentinel] # n
  <2>1. l.next[Sentinel] = At(s, 1, Sentinel)
    BY <1>1, RingEnds, AddressAssumption
  <2> QED BY <2>1, AddressAssumption DEF At, Elems
<1>4. Elems(s) \subseteq ListAddrs
  BY <1>1 DEF Elems
<1>5. /\ prepend(l, n).next[Sentinel] = n
      /\ prepend(l, n).next[n] = l.next[Sentinel]
      /\ prepend(l, n).prev[l.next[Sentinel]] = n
      /\ prepend(l, n).prev[n] = Sentinel
      /\ \A a \in ListAddrs \cup {Sentinel} :
           /\ a \notin {n, Sentinel} => prepend(l, n).next[a] = l.next[a]
           /\ a \notin {n, l.next[Sentinel]} => prepend(l, n).prev[a] = l.prev[a]
      /\ prepend(l, n) \in ListType
      /\ prepend(l, n).live = l.live /\ prepend(l, n).value = l.value
  BY <1>1, <1>3, PrependFields
<1>6. /\ \A a \in Elems(s) : prepend(l, n).next[a] = l.next[a]
      /\ \A a \in Elems(s) \cup {Sentinel} :
           a # l.next[Sentinel] => prepend(l, n).prev[a] = l.prev[a]
  BY <1>4, <1>5, AddressAssumption
<1>7. Ring(prepend(l, n).next, prepend(l, n).prev, PushFront(s, n), Sentinel)
  BY <1>1, <1>5, <1>6, RingPushed, AddressAssumption
<1>8. ASSUME NEW a \in ListAddrs, a # n, a \notin Elems(s)
      PROVE  /\ prepend(l, n).next[a] = l.next[a]
             /\ prepend(l, n).prev[a] = l.prev[a]
  BY <1>3, <1>5, <1>8, AddressAssumption
<1> QED BY <1>2, <1>5, <1>7, <1>8 DEF LinksThrough

\* Detaching a node takes it out of the ring.
LEMMA Detached ==
  ASSUME NEW l, NEW s, LinksThrough(l, s), NEW i \in 1..Len(s)
  PROVE  /\ s[i] \in ListAddrs
         /\ LinksThrough(detach(l, s[i]), Removed(s, i))
         /\ detach(l, s[i]).live = l.live /\ detach(l, s[i]).value = l.value
         /\ \A a \in ListAddrs : a \notin Elems(s) =>
              /\ detach(l, s[i]).next[a] = l.next[a]
              /\ detach(l, s[i]).prev[a] = l.prev[a]
<1>1. /\ l \in ListType /\ s \in Seq(ListAddrs) /\ Distinct(s)
      /\ Ring(l.next, l.prev, s, Sentinel)
  BY DEF LinksThrough
<1>2. Removed(s, i) \in Seq(ListAddrs) /\ Distinct(Removed(s, i)) /\ s[i] \in ListAddrs
  BY <1>1, RemovedType, RemovedElems
<1>3. /\ l.prev[s[i]] # s[i]
      /\ l.next[s[i]] \in Elems(s) \cup {Sentinel} /\ l.prev[s[i]] \in Elems(s) \cup {Sentinel}
  BY <1>1, RingNeighbours, AddressAssumption
<1> DEFINE n == s[i]
<1> HIDE DEF n
<1>4. Elems(s) \subseteq ListAddrs
  BY <1>1 DEF Elems
<1>5. /\ detach(l, n).next[l.prev[n]] = l.next[n]
      /\ detach(l, n).prev[l.next[n]] = l.prev[n]
      /\ \A a \in ListAddrs \cup {Sentinel} :
           /\ a # l.prev[n] => detach(l, n).next[a] = l.next[a]
           /\ a # l.next[n] => detach(l, n).prev[a] = l.prev[a]
      /\ detach(l, n) \in ListType
      /\ detach(l, n).live = l.live /\ detach(l, n).value = l.value
  BY <1>1, <1>2, <1>3, DetachFields DEF n
<1>6. Ring(detach(l, n).next, detach(l, n).prev, Removed(s, i), Sentinel)
  BY <1>1, <1>4, <1>5, RingDetached, AddressAssumption DEF n
<1>7. ASSUME NEW a \in ListAddrs, a \notin Elems(s)
      PROVE  /\ detach(l, n).next[a] = l.next[a]
             /\ detach(l, n).prev[a] = l.prev[a]
  BY <1>3, <1>5, <1>7, AddressAssumption DEF n
<1> QED BY <1>2, <1>5, <1>6, <1>7 DEF LinksThrough, n

LEMMA BackOf ==
  ASSUME NEW l, NEW s, LinksThrough(l, s)
  PROVE  /\ list_empty(l) <=> Len(s) = 0
         /\ Len(s) # 0 => list_back(l) = s[Len(s)]
<1>1. /\ s \in Seq(ListAddrs) /\ Len(s) \in Nat
      /\ Ring(l.next, l.prev, s, Sentinel)
  BY DEF LinksThrough
<1>2. /\ l.next[Sentinel] = Sentinel <=> Len(s) = 0
      /\ l.prev[Sentinel] = At(s, Len(s), Sentinel)
  BY <1>1, RingEnds, AddressAssumption
<1> QED BY <1>1, <1>2 DEF list_empty, list_back, At

\* A new node is in front.
LEMMA PushedFront ==
  ASSUME NEW l, NEW s, ListRep(l, s), NEW n \in ListAddrs, n \notin l.live, NEW v \in EntryAddrs
  PROVE  /\ ListRep(list_push_front(l, n, v), PushFront(s, n))
         /\ list_push_front(l, n, v).live = l.live \cup {n}
         /\ list_push_front(l, n, v).value = [l.value EXCEPT ![n] = v]
<1> DEFINE l1 == [l EXCEPT !.live = @ \cup {n}, !.value[n] = v]
           p == prepend(l1, n)
<1>1. l \in ListType /\ s \in Seq(ListAddrs) /\ Distinct(s) /\ Elems(s) = l.live
  BY DEF ListRep, LinksThrough
<1>2. /\ l1 \in ListType /\ l1.live = l.live \cup {n} /\ l1.value = [l.value EXCEPT ![n] = v]
      /\ l1.next = l.next /\ l1.prev = l.prev
  BY <1>1 DEF ListType
<1>3. list_push_front(l, n, v) = p
  BY DEF list_push_front
<1> HIDE DEF l1
<1>4. LinksThrough(l1, s)
  BY <1>1, <1>2 DEF ListRep, LinksThrough
<1>5. /\ LinksThrough(p, PushFront(s, n))
      /\ p.live = l1.live /\ p.value = l1.value
      /\ \A a \in ListAddrs : a # n /\ a \notin Elems(s) =>
           p.next[a] = l1.next[a] /\ p.prev[a] = l1.prev[a]
  BY <1>1, <1>4, Prepended
<1> HIDE DEF p
<1>6. Elems(PushFront(s, n)) = l.live \cup {n}
  BY <1>1, PushFrontElems
<1>7. ListBlank(p)
  <2> SUFFICES ASSUME NEW a \in ListAddrs \ p.live
               PROVE  p.prev[a] = Sentinel /\ p.next[a] = Sentinel /\ p.value[a] = NULL
    BY DEF ListBlank
  <2>1. a # n /\ a \in ListAddrs \ l.live
    BY <1>2, <1>5
  <2>2. l.prev[a] = Sentinel /\ l.next[a] = Sentinel /\ l.value[a] = NULL
    BY <2>1 DEF ListRep, ListBlank
  <2> QED BY <1>1, <1>2, <1>5, <2>1, <2>2 DEF ListType
<1> QED BY <1>2, <1>3, <1>5, <1>6, <1>7 DEF ListRep

\* A move reorders the nodes and changes nothing else.
LEMMA MovedFront ==
  ASSUME NEW l, NEW s, ListRep(l, s), NEW i \in 1..Len(s)
  PROVE  /\ ListRep(list_move_front(l, s[i]), MoveToFront(s, i))
         /\ list_move_front(l, s[i]).live = l.live
         /\ list_move_front(l, s[i]).value = l.value
<1> DEFINE n == s[i]
           d == detach(l, n)
           p == prepend(d, n)
<1>1. /\ l \in ListType /\ s \in Seq(ListAddrs) /\ Distinct(s) /\ Elems(s) = l.live
      /\ LinksThrough(l, s) /\ ListBlank(l)
  BY DEF ListRep, LinksThrough
<1>2. /\ n \in ListAddrs /\ LinksThrough(d, Removed(s, i))
      /\ d.live = l.live /\ d.value = l.value
      /\ \A a \in ListAddrs : a \notin Elems(s) =>
           d.next[a] = l.next[a] /\ d.prev[a] = l.prev[a]
  BY <1>1, Detached
<1>3. n \in Elems(s) /\ Elems(Removed(s, i)) = Elems(s) \ {n}
  BY <1>1, RemovedElems DEF Elems
<1> HIDE DEF n, d
<1>4. /\ LinksThrough(p, PushFront(Removed(s, i), n))
      /\ p.live = d.live /\ p.value = d.value
      /\ \A a \in ListAddrs : a # n /\ a \notin Elems(Removed(s, i)) =>
           p.next[a] = d.next[a] /\ p.prev[a] = d.prev[a]
  BY <1>2, <1>3, Prepended
<1>5. list_move_front(l, s[i]) = p
  BY DEF list_move_front, n, d
<1> HIDE DEF p
<1>6. MoveToFront(s, i) = PushFront(Removed(s, i), n)
  BY <1>1, MovedIsPushed DEF n
<1>7. Elems(MoveToFront(s, i)) = l.live
  BY <1>1, MoveToFrontElems
<1>8. ListBlank(p)
  BY <1>1, <1>2, <1>3, <1>4 DEF ListBlank
<1> QED BY <1>2, <1>4, <1>5, <1>6, <1>7, <1>8 DEF ListRep

\* A removal frees the node and keeps the others in order.
LEMMA ListRemoved ==
  ASSUME NEW l, NEW s, ListRep(l, s), NEW i \in 1..Len(s)
  PROVE  /\ ListRep(list_remove(l, s[i]), Removed(s, i))
         /\ list_remove(l, s[i]).live = l.live \ {s[i]}
         /\ \A a \in ListAddrs : a # s[i] => list_remove(l, s[i]).value[a] = l.value[a]
<1> DEFINE n == s[i]
           d == detach(l, n)
           r == list_remove(l, n)
<1>1. /\ l \in ListType /\ s \in Seq(ListAddrs) /\ Distinct(s) /\ Elems(s) = l.live
      /\ LinksThrough(l, s) /\ ListBlank(l)
  BY DEF ListRep, LinksThrough
<1>2. /\ n \in ListAddrs /\ LinksThrough(d, Removed(s, i))
      /\ d.live = l.live /\ d.value = l.value
      /\ \A a \in ListAddrs : a \notin Elems(s) =>
           d.next[a] = l.next[a] /\ d.prev[a] = l.prev[a]
  BY <1>1, Detached
<1>3. n \in Elems(s) /\ Elems(Removed(s, i)) = Elems(s) \ {n}
  BY <1>1, RemovedElems DEF Elems
<1>4. r = [d EXCEPT !.live = @ \ {n}, !.value[n] = NULL,
                    !.prev[n] = Sentinel, !.next[n] = Sentinel]
  BY DEF list_remove
<1> HIDE DEF n, d, r
<1>5. d \in ListType /\ Removed(s, i) \in Seq(ListAddrs) /\ Distinct(Removed(s, i))
      /\ Ring(d.next, d.prev, Removed(s, i), Sentinel)
  BY <1>2 DEF LinksThrough
<1>6. /\ r \in ListType /\ r.live = d.live \ {n}
      /\ r.value = [d.value EXCEPT ![n] = NULL]
      /\ r.prev = [d.prev EXCEPT ![n] = Sentinel]
      /\ r.next = [d.next EXCEPT ![n] = Sentinel]
  BY <1>2, <1>4, <1>5 DEF ListType
<1>7. d.prev \in Pointers /\ d.next \in Pointers /\ d.value \in [ListAddrs -> EntryAddrs \cup {NULL}]
  BY <1>5 DEF ListType, Pointers
<1>8. /\ \A a \in ListAddrs \cup {Sentinel} : a # n =>
            r.next[a] = d.next[a] /\ r.prev[a] = d.prev[a]
      /\ r.next[n] = Sentinel /\ r.prev[n] = Sentinel /\ r.value[n] = NULL
      /\ \A a \in ListAddrs : a # n => r.value[a] = d.value[a]
  BY <1>2, <1>6, <1>7 DEF Pointers
<1>9. Ring(r.next, r.prev, Removed(s, i), Sentinel)
  <2>1. Elems(Removed(s, i)) \subseteq ListAddrs
    BY <1>5 DEF Elems
  <2>2. \A a \in Elems(Removed(s, i)) \cup {Sentinel} :
          r.next[a] = d.next[a] /\ r.prev[a] = d.prev[a]
    BY <1>2, <1>3, <1>8, <2>1, AddressAssumption
  <2> QED BY <1>5, <2>2, RingKept
<1>10. ListBlank(r)
  <2> SUFFICES ASSUME NEW a \in ListAddrs \ r.live
               PROVE  r.prev[a] = Sentinel /\ r.next[a] = Sentinel /\ r.value[a] = NULL
    BY DEF ListBlank
  <2>1. CASE a = n
    BY <1>8, <2>1
  <2>2. CASE a # n
    BY <1>1, <1>2, <1>6, <1>8, <2>2 DEF ListBlank
  <2> QED BY <2>1, <2>2
<1>11. LinksThrough(r, Removed(s, i))
  BY <1>5, <1>6, <1>9 DEF LinksThrough
<1>12. ListRep(r, Removed(s, i))
  BY <1>1, <1>2, <1>3, <1>6, <1>10, <1>11 DEF ListRep
<1>13. r.live = l.live \ {n} /\ \A a \in ListAddrs : a # n => r.value[a] = l.value[a]
  BY <1>2, <1>6, <1>8
<1> QED BY <1>12, <1>13 DEF r, n

\* Sequence and values determine a list.
LEMMA SameList ==
  ASSUME NEW l, NEW r, NEW s, ListRep(l, s), ListRep(r, s),
         \A a \in l.live : l.value[a] = r.value[a]
  PROVE  l = r
<1>1. /\ l \in ListType /\ r \in ListType /\ s \in Seq(ListAddrs)
      /\ Elems(s) = l.live /\ Elems(s) = r.live
      /\ Ring(l.next, l.prev, s, Sentinel) /\ Ring(r.next, r.prev, s, Sentinel)
      /\ ListBlank(l) /\ ListBlank(r)
  BY DEF ListRep, LinksThrough
<1>2. ASSUME NEW a \in Elems(s) \cup {Sentinel} PROVE l.next[a] = r.next[a] /\ l.prev[a] = r.prev[a]
  <2>0. Len(s) \in Nat
    BY <1>1
  <2>1. PICK i \in 0..Len(s) : a = At(s, i, Sentinel)
    BY <2>0 DEF At, Elems
  <2>2. PICK j \in 0..Len(s) : a = At(s, j + 1, Sentinel)
    <3>1. CASE a = Sentinel
      <4>1. Len(s) \in 0..Len(s) /\ At(s, Len(s) + 1, Sentinel) = Sentinel
        BY <2>0 DEF At
      <4> QED BY <3>1, <4>1
    <3>2. CASE a \in Elems(s)
      <4>1. PICK j \in 1..Len(s) : a = s[j]
        BY <3>2 DEF Elems
      <4>2. j - 1 \in 0..Len(s) /\ a = At(s, (j - 1) + 1, Sentinel)
        BY <2>0, <4>1 DEF At
      <4> QED BY <4>2
    <3> QED BY <3>1, <3>2
  <2>3. l.next[a] = At(s, i + 1, Sentinel) /\ r.next[a] = At(s, i + 1, Sentinel)
    BY <1>1, <2>1 DEF Ring
  <2>4. l.prev[a] = At(s, j, Sentinel) /\ r.prev[a] = At(s, j, Sentinel)
    BY <1>1, <2>2 DEF Ring
  <2> QED BY <2>3, <2>4
<1>3. ASSUME NEW a \in ListAddrs \cup {Sentinel} PROVE l.next[a] = r.next[a] /\ l.prev[a] = r.prev[a]
  BY <1>1, <1>2 DEF ListBlank
<1>4. ASSUME NEW a \in ListAddrs PROVE l.value[a] = r.value[a]
  BY <1>1 DEF ListBlank
<1>5. l.live = r.live
  BY <1>1
<1>6. l.next = r.next /\ l.prev = r.prev /\ l.value = r.value
  BY <1>1, <1>3, <1>4 DEF ListType
<1> QED BY <1>1, <1>5, <1>6, SMTT(30) DEF ListType

\* Removing the node just pushed gives the list back as it was.
LEMMA PushUndone ==
  ASSUME NEW l, NEW s, ListRep(l, s), NEW n \in ListAddrs, n \notin l.live, NEW v \in EntryAddrs
  PROVE  list_remove(list_push_front(l, n, v), n) = l
<1> DEFINE p == list_push_front(l, n, v)
           t == PushFront(s, n)
           r == list_remove(p, n)
<1>1. l \in ListType /\ s \in Seq(ListAddrs) /\ Elems(s) = l.live
  BY DEF ListRep, LinksThrough
<1>2. ListRep(p, t) /\ p.live = l.live \cup {n} /\ p.value = [l.value EXCEPT ![n] = v]
  BY PushedFront
<1>3. t \in Seq(ListAddrs) /\ Len(t) = Len(s) + 1 /\ t[1] = n /\ Len(s) \in Nat
  BY <1>1, PushFrontType
<1>4. Removed(t, 1) = s
  <2>1. \A j \in 1..Len(s) : t[j + 1] = s[j]
    BY <1>1 DEF PushFront
  <2> HIDE DEF t
  <2> QED BY <1>1, <1>3, <2>1 DEF Removed
<1> HIDE DEF p, t
<1>5. PICK i \in 1..Len(t) : i = 1
  BY <1>3
<1>6. /\ ListRep(r, s) /\ r.live = p.live \ {n}
      /\ \A a \in ListAddrs : a # n => r.value[a] = p.value[a]
  <2>0. ListRep(p, t)
    BY <1>2
  <2>1. ListRep(list_remove(p, t[i]), Removed(t, i))
    BY <2>0, ListRemoved
  <2>2. list_remove(p, t[i]).live = p.live \ {t[i]}
    BY <2>0, ListRemoved
  <2>3. \A a \in ListAddrs : a # t[i] => list_remove(p, t[i]).value[a] = p.value[a]
    BY <2>0, ListRemoved
  <2> QED BY <1>3, <1>4, <1>5, <2>1, <2>2, <2>3
<1> HIDE DEF r
<1>7. \A a \in l.live : a \in ListAddrs /\ a # n /\ p.value[a] = l.value[a]
  BY <1>1, <1>2 DEF ListType
<1>8. \A a \in l.live : l.value[a] = r.value[a]
  BY <1>6, <1>7
<1>9. l = r
  BY <1>6, <1>8, SameList
<1> QED BY <1>9 DEF r, p

-----------------------------------------------------------------------------
(* hash_map.c                                                              *)

\* The chains of map m over buckets B, when f says where the keys hash to: an
\* entry is in the chain of its key and nowhere else, and no key comes twice.
MapRep(m, f, B, chains) ==
  /\ m \in MapType(B) /\ f \in [Keys -> B] /\ chains \in [B -> Seq(MapAddrs)]
  /\ \A b \in B : /\ Distinct(chains[b])
                  /\ Chained(m.buckets[b], m.next, chains[b], NULL)
                  /\ Elems(chains[b]) = {h \in m.live : f[m.key[h]] = b}
  /\ \A h \in m.live : m.key[h] \in Keys /\ m.value[h] \in ListAddrs
  /\ \A h, g \in m.live : m.key[h] = m.key[g] => h = g

\* The walk along a bucket meets its chain, all of it.
LEMMA ChainIs ==
  ASSUME NEW m, NEW f, NEW B, NEW chains, MapRep(m, f, B, chains), NEW b \in B
  PROVE  /\ ChainAt(m, b) = [i \in 0..Cardinality(MapAddrs) |-> At(chains[b], i + 1, NULL)]
         /\ Cardinality(MapAddrs) \in Nat
         /\ chains[b] \in Seq(MapAddrs) /\ Len(chains[b]) \in Nat
         /\ Len(chains[b]) <= Cardinality(MapAddrs)
<1> DEFINE N == Cardinality(MapAddrs)
<1>1. /\ m \in MapType(B) /\ chains[b] \in Seq(MapAddrs) /\ Distinct(chains[b])
      /\ Chained(m.buckets[b], m.next, chains[b], NULL)
      /\ m.buckets[b] \in MapAddrs \cup {NULL} /\ m.next \in [MapAddrs -> MapAddrs \cup {NULL}]
  BY DEF MapRep, MapType
<1>2. N \in Nat /\ Len(chains[b]) <= N /\ Len(chains[b]) \in Nat
  BY <1>1, DistinctLength, AddressAssumption
<1> HIDE DEF N
<1> DEFINE at == ChainAt(m, b)
<1>3. \E g : IsWalk(g, m.buckets[b], m.next, NULL, N)
  BY <1>1, <1>2, WalkExists
<1>4. IsWalk(at, m.buckets[b], m.next, NULL, N)
  BY <1>3, Zenon DEF ChainAt, N, IsWalk
<1> HIDE DEF at
<1>5. at = [i \in 0..N |-> At(chains[b], i + 1, NULL)]
  BY <1>1, <1>2, <1>4, ChainWalked, AddressAssumption
<1> QED BY <1>1, <1>2, <1>5 DEF at, N

\* The walk for a key stops at the first entry with the key, or at the end.
LEMMA StopIs ==
  ASSUME NEW m, NEW B, NEW chains, MapRep(m, bucket_for, B, chains), NEW k \in Keys,
         NEW t, t = chains[bucket_for[k]]
  PROVE  /\ t \in Seq(MapAddrs) /\ Len(t) \in Nat
         /\ Stop(m, k) \in 0..Len(t)
         /\ Chain(m, k)[Stop(m, k)] = At(t, Stop(m, k) + 1, NULL)
         /\ Stop(m, k) > 0 => Chain(m, k)[Stop(m, k) - 1] = t[Stop(m, k)]
         /\ Stop(m, k) < Len(t) => m.key[t[Stop(m, k) + 1]] = k
         /\ \A j \in 1..Stop(m, k) : m.key[t[j]] # k
<1> DEFINE N == Cardinality(MapAddrs)
           at == Chain(m, k)
           stops == {i \in DOMAIN at : at[i] = NULL \/ m.key[at[i]] = k}
           stop == Stop(m, k)
<1>1. bucket_for[k] \in B
  BY DEF MapRep
<1>2. /\ at = [i \in 0..N |-> At(t, i + 1, NULL)]
      /\ N \in Nat /\ t \in Seq(MapAddrs) /\ Len(t) \in Nat /\ Len(t) <= N
  <2>1. /\ ChainAt(m, bucket_for[k]) = [i \in 0..N |-> At(t, i + 1, NULL)]
        /\ N \in Nat /\ t \in Seq(MapAddrs) /\ Len(t) \in Nat /\ Len(t) <= N
    BY <1>1, ChainIs
  <2> QED BY <2>1 DEF Chain
<1>3. stop = CHOOSE i \in stops : \A j \in stops : i <= j
  BY Zenon DEF Stop
<1> HIDE DEF at, N
<1>4. \A i \in 0..N : at[i] = At(t, i + 1, NULL)
  BY <1>2
<1>5. stops \subseteq 0..N /\ Len(t) \in stops
  BY <1>2 DEF At
<1> HIDE DEF stops, stop
<1>50. stops \in SUBSET Nat /\ stops # {}
  BY <1>2, <1>5
<1>6. \E i \in stops : \A j \in stops : i <= j
  BY <1>50, Smallest, Zenon
<1>7. stop \in stops /\ \A j \in stops : stop <= j
  BY <1>3, <1>6, Zenon
<1>8. stop \in 0..Len(t) /\ stop \in 0..N
  BY <1>2, <1>5, <1>7
<1>9. at[stop] = At(t, stop + 1, NULL)
  BY <1>4, <1>8
<1>10. stop > 0 => at[stop - 1] = t[stop]
  <2>1. SUFFICES ASSUME stop > 0 PROVE at[stop - 1] = t[stop]
    OBVIOUS
  <2>2. stop - 1 \in 0..N /\ stop \in 1..Len(t) /\ (stop - 1) + 1 = stop
    BY <1>2, <1>8, <2>1
  <2> QED BY <1>4, <2>2 DEF At
<1>11. stop < Len(t) => m.key[t[stop + 1]] = k
  <2>1. SUFFICES ASSUME stop < Len(t) PROVE m.key[t[stop + 1]] = k
    OBVIOUS
  <2>2. At(t, stop + 1, NULL) = t[stop + 1] /\ t[stop + 1] \in MapAddrs
    BY <1>2, <1>8, <2>1 DEF At
  <2>3. at[stop] = NULL \/ m.key[at[stop]] = k
    BY <1>7 DEF stops
  <2> QED BY <1>9, <2>2, <2>3, AddressAssumption
<1>12. ASSUME NEW j \in 1..stop PROVE m.key[t[j]] # k
  <2>1. j - 1 \in 0..N /\ (j - 1) + 1 = j /\ j \in 1..Len(t) /\ ~(stop <= j - 1)
    BY <1>2, <1>8
  <2>2. at[j - 1] = t[j]
    BY <1>4, <2>1 DEF At
  <2>3. j - 1 \notin stops
    BY <1>7, <2>1
  <2>4. DOMAIN at = 0..N
    BY <1>2
  <2> QED BY <2>1, <2>2, <2>3, <2>4 DEF stops
<1> QED BY <1>2, <1>8, <1>9, <1>10, <1>11, <1>12 DEF at, stop

\* A key with an entry is found at the entry.
LEMMA StopAtEntry ==
  ASSUME NEW m, NEW B, NEW chains, MapRep(m, bucket_for, B, chains),
         NEW h \in m.live, NEW k, k = m.key[h],
         NEW t, t = chains[bucket_for[k]]
  PROVE  /\ k \in Keys /\ h \in MapAddrs
         /\ Stop(m, k) + 1 \in 1..Len(t) /\ t[Stop(m, k) + 1] = h
         /\ Chain(m, k)[Stop(m, k)] = h
         /\ hash_map_find(m, k) = m.value[h]
<1>1. /\ k \in Keys /\ bucket_for[k] \in B /\ h \in MapAddrs
      /\ Elems(t) = {g \in m.live : bucket_for[m.key[g]] = bucket_for[k]}
      /\ \A g \in m.live : m.key[g] = k => g = h
  BY DEF MapRep, MapType
<1>2. /\ t \in Seq(MapAddrs) /\ Len(t) \in Nat
      /\ Stop(m, k) \in 0..Len(t)
      /\ Chain(m, k)[Stop(m, k)] = At(t, Stop(m, k) + 1, NULL)
      /\ Stop(m, k) < Len(t) => m.key[t[Stop(m, k) + 1]] = k
      /\ \A j \in 1..Stop(m, k) : m.key[t[j]] # k
  BY <1>1, StopIs
<1>3. PICK i \in 1..Len(t) : t[i] = h
  BY <1>1 DEF Elems
<1>4. Stop(m, k) < Len(t)
  BY <1>2, <1>3
<1>5. Stop(m, k) + 1 \in 1..Len(t)
  <2>1. Stop(m, k) \in 0..Len(t) /\ Len(t) \in Nat
    BY <1>2
  <2> QED BY <1>4, <2>1
<1>6. t[Stop(m, k) + 1] \in m.live /\ m.key[t[Stop(m, k) + 1]] = k
  BY <1>1, <1>2, <1>4, <1>5 DEF Elems
<1>7. t[Stop(m, k) + 1] = h
  BY <1>1, <1>6
<1>8. Chain(m, k)[Stop(m, k)] = h
  BY <1>2, <1>5, <1>7 DEF At
<1>9. hash_map_find(m, k) = m.value[h]
  BY <1>1, <1>8, AddressAssumption DEF hash_map_find
<1> QED BY <1>1, <1>5, <1>7, <1>8, <1>9

\* A key without an entry is not found.
LEMMA StopAtEnd ==
  ASSUME NEW m, NEW B, NEW chains, MapRep(m, bucket_for, B, chains),
         NEW k \in Keys, \A h \in m.live : m.key[h] # k
  PROVE  hash_map_find(m, k) = NULL
<1> DEFINE t == chains[bucket_for[k]]
<1>1. /\ bucket_for[k] \in B
      /\ Elems(t) = {g \in m.live : bucket_for[m.key[g]] = bucket_for[k]}
  BY DEF MapRep
<1>2. /\ t \in Seq(MapAddrs) /\ Len(t) \in Nat
      /\ Stop(m, k) \in 0..Len(t)
      /\ Chain(m, k)[Stop(m, k)] = At(t, Stop(m, k) + 1, NULL)
      /\ Stop(m, k) < Len(t) => m.key[t[Stop(m, k) + 1]] = k
  BY StopIs
<1> HIDE DEF t
<1>3. ~(Stop(m, k) < Len(t))
  <2> SUFFICES ASSUME Stop(m, k) < Len(t) PROVE FALSE
    OBVIOUS
  <2>1. Stop(m, k) + 1 \in 1..Len(t)
    BY <1>2
  <2> QED BY <1>1, <1>2, <2>1 DEF Elems
<1>4. Chain(m, k)[Stop(m, k)] = NULL
  BY <1>2, <1>3 DEF At
<1> QED BY <1>4 DEF hash_map_find

\* The map over buckets B is sound for hash function f, whatever its chains are.
MapSound(f, m, B) == \E chains : MapRep(m, f, B, chains)

\* A new entry is first in the chain of its key.
LEMMA Inserted ==
  ASSUME NEW m, NEW B, MapSound(bucket_for, m, B), NEW k \in Keys, NEW v \in ListAddrs,
         NEW e \in MapAddrs, e \notin m.live, \A h \in m.live : m.key[h] # k,
         NEW r, r = hash_map_insert(m, k, v, e)
  PROVE  /\ MapSound(bucket_for, r, B)
         /\ r.live = m.live \cup {e} /\ r.key[e] = k /\ r.value[e] = v
         /\ \A h \in m.live : r.key[h] = m.key[h] /\ r.value[h] = m.value[h]
<1> DEFINE b == bucket_for[k]
<1>1. PICK chains : MapRep(m, bucket_for, B, chains)
  BY DEF MapSound
<1>2. /\ m \in MapType(B) /\ b \in B /\ bucket_for \in [Keys -> B]
      /\ chains \in [B -> Seq(MapAddrs)]
      /\ m.live \subseteq MapAddrs
  BY <1>1 DEF MapRep, MapType
<1>3. r = [m EXCEPT !.live = @ \cup {e}, !.key[e] = k, !.value[e] = v,
                    !.next[e] = m.buckets[b], !.buckets[b] = e]
  BY Zenon DEF hash_map_insert
<1> HIDE DEF b
<1>35. m.buckets[b] \in MapAddrs \cup {NULL}
  BY <1>2 DEF MapType
<1>4. /\ r \in MapType(B) /\ r.live = m.live \cup {e}
      /\ r.key = [m.key EXCEPT ![e] = k] /\ r.value = [m.value EXCEPT ![e] = v]
      /\ r.next = [m.next EXCEPT ![e] = m.buckets[b]]
      /\ r.buckets = [m.buckets EXCEPT ![b] = e]
  <2>1. /\ r.live = m.live \cup {e}
        /\ r.key = [m.key EXCEPT ![e] = k] /\ r.value = [m.value EXCEPT ![e] = v]
        /\ r.next = [m.next EXCEPT ![e] = m.buckets[b]]
        /\ r.buckets = [m.buckets EXCEPT ![b] = e]
    BY <1>2, <1>3 DEF MapType
  <2>2. r = [live |-> r.live, buckets |-> r.buckets, key |-> r.key,
             value |-> r.value, next |-> r.next]
    BY <1>2, <1>3 DEF MapType
  <2>3. /\ r.live \in SUBSET MapAddrs
        /\ r.key \in [MapAddrs -> Keys \cup {NULL}]
        /\ r.value \in [MapAddrs -> ListAddrs \cup {NULL}]
        /\ r.next \in [MapAddrs -> MapAddrs \cup {NULL}]
        /\ r.buckets \in [B -> MapAddrs \cup {NULL}]
    BY <1>2, <1>35, <2>1 DEF MapType
  <2>4. r \in MapType(B)
    BY <2>2, <2>3 DEF MapType
  <2> QED BY <2>1, <2>4
<1>5. /\ r.key[e] = k /\ r.value[e] = v /\ r.next[e] = m.buckets[b] /\ r.buckets[b] = e
      /\ \A a \in MapAddrs : a # e => /\ r.key[a] = m.key[a] /\ r.value[a] = m.value[a]
                                      /\ r.next[a] = m.next[a]
      /\ \A c \in B : c # b => r.buckets[c] = m.buckets[c]
  BY <1>2, <1>4 DEF MapType
<1>6. \A h \in m.live : h \in MapAddrs /\ h # e /\ r.key[h] = m.key[h] /\ r.value[h] = m.value[h]
  BY <1>2, <1>5
<1> DEFINE chains2 == [chains EXCEPT ![b] = PushFront(chains[b], e)]
<1>7. /\ chains2[b] = PushFront(chains[b], e)
      /\ \A c \in B : c # b => chains2[c] = chains[c]
  BY <1>2
<1>8. chains[b] \in Seq(MapAddrs) /\ PushFront(chains[b], e) \in Seq(MapAddrs)
  BY <1>2, PushFrontType
<1>9. chains2 \in [B -> Seq(MapAddrs)]
  BY <1>2, <1>8
<1> HIDE DEF chains2
<1>10. ASSUME NEW c \in B
       PROVE  /\ Distinct(chains[c])
              /\ Chained(m.buckets[c], m.next, chains[c], NULL)
              /\ Elems(chains[c]) = {h \in m.live : bucket_for[m.key[h]] = c}
              /\ chains[c] \in Seq(MapAddrs)
              /\ \A a \in Elems(chains[c]) : a \in MapAddrs /\ a # e /\ r.next[a] = m.next[a]
  <2>1. /\ Distinct(chains[c])
        /\ Chained(m.buckets[c], m.next, chains[c], NULL)
        /\ Elems(chains[c]) = {h \in m.live : bucket_for[m.key[h]] = c}
        /\ chains[c] \in Seq(MapAddrs)
    BY <1>1 DEF MapRep
  <2>2. \A a \in Elems(chains[c]) : a \in MapAddrs /\ a # e
    BY <2>1, <1>6
  <2> QED BY <2>1, <2>2, <1>5
<1>11. ASSUME NEW c \in B
       PROVE  {h \in r.live : bucket_for[r.key[h]] = c}
                = IF c = b THEN {h \in m.live : bucket_for[m.key[h]] = c} \cup {e}
                  ELSE {h \in m.live : bucket_for[m.key[h]] = c}
  BY <1>4, <1>5, <1>6 DEF b
<1>12. ASSUME NEW c \in B
       PROVE  /\ Distinct(chains2[c])
              /\ Chained(r.buckets[c], r.next, chains2[c], NULL)
              /\ Elems(chains2[c]) = {h \in r.live : bucket_for[r.key[h]] = c}
  <2>1. CASE c = b
    <3>1. e \notin Elems(chains[b])
      BY <1>10, <2>1
    <3>2. Distinct(chains2[b])
      BY <1>7, <1>8, <1>10, <2>1, <3>1, PushFrontDistinct
    <3>3. Chained(e, r.next, PushFront(chains[b], e), NULL)
      BY <1>5, <1>8, <1>10, <2>1, ChainPushed
    <3>4. Elems(chains2[b]) = Elems(chains[b]) \cup {e}
      BY <1>7, <1>8, PushFrontElems
    <3> QED BY <1>5, <1>7, <1>10, <1>11, <2>1, <3>2, <3>3, <3>4
  <2>2. CASE c # b
    <3>1. Chained(m.buckets[c], r.next, chains[c], NULL)
      BY <1>10, ChainKept
    <3> QED BY <1>5, <1>7, <1>10, <1>11, <2>2, <3>1
  <2> QED BY <2>1, <2>2
<1>13. \A h \in r.live : r.key[h] \in Keys /\ r.value[h] \in ListAddrs
  BY <1>1, <1>4, <1>5, <1>6 DEF MapRep
<1>14. \A h, g \in r.live : r.key[h] = r.key[g] => h = g
  BY <1>1, <1>4, <1>5, <1>6 DEF MapRep
<1>15. MapRep(r, bucket_for, B, chains2)
  BY <1>2, <1>4, <1>9, <1>12, <1>13, <1>14 DEF MapRep
<1> QED BY <1>4, <1>5, <1>6, <1>15 DEF MapSound

\* A removal frees the entry of the key and no other, wherever in its chain it is.
LEMMA RemovedEntry ==
  ASSUME NEW m, NEW B, MapSound(bucket_for, m, B), NEW h \in m.live, NEW k, k = m.key[h],
         NEW r, r = hash_map_remove(m, k)
  PROVE  /\ MapSound(bucket_for, r, B)
         /\ r.live = m.live \ {h}
         /\ \A g \in r.live : r.key[g] = m.key[g] /\ r.value[g] = m.value[g]
<1> DEFINE b == bucket_for[k]
           i == Stop(m, k) + 1
<1>1. PICK chains : MapRep(m, bucket_for, B, chains)
  BY DEF MapSound
<1> DEFINE t == chains[b]
<1>2. /\ m \in MapType(B) /\ bucket_for \in [Keys -> B]
      /\ chains \in [B -> Seq(MapAddrs)]
      /\ m.live \subseteq MapAddrs
  BY <1>1 DEF MapRep, MapType
<1>3. /\ k \in Keys /\ h \in MapAddrs
      /\ i \in 1..Len(t) /\ t[i] = h
      /\ Chain(m, k)[Stop(m, k)] = h
  BY <1>1, StopAtEntry
<1>4. /\ Stop(m, k) \in 0..Len(t) /\ Len(t) \in Nat /\ t \in Seq(MapAddrs)
      /\ Stop(m, k) > 0 => Chain(m, k)[Stop(m, k) - 1] = t[Stop(m, k)]
  BY <1>1, <1>3, StopIs
<1>5. b \in B
  BY <1>2, <1>3
<1>6. /\ i = 1 => r = [free_entry(m, h) EXCEPT !.buckets[b] = m.next[h]]
      /\ i # 1 => r = [free_entry(m, h) EXCEPT !.next[t[i - 1]] = m.next[h]]
  <2>1. Chain(m, k)[Stop(m, k)] # NULL
    BY <1>3, AddressAssumption
  <2>2. CASE i = 1
    <3>1. Stop(m, k) = 0
      BY <1>4, <2>2
    <3> QED BY <1>3, <2>1, <2>2, <3>1 DEF hash_map_remove
  <2>3. CASE i # 1
    <3>1. Stop(m, k) # 0 /\ Stop(m, k) > 0 /\ i - 1 = Stop(m, k)
      BY <1>4, <2>3
    <3> QED BY <1>3, <1>4, <2>1, <2>3, <3>1 DEF hash_map_remove
  <2> QED BY <2>2, <2>3
<1>7. i # 1 => t[i - 1] \in MapAddrs
  BY <1>3, <1>4
<1> HIDE DEF i, b, t
<1>8. /\ r \in MapType(B) /\ r.live = m.live \ {h}
      /\ r.key = [m.key EXCEPT ![h] = NULL] /\ r.value = [m.value EXCEPT ![h] = NULL]
      /\ i = 1 => /\ r.next = [m.next EXCEPT ![h] = NULL]
                  /\ r.buckets = [m.buckets EXCEPT ![b] = m.next[h]]
      /\ i # 1 => /\ r.next = [[m.next EXCEPT ![h] = NULL] EXCEPT ![t[i - 1]] = m.next[h]]
                  /\ r.buckets = m.buckets
  <2> DEFINE f == free_entry(m, h)
  <2>1. /\ f \in MapType(B) /\ f.live = m.live \ {h}
        /\ f.key = [m.key EXCEPT ![h] = NULL] /\ f.value = [m.value EXCEPT ![h] = NULL]
        /\ f.next = [m.next EXCEPT ![h] = NULL] /\ f.buckets = m.buckets
    BY <1>2, <1>3 DEF MapType, free_entry
  <2>2. m.next[h] \in MapAddrs \cup {NULL}
    BY <1>2, <1>3 DEF MapType
  <2> HIDE DEF f
  <2>3. CASE i = 1
    <3>1. r = [f EXCEPT !.buckets[b] = m.next[h]]
      BY <1>6, <2>3 DEF f
    <3> QED BY <1>5, <2>1, <2>2, <2>3, <3>1 DEF MapType
  <2>4. CASE i # 1
    <3>1. r = [f EXCEPT !.next[t[i - 1]] = m.next[h]] /\ t[i - 1] \in MapAddrs
      BY <1>6, <1>7, <2>4 DEF f
    <3> QED BY <2>1, <2>2, <2>4, <3>1 DEF MapType
  <2> QED BY <2>3, <2>4
<1>9. /\ \A a \in MapAddrs : a # h => r.key[a] = m.key[a] /\ r.value[a] = m.value[a]
      /\ \A a \in MapAddrs : a # h /\ (i = 1 \/ a # t[i - 1]) => r.next[a] = m.next[a]
      /\ i # 1 => r.next[t[i - 1]] = m.next[h]
      /\ i = 1 => r.buckets[b] = m.next[h]
      /\ i # 1 => r.buckets[b] = m.buckets[b]
      /\ \A c \in B : c # b => r.buckets[c] = m.buckets[c]
  BY <1>2, <1>3, <1>5, <1>7, <1>8 DEF MapType
<1>10. \A g \in r.live : /\ g \in m.live /\ g # h /\ g \in MapAddrs
                         /\ r.key[g] = m.key[g] /\ r.value[g] = m.value[g]
  BY <1>2, <1>8, <1>9
<1> DEFINE chains2 == [chains EXCEPT ![b] = Removed(t, i)]
<1>11. /\ chains2[b] = Removed(t, i)
       /\ \A c \in B : c # b => chains2[c] = chains[c]
  BY <1>2, <1>5
<1>12. ASSUME NEW c \in B
       PROVE  /\ Distinct(chains[c])
              /\ Chained(m.buckets[c], m.next, chains[c], NULL)
              /\ Elems(chains[c]) = {g \in m.live : bucket_for[m.key[g]] = c}
              /\ chains[c] \in Seq(MapAddrs)
  BY <1>1 DEF MapRep
<1>13. Distinct(t)
  BY <1>5, <1>12 DEF t
<1>14. /\ Removed(t, i) \in Seq(MapAddrs) /\ Distinct(Removed(t, i))
       /\ Elems(Removed(t, i)) = Elems(t) \ {h}
  BY <1>3, <1>4, <1>13, RemovedType, RemovedElems
<1>15. chains2 \in [B -> Seq(MapAddrs)]
  BY <1>2, <1>14
<1> HIDE DEF chains2
<1>16. ASSUME NEW c \in B
       PROVE  {g \in r.live : bucket_for[r.key[g]] = c}
                = {g \in m.live : bucket_for[m.key[g]] = c} \ {h}
  BY <1>8, <1>10
<1>17. ASSUME NEW c \in B
       PROVE  /\ Distinct(chains2[c])
              /\ Chained(r.buckets[c], r.next, chains2[c], NULL)
              /\ Elems(chains2[c]) = {g \in r.live : bucket_for[r.key[g]] = c}
  <2>1. CASE c = b
    <3>1. \A j \in 1..Len(t) : j \notin {i - 1, i} => r.next[t[j]] = m.next[t[j]]
      <4> SUFFICES ASSUME NEW j \in 1..Len(t), j \notin {i - 1, i}
                   PROVE  r.next[t[j]] = m.next[t[j]]
        OBVIOUS
      <4>1. t[j] \in MapAddrs /\ t[j] # h
        BY <1>3, <1>4, <1>13 DEF Distinct
      <4>2. i # 1 => i - 1 \in 1..Len(t)
        BY <1>3, <1>4
      <4>3. i = 1 \/ t[j] # t[i - 1]
        BY <1>13, <4>2 DEF Distinct
      <4> QED BY <1>9, <4>1, <4>3
    <3>2. i # 1 => r.next[t[i - 1]] = m.next[t[i]]
      BY <1>3, <1>9
    <3>3. Chained(m.buckets[b], m.next, t, NULL)
      BY <1>5, <1>12 DEF t
    <3>5. r.buckets[b] = IF i = 1 THEN m.next[t[1]] ELSE m.buckets[b]
      BY <1>3, <1>9
    <3>4. Chained(r.buckets[b], r.next, Removed(t, i), NULL)
      <4> DEFINE nx == m.next
                 nx2 == r.next
                 head == m.buckets[b]
                 head2 == r.buckets[b]
      <4>1. /\ Chained(head, nx, t, NULL)
            /\ i # 1 => nx2[t[i - 1]] = nx[t[i]]
            /\ \A j \in 1..Len(t) : j \notin {i - 1, i} => nx2[t[j]] = nx[t[j]]
            /\ head2 = IF i = 1 THEN nx[t[1]] ELSE head
        BY <3>1, <3>2, <3>3, <3>5
      <4> HIDE DEF nx, nx2, head, head2
      <4>2. Chained(head2, nx2, Removed(t, i), NULL)
        BY <1>3, <1>4, <1>13, <4>1, ChainRemoved
      <4> QED BY <4>2 DEF nx2, head2
    <3>6. Elems(t) = {g \in m.live : bucket_for[m.key[g]] = c}
      BY <1>12, <2>1 DEF t
    <3>7. Elems(chains2[b]) = {g \in r.live : bucket_for[r.key[g]] = c}
      BY <1>11, <1>14, <1>16, <3>6
    <3> QED BY <1>11, <1>14, <2>1, <3>4, <3>5, <3>7
  <2>2. CASE c # b
    <3>1. bucket_for[m.key[h]] = b
      BY DEF b
    <3>2. Elems(chains[c]) = {g \in m.live : bucket_for[m.key[g]] = c}
      BY <1>12
    <3>3. h \notin Elems(chains[c])
      BY <2>2, <3>1, <3>2
    <3>4. \A a \in Elems(chains[c]) : a \notin Elems(t)
      <4>1. Elems(t) = {g \in m.live : bucket_for[m.key[g]] = b}
        BY <1>5, <1>12 DEF t
      <4> QED BY <2>2, <3>2, <4>1
    <3>5. i # 1 => t[i - 1] \in Elems(t)
      <4>1. i # 1 => i - 1 \in 1..Len(t)
        BY <1>3, <1>4
      <4> QED BY <4>1 DEF Elems
    <3>6. \A a \in Elems(chains[c]) : r.next[a] = m.next[a]
      BY <1>2, <1>9, <3>2, <3>3, <3>4, <3>5
    <3>7. Chained(m.buckets[c], r.next, chains[c], NULL)
      BY <1>12, <3>6, ChainKept
    <3>8. Elems(chains[c]) = {g \in r.live : bucket_for[r.key[g]] = c}
      BY <1>16, <3>2, <3>3
    <3> QED BY <1>9, <1>11, <1>12, <2>2, <3>7, <3>8
  <2> QED BY <2>1, <2>2
<1>18. \A g \in r.live : r.key[g] \in Keys /\ r.value[g] \in ListAddrs
  BY <1>1, <1>10 DEF MapRep
<1>19. \A g1, g2 \in r.live : r.key[g1] = r.key[g2] => g1 = g2
  BY <1>1, <1>10 DEF MapRep
<1>20. MapRep(r, bucket_for, B, chains2)
  BY <1>2, <1>8, <1>15, <1>17, <1>18, <1>19 DEF MapRep
<1> QED BY <1>8, <1>10, <1>20 DEF MapSound

\* What hash_map_destroy frees is what is allocated.
LEMMA InChainsIs ==
  ASSUME NEW m, MapSound(bucket_for, m, Buckets(capacity))
  PROVE  InChains(m) = m.live
<1> DEFINE B == Buckets(capacity)
           N == Cardinality(MapAddrs)
<1>1. PICK chains : MapRep(m, bucket_for, B, chains)
  BY DEF MapSound
<1>2. /\ bucket_for \in [Keys -> B] /\ m.live \subseteq MapAddrs
      /\ \A h \in m.live : m.key[h] \in Keys
      /\ \A b \in B : Elems(chains[b]) = {h \in m.live : bucket_for[m.key[h]] = b}
  BY <1>1 DEF MapRep, MapType
<1> HIDE DEF B
<1>3. ASSUME NEW b \in B
      PROVE  {ChainAt(m, b)[i] : i \in 0..N} \ {NULL} = Elems(chains[b])
  <2>1. /\ ChainAt(m, b) = [i \in 0..N |-> At(chains[b], i + 1, NULL)]
        /\ N \in Nat /\ chains[b] \in Seq(MapAddrs) /\ Len(chains[b]) \in Nat
        /\ Len(chains[b]) <= N
    BY <1>1, ChainIs
  <2> DEFINE at == ChainAt(m, b)
             t == chains[b]
  <2> HIDE DEF at, t, N
  <2>2. \A i \in 0..N : at[i] = At(t, i + 1, NULL)
    BY <2>1 DEF at, t
  <2>3. ASSUME NEW x \in {at[i] : i \in 0..N} \ {NULL} PROVE x \in Elems(t)
    <3>1. PICK i \in 0..N : x = At(t, i + 1, NULL)
      BY <2>2, <2>3
    <3>2. i + 1 \in 1..Len(t) /\ x = t[i + 1]
      BY <2>3, <3>1 DEF At
    <3> QED BY <3>2 DEF Elems
  <2>4. ASSUME NEW x \in Elems(t) PROVE x \in {at[i] : i \in 0..N} \ {NULL}
    <3>1. PICK j \in 1..Len(t) : x = t[j]
      BY DEF Elems
    <3>2. j - 1 \in 0..N /\ (j - 1) + 1 = j
      BY <2>1 DEF t
    <3>3. x \in MapAddrs
      BY <2>1, <3>1 DEF t
    <3>4. x # NULL
      BY <3>3, AddressAssumption
    <3>5. at[j - 1] = At(t, j, NULL)
      BY <2>2, <3>2
    <3>6. At(t, j, NULL) = x
      BY <3>1 DEF At
    <3> QED BY <3>2, <3>4, <3>5, <3>6
  <2> QED BY <2>3, <2>4 DEF at, t
<1> DEFINE met(b) == {ChainAt(m, b)[i] : i \in 0..N}
<1>4. \A x : x \in InChains(m) <=> x # NULL /\ \E b \in B : x \in met(b)
  BY Zenon DEF InChains, B
<1> HIDE DEF N, met
<1>5. ASSUME NEW x \in InChains(m) PROVE x \in m.live
  <2>1. PICK b \in B : x \in met(b) \ {NULL}
    BY <1>4, <1>5
  <2>2. x \in Elems(chains[b])
    BY <1>3, <2>1 DEF met
  <2> QED BY <1>2, <2>2
<1>6. ASSUME NEW x \in m.live PROVE x \in InChains(m)
  <2>1. bucket_for[m.key[x]] \in B
    BY <1>2
  <2>2. x \in Elems(chains[bucket_for[m.key[x]]])
    BY <1>2, <2>1
  <2>3. x \in met(bucket_for[m.key[x]]) \ {NULL}
    BY <1>3, <2>1, <2>2 DEF met
  <2> QED BY <1>4, <2>1, <2>3
<1> QED BY <1>5, <1>6

\* A key is found at the value of its entry, and only keys with an entry are.
LEMMA FindIs ==
  ASSUME NEW m, NEW B, MapSound(bucket_for, m, B), NEW k \in Keys
  PROVE  /\ \A h \in m.live : m.key[h] = k => hash_map_find(m, k) = m.value[h]
         /\ (\A h \in m.live : m.key[h] # k) => hash_map_find(m, k) = NULL
<1>1. PICK chains : MapRep(m, bucket_for, B, chains)
  BY DEF MapSound
<1>2. ASSUME NEW h \in m.live, m.key[h] = k PROVE hash_map_find(m, k) = m.value[h]
  BY <1>1, <1>2, StopAtEntry
<1>3. ASSUME \A h \in m.live : m.key[h] # k PROVE hash_map_find(m, k) = NULL
  BY <1>1, <1>3, StopAtEnd
<1> QED BY <1>2, <1>3

-----------------------------------------------------------------------------
(* lru.c                                                                   *)

\* Node i of s holds key k and its page, and the index knows it by that key.
NodeHolds(c, s, i, k, page) ==
  /\ c.list.value[s[i]] \in c.entry.live
  /\ c.entry.key[c.list.value[s[i]]] = k
  /\ c.entry.value[c.list.value[s[i]]] = page[k]
  /\ \E h \in c.map.live : c.map.key[h] = k /\ c.map.value[h] = s[i]

\* List, entries and index say the same: node i of s holds key i of q, every
\* entry is that of a node, every index entry points at the node of its key.
Agree(c, s, q, page) ==
  /\ q \in Seq(Keys) /\ Distinct(q) /\ Len(s) <= Len(q)
  /\ \A i \in 1..Len(s) : NodeHolds(c, s, i, q[i], page)
  /\ \A e \in c.entry.live : \E i \in 1..Len(s) : e = c.list.value[s[i]]
  /\ \A h \in c.map.live : \E i \in 1..Len(s) : c.map.key[h] = q[i] /\ c.map.value[h] = s[i]

\* The cache c with buckets B has the nodes s, which hold the first keys of q and
\* their pages.
Rep(f, c, B, s, q, page) ==
  /\ c \in CacheType(B)
  /\ ListRep(c.list, s) /\ EntriesBlank(c.entry) /\ MapSound(f, c.map, B)
  /\ Agree(c, s, q, page)

\* An entry freed is blank, and the others are as they were.
LEMMA EntryFreed ==
  ASSUME NEW ents \in EntryType, EntriesBlank(ents), NEW e \in EntryAddrs,
         NEW r, r = FreeEntry(ents, e)
  PROVE  /\ r \in EntryType /\ EntriesBlank(r)
         /\ r.live = ents.live \ {e}
         /\ \A a \in EntryAddrs : a # e => r.key[a] = ents.key[a] /\ r.value[a] = ents.value[a]
<1>1. /\ r \in EntryType /\ r.live = ents.live \ {e}
      /\ r.key = [ents.key EXCEPT ![e] = NULL]
      /\ r.value = [ents.value EXCEPT ![e] = NoPage]
  BY DEF EntryType, FreeEntry
<1>2. /\ r.key[e] = NULL /\ r.value[e] = NoPage
      /\ \A a \in EntryAddrs : a # e => r.key[a] = ents.key[a] /\ r.value[a] = ents.value[a]
  BY <1>1 DEF EntryType
<1>3. EntriesBlank(r)
  BY <1>1, <1>2 DEF EntriesBlank
<1> QED BY <1>1, <1>2, <1>3

\* The last node of the list, its entry and its index entry go, and nothing else.
LEMMA EvictedOldest ==
  ASSUME NEW c, NEW B, NEW s, NEW q, NEW page, Rep(bucket_for, c, B, s, q, page), Len(s) # 0,
         NEW r, r = evict_oldest(c)
  PROVE  Rep(bucket_for, r, B, PopBack(s), q, page) /\ r.size = c.size - 1
<1> DEFINE n == s[Len(s)]
           e == c.list.value[n]
           k == q[Len(s)]
           t == PopBack(s)
           lst == list_remove(c.list, n)
           ents == FreeEntry(c.entry, e)
           mp == hash_map_remove(c.map, k)
<1>1. /\ c \in CacheType(B) /\ c.list \in ListType /\ c.entry \in EntryType
      /\ ListRep(c.list, s) /\ EntriesBlank(c.entry) /\ MapSound(bucket_for, c.map, B)
      /\ LinksThrough(c.list, s) /\ s \in Seq(ListAddrs) /\ Distinct(s) /\ Len(s) \in Nat
      /\ Agree(c, s, q, page)
  BY DEF Rep, CacheType, ListRep, LinksThrough
<1>2. /\ q \in Seq(Keys) /\ Distinct(q) /\ Len(s) <= Len(q) /\ Len(q) \in Nat
      /\ \A i \in 1..Len(s) : NodeHolds(c, s, i, q[i], page)
      /\ \A a \in c.entry.live : \E i \in 1..Len(s) : a = c.list.value[s[i]]
      /\ \A h \in c.map.live : \E i \in 1..Len(s) : c.map.key[h] = q[i] /\ c.map.value[h] = s[i]
  BY <1>1 DEF Agree
<1>3. PICK last \in 1..Len(s) : last = Len(s)
  BY <1>1
<1>4. /\ t \in Seq(ListAddrs) /\ Len(t) = Len(s) - 1
      /\ \A i \in 1..(Len(s) - 1) : t[i] = s[i]
      /\ Removed(s, last) = t
  BY <1>1, <1>3, PopBackType, LastRemoved
<1>5. list_back(c.list) = n
  BY <1>1, BackOf
<1>6. /\ e \in c.entry.live /\ c.entry.key[e] = k /\ e \in EntryAddrs /\ k \in Keys
  <2>1. last \in 1..Len(q)
    BY <1>1, <1>2, <1>3
  <2>2. NodeHolds(c, s, last, q[last], page)
    BY <1>2
  <2>3. c.list.value[s[last]] \in c.entry.live /\ c.entry.key[c.list.value[s[last]]] = q[last]
    BY <2>2 DEF NodeHolds
  <2>4. c.entry.live \subseteq EntryAddrs
    BY <1>1 DEF EntryType
  <2> QED BY <1>2, <1>3, <2>1, <2>3, <2>4
<1>7. PICK h \in c.map.live : c.map.key[h] = k /\ c.map.value[h] = n
  BY <1>2, <1>3 DEF NodeHolds
<1>8. r = [c EXCEPT !.map = mp, !.list = lst, !.entry = ents, !.size = @ - 1]
  BY <1>5, <1>6 DEF evict_oldest
<1> HIDE DEF lst, ents, mp, t
<1>9. /\ ListRep(lst, t) /\ lst.live = c.list.live \ {n}
      /\ \A a \in ListAddrs : a # n => lst.value[a] = c.list.value[a]
  <2>1. ListRep(c.list, s)
    BY <1>1
  <2>2. ListRep(list_remove(c.list, s[last]), Removed(s, last))
    BY <2>1, ListRemoved
  <2>3. list_remove(c.list, s[last]).live = c.list.live \ {s[last]}
    BY <2>1, ListRemoved
  <2>4. \A a \in ListAddrs : a # s[last] => list_remove(c.list, s[last]).value[a] = c.list.value[a]
    BY <2>1, ListRemoved
  <2> QED BY <1>3, <1>4, <2>2, <2>3, <2>4 DEF lst
<1>10. /\ ents \in EntryType /\ EntriesBlank(ents) /\ ents.live = c.entry.live \ {e}
       /\ \A a \in EntryAddrs : a # e =>
            ents.key[a] = c.entry.key[a] /\ ents.value[a] = c.entry.value[a]
  <2>1. c.entry \in EntryType /\ EntriesBlank(c.entry) /\ ents = FreeEntry(c.entry, e)
    BY <1>1 DEF ents
  <2> HIDE DEF e
  <2> QED BY <1>6, <2>1, EntryFreed
<1>11. /\ MapSound(bucket_for, mp, B) /\ mp.live = c.map.live \ {h}
       /\ \A g \in mp.live : mp.key[g] = c.map.key[g] /\ mp.value[g] = c.map.value[g]
  BY <1>1, <1>7, RemovedEntry DEF mp
<1>12. lst \in ListType /\ mp \in MapType(B)
  BY <1>9, <1>11 DEF ListRep, LinksThrough, MapSound, MapRep
<1>13. /\ r \in CacheType(B) /\ r.list = lst /\ r.entry = ents /\ r.map = mp
       /\ r.size = c.size - 1
  <2>1. r = [list |-> lst, entry |-> ents, map |-> mp, size |-> c.size - 1] /\ c.size \in Int
    BY <1>1, <1>8 DEF CacheType
  <2> QED BY <1>10, <1>12, <2>1 DEF CacheType
<1>14. ASSUME NEW i \in 1..Len(t)
       PROVE  /\ i \in 1..Len(s) /\ i # last /\ t[i] = s[i] /\ s[i] \in ListAddrs /\ s[i] # n
              /\ q[i] # k /\ lst.value[t[i]] = c.list.value[s[i]]
  <2>1. i \in 1..Len(s) /\ i # last /\ t[i] = s[i] /\ s[i] \in ListAddrs
    BY <1>1, <1>3, <1>4
  <2>2. s[i] # n
    BY <1>1, <1>3, <2>1 DEF Distinct
  <2>3. q[i] # k
    BY <1>2, <1>3, <2>1 DEF Distinct
  <2> QED BY <1>9, <2>1, <2>2, <2>3
<1>15. ASSUME NEW i \in 1..Len(t) PROVE NodeHolds(r, t, i, q[i], page)
  <2>1. NodeHolds(c, s, i, q[i], page)
    BY <1>2, <1>14
  <2> DEFINE a == c.list.value[s[i]]
  <2>2. a \in c.entry.live /\ a # e /\ a \in EntryAddrs
    BY <1>1, <1>6, <1>14, <2>1 DEF NodeHolds, EntryType
  <2>3. PICK g \in c.map.live : c.map.key[g] = q[i] /\ c.map.value[g] = s[i]
    BY <2>1 DEF NodeHolds
  <2>4. g \in mp.live /\ mp.key[g] = q[i] /\ mp.value[g] = t[i]
    BY <1>7, <1>11, <1>14, <2>3
  <2>5. /\ ents.key[a] = q[i] /\ ents.value[a] = page[q[i]] /\ a \in ents.live
        /\ lst.value[t[i]] = a
    BY <1>10, <1>14, <2>1, <2>2 DEF NodeHolds
  <2> QED BY <1>13, <2>4, <2>5 DEF NodeHolds
<1>16. ASSUME NEW a \in r.entry.live PROVE \E i \in 1..Len(t) : a = r.list.value[t[i]]
  <2>1. a \in c.entry.live /\ a # e
    BY <1>10, <1>13
  <2>2. PICK i \in 1..Len(s) : a = c.list.value[s[i]]
    BY <1>2, <2>1
  <2>3. i \in 1..Len(t)
    BY <1>1, <1>4, <2>1, <2>2
  <2> QED BY <1>13, <1>14, <2>2, <2>3
<1>17. ASSUME NEW g \in r.map.live
       PROVE  \E i \in 1..Len(t) : r.map.key[g] = q[i] /\ r.map.value[g] = t[i]
  <2>1. g \in c.map.live /\ g # h /\ mp.key[g] = c.map.key[g] /\ mp.value[g] = c.map.value[g]
    BY <1>11, <1>13
  <2>2. PICK i \in 1..Len(s) : c.map.key[g] = q[i] /\ c.map.value[g] = s[i]
    BY <1>2, <2>1
  <2>3. \A f1, f2 \in c.map.live : c.map.key[f1] = c.map.key[f2] => f1 = f2
    BY <1>1 DEF MapSound, MapRep
  <2>4. i # Len(s)
    BY <1>7, <2>1, <2>2, <2>3
  <2>5. i \in 1..Len(t)
    BY <1>1, <1>4, <2>4
  <2> QED BY <1>13, <1>14, <2>1, <2>2, <2>5
<1>18. Len(t) <= Len(q)
  BY <1>1, <1>2, <1>4
<1>19. Agree(r, t, q, page)
  BY <1>2, <1>15, <1>16, <1>17, <1>18 DEF Agree
<1>20. Rep(bucket_for, r, B, t, q, page)
  BY <1>9, <1>10, <1>11, <1>13, <1>19 DEF Rep
<1> QED BY <1>13, <1>20 DEF t

\* A key that the index finds is held by the node found, at the key's position.
LEMMA FoundAt ==
  ASSUME NEW c, NEW B, NEW s, NEW q, NEW page, Rep(bucket_for, c, B, s, q, page), NEW k \in Keys,
         hash_map_find(c.map, k) # NULL
  PROVE  \E i \in 1..Len(s) : /\ q[i] = k /\ hash_map_find(c.map, k) = s[i]
                              /\ c.entry.value[c.list.value[s[i]]] = page[k]
<1>1. MapSound(bucket_for, c.map, B) /\ Agree(c, s, q, page)
  BY DEF Rep
<1>2. PICK h \in c.map.live : c.map.key[h] = k
  BY <1>1, FindIs
<1>3. hash_map_find(c.map, k) = c.map.value[h]
  BY <1>1, <1>2, FindIs
<1>4. PICK i \in 1..Len(s) : c.map.key[h] = q[i] /\ c.map.value[h] = s[i]
  BY <1>1, <1>2 DEF Agree
<1>5. c.entry.value[c.list.value[s[i]]] = page[q[i]]
  BY <1>1 DEF Agree, NodeHolds
<1> QED BY <1>2, <1>3, <1>4, <1>5

\* A key that the index does not find is in no entry and at no node.
LEMMA FoundNowhere ==
  ASSUME NEW c, NEW B, NEW s, NEW q, NEW page, Rep(bucket_for, c, B, s, q, page), NEW k \in Keys,
         hash_map_find(c.map, k) = NULL
  PROVE  /\ \A h \in c.map.live : c.map.key[h] # k
         /\ \A i \in 1..Len(s) : q[i] # k
<1>1. MapSound(bucket_for, c.map, B) /\ Agree(c, s, q, page)
  BY DEF Rep
<1>2. \A h \in c.map.live : c.map.key[h] # k
  <2> SUFFICES ASSUME NEW h \in c.map.live, c.map.key[h] = k PROVE FALSE
    OBVIOUS
  <2>1. hash_map_find(c.map, k) = c.map.value[h]
    BY <1>1, FindIs
  <2>2. c.map.value[h] \in ListAddrs
    BY <1>1 DEF MapSound, MapRep
  <2> QED BY <2>1, <2>2, AddressAssumption
<1>3. ASSUME NEW i \in 1..Len(s) PROVE q[i] # k
  BY <1>1, <1>2 DEF Agree, NodeHolds
<1> QED BY <1>2, <1>3

\* The keys held are found, at their nodes.
LEMMA HeldIsFound ==
  ASSUME NEW c, NEW B, NEW s, NEW q, NEW page, Rep(bucket_for, c, B, s, q, page), NEW i \in 1..Len(s)
  PROVE  q[i] \in Keys /\ hash_map_find(c.map, q[i]) = s[i]
<1>1. MapSound(bucket_for, c.map, B) /\ Agree(c, s, q, page) /\ s \in Seq(ListAddrs)
  BY DEF Rep, ListRep, LinksThrough
<1>2. PICK h \in c.map.live : c.map.key[h] = q[i] /\ c.map.value[h] = s[i]
  BY <1>1 DEF Agree, NodeHolds
<1>3. q[i] \in Keys
  BY <1>1, <1>2 DEF MapSound, MapRep
<1> QED BY <1>1, <1>2, <1>3, FindIs

\* A hit moves node and key to the front.
LEMMA HitMoves ==
  ASSUME NEW c, NEW B, NEW s, NEW q, NEW page, Rep(bucket_for, c, B, s, q, page), NEW i \in 1..Len(s),
         NEW r, r = [c EXCEPT !.list = list_move_front(c.list, s[i])]
  PROVE  /\ Rep(bucket_for, r, B, MoveToFront(s, i), MoveToFront(q, i), page) /\ r.size = c.size
         /\ r.entry = c.entry /\ r.map = c.map
<1> DEFINE t == MoveToFront(s, i)
           u == MoveToFront(q, i)
           lst == list_move_front(c.list, s[i])
<1>1. /\ c \in CacheType(B) /\ ListRep(c.list, s) /\ EntriesBlank(c.entry) /\ MapSound(bucket_for, c.map, B)
      /\ s \in Seq(ListAddrs) /\ Len(s) \in Nat
      /\ Agree(c, s, q, page)
  BY DEF Rep, ListRep, LinksThrough
<1>2. q \in Seq(Keys) /\ Distinct(q) /\ Len(s) <= Len(q) /\ Len(q) \in Nat /\ i \in 1..Len(q)
  BY <1>1 DEF Agree
<1>3. /\ t \in Seq(ListAddrs) /\ Len(t) = Len(s)
      /\ u \in Seq(Keys) /\ Len(u) = Len(q) /\ Distinct(u)
  BY <1>1, <1>2, MoveToFrontType, MoveToFrontDistinct
<1>4. ListRep(lst, t) /\ lst.live = c.list.live /\ lst.value = c.list.value
  BY <1>1, MovedFront
<1>5. ASSUME NEW j \in 1..Len(t) PROVE \E m \in 1..Len(s) : t[j] = s[m] /\ u[j] = q[m]
  <2> DEFINE m == IF j = 1 THEN i ELSE IF j <= i THEN j - 1 ELSE j
  <2>1. m \in 1..Len(s)
    BY <1>1, <1>3
  <2>2. t[j] = s[m] /\ u[j] = q[m]
    BY <1>1, <1>2, <1>3 DEF MoveToFront
  <2> QED BY <2>1, <2>2
<1>6. ASSUME NEW m \in 1..Len(s) PROVE \E j \in 1..Len(t) : t[j] = s[m] /\ u[j] = q[m]
  <2>1. CASE m = i
    BY <1>1, <1>2, <1>3, <2>1 DEF MoveToFront
  <2>2. CASE m < i
    <3>1. m + 1 \in 1..Len(t) /\ t[m + 1] = s[m] /\ u[m + 1] = q[m]
      BY <1>1, <1>2, <1>3, <2>2 DEF MoveToFront
    <3> QED BY <3>1
  <2>3. CASE m > i
    <3>1. m \in 1..Len(t) /\ t[m] = s[m] /\ u[m] = q[m]
      BY <1>1, <1>2, <1>3, <2>3 DEF MoveToFront
    <3> QED BY <3>1
  <2> QED BY <2>1, <2>2, <2>3
<1> HIDE DEF t, u, lst
<1>7. /\ r \in CacheType(B) /\ r.list = lst /\ r.entry = c.entry /\ r.map = c.map
      /\ r.size = c.size
  <2>1. lst \in ListType
    BY <1>4 DEF ListRep, LinksThrough
  <2> QED BY <1>1, <2>1 DEF CacheType, lst
<1>8. ASSUME NEW j \in 1..Len(t) PROVE NodeHolds(r, t, j, u[j], page)
  <2>1. PICK m \in 1..Len(s) : t[j] = s[m] /\ u[j] = q[m]
    BY <1>5
  <2>2. NodeHolds(c, s, m, q[m], page)
    BY <1>1 DEF Agree
  <2> QED BY <1>4, <1>7, <2>1, <2>2 DEF NodeHolds
<1>9. ASSUME NEW a \in r.entry.live PROVE \E j \in 1..Len(t) : a = r.list.value[t[j]]
  <2>1. PICK m \in 1..Len(s) : a = c.list.value[s[m]]
    BY <1>1, <1>7 DEF Agree
  <2> QED BY <1>4, <1>6, <1>7, <2>1
<1>10. ASSUME NEW h \in r.map.live
       PROVE  \E j \in 1..Len(t) : r.map.key[h] = u[j] /\ r.map.value[h] = t[j]
  <2>1. PICK m \in 1..Len(s) : c.map.key[h] = q[m] /\ c.map.value[h] = s[m]
    BY <1>1, <1>7 DEF Agree
  <2>2. PICK j \in 1..Len(t) : t[j] = s[m] /\ u[j] = q[m]
    BY <1>6
  <2> QED BY <1>7, <2>1, <2>2
<1>11. Agree(r, t, u, page)
  BY <1>1, <1>2, <1>3, <1>8, <1>9, <1>10 DEF Agree
<1>12. Rep(bucket_for, r, B, t, u, page)
  BY <1>1, <1>4, <1>7, <1>11 DEF Rep
<1> QED BY <1>7, <1>12 DEF t, u

\* A cache is made of its four parts.
LEMMA CacheMade ==
  ASSUME NEW B, NEW lst \in ListType, NEW ents \in EntryType, NEW mp \in MapType(B), NEW z \in Int,
         NEW r, r = [list |-> lst, entry |-> ents, map |-> mp, size |-> z]
  PROVE  r \in CacheType(B) /\ r.list = lst /\ r.entry = ents /\ r.map = mp /\ r.size = z
BY DEF CacheType

\* w is c with a new node n in front and a new entry e for key k.
Added(w, c, B, s, k, e, n) ==
  /\ w \in CacheType(B) /\ w.size = c.size /\ w.map = c.map
  /\ w.list = list_push_front(c.list, n, e)
  /\ w.entry.live = c.entry.live \cup {e}
  /\ w.entry.key = [c.entry.key EXCEPT ![e] = k]
  /\ w.entry.value = c.entry.value
  /\ ListRep(w.list, PushFront(s, n))
  /\ w.list.live = c.list.live \cup {n}
  /\ w.list.value = [c.list.value EXCEPT ![n] = e]

\* The new node holds the key without a page yet; the index does not know it.
LEMMA NodeAdded ==
  ASSUME NEW c, NEW B, NEW s, NEW q, NEW page, Rep(bucket_for, c, B, s, q, page), NEW k \in Keys,
         NEW e \in EntryAddrs, e \notin c.entry.live,
         NEW n \in ListAddrs, n \notin c.list.live
  PROVE  Added(WithNode(c, k, e, n), c, B, s, k, e, n)
<1> DEFINE w == WithNode(c, k, e, n)
<1>1. c \in CacheType(B) /\ ListRep(c.list, s)
  BY DEF Rep
<1> DEFINE lst == list_push_front(c.list, n, e)
           ents == [live |-> c.entry.live \cup {e}, key |-> [c.entry.key EXCEPT ![e] = k],
                    value |-> c.entry.value]
<1>2. /\ ListRep(lst, PushFront(s, n)) /\ lst.live = c.list.live \cup {n}
      /\ lst.value = [c.list.value EXCEPT ![n] = e] /\ lst \in ListType
  BY <1>1, PushedFront DEF ListRep, LinksThrough
<1>3. w = [c EXCEPT !.entry.live = @ \cup {e}, !.entry.key[e] = k, !.list = lst]
  BY Zenon DEF WithNode
<1> HIDE DEF lst, w
<1>4. c = [list |-> c.list, entry |-> c.entry, map |-> c.map, size |-> c.size]
  BY <1>1 DEF CacheType
<1>5. c.entry = [live |-> c.entry.live, key |-> c.entry.key, value |-> c.entry.value]
  BY <1>1 DEF CacheType, EntryType
<1>6. w = [list |-> lst, entry |-> ents, map |-> c.map, size |-> c.size]
  BY <1>3, <1>4, <1>5
<1>7. ents \in EntryType
  BY <1>1 DEF CacheType, EntryType
<1>8. w \in CacheType(B)
  BY <1>1, <1>2, <1>6, <1>7 DEF CacheType
<1> QED BY <1>2, <1>6, <1>8 DEF lst, w, Added

\* The new node in the index, under its key, and with its page.
Indexed(c, k, e, n, h, p) ==
  LET w == WithNode(c, k, e, n)
  IN  [w EXCEPT !.map = hash_map_insert(w.map, k, n, h), !.entry.value[e] = p]

\* Then the node is first on the list, and its key in front.
LEMMA NodeIndexed ==
  ASSUME NEW c, NEW B, NEW s, NEW q, NEW page, Rep(bucket_for, c, B, s, q, page), NEW k \in Keys,
         hash_map_find(c.map, k) = NULL,
         NEW e \in EntryAddrs, e \notin c.entry.live,
         NEW n \in ListAddrs, n \notin c.list.live,
         NEW h \in MapAddrs, h \notin c.map.live, NEW p \in Pages,
         NEW page2, page2[k] = p, \A j \in Keys : j # k => page2[j] = page[j]
  PROVE  /\ Rep(bucket_for, Indexed(c, k, e, n, h, p), B, PushFront(s, n), Touch(q, k), page2)
         /\ Indexed(c, k, e, n, h, p).size = c.size
<1> DEFINE w == WithNode(c, k, e, n)
           r == Indexed(c, k, e, n, h, p)
           t == PushFront(s, n)
           u == Touch(q, k)
           mp == hash_map_insert(w.map, k, n, h)
           ents == [live |-> w.entry.live, key |-> w.entry.key,
                    value |-> [w.entry.value EXCEPT ![e] = p]]
<1>1. /\ c \in CacheType(B) /\ c.entry \in EntryType /\ c.list \in ListType
      /\ ListRep(c.list, s) /\ EntriesBlank(c.entry) /\ MapSound(bucket_for, c.map, B)
      /\ s \in Seq(ListAddrs) /\ Len(s) \in Nat /\ Elems(s) = c.list.live
      /\ Agree(c, s, q, page)
  BY DEF Rep, ListRep, LinksThrough, CacheType
<1>2. q \in Seq(Keys) /\ Distinct(q) /\ Len(s) <= Len(q) /\ Len(q) \in Nat
  BY <1>1 DEF Agree
<1>3. /\ w \in CacheType(B) /\ w.size = c.size /\ w.map = c.map
      /\ w.entry.live = c.entry.live \cup {e}
      /\ w.entry.key = [c.entry.key EXCEPT ![e] = k]
      /\ w.entry.value = c.entry.value
      /\ ListRep(w.list, PushFront(s, n))
      /\ w.list.live = c.list.live \cup {n}
      /\ w.list.value = [c.list.value EXCEPT ![n] = e]
  <2>1. Added(w, c, B, s, k, e, n)
    BY NodeAdded
  <2> QED BY <2>1 DEF Added
<1>4. /\ \A g \in c.map.live : c.map.key[g] # k
      /\ \A i \in 1..Len(s) : q[i] # k
  BY FoundNowhere
<1>5. /\ MapSound(bucket_for, mp, B) /\ mp.live = c.map.live \cup {h} /\ mp.key[h] = k /\ mp.value[h] = n
      /\ \A g \in c.map.live : mp.key[g] = c.map.key[g] /\ mp.value[g] = c.map.value[g]
  BY <1>1, <1>3, <1>4, Inserted
<1>6. /\ t \in Seq(ListAddrs) /\ Len(t) = Len(s) + 1 /\ t[1] = n
      /\ \A i \in 1..Len(s) : t[i + 1] = s[i]
  BY <1>1, PushFrontType
<1>7. Len(s) \in 0..Len(q)
  BY <1>1, <1>2
<1>8. /\ u \in Seq(Keys) /\ Distinct(u) /\ Len(t) <= Len(u) /\ u[1] = k
      /\ \A i \in 1..Len(s) : u[i + 1] = q[i]
  <2>1. u \in Seq(Keys) /\ Distinct(u)
    BY <1>2, TouchType
  <2>2. Len(u) \in Nat /\ Len(u) > Len(s)
    BY <1>2, <1>4, <1>7, TouchShifts
  <2>3. u[1] = k /\ \A i \in 1..Len(s) : u[i + 1] = q[i]
    BY <1>2, <1>4, <1>7, TouchShifts
  <2> HIDE DEF u, t
  <2> QED BY <1>1, <1>6, <2>1, <2>2, <2>3
<1>90. r = [w EXCEPT !.map = mp, !.entry.value[e] = p]
  BY DEF Indexed
<1> HIDE DEF w, mp, t, u, r
<1>9. w = [list |-> w.list, entry |-> w.entry, map |-> w.map, size |-> w.size]
  BY <1>3 DEF CacheType
<1>10. w.entry = [live |-> w.entry.live, key |-> w.entry.key, value |-> w.entry.value]
  BY <1>3 DEF CacheType, EntryType
<1>11. r = [list |-> w.list, entry |-> ents, map |-> mp, size |-> w.size]
  BY <1>9, <1>10, <1>90
<1>12. mp \in MapType(B)
  BY <1>5 DEF MapSound, MapRep
<1>13. /\ ents \in EntryType
       /\ ents.live = c.entry.live \cup {e}
       /\ ents.key[e] = k /\ ents.value[e] = p
       /\ \A a \in EntryAddrs : a # e => /\ ents.key[a] = c.entry.key[a]
                                         /\ ents.value[a] = c.entry.value[a]
  <2>1. ents \in EntryType
    BY <1>3 DEF CacheType, EntryType
  <2>2. ents.live = c.entry.live \cup {e}
    BY <1>3
  <2>3. ents.key = [c.entry.key EXCEPT ![e] = k] /\ ents.value = [c.entry.value EXCEPT ![e] = p]
    BY <1>3
  <2> HIDE DEF ents
  <2> QED BY <1>1, <2>1, <2>2, <2>3 DEF EntryType
<1> HIDE DEF ents
<1>14. /\ r \in CacheType(B) /\ r.list = w.list /\ r.entry = ents /\ r.map = mp
       /\ r.size = c.size
  <2>1. w.list \in ListType /\ w.size \in Int /\ w.size = c.size
    BY <1>3 DEF CacheType
  <2>2. ents \in EntryType
    BY <1>13
  <2> QED BY <1>11, <1>12, <2>1, <2>2, CacheMade
<1>15. EntriesBlank(ents)
  BY <1>1, <1>13 DEF EntriesBlank
<1>16. /\ w.list.value[n] = e
       /\ \A i \in 1..Len(s) : /\ w.list.value[s[i]] = c.list.value[s[i]]
                               /\ c.list.value[s[i]] \in c.entry.live
                               /\ c.list.value[s[i]] \in EntryAddrs
                               /\ c.list.value[s[i]] # e
  <2>1. w.list.value[n] = e /\ \A a \in ListAddrs : a # n => w.list.value[a] = c.list.value[a]
    BY <1>1, <1>3 DEF ListType
  <2>2. \A i \in 1..Len(s) : s[i] \in ListAddrs /\ s[i] # n
    BY <1>1 DEF Elems
  <2>3. \A i \in 1..Len(s) : c.list.value[s[i]] \in c.entry.live
    BY <1>1 DEF Agree, NodeHolds
  <2> QED BY <1>1, <2>1, <2>2, <2>3 DEF EntryType
<1>17. ASSUME NEW i \in 1..Len(t) PROVE NodeHolds(r, t, i, u[i], page2)
  <2>1. CASE i = 1
    <3>1. mp.key[h] = k /\ mp.value[h] = n /\ h \in mp.live /\ e \in ents.live
      BY <1>5, <1>13
    <3>2. t[i] = n /\ u[i] = k
      BY <1>6, <1>8, <2>1
    <3> QED BY <1>13, <1>14, <1>16, <3>1, <3>2 DEF NodeHolds
  <2>2. CASE i # 1
    <3> DEFINE j == i - 1
    <3>1. j \in 1..Len(s) /\ i = j + 1
      BY <1>1, <1>6, <2>2
    <3> HIDE DEF j
    <3>2. t[i] = s[j] /\ u[i] = q[j] /\ q[j] # k /\ q[j] \in Keys
      BY <1>1, <1>2, <1>4, <1>6, <1>8, <3>1
    <3>3. NodeHolds(c, s, j, q[j], page)
      BY <1>1, <3>1 DEF Agree
    <3>4. PICK g \in c.map.live : c.map.key[g] = q[j] /\ c.map.value[g] = s[j]
      BY <3>3 DEF NodeHolds
    <3>5. g \in mp.live /\ mp.key[g] = q[j] /\ mp.value[g] = s[j]
      BY <1>5, <3>4
    <3>6. /\ ents.key[c.list.value[s[j]]] = q[j] /\ ents.value[c.list.value[s[j]]] = page2[q[j]]
          /\ c.list.value[s[j]] \in ents.live
      BY <1>13, <1>16, <3>1, <3>2, <3>3 DEF NodeHolds
    <3> QED BY <1>14, <1>16, <3>1, <3>2, <3>5, <3>6 DEF NodeHolds
  <2> QED BY <2>1, <2>2
<1>18. \A j \in 1..Len(s) : j + 1 \in 1..Len(t)
  BY <1>1, <1>6
<1>19. 1 \in 1..Len(t)
  BY <1>1, <1>6
<1>20. ASSUME NEW a \in r.entry.live PROVE \E i \in 1..Len(t) : a = r.list.value[t[i]]
  <2>1. CASE a = e
    BY <1>6, <1>14, <1>16, <1>19, <2>1
  <2>2. CASE a # e
    <3>1. PICK j \in 1..Len(s) : a = c.list.value[s[j]]
      BY <1>1, <1>13, <1>14, <2>2 DEF Agree
    <3> QED BY <1>6, <1>14, <1>16, <1>18, <3>1
  <2> QED BY <2>1, <2>2
<1>21. ASSUME NEW g \in r.map.live
       PROVE  \E i \in 1..Len(t) : r.map.key[g] = u[i] /\ r.map.value[g] = t[i]
  <2>1. CASE g = h
    BY <1>5, <1>6, <1>8, <1>14, <1>19, <2>1
  <2>2. CASE g # h
    <3>1. PICK j \in 1..Len(s) : c.map.key[g] = q[j] /\ c.map.value[g] = s[j]
      BY <1>1, <1>5, <1>14, <2>2 DEF Agree
    <3>2. mp.key[g] = q[j] /\ mp.value[g] = s[j]
      BY <1>5, <1>14, <2>2, <3>1
    <3> QED BY <1>6, <1>8, <1>14, <1>18, <3>1, <3>2
  <2> QED BY <2>1, <2>2
<1>22. Agree(r, t, u, page2)
  BY <1>8, <1>17, <1>20, <1>21 DEF Agree
<1>23. ListRep(w.list, t)
  BY <1>3 DEF t
<1>24. Rep(bucket_for, r, B, t, u, page2)
  BY <1>5, <1>14, <1>15, <1>22, <1>23 DEF Rep
<1> QED BY <1>14, <1>24 DEF t, u, w, r

\* Nothing of a node that the index refuses is left behind.
LEMMA NodeRefused ==
  ASSUME NEW c, NEW B, NEW s, NEW q, NEW page, Rep(bucket_for, c, B, s, q, page), NEW k \in Keys,
         NEW e \in EntryAddrs, e \notin c.entry.live,
         NEW n \in ListAddrs, n \notin c.list.live
  PROVE  WithoutNode(WithNode(c, k, e, n), e, n) = c
<1> DEFINE w == WithNode(c, k, e, n)
<1> HIDE DEF w
<1>1. /\ c \in CacheType(B) /\ c.entry \in EntryType
      /\ ListRep(c.list, s) /\ EntriesBlank(c.entry)
  BY DEF Rep, CacheType
<1>2. /\ w \in CacheType(B) /\ w.size = c.size /\ w.map = c.map
      /\ w.list = list_push_front(c.list, n, e)
      /\ w.entry.live = c.entry.live \cup {e}
      /\ w.entry.key = [c.entry.key EXCEPT ![e] = k]
      /\ w.entry.value = c.entry.value
  <2>1. Added(w, c, B, s, k, e, n)
    BY NodeAdded DEF w
  <2> QED BY <2>1 DEF Added
<1>3. list_remove(w.list, n) = c.list
  BY <1>1, <1>2, PushUndone
<1>4. w.entry \in EntryType
  BY <1>2 DEF CacheType
<1> DEFINE ents == FreeEntry(w.entry, e)
<1>5. /\ ents \in EntryType
      /\ ents.live = w.entry.live \ {e}
      /\ ents.key = [w.entry.key EXCEPT ![e] = NULL]
      /\ ents.value = [w.entry.value EXCEPT ![e] = NoPage]
  BY <1>4 DEF EntryType, FreeEntry
<1> HIDE DEF ents
<1>6. ASSUME NEW a \in EntryAddrs
      PROVE  ents.key[a] = c.entry.key[a] /\ ents.value[a] = c.entry.value[a]
  <2>1. c.entry.key[e] = NULL /\ c.entry.value[e] = NoPage
    BY <1>1 DEF EntriesBlank
  <2> QED BY <1>1, <1>2, <1>5, <2>1 DEF EntryType
<1>7. ents.live = c.entry.live
  BY <1>2, <1>5
<1>8. ents.key = c.entry.key /\ ents.value = c.entry.value
  BY <1>1, <1>5, <1>6 DEF EntryType
<1>9. ents = c.entry
  BY <1>1, <1>5, <1>7, <1>8 DEF EntryType
<1>10. WithoutNode(w, e, n) = [w EXCEPT !.list = c.list, !.entry = c.entry]
  BY <1>3, <1>9 DEF WithoutNode, ents
<1>11. w = [list |-> w.list, entry |-> w.entry, map |-> w.map, size |-> w.size]
  BY <1>2 DEF CacheType
<1>12. c = [list |-> c.list, entry |-> c.entry, map |-> c.map, size |-> c.size]
  BY <1>1 DEF CacheType
<1>13. WithoutNode(w, e, n) = [list |-> c.list, entry |-> c.entry, map |-> w.map, size |-> w.size]
  BY <1>10, <1>11
<1> QED BY <1>2, <1>12, <1>13 DEF w

\* A cache of no nodes has no entries either.
LEMMA EmptyRep ==
  ASSUME NEW c, NEW B, NEW s, NEW q, NEW page, Rep(bucket_for, c, B, s, q, page), Len(s) = 0
  PROVE  c.list.live = {} /\ c.entry.live = {} /\ c.map.live = {} /\ s = << >>
<1>1. s \in Seq(ListAddrs) /\ Elems(s) = c.list.live /\ Agree(c, s, q, page)
  BY DEF Rep, ListRep, LinksThrough
<1>2. \A i \in 1..Len(s) : FALSE
  OBVIOUS
<1>3. c.entry.live = {} /\ c.map.live = {}
  BY <1>1, <1>2 DEF Agree
<1>4. c.list.live = {}
  BY <1>1, <1>2 DEF Elems
<1> QED BY <1>1, <1>3, <1>4

\* What lru_destroy's loop goes through in N steps.
IsDrain(g, c, N) ==
  g = [i \in 0..N |-> IF i = 0 THEN c
                      ELSE IF list_empty(g[i - 1].list) THEN g[i - 1]
                           ELSE evict_oldest(g[i - 1])]

\* The loop ends with nothing left.
LEMMA DrainedIs ==
  ASSUME NEW c, NEW B, NEW s, NEW q, NEW page, Rep(bucket_for, c, B, s, q, page)
  PROVE  Rep(bucket_for, Drained(c), B, << >>, q, page) /\ Drained(c).size = c.size - Len(s)
<1> DEFINE N == Cardinality(ListAddrs)
           D == {d \in CacheType(B) : \E t : Rep(bucket_for, d, B, t, q, page)}
           F == [d \in D |-> IF list_empty(d.list) THEN d ELSE evict_oldest(d)]
<1>1. /\ s \in Seq(ListAddrs) /\ Len(s) \in Nat /\ Len(s) <= N /\ N \in Nat /\ c \in D
  <2>1. s \in Seq(ListAddrs) /\ Distinct(s) /\ c \in CacheType(B)
    BY DEF Rep, ListRep, LinksThrough
  <2> QED BY <2>1, DistinctLength, AddressAssumption
<1>2. ASSUME NEW d, NEW t, Rep(bucket_for, d, B, t, q, page)
      PROVE  /\ d \in CacheType(B) /\ d.size \in Int /\ t \in Seq(ListAddrs) /\ Len(t) \in Nat
             /\ list_empty(d.list) <=> Len(t) = 0
  <2>1. d \in CacheType(B) /\ t \in Seq(ListAddrs) /\ LinksThrough(d.list, t)
    BY <1>2 DEF Rep, ListRep, LinksThrough
  <2> QED BY <2>1, BackOf DEF CacheType
<1>3. ASSUME NEW d, NEW t, Rep(bucket_for, d, B, t, q, page), ~list_empty(d.list)
      PROVE  /\ Rep(bucket_for, evict_oldest(d), B, PopBack(t), q, page)
             /\ evict_oldest(d).size = d.size - 1
             /\ Len(PopBack(t)) = Len(t) - 1
             /\ evict_oldest(d) \in CacheType(B)
  <2>1. Len(t) # 0 /\ t \in Seq(ListAddrs)
    BY <1>2, <1>3
  <2>2. Rep(bucket_for, evict_oldest(d), B, PopBack(t), q, page)
    BY <1>3, <2>1, EvictedOldest
  <2>3. evict_oldest(d).size = d.size - 1
    BY <1>3, <2>1, EvictedOldest
  <2>4. Len(PopBack(t)) = Len(t) - 1
    BY <2>1, PopBackType
  <2> QED BY <1>2, <2>2, <2>3, <2>4
<1>4. F \in [D -> D]
  <2> SUFFICES ASSUME NEW d \in D, ~list_empty(d.list) PROVE evict_oldest(d) \in D
    OBVIOUS
  <2>1. PICK t : Rep(bucket_for, d, B, t, q, page)
    OBVIOUS
  <2> QED BY <1>3, <2>1
<1> HIDE DEF D, F, N
<1>5. PICK f \in [0..N -> D] : Iterates(f, c, F, N)
  BY <1>1, <1>4, Iteration
<1>6. IsDrain(f, c, N)
  <2>1. ASSUME NEW i \in 0..N
        PROVE  f[i] = IF i = 0 THEN c
                      ELSE IF list_empty(f[i - 1].list) THEN f[i - 1]
                           ELSE evict_oldest(f[i - 1])
    <3>1. CASE i = 0
      BY <1>5, <3>1 DEF Iterates
    <3>2. CASE i # 0
      <4>1. i \in 1..N /\ i - 1 \in 0..N
        BY <1>1, <3>2
      <4>2. f[i] = F[f[i - 1]] /\ f[i - 1] \in D
        BY <1>5, <4>1 DEF Iterates
      <4> QED BY <3>2, <4>2 DEF F
    <3> QED BY <3>1, <3>2
  <2> QED BY <1>5, <2>1 DEF IsDrain
<1>7. PICK g : IsDrain(g, c, N) /\ Drained(c) = g[N]
  <2> DEFINE g == CHOOSE h : IsDrain(h, c, N)
  <2>1. IsDrain(g, c, N)
    BY <1>6
  <2>2. Drained(c) = g[N]
    BY Zenon DEF Drained, IsDrain, N
  <2> QED BY <2>1, <2>2
<1> DEFINE At2(n) == \E t : /\ Rep(bucket_for, g[n], B, t, q, page)
                            /\ Len(t) = IF n <= Len(s) THEN Len(s) - n ELSE 0
                            /\ g[n].size = c.size - Len(s) + Len(t)
           S == {n \in Nat : n <= N => At2(n)}
<1>8. \A i \in 0..N : g[i] = IF i = 0 THEN c
                             ELSE IF list_empty(g[i - 1].list) THEN g[i - 1]
                                  ELSE evict_oldest(g[i - 1])
  BY <1>7, Zenon DEF IsDrain
<1>9. c.size \in Int
  BY <1>2
<1>10. At2(0)
  BY <1>1, <1>8, <1>9
<1>11. ASSUME NEW n \in Nat, n + 1 <= N, At2(n) PROVE At2(n + 1)
  <2>1. PICK t : /\ Rep(bucket_for, g[n], B, t, q, page)
                 /\ Len(t) = IF n <= Len(s) THEN Len(s) - n ELSE 0
                 /\ g[n].size = c.size - Len(s) + Len(t)
    BY <1>11
  <2>2. n + 1 \in 0..N /\ n + 1 # 0 /\ (n + 1) - 1 = n
    BY <1>1, <1>11
  <2>3. g[n + 1] = IF list_empty(g[n].list) THEN g[n] ELSE evict_oldest(g[n])
    BY <1>8, <2>2
  <2>4. Len(t) \in Nat /\ (list_empty(g[n].list) <=> Len(t) = 0)
    BY <1>2, <2>1
  <2>5. CASE Len(t) = 0
    <3>1. Len(t) = IF n + 1 <= Len(s) THEN Len(s) - (n + 1) ELSE 0
      BY <1>1, <2>1, <2>5
    <3> QED BY <2>1, <2>3, <2>4, <2>5, <3>1
  <2>6. CASE Len(t) # 0
    <3>1. /\ Rep(bucket_for, g[n + 1], B, PopBack(t), q, page)
          /\ g[n + 1].size = g[n].size - 1 /\ Len(PopBack(t)) = Len(t) - 1
      BY <1>3, <2>1, <2>3, <2>4, <2>6
    <3>2. Len(PopBack(t)) = IF n + 1 <= Len(s) THEN Len(s) - (n + 1) ELSE 0
      BY <1>1, <2>1, <2>6, <3>1
    <3>3. g[n + 1].size = c.size - Len(s) + Len(PopBack(t))
      BY <1>1, <1>9, <2>1, <2>4, <3>1
    <3> QED BY <3>1, <3>2, <3>3
  <2> QED BY <2>5, <2>6
<1> HIDE DEF At2
<1>12. 0 \in S /\ \A n \in Nat : n \in S => n + 1 \in S
  BY <1>1, <1>10, <1>11
<1>13. Nat \subseteq S
  <2> HIDE DEF S
  <2> QED BY <1>12, SetInduction
<1>14. At2(N)
  BY <1>1, <1>13
<1>15. PICK t : /\ Rep(bucket_for, g[N], B, t, q, page)
                /\ Len(t) = IF N <= Len(s) THEN Len(s) - N ELSE 0
                /\ g[N].size = c.size - Len(s) + Len(t)
  BY <1>14 DEF At2
<1>16. Len(t) = 0 /\ t = << >>
  <2>1. Len(t) = 0
    BY <1>1, <1>15
  <2> QED BY <1>15, <2>1, EmptyRep
<1> QED BY <1>1, <1>7, <1>9, <1>15, <1>16

\* Destroying the map has nothing more to free.
LEMMA DestroyedIs ==
  ASSUME NEW c, NEW s, NEW q, NEW page, Rep(bucket_for, c, Buckets(capacity), s, q, page)
  PROVE  LET d == Drained(c)
             r == [d EXCEPT !.map.live = @ \ InChains(d.map)]
         IN  Rep(bucket_for, r, Buckets(capacity), << >>, q, page) /\ r.size = c.size - Len(s)
<1> DEFINE B == Buckets(capacity)
           d == Drained(c)
           r == [d EXCEPT !.map.live = @ \ InChains(d.map)]
<1>1. Rep(bucket_for, d, B, << >>, q, page) /\ d.size = c.size - Len(s)
  BY DrainedIs
<1> HIDE DEF B, d
<1>2. d.map.live = {} /\ d \in CacheType(B)
  BY <1>1, EmptyRep DEF Rep
<1>3. r = [d EXCEPT !.map = [d.map EXCEPT !.live = {}]]
  BY <1>2
<1>4. [d.map EXCEPT !.live = {}] = d.map
  BY <1>2 DEF CacheType, MapType
<1>5. r = d
  BY <1>2, <1>3, <1>4 DEF CacheType
<1> QED BY <1>1, <1>5 DEF B, d

-----------------------------------------------------------------------------
(* The invariant.                                                          *)

\* The cache c of capacity cap holds the most recent keys of q and their pages.
Sound(f, c, cap, q, page) ==
  \E s : /\ Rep(f, c, Buckets(cap), s, q, page)
         /\ c.size = Len(s)
         /\ Len(s) = IF Len(q) <= cap THEN Len(q) ELSE cap

\* Nothing of a history is known to a cache that holds nothing.
LEMMA EmptyAgain ==
  ASSUME NEW f, NEW c, NEW B, NEW q, NEW page, Rep(f, c, B, << >>, q, page),
         NEW u \in Seq(Keys), Distinct(u), NEW page2
  PROVE  Rep(f, c, B, << >>, u, page2)
<1>1. c.entry.live = {} /\ c.map.live = {} /\ Len(<< >>) <= Len(u)
  BY DEF Rep, Agree
<1>2. Agree(c, << >>, u, page2)
  BY <1>1 DEF Agree
<1> QED BY <1>2 DEF Rep

\* A cache just created holds nothing.
LEMMA CreatedSound ==
  ASSUME NEW cap \in Nat, NEW f \in [Keys -> Buckets(cap)], NEW page
  PROVE  Sound(f, EmptyCache(cap), cap, << >>, page)
<1> DEFINE c == EmptyCache(cap)
           B == Buckets(cap)
<1>1. EmptyList \in ListType
  BY DEF EmptyList, ListType
<1>2. NoEntries \in EntryType
  BY DEF NoEntries, EntryType
<1>3. EmptyMap(cap) \in MapType(B)
  BY DEF EmptyMap, MapType
<1>4. c \in CacheType(B) /\ c.list = EmptyList /\ c.entry = NoEntries /\ c.map = EmptyMap(cap)
      /\ c.size = 0
  BY <1>1, <1>2, <1>3 DEF EmptyCache, CacheType
<1>5. ListRep(EmptyList, << >>)
  <2>1. << >> \in Seq(ListAddrs) /\ Distinct(<< >>) /\ Elems(<< >>) = {} /\ Len(<< >>) = 0
    BY DEF Distinct, Elems
  <2>2. Ring(EmptyList.next, EmptyList.prev, << >>, Sentinel)
    BY DEF Ring, At, EmptyList
  <2>3. ListBlank(EmptyList) /\ EmptyList.live = {}
    BY DEF EmptyList, ListBlank
  <2> QED BY <1>1, <2>1, <2>2, <2>3 DEF ListRep, LinksThrough
<1>6. EntriesBlank(NoEntries)
  BY DEF EntriesBlank, NoEntries
<1>7. MapSound(f, EmptyMap(cap), B)
  <2> DEFINE chains == [b \in B |-> << >>]
  <2>1. chains \in [B -> Seq(MapAddrs)]
    OBVIOUS
  <2>2. ASSUME NEW b \in B
        PROVE  /\ Distinct(chains[b])
               /\ Chained(EmptyMap(cap).buckets[b], EmptyMap(cap).next, chains[b], NULL)
               /\ Elems(chains[b]) = {h \in EmptyMap(cap).live : f[EmptyMap(cap).key[h]] = b}
    <3>1. chains[b] = << >> /\ EmptyMap(cap).buckets[b] = NULL /\ EmptyMap(cap).live = {}
      BY DEF EmptyMap
    <3>2. Distinct(<< >>) /\ Elems(<< >>) = {} /\ Chained(NULL, EmptyMap(cap).next, << >>, NULL)
      BY DEF Distinct, Elems, Chained, At
    <3> HIDE DEF chains
    <3> QED BY <3>1, <3>2
  <2>3. EmptyMap(cap).live = {}
    BY DEF EmptyMap
  <2> HIDE DEF chains, B
  <2>4. MapRep(EmptyMap(cap), f, B, chains)
    BY <1>3, <2>1, <2>2, <2>3 DEF MapRep, B
  <2> QED BY <2>4 DEF MapSound
<1>8. Agree(c, << >>, << >>, page)
  <2>1. c.entry.live = {} /\ c.map.live = {}
    BY <1>4 DEF NoEntries, EmptyMap
  <2>2. << >> \in Seq(Keys) /\ Distinct(<< >>) /\ Len(<< >>) = 0
    BY DEF Distinct
  <2> QED BY <2>1, <2>2 DEF Agree
<1> HIDE DEF c, B
<1>9. Rep(f, c, B, << >>, << >>, page)
  BY <1>4, <1>5, <1>6, <1>7, <1>8 DEF Rep
<1>10. Len(<< >>) = 0 /\ 0 <= cap
  OBVIOUS
<1> QED BY <1>4, <1>9, <1>10 DEF Sound, c, B

\* After lru_destroy nothing is left.
LEMMA DestroyedSound ==
  ASSUME NEW c, NEW q, NEW page, Sound(bucket_for, c, capacity, q, page), capacity \in Nat
  PROVE  Sound(bucket_for,
               LET d == Drained(c) IN [d EXCEPT !.map.live = @ \ InChains(d.map)],
               capacity, << >>, page)
<1> DEFINE r == LET d == Drained(c) IN [d EXCEPT !.map.live = @ \ InChains(d.map)]
<1>1. PICK s : /\ Rep(bucket_for, c, Buckets(capacity), s, q, page)
               /\ c.size = Len(s)
  BY DEF Sound
<1>2. Rep(bucket_for, r, Buckets(capacity), << >>, q, page) /\ r.size = c.size - Len(s)
  BY <1>1, DestroyedIs
<1> HIDE DEF r
<1>3. << >> \in Seq(Keys) /\ Distinct(<< >>) /\ Len(<< >>) = 0
  BY DEF Distinct
<1>4. Rep(bucket_for, r, Buckets(capacity), << >>, << >>, page)
  BY <1>2, <1>3, EmptyAgain
<1>5. s \in Seq(ListAddrs)
  BY <1>1 DEF Rep, ListRep, LinksThrough
<1>6. r.size = 0
  BY <1>1, <1>2, <1>5
<1> QED BY <1>3, <1>4, <1>6 DEF Sound, r

\* A cache of no capacity stays empty whatever is asked of it.
LEMMA ZeroSound ==
  ASSUME NEW c, NEW q, NEW page, Sound(bucket_for, c, 0, q, page), NEW k \in Keys
  PROVE  Sound(bucket_for, c, 0, Touch(q, k), page)
<1>1. PICK s : /\ Rep(bucket_for, c, Buckets(0), s, q, page)
               /\ c.size = Len(s)
               /\ Len(s) = IF Len(q) <= 0 THEN Len(q) ELSE 0
  BY DEF Sound
<1>2. q \in Seq(Keys) /\ Distinct(q) /\ s \in Seq(ListAddrs)
  BY <1>1 DEF Rep, Agree, ListRep, LinksThrough
<1>3. Len(s) = 0 /\ s = << >>
  BY <1>1, <1>2
<1>4. Touch(q, k) \in Seq(Keys) /\ Distinct(Touch(q, k))
  BY <1>2, TouchType
<1>5. Rep(bucket_for, c, Buckets(0), << >>, Touch(q, k), page)
  BY <1>1, <1>3, <1>4, EmptyAgain
<1>6. Len(Touch(q, k)) \in Nat
  BY <1>4
<1>7. Len(<< >>) = IF Len(Touch(q, k)) <= 0 THEN Len(Touch(q, k)) ELSE 0
  BY <1>6
<1> QED BY <1>1, <1>3, <1>5, <1>7 DEF Sound

\* A hit answers with the key's page and makes the key the most recent one.
LEMMA HitSound ==
  ASSUME NEW c, NEW q, NEW page, Sound(bucket_for, c, capacity, q, page), capacity \in Nat,
         NEW k \in Keys, hash_map_find(c.map, k) # NULL
  PROVE  LET n == hash_map_find(c.map, k)
         IN  /\ Sound(bucket_for, [c EXCEPT !.list = list_move_front(c.list, n)],
                      capacity, Touch(q, k), page)
             /\ c.entry.value[c.list.value[n]] = page[k]
             /\ k \in Resident(q, capacity)
<1> DEFINE n == hash_map_find(c.map, k)
           r == [c EXCEPT !.list = list_move_front(c.list, n)]
<1>1. PICK s : /\ Rep(bucket_for, c, Buckets(capacity), s, q, page)
               /\ c.size = Len(s)
               /\ Len(s) = IF Len(q) <= capacity THEN Len(q) ELSE capacity
  BY DEF Sound
<1>2. PICK i \in 1..Len(s) : q[i] = k /\ n = s[i] /\ c.entry.value[c.list.value[s[i]]] = page[k]
  BY <1>1, FoundAt
<1>3. /\ q \in Seq(Keys) /\ Distinct(q) /\ Len(q) \in Nat
      /\ s \in Seq(ListAddrs) /\ Len(s) \in Nat /\ Len(s) <= Len(q)
  BY <1>1 DEF Rep, Agree, ListRep, LinksThrough
<1>4. i \in 1..Len(q) /\ i <= capacity
  BY <1>1, <1>2, <1>3
<1>5. Touch(q, k) = MoveToFront(q, i) /\ Len(MoveToFront(q, i)) = Len(q)
  BY <1>2, <1>3, <1>4, TouchKnown, MoveToFrontType
<1>6. Len(MoveToFront(s, i)) = Len(s)
  BY <1>3, MoveToFrontType
<1>7. /\ Rep(bucket_for, r, Buckets(capacity), MoveToFront(s, i), MoveToFront(q, i), page)
      /\ r.size = c.size
  BY <1>1, <1>2, HitMoves
<1> HIDE DEF r
<1>8. Sound(bucket_for, r, capacity, Touch(q, k), page)
  BY <1>1, <1>5, <1>6, <1>7 DEF Sound
<1>9. k \in Resident(q, capacity)
  BY <1>2, <1>4 DEF Resident
<1> QED BY <1>2, <1>8, <1>9 DEF r

\* A miss puts key and page in front and, in a full cache, drops the last key.
LEMMA MissSound ==
  ASSUME NEW c, NEW q, NEW page, Sound(bucket_for, c, capacity, q, page),
         capacity \in Nat, capacity # 0,
         NEW k \in Keys, hash_map_find(c.map, k) = NULL,
         NEW e \in EntryAddrs, e \notin c.entry.live,
         NEW n \in ListAddrs, n \notin c.list.live,
         NEW h \in MapAddrs, h \notin c.map.live, NEW p \in Pages,
         NEW page2, page2[k] = p, \A j \in Keys : j # k => page2[j] = page[j]
  PROVE  /\ Sound(bucket_for, [MadeRoom(Indexed(c, k, e, n, h, p)) EXCEPT !.size = @ + 1],
                  capacity, Touch(q, k), page2)
         /\ k \notin Resident(q, capacity)
<1> DEFINE indexed == Indexed(c, k, e, n, h, p)
           room == MadeRoom(indexed)
           r == [room EXCEPT !.size = @ + 1]
           B == Buckets(capacity)
           u == Touch(q, k)
<1>1. PICK s : /\ Rep(bucket_for, c, B, s, q, page)
               /\ c.size = Len(s)
               /\ Len(s) = IF Len(q) <= capacity THEN Len(q) ELSE capacity
  BY DEF Sound
<1>2. /\ q \in Seq(Keys) /\ Distinct(q) /\ Len(q) \in Nat
      /\ s \in Seq(ListAddrs) /\ Len(s) \in Nat /\ Len(s) <= Len(q) /\ Len(s) \in 0..Len(q)
  BY <1>1 DEF Rep, Agree, ListRep, LinksThrough
<1>3. \A i \in 1..Len(s) : q[i] # k
  BY <1>1, FoundNowhere
<1>4. Rep(bucket_for, indexed, B, PushFront(s, n), u, page2) /\ indexed.size = c.size
  BY <1>1, NodeIndexed
<1> HIDE DEF indexed, B
<1>5. /\ Len(u) \in Nat /\ Len(u) > Len(s) /\ Len(u) \in {Len(q), Len(q) + 1}
  BY <1>2, <1>3, TouchShifts
<1>6. PushFront(s, n) \in Seq(ListAddrs) /\ Len(PushFront(s, n)) = Len(s) + 1
  BY <1>2, PushFrontType
<1> HIDE DEF u
<1>7. \E t : /\ Rep(bucket_for, room, B, t, u, page2) /\ room.size = Len(t) - 1
             /\ Len(t) = IF Len(u) <= capacity THEN Len(u) ELSE capacity
  <2>1. CASE indexed.size = capacity
    <3>1. room = evict_oldest(indexed)
      BY <2>1 DEF MadeRoom
    <3>2. /\ Rep(bucket_for, room, B, PopBack(PushFront(s, n)), u, page2)
          /\ room.size = indexed.size - 1
      BY <1>2, <1>4, <1>6, <3>1, EvictedOldest
    <3>3. Len(PopBack(PushFront(s, n))) = Len(s)
      BY <1>2, <1>6, PopBackType
    <3>4. Len(s) = IF Len(u) <= capacity THEN Len(u) ELSE capacity
      BY <1>1, <1>2, <1>4, <1>5, <2>1
    <3> QED BY <1>1, <1>4, <3>2, <3>3, <3>4
  <2>2. CASE indexed.size # capacity
    <3>1. room = indexed
      BY <2>2 DEF MadeRoom
    <3>2. Len(s) + 1 = IF Len(u) <= capacity THEN Len(u) ELSE capacity
      BY <1>1, <1>2, <1>4, <1>5, <2>2
    <3>3. indexed.size = (Len(s) + 1) - 1
      BY <1>1, <1>2, <1>4
    <3> QED BY <1>4, <1>6, <3>1, <3>2, <3>3
  <2> QED BY <2>1, <2>2
<1> HIDE DEF room
<1>8. PICK t : /\ Rep(bucket_for, room, B, t, u, page2) /\ room.size = Len(t) - 1
               /\ Len(t) = IF Len(u) <= capacity THEN Len(u) ELSE capacity
  BY <1>7
<1>9. /\ r \in CacheType(B) /\ r.list = room.list /\ r.entry = room.entry /\ r.map = room.map
      /\ r.size = Len(t)
  <2>1. room \in CacheType(B) /\ Len(t) \in Nat
    BY <1>8 DEF Rep, ListRep, LinksThrough
  <2> QED BY <1>8, <2>1 DEF CacheType
<1> HIDE DEF r
<1>10. Rep(bucket_for, r, B, t, u, page2)
  BY <1>8, <1>9 DEF Rep, Agree, NodeHolds
<1>11. Sound(bucket_for, r, capacity, u, page2)
  BY <1>8, <1>9, <1>10 DEF Sound, B
<1>12. k \notin Resident(q, capacity)
  BY <1>1, <1>2, <1>3 DEF Resident
<1> QED BY <1>11, <1>12 DEF r, room, indexed, u

-----------------------------------------------------------------------------
(* What the invariant says about the properties.                           *)

\* The nodes met from the sentinel, N + 1 times.
IsTour(g, l, N) ==
  g = [i \in 1..(N + 1) |-> IF i = 1 THEN l.next[Sentinel]
                            ELSE IF g[i - 1] = Sentinel THEN Sentinel ELSE l.next[g[i - 1]]]

\* The walk meets the nodes of the list in their order, then the sentinel.
LEMMA WalkIs ==
  ASSUME NEW l, NEW s, ListRep(l, s)
  PROVE  /\ Cardinality(ListAddrs) \in Nat /\ Len(s) <= Cardinality(ListAddrs)
         /\ Walk(l) = [i \in 1..(Cardinality(ListAddrs) + 1) |-> At(s, i, Sentinel)]
<1> DEFINE N == Cardinality(ListAddrs)
           tour == [i \in 1..(N + 1) |-> At(s, i, Sentinel)]
           walk == Walk(l)
<1>1. /\ s \in Seq(ListAddrs) /\ Distinct(s) /\ Len(s) \in Nat
      /\ Ring(l.next, l.prev, s, Sentinel)
  BY DEF ListRep, LinksThrough
<1>2. N \in Nat /\ Len(s) <= N
  BY <1>1, DistinctLength, AddressAssumption
<1> HIDE DEF N
<1>3. l.next[Sentinel] = At(s, 1, Sentinel)
  BY <1>1, RingEnds, AddressAssumption
<1>4. ASSUME NEW i \in Nat, i # 0
      PROVE  At(s, i + 1, Sentinel) = IF At(s, i, Sentinel) = Sentinel THEN Sentinel
                                      ELSE l.next[At(s, i, Sentinel)]
  <2>1. CASE i \in 1..Len(s)
    <3>1. At(s, i, Sentinel) # Sentinel
      BY <1>1, <2>1, AddressAssumption DEF At
    <3>2. l.next[At(s, i, Sentinel)] = At(s, i + 1, Sentinel)
      BY <1>1, <2>1 DEF Ring
    <3> QED BY <3>1, <3>2
  <2>2. CASE i \notin 1..Len(s)
    BY <1>1, <1>4, <2>2 DEF At
  <2> QED BY <2>1, <2>2
<1>5. IsTour(tour, l, N)
  <2>1. ASSUME NEW i \in 1..(N + 1)
        PROVE  tour[i] = IF i = 1 THEN l.next[Sentinel]
                         ELSE IF tour[i - 1] = Sentinel THEN Sentinel ELSE l.next[tour[i - 1]]
    <3>1. CASE i = 1
      BY <1>3, <3>1
    <3>2. CASE i # 1
      <4>1. i - 1 \in Nat /\ i - 1 # 0 /\ i - 1 \in 1..(N + 1) /\ (i - 1) + 1 = i
        BY <1>2, <3>2
      <4>2. tour[i - 1] = At(s, i - 1, Sentinel) /\ tour[i] = At(s, i, Sentinel)
        BY <4>1
      <4>3. At(s, i, Sentinel) = IF At(s, i - 1, Sentinel) = Sentinel THEN Sentinel
                                 ELSE l.next[At(s, i - 1, Sentinel)]
        BY <1>4, <4>1
      <4> QED BY <3>2, <4>2, <4>3
    <3> QED BY <3>1, <3>2
  <2>2. tour = [i \in 1..(N + 1) |-> tour[i]]
    OBVIOUS
  <2> HIDE DEF tour
  <2> QED BY <2>1, <2>2 DEF IsTour
<1>6. IsTour(walk, l, N)
  <2>1. \E g : IsTour(g, l, N)
    BY <1>5
  <2> QED BY <2>1, Zenon DEF Walk, N, IsTour
<1> HIDE DEF walk
<1>7. \A i \in 1..(N + 1) :
        walk[i] = IF i = 1 THEN l.next[Sentinel]
                  ELSE IF walk[i - 1] = Sentinel THEN Sentinel ELSE l.next[walk[i - 1]]
  BY <1>6, Zenon DEF IsTour
<1> DEFINE S == {n \in Nat : n <= N => walk[n + 1] = At(s, n + 1, Sentinel)}
<1>8. 0 \in S
  BY <1>2, <1>3, <1>7
<1>9. ASSUME NEW n \in Nat, n \in S PROVE n + 1 \in S
  <2> SUFFICES ASSUME n + 1 <= N PROVE walk[(n + 1) + 1] = At(s, (n + 1) + 1, Sentinel)
    OBVIOUS
  <2>1. walk[n + 1] = At(s, n + 1, Sentinel)
    BY <1>2, <1>9
  <2>2. (n + 1) + 1 \in 1..(N + 1) /\ (n + 1) + 1 # 1 /\ ((n + 1) + 1) - 1 = n + 1
    BY <1>2
  <2>3. walk[(n + 1) + 1] = IF walk[n + 1] = Sentinel THEN Sentinel ELSE l.next[walk[n + 1]]
    BY <1>7, <2>2
  <2>4. n + 1 \in Nat /\ n + 1 # 0
    OBVIOUS
  <2> QED BY <1>4, <2>1, <2>3, <2>4
<1>10. Nat \subseteq S
  <2> HIDE DEF S
  <2> QED BY <1>8, <1>9, SetInduction
<1>11. ASSUME NEW i \in 1..(N + 1) PROVE walk[i] = At(s, i, Sentinel)
  <2>1. i - 1 \in Nat /\ i - 1 <= N /\ (i - 1) + 1 = i
    BY <1>2
  <2> QED BY <1>10, <2>1
<1>12. walk = [i \in 1..(N + 1) |-> walk[i]]
  BY <1>6, Zenon DEF IsTour
<1>13. walk = tour
  BY <1>11, <1>12
<1> QED BY <1>2, <1>13 DEF walk, N

\* A sound list is a ring of its nodes.
LEMMA SoundRing ==
  ASSUME NEW q, NEW page, Sound(bucket_for, cache, capacity, q, page)
  PROVE  RingSound
<1> DEFINE l == cache.list
           N == Cardinality(ListAddrs)
           met == {Walk(l)[i] : i \in DOMAIN Walk(l)} \ {Sentinel}
<1>1. PICK s : Rep(bucket_for, cache, Buckets(capacity), s, q, page) /\ cache.size = Len(s)
  BY DEF Sound
<1>2. /\ ListRep(l, s) /\ s \in Seq(ListAddrs) /\ Distinct(s) /\ Elems(s) = l.live
      /\ Ring(l.next, l.prev, s, Sentinel) /\ Len(s) \in Nat
  BY <1>1 DEF Rep, ListRep, LinksThrough
<1>3. N \in Nat /\ Len(s) <= N /\ Walk(l) = [i \in 1..(N + 1) |-> At(s, i, Sentinel)]
  BY <1>2, WalkIs
<1> HIDE DEF l, N
<1>4. met = l.live
  <2>1. ASSUME NEW x \in met PROVE x \in l.live
    <3>1. PICK i \in 1..(N + 1) : x = At(s, i, Sentinel) /\ x # Sentinel
      BY <1>3, <2>1
    <3> QED BY <1>2, <3>1 DEF At, Elems
  <2>2. ASSUME NEW x \in l.live PROVE x \in met
    <3>1. PICK i \in 1..Len(s) : x = s[i]
      BY <1>2, <2>2 DEF Elems
    <3>2. i \in 1..(N + 1) /\ At(s, i, Sentinel) = x /\ x \in ListAddrs
      BY <1>2, <1>3, <3>1 DEF At
    <3> QED BY <1>3, <3>2, AddressAssumption
  <2> QED BY <2>1, <2>2
<1>5. Cardinality(l.live) = cache.size
  BY <1>1, <1>2, DistinctLength, AddressAssumption
<1>6. \A a \in l.live \cup {Sentinel} : l.prev[l.next[a]] = a
  BY <1>2, RingEnds, AddressAssumption
<1> QED BY <1>4, <1>5, <1>6 DEF RingSound, l

\* A sound index agrees with the list.
LEMMA SoundIndex ==
  ASSUME NEW q, NEW page, Sound(bucket_for, cache, capacity, q, page)
  PROVE  IndexAgrees
<1> DEFINE c == cache
<1>1. PICK s : Rep(bucket_for, c, Buckets(capacity), s, q, page)
  BY DEF Sound
<1>2. /\ Elems(s) = c.list.live /\ Agree(c, s, q, page)
      /\ MapSound(bucket_for, c.map, Buckets(capacity))
  BY <1>1 DEF Rep, ListRep
<1>3. ASSUME NEW n \in c.list.live PROVE hash_map_find(c.map, KeyOf(n)) = n
  <2>1. PICK i \in 1..Len(s) : n = s[i]
    BY <1>2 DEF Elems
  <2>2. KeyOf(n) = q[i]
    BY <1>2, <2>1 DEF Agree, NodeHolds, KeyOf
  <2> QED BY <1>1, <2>1, <2>2, HeldIsFound
<1>4. InChains(c.map) = c.map.live
  BY <1>2, InChainsIs
<1>5. ASSUME NEW h \in c.map.live
      PROVE  c.map.value[h] \in c.list.live /\ KeyOf(c.map.value[h]) = c.map.key[h]
  <2>1. PICK i \in 1..Len(s) : c.map.key[h] = q[i] /\ c.map.value[h] = s[i]
    BY <1>2 DEF Agree
  <2>2. KeyOf(s[i]) = q[i]
    BY <1>2 DEF Agree, NodeHolds, KeyOf
  <2> QED BY <1>2, <2>1, <2>2 DEF Elems
<1> QED BY <1>3, <1>4, <1>5 DEF IndexAgrees

\* As many entries and index entries as nodes, each belonging to one.
LEMMA SoundBlocks ==
  ASSUME NEW q, NEW page, Sound(bucket_for, cache, capacity, q, page)
  PROVE  /\ cache.entry.live = {cache.list.value[n] : n \in cache.list.live}
         /\ Cardinality(cache.entry.live) = Cardinality(cache.list.live)
         /\ Cardinality(cache.map.live) = Cardinality(cache.list.live)
         /\ cache.size = 0 => cache.list.live = {}
<1> DEFINE c == cache
<1>1. PICK s : Rep(bucket_for, c, Buckets(capacity), s, q, page) /\ c.size = Len(s)
  BY DEF Sound
<1>2. /\ s \in Seq(ListAddrs) /\ Distinct(s) /\ Elems(s) = c.list.live /\ Len(s) \in Nat
      /\ Agree(c, s, q, page) /\ MapSound(bucket_for, c.map, Buckets(capacity))
  BY <1>1 DEF Rep, ListRep, LinksThrough
<1>3. /\ q \in Seq(Keys) /\ Distinct(q) /\ Len(s) <= Len(q) /\ Len(q) \in Nat
      /\ \A i \in 1..Len(s) : NodeHolds(c, s, i, q[i], page)
      /\ \A a \in c.entry.live : \E i \in 1..Len(s) : a = c.list.value[s[i]]
      /\ \A h \in c.map.live : \E i \in 1..Len(s) : c.map.key[h] = q[i] /\ c.map.value[h] = s[i]
      /\ \A h, g \in c.map.live : c.map.key[h] = c.map.key[g] => h = g
  BY <1>2 DEF Agree, MapSound, MapRep
<1>4. Cardinality(c.list.live) = Len(s)
  BY <1>2, DistinctLength, AddressAssumption
<1> HIDE DEF c
<1>5. \A i \in 1..Len(s) : c.list.value[s[i]] \in c.entry.live /\ s[i] \in c.list.live
  BY <1>2, <1>3 DEF NodeHolds, Elems
<1>6. c.entry.live = {c.list.value[n] : n \in c.list.live}
  <2>1. ASSUME NEW a \in c.entry.live PROVE \E n \in c.list.live : a = c.list.value[n]
    BY <1>3, <1>5
  <2>2. ASSUME NEW n \in c.list.live PROVE c.list.value[n] \in c.entry.live
    BY <1>2, <1>5 DEF Elems
  <2> QED BY <2>1, <2>2
<1>7. Cardinality(c.entry.live) = Len(s)
  <2> DEFINE f == [i \in 1..Len(s) |-> c.list.value[s[i]]]
  <2>1. \A i \in 1..Len(s) : f[i] \in c.entry.live
    BY <1>5
  <2>2. \A e \in c.entry.live : \E i \in 1..Len(s) : f[i] = e
    BY <1>3
  <2>3. ASSUME NEW i \in 1..Len(s), NEW j \in 1..Len(s), f[i] = f[j] PROVE i = j
    <3>1. q[i] = q[j]
      BY <1>3, <2>3, SMTT(30) DEF NodeHolds
    <3>2. i \in 1..Len(q) /\ j \in 1..Len(q)
      BY <1>2, <1>3
    <3> QED BY <1>3, <3>1, <3>2 DEF Distinct
  <2> HIDE DEF f
  <2>4. Numbers(f, Len(s), c.entry.live)
    BY <2>1, <2>2, <2>3 DEF Numbers
  <2> QED BY <1>2, <2>4, Numbered
<1>8. Cardinality(c.map.live) = Len(s)
  <2> DEFINE f == [i \in 1..Len(s) |->
                     CHOOSE h \in c.map.live : c.map.key[h] = q[i] /\ c.map.value[h] = s[i]]
  <2>1. ASSUME NEW i \in 1..Len(s)
        PROVE  f[i] \in c.map.live /\ c.map.key[f[i]] = q[i] /\ c.map.value[f[i]] = s[i]
    <3>1. \E h \in c.map.live : c.map.key[h] = q[i] /\ c.map.value[h] = s[i]
      BY <1>3 DEF NodeHolds
    <3>2. f[i] = CHOOSE h \in c.map.live : c.map.key[h] = q[i] /\ c.map.value[h] = s[i]
      OBVIOUS
    <3> HIDE DEF f
    <3> QED BY <3>1, <3>2, Zenon
  <2> HIDE DEF f
  <2>2. ASSUME NEW h \in c.map.live PROVE \E i \in 1..Len(s) : f[i] = h
    <3>1. PICK i \in 1..Len(s) : c.map.key[h] = q[i]
      BY <1>3
    <3>2. f[i] \in c.map.live /\ c.map.key[f[i]] = c.map.key[h]
      BY <2>1, <3>1
    <3>3. f[i] = h
      BY <1>3, <3>2
    <3> QED BY <3>3
  <2>3. ASSUME NEW i \in 1..Len(s), NEW j \in 1..Len(s), f[i] = f[j] PROVE i = j
    BY <1>2, <2>1, <2>3 DEF Distinct
  <2>4. Numbers(f, Len(s), c.map.live)
    BY <2>1, <2>2, <2>3 DEF Numbers
  <2> QED BY <1>2, <2>4, Numbered
<1>9. c.size = 0 => c.list.live = {}
  BY <1>1, <1>2 DEF Elems, c
<1> QED BY <1>4, <1>6, <1>7, <1>8, <1>9 DEF c

\* The pages found are those of the keys in the first capacity places.
LEMMA SoundPages ==
  ASSUME NEW q, NEW page, Sound(bucket_for, cache, capacity, q, page), capacity \in Nat
  PROVE  PagesHeld = [k \in Keys |-> IF k \in Resident(q, capacity) THEN page[k] ELSE NoPage]
<1>1. PICK s : /\ Rep(bucket_for, cache, Buckets(capacity), s, q, page)
               /\ Len(s) = IF Len(q) <= capacity THEN Len(q) ELSE capacity
  BY DEF Sound
<1>2. /\ q \in Seq(Keys) /\ Len(q) \in Nat /\ s \in Seq(ListAddrs) /\ Len(s) \in Nat
      /\ Agree(cache, s, q, page)
  BY <1>1 DEF Rep, Agree, ListRep, LinksThrough
<1>3. Resident(q, capacity) = {q[i] : i \in 1..Len(s)}
  BY <1>1, <1>2 DEF Resident
<1>4. ASSUME NEW k \in Keys
      PROVE  (IF hash_map_find(cache.map, k) = NULL THEN NoPage
              ELSE cache.entry.value[cache.list.value[hash_map_find(cache.map, k)]])
               = IF k \in Resident(q, capacity) THEN page[k] ELSE NoPage
  <2>1. CASE hash_map_find(cache.map, k) = NULL
    <3>1. k \notin Resident(q, capacity)
      BY <1>1, <1>3, <2>1, FoundNowhere
    <3> QED BY <2>1, <3>1
  <2>2. CASE hash_map_find(cache.map, k) # NULL
    <3>1. PICK i \in 1..Len(s) : /\ q[i] = k /\ hash_map_find(cache.map, k) = s[i]
                                 /\ cache.entry.value[cache.list.value[s[i]]] = page[k]
      BY <1>1, <2>2, FoundAt
    <3> QED BY <1>3, <2>2, <3>1
  <2> QED BY <2>1, <2>2
<1> QED BY <1>4, Zenon DEF PagesHeld

-----------------------------------------------------------------------------
(* The calls.                                                              *)

CInv ==
  /\ blocks \in {{}, AllBlocks}
  /\ capacity \in Nat
  /\ \E page : Sound(bucket_for, cache, capacity, stack, page)
  /\ blocks = {} => cache.size = 0

\* The pages the cache really holds will do.
LEMMA SoundHeld ==
  ASSUME CInv
  PROVE  Sound(bucket_for, cache, capacity, stack, PagesHeld)
<1>1. PICK page : Sound(bucket_for, cache, capacity, stack, page)
  BY DEF CInv
<1>2. capacity \in Nat
  BY DEF CInv
<1> DEFINE page2 == PagesHeld
<1>3. page2 = [k \in Keys |-> IF k \in Resident(stack, capacity) THEN page[k] ELSE NoPage]
  BY <1>1, <1>2, SoundPages
<1> HIDE DEF page2
<1>4. PICK s : /\ Rep(bucket_for, cache, Buckets(capacity), s, stack, page)
               /\ cache.size = Len(s)
               /\ Len(s) = IF Len(stack) <= capacity THEN Len(stack) ELSE capacity
  BY <1>1 DEF Sound
<1>5. /\ stack \in Seq(Keys) /\ Len(s) <= Len(stack) /\ Len(s) \in Nat
      /\ Agree(cache, s, stack, page)
  BY <1>4 DEF Rep, Agree, ListRep, LinksThrough
<1>6. ASSUME NEW i \in 1..Len(s) PROVE page2[stack[i]] = page[stack[i]]
  <2>1. i \in 1..Len(stack) /\ i <= capacity /\ stack[i] \in Keys
    BY <1>2, <1>4, <1>5
  <2>2. stack[i] \in Resident(stack, capacity)
    BY <2>1 DEF Resident
  <2> QED BY <1>3, <2>1, <2>2
<1>7. Agree(cache, s, stack, page2)
  BY <1>5, <1>6 DEF Agree, NodeHolds
<1>8. Rep(bucket_for, cache, Buckets(capacity), s, stack, page2)
  BY <1>4, <1>7 DEF Rep
<1> QED BY <1>4, <1>8 DEF Sound, page2

\* What a miss leaves.
LEMMA MissKeeps ==
  ASSUME CInv, NEW k \in Keys, NEW p \in Pages,
         NEW e \in EntryAddrs \ cache.entry.live, NEW n \in ListAddrs \ cache.list.live,
         NEW h \in MapAddrs \ cache.map.live, Miss(k, p, e, n, h)
  PROVE  /\ Sound(bucket_for', cache', capacity', stack', [PagesHeld EXCEPT ![k] = p])
         /\ k \notin Resident(stack, capacity)
         /\ capacity' = capacity /\ blocks' = blocks /\ blocks = AllBlocks
<1> DEFINE page2 == [PagesHeld EXCEPT ![k] = p]
<1>1. /\ blocks = AllBlocks /\ capacity # 0 /\ hash_map_find(cache.map, k) = NULL
      /\ cache' = [MadeRoom(Indexed(cache, k, e, n, h, p)) EXCEPT !.size = @ + 1]
      /\ stack' = Touch(stack, k) /\ bucket_for' = bucket_for /\ capacity' = capacity
      /\ blocks' = blocks
  BY DEF Miss, Missing, Indexed
<1>2. page2[k] = p /\ \A j \in Keys : j # k => page2[j] = PagesHeld[j]
  BY DEF PagesHeld
<1> HIDE DEF page2
<1>3. Sound(bucket_for, cache, capacity, stack, PagesHeld) /\ capacity \in Nat
  BY SoundHeld DEF CInv
<1>4. /\ Sound(bucket_for, [MadeRoom(Indexed(cache, k, e, n, h, p)) EXCEPT !.size = @ + 1],
               capacity, Touch(stack, k), page2)
      /\ k \notin Resident(stack, capacity)
  BY <1>1, <1>2, <1>3, MissSound
<1>5. Sound(bucket_for', cache', capacity', stack', page2)
  BY <1>1, <1>4
<1> QED BY <1>1, <1>4, <1>5 DEF page2

\* What a hit leaves.
LEMMA HitKeeps ==
  ASSUME CInv, NEW k \in Keys, Hit(k)
  PROVE  /\ Sound(bucket_for', cache', capacity', stack', PagesHeld)
         /\ k \in Resident(stack, capacity)
         /\ out' = PagesHeld[k]
         /\ capacity' = capacity /\ blocks' = blocks /\ blocks = AllBlocks
<1> DEFINE n == hash_map_find(cache.map, k)
<1>1. /\ blocks = AllBlocks /\ n # NULL
      /\ cache' = [cache EXCEPT !.list = list_move_front(cache.list, n)]
      /\ out' = cache.entry.value[cache.list.value[n]]
      /\ stack' = Touch(stack, k) /\ bucket_for' = bucket_for /\ capacity' = capacity
      /\ blocks' = blocks
  BY DEF Hit
<1>2. Sound(bucket_for, cache, capacity, stack, PagesHeld) /\ capacity \in Nat
  BY SoundHeld DEF CInv
<1>3. /\ Sound(bucket_for, [cache EXCEPT !.list = list_move_front(cache.list, n)],
               capacity, Touch(stack, k), PagesHeld)
      /\ cache.entry.value[cache.list.value[n]] = PagesHeld[k]
      /\ k \in Resident(stack, capacity)
  BY <1>1, <1>2, HitSound
<1> HIDE DEF n
<1>4. Sound(bucket_for', cache', capacity', stack', PagesHeld)
  BY <1>1, <1>3
<1> QED BY <1>1, <1>3, <1>4

\* What the other requests leave: the cache as it is.
LEMMA ZeroKeeps ==
  ASSUME CInv, NEW k \in Keys, NEW p \in Pages, ZeroCapacity(k, p)
  PROVE  /\ Sound(bucket_for', cache', capacity', stack', PagesHeld)
         /\ cache' = cache /\ capacity' = capacity /\ blocks' = blocks /\ bucket_for' = bucket_for
<1>1. /\ capacity = 0 /\ stack' = Touch(stack, k)
      /\ cache' = cache /\ capacity' = capacity /\ blocks' = blocks /\ bucket_for' = bucket_for
  BY DEF ZeroCapacity
<1>2. Sound(bucket_for, cache, 0, stack, PagesHeld)
  BY <1>1, SoundHeld
<1>3. Sound(bucket_for, cache, 0, Touch(stack, k), PagesHeld)
  BY <1>2, ZeroSound
<1> QED BY <1>1, <1>3

\* A page that could not be indexed leaves everything as it was.
LEMMA NotIndexedKeeps ==
  ASSUME CInv, NEW k \in Keys,
         NEW e \in EntryAddrs \ cache.entry.live, NEW n \in ListAddrs \ cache.list.live,
         NotIndexed(k, e, n)
  PROVE  UNCHANGED <<blocks, capacity, cache, bucket_for, out, stack>>
<1>1. PICK page, s : Rep(bucket_for, cache, Buckets(capacity), s, stack, page)
  BY DEF CInv, Sound
<1>2. WithoutNode(WithNode(cache, k, e, n), e, n) = cache
  BY <1>1, NodeRefused
<1> QED BY <1>2 DEF NotIndexed

\* A request that fails changes nothing.
LEMMA FailedKeeps ==
  ASSUME CInv, Next, ret' \in {"NO_MEMORY", "INVALID_ARGUMENT", "INDEX_ERROR"}
  PROVE  UNCHANGED <<blocks, capacity, cache, bucket_for, out, stack>>
<1>1. CASE InvalidArgument
  BY <1>1 DEF InvalidArgument
<1>2. ASSUME NEW k \in Keys, NoMemory(k)
      PROVE  UNCHANGED <<blocks, capacity, cache, bucket_for, out, stack>>
  BY <1>2 DEF NoMemory
<1>3. ASSUME NEW k \in Keys,
             NEW e \in EntryAddrs \ cache.entry.live, NEW n \in ListAddrs \ cache.list.live,
             NotIndexed(k, e, n)
      PROVE  UNCHANGED <<blocks, capacity, cache, bucket_for, out, stack>>
  BY <1>3, NotIndexedKeeps
<1>4. CASE \E ok \in SUBSET AllBlocks, cap \in Capacities :
             \E f \in [Keys -> Buckets(cap)] : lru_create(ok, cap, f)
  BY <1>4 DEF lru_create
<1>5. CASE lru_destroy
  BY <1>5 DEF lru_destroy
<1>6. ASSUME NEW k \in Keys, Hit(k) \/ (\E p \in Pages : ZeroCapacity(k, p))
      PROVE  FALSE
  BY <1>6 DEF Hit, ZeroCapacity
<1>7. ASSUME NEW k \in Keys, NEW p \in Pages, NEW e, NEW n, NEW h, Miss(k, p, e, n, h)
      PROVE  FALSE
  BY <1>7 DEF Miss
<1> QED BY <1>1, <1>2, <1>3, <1>4, <1>5, <1>6, <1>7 DEF Next, lookup_update

\* A cache that was created, or could not be, is empty.
LEMMA CreateKeeps ==
  ASSUME NEW ok \in SUBSET AllBlocks, NEW cap \in Capacities, NEW f \in [Keys -> Buckets(cap)],
         lru_create(ok, cap, f)
  PROVE  /\ CInv'
         /\ \A page : Sound(bucket_for', cache', capacity', stack', page)
<1>1. /\ blocks' = IF Created(ok) = AllBlocks THEN AllBlocks
                   ELSE Created(ok) \ {"cache", "list", "map", "buckets"}
      /\ capacity' = cap /\ cache' = EmptyCache(cap) /\ bucket_for' = f /\ stack' = << >>
  BY DEF lru_create
<1>2. blocks' \in {{}, AllBlocks}
  <2>1. Created(ok) \subseteq AllBlocks
    BY DEF Created, AllBlocks
  <2> QED BY <1>1, <2>1 DEF AllBlocks
<1>3. cap \in Nat
  BY CapacityAssumption
<1>4. ASSUME NEW page PROVE Sound(bucket_for', cache', capacity', stack', page)
  BY <1>1, <1>3, CreatedSound
<1>5. cache'.size = 0
  BY <1>1 DEF EmptyCache
<1> QED BY <1>1, <1>2, <1>3, <1>4, <1>5 DEF CInv

\* A cache that was destroyed is empty too.
LEMMA DestroyKeeps ==
  ASSUME CInv, lru_destroy
  PROVE  /\ CInv'
         /\ \E page : Sound(bucket_for', cache', capacity', stack', page)
<1>1. /\ cache' = LET d == Drained(cache) IN [d EXCEPT !.map.live = @ \ InChains(d.map)]
      /\ blocks' = {} /\ stack' = << >> /\ capacity' = capacity /\ bucket_for' = bucket_for
  BY DEF lru_destroy
<1>2. PICK page : Sound(bucket_for, cache, capacity, stack, page)
  BY DEF CInv
<1>3. capacity \in Nat
  BY DEF CInv
<1>4. Sound(bucket_for, LET d == Drained(cache) IN [d EXCEPT !.map.live = @ \ InChains(d.map)],
            capacity, << >>, page)
  BY <1>2, <1>3, DestroyedSound
<1>5. Sound(bucket_for', cache', capacity', stack', page)
  BY <1>1, <1>4
<1>6. PICK s : cache'.size = Len(s) /\ Len(s) = IF Len(stack') <= capacity' THEN Len(stack') ELSE capacity'
  BY <1>5 DEF Sound
<1>7. cache'.size = 0
  BY <1>1, <1>3, <1>6
<1> QED BY <1>1, <1>3, <1>5, <1>7 DEF CInv

LEMMA CInitInv == Init => CInv
<1> SUFFICES ASSUME Init PROVE CInv
  OBVIOUS
<1>1. /\ blocks = {} /\ capacity = 0 /\ cache = EmptyCache(0) /\ stack = << >>
      /\ bucket_for \in [Keys -> Buckets(0)]
  BY DEF Init, Buckets
<1>2. Sound(bucket_for, cache, capacity, stack, NULL)
  BY <1>1, CreatedSound
<1>3. cache.size = 0
  BY <1>1 DEF EmptyCache
<1> QED BY <1>1, <1>2, <1>3 DEF CInv

LEMMA CStepInv ==
  ASSUME CInv, Next
  PROVE  CInv'
<1>0. /\ blocks \in {{}, AllBlocks} /\ capacity \in Nat
      /\ blocks = {} => cache.size = 0
      /\ Sound(bucket_for, cache, capacity, stack, PagesHeld)
      /\ AllBlocks # {}
  BY SoundHeld DEF CInv, AllBlocks
<1>1. ASSUME UNCHANGED <<blocks, capacity, cache, bucket_for, out, stack>> PROVE CInv'
  BY <1>0, <1>1 DEF CInv
<1>2. ASSUME NEW page, Sound(bucket_for', cache', capacity', stack', page),
             capacity' = capacity, blocks' = blocks, blocks = AllBlocks
      PROVE  CInv'
  BY <1>0, <1>2 DEF CInv
<1>3. CASE \E ok \in SUBSET AllBlocks, cap \in Capacities :
             \E f \in [Keys -> Buckets(cap)] : lru_create(ok, cap, f)
  BY <1>3, CreateKeeps
<1>4. CASE lru_destroy
  BY <1>4, DestroyKeeps
<1>5. CASE InvalidArgument
  BY <1>1, <1>5 DEF InvalidArgument
<1>6. ASSUME NEW k \in Keys, NEW p \in Pages, ZeroCapacity(k, p) PROVE CInv'
  BY <1>2, <1>6, ZeroKeeps DEF ZeroCapacity
<1>7. ASSUME NEW k \in Keys, Hit(k) PROVE CInv'
  BY <1>2, <1>7, HitKeeps
<1>8. ASSUME NEW k \in Keys, NoMemory(k) PROVE CInv'
  BY <1>1, <1>8 DEF NoMemory
<1>9. ASSUME NEW k \in Keys,
             NEW e \in EntryAddrs \ cache.entry.live, NEW n \in ListAddrs \ cache.list.live,
             NotIndexed(k, e, n)
      PROVE  CInv'
  BY <1>1, <1>9, NotIndexedKeeps
<1>10. ASSUME NEW k \in Keys, NEW p \in Pages,
              NEW e \in EntryAddrs \ cache.entry.live, NEW n \in ListAddrs \ cache.list.live,
              NEW h \in MapAddrs \ cache.map.live, Miss(k, p, e, n, h)
       PROVE  CInv'
  BY <1>2, <1>10, MissKeeps
<1> QED BY <1>3, <1>4, <1>5, <1>6, <1>7, <1>8, <1>9, <1>10 DEF Next, lookup_update

\* The invariant gives the properties of list, index and blocks.
LEMMA CInvProperties ==
  ASSUME CInv
  PROVE  RingSound /\ IndexAgrees /\ NoLeak
<1>1. PICK page : Sound(bucket_for, cache, capacity, stack, page)
  BY DEF CInv
<1>2. RingSound /\ IndexAgrees
  BY <1>1, SoundRing, SoundIndex
<1>3. NoLeak
  BY <1>1, SoundBlocks DEF NoLeak, CInv
<1> QED BY <1>2, <1>3

IP == INSTANCE LruIntrusiveProofs
  WITH Keys <- MoreKeys, Capacities <- MoreCapacities,
       list <- cache, map <- out, used <- ret, result <- r1, asserted <- r2

-----------------------------------------------------------------------------
(* lru-in-c-datastructs, with the invariant of LruIntrusiveProofs.         *)

LEMMA IntrusiveConstants ==
  /\ IP!ConstantsRight /\ MoreCapacities \subseteq Nat /\ NoPage \notin Pages
  /\ Keys \subseteq MoreKeys
BY IntrusiveAssumption, NoPageAssumption DEF IP!ConstantsRight, Intrusive!ConstantsRight,
   IP!Entries, Intrusive!Entries

LEMMA IntrusiveTouch == \A s, k : Intrusive!Touch(s, k) = IP!Touch(s, k)
BY DEF Intrusive!Touch, IP!Touch, Intrusive!Elems, IP!Elems, Intrusive!PushFront, IP!PushFront,
       Intrusive!MoveToFront, IP!MoveToFront, Intrusive!PositionOf, IP!PositionOf

LEMMA IntrusiveChain ==
  /\ \A m, b : Intrusive!Chain(m, b) = IP!Chain(m, b)
  /\ \A m, b : Intrusive!InChain(m, b) = IP!InChain(m, b)
  /\ \A m, k : Intrusive!int_map_find(m, k) = IP!int_map_find(m, k)
<1>1. \A m, b : Intrusive!Chain(m, b) = IP!Chain(m, b)
  BY DEF Intrusive!Chain, IP!Chain
<1>2. \A m, b : Intrusive!InChain(m, b) = IP!InChain(m, b)
  BY <1>1 DEF Intrusive!InChain, IP!InChain
<1>3. \A m, k : Intrusive!int_map_find(m, k) = IP!int_map_find(m, k)
  BY DEF Intrusive!int_map_find, IP!int_map_find, Intrusive!Chain, IP!Chain
<1> QED BY <1>1, <1>2, <1>3

LEMMA IntrusiveMap ==
  /\ \A m, e : Intrusive!int_map_remove(m, e) = IP!int_map_remove(m, e)
  /\ \A m, e : Intrusive!Refused(m, e) = IP!Refused(m, e)
  /\ \A m, e : Intrusive!int_map_insert(m, e) = IP!int_map_insert(m, e)
  /\ \A m : Intrusive!Unlinked(m) = IP!Unlinked(m)
<1>1. \A m, e : Intrusive!int_map_remove(m, e) = IP!int_map_remove(m, e)
  BY DEF Intrusive!int_map_remove, IP!int_map_remove, Intrusive!Assign, IP!Assign
<1>2. \A m, e : Intrusive!Refused(m, e) = IP!Refused(m, e)
  BY IntrusiveChain DEF Intrusive!Refused, IP!Refused
<1>3. \A m, e : Intrusive!int_map_insert(m, e) = IP!int_map_insert(m, e)
  BY <1>2 DEF Intrusive!int_map_insert, IP!int_map_insert
<1>4. \A m : Intrusive!Unlinked(m) = IP!Unlinked(m)
  BY DEF Intrusive!Unlinked, IP!Unlinked, Intrusive!int_map_remove, IP!int_map_remove,
         Intrusive!Assign, IP!Assign
<1> QED BY <1>1, <1>2, <1>3, <1>4

LEMMA IntrusiveList ==
  /\ \A l, x : Intrusive!list_push_front(l, x) = IP!list_push_front(l, x)
  /\ \A l, x : Intrusive!list_remove(l, x) = IP!list_remove(l, x)
BY DEF Intrusive!list_push_front, IP!list_push_front, Intrusive!list_remove, IP!list_remove

LEMMA IntrusiveSizes ==
  /\ \A c : Intrusive!EmptyList(c) = IP!EmptyList(c)
  /\ \A c : Intrusive!EmptyMap(c) = IP!EmptyMap(c)
  /\ \A c : Intrusive!HashFunctions(c) = IP!HashFunctions(c)
  /\ \A c : Intrusive!NeededBlocks(c) = IP!NeededBlocks(c)
  /\ \A kind : Intrusive!Outcome(kind) = IP!Outcome(kind)
  /\ (\A kind : Intrusive!Outcome(kind)' = IP!Outcome(kind)')
  /\ Intrusive!thePage = IP!thePage
BY DEF Intrusive!EmptyList, IP!EmptyList, Intrusive!EmptyMap, IP!EmptyMap,
       Intrusive!HashFunctions, IP!HashFunctions, Intrusive!NeededBlocks, IP!NeededBlocks,
       Intrusive!Outcome, IP!Outcome, Intrusive!thePage, IP!thePage,
       Intrusive!Links, IP!Links, Intrusive!Entries, IP!Entries, Intrusive!Buckets, IP!Buckets

LEMMA IntrusiveInit ==
  ASSUME Intrusive!Init
  PROVE  IP!Init
BY IntrusiveSizes DEF Intrusive!Init, IP!Init

LEMMA IntrusiveAccess ==
  ASSUME NEW k \in MoreKeys, Intrusive!lru_access(k)
  PROVE  IP!lru_access(k)
<1> USE IntrusiveSizes, IntrusiveTouch, IntrusiveChain, IntrusiveMap, IntrusiveList
<1>1. Intrusive!AccessZero(k) => IP!AccessZero(k)
  BY DEF Intrusive!AccessZero, IP!AccessZero
<1>2. Intrusive!AccessHit(k) => IP!AccessHit(k)
  BY DEF Intrusive!AccessHit, IP!AccessHit
<1>3. Intrusive!Absent(k) => IP!Absent(k)
  BY DEF Intrusive!Absent, IP!Absent
<1>4. ASSUME NEW e, NEW l, NEW m, Intrusive!TakeKey(k, e, l, m) PROVE IP!TakeKey(k, e, l, m)
  BY <1>4 DEF Intrusive!TakeKey, IP!TakeKey
<1>5. Intrusive!AccessFresh(k) => IP!AccessFresh(k)
  BY <1>3, <1>4 DEF Intrusive!AccessFresh, IP!AccessFresh
<1>6. Intrusive!AccessReuse(k) => IP!AccessReuse(k)
  BY <1>3, <1>4 DEF Intrusive!AccessReuse, IP!AccessReuse
<1> QED BY <1>1, <1>2, <1>5, <1>6 DEF Intrusive!lru_access, IP!lru_access

LEMMA IntrusiveNext ==
  ASSUME Intrusive!Next
  PROVE  IP!Next
<1>1. ASSUME NEW ok, NEW cap, NEW f, Intrusive!lru_create(ok, cap, f)
      PROVE  IP!lru_create(ok, cap, f)
  BY <1>1, IntrusiveSizes DEF Intrusive!lru_create, IP!lru_create
<1>2. Intrusive!lru_destroy => IP!lru_destroy
  BY IntrusiveSizes, IntrusiveMap DEF Intrusive!lru_destroy, IP!lru_destroy
<1> QED BY <1>1, <1>2, IntrusiveAccess, IntrusiveSizes DEF Intrusive!Next, IP!Next

LEMMA IntrusiveProperties ==
  /\ IP!ChainsSound => Intrusive!ChainsSound
  /\ IP!InsertAccepted => Intrusive!InsertAccepted
  /\ Intrusive!PagesHeld = IP!PagesHeld
<1>1. IP!ChainsSound => Intrusive!ChainsSound
  BY IntrusiveChain, IntrusiveSizes DEF IP!ChainsSound, Intrusive!ChainsSound, IP!InUse,
     Intrusive!InUse, IP!Entries, Intrusive!Entries, IP!Deref, Intrusive!Deref,
     IP!Buckets, Intrusive!Buckets
<1>2. IP!InsertAccepted => Intrusive!InsertAccepted
  BY DEF IP!InsertAccepted, Intrusive!InsertAccepted
<1>3. Intrusive!PagesHeld = IP!PagesHeld
  BY IntrusiveChain, IntrusiveSizes DEF IP!PagesHeld, Intrusive!PagesHeld
<1> QED BY <1>1, <1>2, <1>3

-----------------------------------------------------------------------------
(* Both caches.                                                            *)

\* Whichever the cache is, its own invariant holds.
AnyInv == /\ part \in {"c", "datastructs"}
          /\ part = "c" => CInv
          /\ part = "datastructs" => IP!IInv

LEMMA AnyInitInv ==
  ASSUME AnyInit
  PROVE  AnyInv
BY CInitInv, IntrusiveInit, IntrusiveConstants, IP!IInitInv DEF AnyInit, AnyInv

LEMMA AnyStepInv ==
  ASSUME AnyInv, [AnyNext]_anyVars
  PROVE  AnyInv'
<1>1. CASE UNCHANGED anyVars
  <2>1. (CInv <=> CInv') /\ (IP!IInv <=> IP!IInv') /\ part' = part
    BY <1>1 DEF anyVars, vars, CInv, IP!IInv
  <2> QED BY <2>1 DEF AnyInv
<1>2. CASE part = "c" /\ Next
  BY <1>2, CStepInv DEF AnyInv, AnyNext, anyVars
<1>3. CASE part = "datastructs" /\ Intrusive!Next
  <2>1. IP!IInv'
    BY <1>3, IntrusiveNext, IntrusiveConstants, IP!IStepInv DEF AnyInv
  <2> QED BY <1>3, <2>1 DEF AnyInv, AnyNext, anyVars
<1> QED BY <1>1, <1>2, <1>3 DEF AnyNext

\* The list and the index of both caches stay sound and in agreement.
THEOREM StructuresAlwaysSound == AnySpec => []StructuresSound
<1>1. AnyInv => StructuresSound
  <2>1. CInv => RingSound /\ IndexAgrees
    BY CInvProperties
  <2>2. IP!IInv => Intrusive!ChainsSound /\ Intrusive!InsertAccepted
    BY IntrusiveConstants, IntrusiveProperties, IP!InvChains
  <2> QED BY <2>1, <2>2 DEF AnyInv, StructuresSound
<1> QED BY <1>1, AnyInitInv, AnyStepInv, PTL DEF AnySpec

\* Whichever allocation fails, lru-in-c loses no block and shares none.
THEOREM BlocksAlwaysOwned == AnySpec => []BlocksOwned
<1>1. AnyInv => BlocksOwned
  BY CInvProperties DEF AnyInv, BlocksOwned
<1> QED BY <1>1, AnyInitInv, AnyStepInv, PTL DEF AnySpec

\* A request of lru-in-c that fails leaves the caller's page and the contents
\* of the cache as they were.
THEOREM FailuresNeverChange == AnySpec => FailuresChangeNothing
<1>1. ASSUME AnyInv, AnyNext, part = "c",
             ret' \in {"NO_MEMORY", "INVALID_ARGUMENT", "INDEX_ERROR"}
      PROVE  out' = out /\ Contents' = Contents
  <2>1. CInv /\ Next
    BY <1>1 DEF AnyInv, AnyNext
  <2>2. cache' = cache /\ out' = out
    BY <1>1, <2>1, FailedKeeps
  <2> QED BY <2>2 DEF Contents, Walk
<1>2. ASSUME AnyInv, [AnyNext]_anyVars
      PROVE  [part = "c" /\ ret' \in {"NO_MEMORY", "INVALID_ARGUMENT", "INDEX_ERROR"} =>
                out' = out /\ Contents' = Contents]_anyVars
  BY <1>1, <1>2
<1> QED BY <1>2, AnyInitInv, AnyStepInv, PTL DEF AnySpec, FailuresChangeNothing

-----------------------------------------------------------------------------
(* The abstract cache.                                                     *)

\* A recency list is the same for the abstract cache and for both of the others.
LEMMA SameRecency ==
  /\ \A s, k : AbstractLru!Touch(s, k) = Touch(s, k) /\ IP!Touch(s, k) = Touch(s, k)
  /\ \A s, c : AbstractLru!Resident(s, c) = Resident(s, c) /\ IP!Resident(s, c) = Resident(s, c)
  /\ \A s : IP!Distinct(s) <=> Distinct(s)
BY DEF AbstractLru!Touch, IP!Touch, Touch, AbstractLru!Elems, IP!Elems, Elems,
       AbstractLru!PushFront, IP!PushFront, PushFront,
       AbstractLru!MoveToFront, IP!MoveToFront, MoveToFront,
       AbstractLru!PositionOf, IP!PositionOf, PositionOf,
       AbstractLru!Resident, IP!Resident, Resident, IP!Distinct, Distinct

\* The pages of the keys that a cache of c pages holds after the requests of h.
Held(h, c, page) == [k \in MoreKeys |-> IF k \in Resident(h, c) THEN page[k] ELSE NoPage]

LEMMA NothingHeld ==
  ASSUME NEW h, NEW c, NEW page, c = 0 \/ h = << >>
  PROVE  Held(h, c, page) = [k \in MoreKeys |-> NoPage]
<1>1. Resident(h, c) = {}
  BY DEF Resident
<1> QED BY <1>1 DEF Held

\* A request that hits leaves the pages alone.
LEMMA HitHolds ==
  ASSUME NEW h \in Seq(MoreKeys), Distinct(h), NEW c \in Nat, NEW page,
         NEW k \in MoreKeys, k \in Resident(h, c)
  PROVE  Held(Touch(h, k), c, page) = Held(h, c, page)
<1>1. \A j : j \in Resident(Touch(h, k), c) <=> j \in Resident(h, c)
  BY ResidentTouched
<1> QED BY <1>1 DEF Held

\* The pages after the request of k brought page p in.
Brought(h, c, page, k, p) ==
  [j \in MoreKeys |-> IF j \notin Resident(Touch(h, k), c) THEN NoPage
                      ELSE IF j = k THEN p ELSE Held(h, c, page)[j]]

\* One that misses brings page p in, and the keys that stay resident keep theirs.
LEMMA MissHolds ==
  ASSUME NEW h \in Seq(MoreKeys), Distinct(h), NEW c \in Nat, NEW page, NEW page2, NEW p,
         NEW k \in MoreKeys, k \notin Resident(h, c),
         page2[k] = p, \A j \in MoreKeys : j \in Resident(h, c) /\ j # k => page2[j] = page[j]
  PROVE  Held(Touch(h, k), c, page2) = Brought(h, c, page, k, p)
<1>1. \A j \in Resident(Touch(h, k), c) : j = k \/ j \in Resident(h, c)
  BY ResidentTouched
<1>2. ASSUME NEW j \in MoreKeys
      PROVE  (IF j \in Resident(Touch(h, k), c) THEN page2[j] ELSE NoPage)
               = IF j \notin Resident(Touch(h, k), c) THEN NoPage
                 ELSE IF j = k THEN p ELSE Held(h, c, page)[j]
  BY <1>1 DEF Held
<1> QED BY <1>2, Zenon DEF Held, Brought

\* What a caller of the abstract cache sees of a step from pages to pages.
LEMMA ClearMaps ==
  ASSUME capacity' \in Nat, stack' = << >>, AllPagesHeld' = [k \in MoreKeys |-> NoPage],
         (IF part = "c" THEN Outcome ELSE r1)' = [kind |-> "none", value |-> NoPage]
  PROVE  AbstractLru!SpecNext
BY DEF AbstractLru!SpecNext, AbstractLru!Clear

LEMMA HitMaps ==
  ASSUME NEW page, NEW k \in MoreKeys, AllPagesHeld = Held(stack, capacity, page),
         AllPagesHeld' = Held(Touch(stack, k), capacity, page),
         k \in Resident(stack, capacity), capacity \in Nat,
         stack \in Seq(MoreKeys), Distinct(stack),
         stack' = Touch(stack, k), capacity' = capacity,
         (IF part = "c" THEN Outcome ELSE r1)' = [kind |-> "hit", value |-> page[k]]
  PROVE  AbstractLru!SpecNext
<1>1. AllPagesHeld' = AllPagesHeld /\ AllPagesHeld[k] = page[k]
  BY HitHolds DEF Held
<1> QED BY <1>1, SameRecency DEF AbstractLru!SpecNext, AbstractLru!Hit

LEMMA MissMaps ==
  ASSUME NEW page, NEW page2, NEW p \in Pages, NEW k \in MoreKeys,
         AllPagesHeld = Held(stack, capacity, page),
         AllPagesHeld' = Held(Touch(stack, k), capacity, page2),
         k \notin Resident(stack, capacity), capacity \in Nat,
         page2[k] = p,
         \A j \in MoreKeys : j \in Resident(stack, capacity) /\ j # k => page2[j] = page[j],
         stack \in Seq(MoreKeys), Distinct(stack),
         stack' = Touch(stack, k), capacity' = capacity,
         (IF part = "c" THEN Outcome ELSE r1)' = [kind |-> "miss", value |-> p]
  PROVE  AbstractLru!SpecNext
<1>1. AllPagesHeld' = [j \in MoreKeys |-> IF j \notin Resident(stack', capacity) THEN NoPage
                                          ELSE IF j = k THEN p ELSE AllPagesHeld[j]]
  <2>1. Held(Touch(stack, k), capacity, page2) = Brought(stack, capacity, page, k, p)
    BY MissHolds
  <2> QED BY <2>1 DEF Brought
<1> QED BY <1>1, SameRecency DEF AbstractLru!SpecNext, AbstractLru!Miss

-----------------------------------------------------------------------------
(* The step of lru-in-c.                                                   *)

LEMMA SoundStack ==
  ASSUME NEW f, NEW c, NEW cap, NEW q, NEW page, Sound(f, c, cap, q, page)
  PROVE  q \in Seq(Keys) /\ q \in Seq(MoreKeys) /\ Distinct(q)
<1>1. q \in Seq(Keys) /\ Distinct(q)
  BY DEF Sound, Rep, Agree
<1> QED BY <1>1, IntrusiveConstants

LEMMA SoundHolds ==
  \A page : part = "c" /\ capacity \in Nat /\ Sound(bucket_for, cache, capacity, stack, page)
              => AllPagesHeld = Held(stack, capacity, page)
<1> SUFFICES ASSUME NEW page, part = "c", capacity \in Nat,
                    Sound(bucket_for, cache, capacity, stack, page)
             PROVE  AllPagesHeld = Held(stack, capacity, page)
  OBVIOUS
<1>1. PagesHeld = [k \in Keys |-> IF k \in Resident(stack, capacity) THEN page[k] ELSE NoPage]
  BY SoundPages
<1>2. Resident(stack, capacity) \subseteq Keys
  BY SoundStack DEF Resident
<1>3. ASSUME NEW k \in MoreKeys
      PROVE  (IF k \in Keys THEN PagesHeld[k] ELSE NoPage)
               = IF k \in Resident(stack, capacity) THEN page[k] ELSE NoPage
  BY <1>1, <1>2
<1> QED BY <1>3, Zenon DEF AllPagesHeld, Held

LEMMA SoundHoldsNext ==
  (\A page : part = "c" /\ capacity \in Nat /\ Sound(bucket_for, cache, capacity, stack, page)
               => AllPagesHeld = Held(stack, capacity, page))'
BY SoundHolds, PTL

LEMMA CMaps ==
  ASSUME CInv, Next, part = "c", part' = part
  PROVE  AbstractLru!SpecNext
<1>1. /\ capacity \in Nat /\ Sound(bucket_for, cache, capacity, stack, PagesHeld)
      /\ AllPagesHeld = Held(stack, capacity, PagesHeld)
      /\ stack \in Seq(MoreKeys) /\ Distinct(stack) /\ Keys \subseteq MoreKeys
  <2>1. capacity \in Nat /\ Sound(bucket_for, cache, capacity, stack, PagesHeld)
    BY SoundHeld DEF CInv
  <2> QED BY <2>1, SoundHolds, SoundStack, IntrusiveConstants
<1>2. (IF part = "c" THEN Outcome ELSE r1)' = Outcome'
  OBVIOUS
<1>3. CASE UNCHANGED <<blocks, capacity, cache, bucket_for, out, stack>>
           /\ ret' \in {"NO_MEMORY", "INVALID_ARGUMENT", "INDEX_ERROR"}
  <2>1. Outcome' = [kind |-> "error", value |-> NoPage]
    BY <1>3 DEF Outcome
  <2>2. AllPagesHeld' = AllPagesHeld
    <3>1. PagesHeld' = PagesHeld
      BY <1>3 DEF PagesHeld, hash_map_find, Stop, Chain, ChainAt
    <3>2. part' # "c" => FALSE
      OBVIOUS
    <3> QED BY <3>1 DEF AllPagesHeld
  <2> QED BY <1>2, <1>3, <2>1, <2>2 DEF AbstractLru!SpecNext, AbstractLru!Fail
<1>4. ASSUME NEW page, capacity' \in Nat, stack' = << >>, ret' = "none",
             Sound(bucket_for', cache', capacity', stack', page)
      PROVE  AbstractLru!SpecNext
  <2>1. AllPagesHeld' = Held(stack', capacity', page)
    BY <1>4, SoundHoldsNext
  <2>2. AllPagesHeld' = [k \in MoreKeys |-> NoPage]
    BY <1>4, <2>1, NothingHeld
  <2>3. Outcome' = [kind |-> "none", value |-> NoPage]
    BY <1>4 DEF Outcome
  <2> QED BY <1>2, <1>4, <2>2, <2>3, ClearMaps
<1>5. CASE \E ok \in SUBSET AllBlocks, cap \in Capacities :
             \E f \in [Keys -> Buckets(cap)] : lru_create(ok, cap, f)
  <2>1. PICK ok \in SUBSET AllBlocks, cap \in Capacities :
               \E f \in [Keys -> Buckets(cap)] : lru_create(ok, cap, f)
    BY <1>5
  <2>2. /\ \A page : Sound(bucket_for', cache', capacity', stack', page)
        /\ capacity' = cap /\ stack' = << >> /\ ret' = "none" /\ cap \in Nat
    BY <2>1, CreateKeeps, CapacityAssumption DEF lru_create
  <2> QED BY <1>4, <2>2
<1>6. CASE lru_destroy
  <2>1. /\ \E page : Sound(bucket_for', cache', capacity', stack', page)
        /\ capacity' = capacity /\ stack' = << >> /\ ret' = "none"
    BY <1>6, DestroyKeeps DEF lru_destroy
  <2> QED BY <1>1, <1>4, <2>1
<1>7. ASSUME NEW k \in Keys, NEW p \in Pages, ZeroCapacity(k, p)
      PROVE  AbstractLru!SpecNext
  <2>1. /\ capacity = 0 /\ capacity' = capacity /\ stack' = Touch(stack, k) /\ ret' = "miss"
        /\ out' = p /\ Sound(bucket_for', cache', capacity', stack', PagesHeld)
    BY <1>7, ZeroKeeps DEF ZeroCapacity
  <2>2. AllPagesHeld' = [j \in MoreKeys |-> NoPage]
    BY <1>1, <2>1, SoundHoldsNext, NothingHeld
  <2>3. \A h : Resident(h, 0) = {}
    BY DEF Resident
  <2>4. Outcome' = [kind |-> "miss", value |-> p]
    BY <2>1 DEF Outcome
  <2>5. k \notin Resident(stack, capacity)
    BY <2>1, <2>3
  <2>6. AllPagesHeld' = [j \in MoreKeys |-> IF j \notin Resident(stack', capacity) THEN NoPage
                                            ELSE IF j = k THEN p ELSE AllPagesHeld[j]]
    BY <2>1, <2>2, <2>3
  <2>7. AbstractLru!Miss(k, p)
    BY <1>2, <2>1, <2>4, <2>5, <2>6, SameRecency DEF AbstractLru!Miss
  <2> QED BY <1>1, <2>7 DEF AbstractLru!SpecNext
<1>8. ASSUME NEW k \in Keys, Hit(k)
      PROVE  AbstractLru!SpecNext
  <2>1. /\ Sound(bucket_for', cache', capacity', stack', PagesHeld)
        /\ k \in Resident(stack, capacity) /\ out' = PagesHeld[k]
        /\ capacity' = capacity /\ stack' = Touch(stack, k) /\ ret' = "hit"
    BY <1>8, HitKeeps DEF Hit
  <2>2. AllPagesHeld' = Held(Touch(stack, k), capacity, PagesHeld)
    BY <1>1, <2>1, SoundHoldsNext
  <2>3. Outcome' = [kind |-> "hit", value |-> PagesHeld[k]]
    BY <2>1 DEF Outcome
  <2> QED BY <1>1, <1>2, <2>1, <2>2, <2>3, HitMaps
<1>9. ASSUME NEW k \in Keys, NEW p \in Pages,
             NEW e \in EntryAddrs \ cache.entry.live, NEW n \in ListAddrs \ cache.list.live,
             NEW h \in MapAddrs \ cache.map.live, Miss(k, p, e, n, h)
      PROVE  AbstractLru!SpecNext
  <2> DEFINE page2 == [PagesHeld EXCEPT ![k] = p]
  <2>1. Sound(bucket_for', cache', capacity', stack', page2)
    BY <1>9, MissKeeps
  <2>2. /\ k \notin Resident(stack, capacity)
        /\ capacity' = capacity /\ stack' = Touch(stack, k) /\ ret' = "miss" /\ out' = p
    BY <1>9, MissKeeps DEF Miss
  <2>3. page2[k] = p
    BY DEF PagesHeld
  <2>4. \A j \in MoreKeys : j # k => page2[j] = PagesHeld[j]
    <3>1. ASSUME NEW j \in MoreKeys, j # k PROVE page2[j] = PagesHeld[j]
      <4>1. CASE j \in Keys
        BY <3>1, <4>1 DEF PagesHeld
      <4> QED BY <3>1, <4>1
    <3> QED BY <3>1
  <2> HIDE DEF page2
  <2>5. AllPagesHeld' = Held(Touch(stack, k), capacity, page2)
    BY <1>1, <2>1, <2>2, SoundHoldsNext
  <2>6. Outcome' = [kind |-> "miss", value |-> p]
    BY <2>2 DEF Outcome
  <2> QED BY <1>1, <1>2, <2>2, <2>3, <2>4, <2>5, <2>6, MissMaps
<1> QED
  <2>1. ASSUME ret' \in {"NO_MEMORY", "INVALID_ARGUMENT", "INDEX_ERROR"}
        PROVE  AbstractLru!SpecNext
    BY <1>3, <2>1, FailedKeeps
  <2>2. InvalidArgument => ret' = "INVALID_ARGUMENT"
    BY DEF InvalidArgument
  <2>3. \A k \in Keys : NoMemory(k) => ret' = "NO_MEMORY"
    BY DEF NoMemory
  <2>4. \A k, e, n : NotIndexed(k, e, n) => ret' \in {"NO_MEMORY", "INDEX_ERROR"}
    BY DEF NotIndexed
  <2> QED BY <1>5, <1>6, <1>7, <1>8, <1>9, <2>1, <2>2, <2>3, <2>4 DEF Next, lookup_update

-----------------------------------------------------------------------------
(* The step of lru-in-c-datastructs.                                       *)

\* The one page it keeps, for every key.
OnePage == [k \in MoreKeys |-> IP!thePage]

LEMMA IntrusiveHolds ==
  part = "datastructs" /\ IP!IInv => AllPagesHeld = Held(stack, capacity, OnePage)
<1> SUFFICES ASSUME part = "datastructs", IP!IInv
             PROVE  AllPagesHeld = Held(stack, capacity, OnePage)
  OBVIOUS
<1>1. IP!PagesHeld = [k \in MoreKeys |-> IF k \in IP!Resident(stack, capacity) THEN IP!thePage
                                         ELSE NoPage]
  BY IntrusiveConstants, IP!InvPages
<1> QED BY <1>1, IntrusiveProperties, SameRecency DEF AllPagesHeld, Held, OnePage

LEMMA IntrusiveHoldsNext ==
  (part = "datastructs" /\ IP!IInv => AllPagesHeld = Held(stack, capacity, OnePage))'
BY IntrusiveHolds, PTL

LEMMA IntrusiveMaps ==
  ASSUME IP!IInv, Intrusive!Next, part = "datastructs", part' = part
  PROVE  AbstractLru!SpecNext
<1>1. IP!Cleared \/ \E k \in MoreKeys : IP!Answered(k)
  BY IntrusiveConstants, IntrusiveNext, IP!CallAnswers
<1>2. /\ AllPagesHeld = Held(stack, capacity, OnePage)
      /\ AllPagesHeld' = Held(stack', capacity', OnePage)
  <2>1. IP!IInv'
    BY IntrusiveConstants, IntrusiveNext, IP!IStepInv
  <2>2. OnePage' = OnePage
    BY DEF OnePage, IP!thePage
  <2> QED BY <2>1, <2>2, IntrusiveHolds, IntrusiveHoldsNext
<1>3. /\ capacity \in Nat /\ stack \in Seq(MoreKeys) /\ Distinct(stack)
      /\ IP!thePage \in Pages
  <2>1. IP!thePage \in Pages
    BY IntrusiveConstants DEF IP!ConstantsRight, IP!thePage
  <2> QED BY <2>1, IntrusiveConstants, SameRecency DEF IP!IInv
<1>4. (IF part = "c" THEN Outcome ELSE r1)' = r1'
  OBVIOUS
<1>5. \A k \in MoreKeys : OnePage[k] = IP!thePage
  BY DEF OnePage
<1>6. CASE IP!Cleared
  <2>1. AllPagesHeld' = [k \in MoreKeys |-> NoPage]
    BY <1>2, <1>6, NothingHeld DEF IP!Cleared
  <2> QED BY <1>4, <1>6, <2>1, ClearMaps DEF IP!Cleared
<1>7. ASSUME NEW k \in MoreKeys, IP!Answered(k)
      PROVE  AbstractLru!SpecNext
  <2>1. capacity' = capacity /\ stack' = Touch(stack, k)
    BY <1>7, SameRecency DEF IP!Answered
  <2>2. CASE capacity = 0 /\ r1' = [kind |-> "miss", value |-> NoPage]
    <3>1. AllPagesHeld' = AllPagesHeld
      BY <1>2, <2>1, <2>2, NothingHeld
    <3>2. AbstractLru!Bypass(k)
      BY <1>4, <2>1, <2>2, <3>1, SameRecency DEF AbstractLru!Bypass
    <3> QED BY <3>2 DEF AbstractLru!SpecNext
  <2>3. CASE k \in Resident(stack, capacity) /\ r1' = [kind |-> "hit", value |-> IP!thePage]
    <3>1. (IF part = "c" THEN Outcome ELSE r1)' = [kind |-> "hit", value |-> OnePage[k]]
      BY <1>4, <1>5, <2>3
    <3> QED BY <1>2, <1>3, <2>1, <2>3, <3>1, HitMaps
  <2>4. CASE k \notin Resident(stack, capacity) /\ r1' = [kind |-> "miss", value |-> IP!thePage]
    <3>1. (IF part = "c" THEN Outcome ELSE r1)' = [kind |-> "miss", value |-> IP!thePage]
      BY <1>4, <2>4
    <3>2. AllPagesHeld' = Held(Touch(stack, k), capacity, OnePage)
      BY <1>2, <2>1
    <3>3. OnePage[k] = IP!thePage
      BY <1>5
    <3> QED BY <1>2, <1>3, <2>1, <2>4, <3>1, <3>2, <3>3, MissMaps
  <2> QED BY <1>7, <2>2, <2>3, <2>4, SameRecency DEF IP!Answered
<1> QED BY <1>1, <1>6, <1>7

\* Both caches answer every request as the abstract LRU cache would: from the
\* history of requests alone, whatever failed, collided or was reused meanwhile.
THEOREM CachesAreLru == AnySpec => CachesImplementLru
<1>1. AnyInit => AbstractLru!SpecInit
  <2> SUFFICES ASSUME AnyInit PROVE AbstractLru!SpecInit
    OBVIOUS
  <2>1. AnyInv
    BY AnyInitInv
  <2>2. CASE part = "c" /\ Init
    <3>1. AllPagesHeld = [k \in MoreKeys |-> NoPage]
      <4>1. AllPagesHeld = Held(stack, capacity, PagesHeld)
        BY <2>1, <2>2, SoundHeld, SoundHolds DEF AnyInv, CInv
      <4> QED BY <2>2, <4>1, NothingHeld DEF Init
    <3> QED BY <2>2, <3>1 DEF Init, AbstractLru!SpecInit, Outcome
  <2>3. CASE part = "datastructs" /\ Intrusive!Init
    <3>1. AllPagesHeld = [k \in MoreKeys |-> NoPage]
      <4>1. AllPagesHeld = Held(stack, capacity, OnePage)
        BY <2>1, <2>3, IntrusiveHolds DEF AnyInv
      <4> QED BY <2>3, <4>1, NothingHeld DEF Intrusive!Init
    <3> QED BY <2>3, <3>1 DEF Intrusive!Init, Intrusive!Outcome, AbstractLru!SpecInit
  <2> QED BY <2>2, <2>3 DEF AnyInit
<1>2. AnyInv /\ [AnyNext]_anyVars => [AbstractLru!SpecNext]_(AbstractLru!specVars)
  <2> SUFFICES ASSUME AnyInv, [AnyNext]_anyVars
               PROVE  [AbstractLru!SpecNext]_(AbstractLru!specVars)
    OBVIOUS
  <2>1. CASE AnyNext /\ part = "c"
    BY <2>1, CMaps DEF AnyInv, AnyNext
  <2>2. CASE AnyNext /\ part = "datastructs"
    BY <2>2, IntrusiveMaps DEF AnyInv, AnyNext
  <2>3. CASE UNCHANGED anyVars
    <3>1. AllPagesHeld' = AllPagesHeld
      <4>1. PagesHeld' = PagesHeld
        BY <2>3 DEF anyVars, vars, PagesHeld, hash_map_find, Stop, Chain, ChainAt
      <4>2. Intrusive!PagesHeld' = Intrusive!PagesHeld
        BY <2>3 DEF anyVars, vars, Intrusive!PagesHeld, Intrusive!int_map_find, Intrusive!Chain,
           Intrusive!thePage
      <4> QED BY <2>3, <4>1, <4>2 DEF anyVars, AllPagesHeld
    <3>2. (IF part = "c" THEN Outcome ELSE r1)' = IF part = "c" THEN Outcome ELSE r1
      BY <2>3 DEF anyVars, vars, Outcome
    <3> QED BY <2>3, <3>1, <3>2 DEF anyVars, vars, AbstractLru!specVars
  <2> QED BY <2>1, <2>2, <2>3 DEF AnyInv
<1> QED BY <1>1, <1>2, AnyInitInv, AnyStepInv, PTL DEF AnySpec, CachesImplementLru, AbstractLru!Spec
=============================================================================
