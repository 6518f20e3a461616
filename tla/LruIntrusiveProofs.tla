------------------------- MODULE LruIntrusiveProofs -------------------------
(***************************************************************************)
(* Proofs about the LRU cache of 01-basics/lru-in-c-datastructs: the list  *)
(* and the map that thread the entries represent a sequence and the chains *)
(* of the buckets, through removal, reuse and destruction.                 *)
(***************************************************************************)
EXTENDS LruIntrusive, LruLemmas

\* The nodes, the sentinel and NULL are apart (ConstantsRight, for one capacity).
Apart(c) == /\ c \in Nat
            /\ Sentinel \notin Entries(c)
            /\ NULL \notin Entries(c)
            /\ \A i \in Entries(c) : NULL # <<"bucket", i>> /\ NULL # <<"next", i>>

LEMMA CapacityApart ==
  ASSUME ConstantsRight, NEW c \in Capacities \cup {0}
  PROVE  Apart(c)
<1>1. CASE c \in Capacities
  BY <1>1 DEF ConstantsRight, Apart
<1>2. CASE c = 0
  <2>1. Entries(c) = {}
    BY <1>2 DEF Entries
  <2> QED BY <1>2, <2>1 DEF Apart
<1> QED BY <1>1, <1>2

-----------------------------------------------------------------------------
(* list.c                                                                  *)

ListType(c) == [prev : [Links(c) -> Links(c)], next : [Links(c) -> Links(c)]]

\* The list of a cache of c entries is the ring of s.
RingRep(l, c, s) ==
  /\ l \in ListType(c)
  /\ s \in Seq(Entries(c)) /\ Distinct(s)
  /\ Ring(l.next, l.prev, s, Sentinel)

\* A list only changes by what is done to its two arrays of pointers.
LEMMA LinkFields ==
  ASSUME NEW c, NEW l \in ListType(c), NEW x \in Links(c), NEW y \in Links(c)
  PROVE  /\ [l EXCEPT !.prev[x] = y] \in ListType(c)
         /\ [l EXCEPT !.next[x] = y] \in ListType(c)
BY DEF ListType

\* list_push_front links an entry that is not on the list in front of it.
LEMMA ListPushed ==
  ASSUME NEW c, Apart(c), NEW l, NEW s, RingRep(l, c, s), NEW x \in Entries(c), x \notin Elems(s)
  PROVE  RingRep(list_push_front(l, x), c, PushFront(s, x))
<1> DEFINE first == l.next[Sentinel]
           p == list_push_front(l, x)
<1>1. /\ l \in ListType(c) /\ s \in Seq(Entries(c)) /\ Distinct(s)
      /\ Ring(l.next, l.prev, s, Sentinel) /\ Sentinel \notin Entries(c)
  BY DEF RingRep, Apart
<1>2. first \in Elems(s) \cup {Sentinel} /\ first # x /\ x # Sentinel
  <2>1. first = At(s, 1, Sentinel)
    BY <1>1, RingEnds
  <2> QED BY <1>1, <2>1 DEF At, Elems
<1>3. Elems(s) \subseteq Entries(c)
  BY <1>1 DEF Elems
<1>4. /\ first \in Links(c) /\ x \in Links(c) /\ Sentinel \in Links(c)
      /\ l.prev \in [Links(c) -> Links(c)] /\ l.next \in [Links(c) -> Links(c)]
  BY <1>1, <1>2, <1>3 DEF ListType, Links
<1>5. /\ p \in ListType(c)
      /\ p.next = [[l.next EXCEPT ![x] = first] EXCEPT ![Sentinel] = x]
      /\ p.prev = [[l.prev EXCEPT ![x] = Sentinel] EXCEPT ![first] = x]
  BY <1>1, <1>4 DEF ListType, list_push_front
<1> HIDE DEF first, p
<1>6. /\ p.next[Sentinel] = x /\ p.next[x] = first
      /\ \A a \in Elems(s) : p.next[a] = l.next[a]
  BY <1>1, <1>2, <1>3, <1>4, <1>5 DEF Links
<1>7. /\ p.prev[x] = Sentinel /\ p.prev[first] = x
      /\ \A a \in Elems(s) \cup {Sentinel} : a # first => p.prev[a] = l.prev[a]
  BY <1>1, <1>2, <1>3, <1>4, <1>5 DEF Links
<1>8. Ring(p.next, p.prev, PushFront(s, x), Sentinel)
  <2>1. first = l.next[Sentinel]
    BY DEF first
  <2> QED BY <1>1, <1>6, <1>7, <2>1, RingPushed
<1>9. PushFront(s, x) \in Seq(Entries(c)) /\ Distinct(PushFront(s, x))
  BY <1>1, PushFrontType, PushFrontDistinct
<1> QED BY <1>5, <1>8, <1>9 DEF RingRep, p

\* list_remove takes the i-th entry off the list.
LEMMA ListRemoved ==
  ASSUME NEW c, Apart(c), NEW l, NEW s, RingRep(l, c, s), NEW i \in 1..Len(s)
  PROVE  RingRep(list_remove(l, s[i]), c, Removed(s, i))
<1> DEFINE x == s[i]
           before == l.prev[x]
           after == l.next[x]
           l1 == [l EXCEPT !.next[before] = after]
           l2 == [l1 EXCEPT !.prev[after] = before]
           r == list_remove(l, x)
<1>1. /\ l \in ListType(c) /\ s \in Seq(Entries(c)) /\ Distinct(s)
      /\ Ring(l.next, l.prev, s, Sentinel) /\ Sentinel \notin Entries(c)
  BY DEF RingRep, Apart
<1>2. /\ x \in Entries(c) /\ before # x /\ after # x
      /\ before \in Elems(s) \cup {Sentinel} /\ after \in Elems(s) \cup {Sentinel}
  BY <1>1, RingNeighbours
<1>3. Elems(s) \subseteq Entries(c)
  BY <1>1 DEF Elems
<1>4. /\ before \in Links(c) /\ after \in Links(c) /\ x \in Links(c) /\ Sentinel \in Links(c)
      /\ l.prev \in [Links(c) -> Links(c)] /\ l.next \in [Links(c) -> Links(c)]
  BY <1>1, <1>2, <1>3 DEF ListType, Links
<1>5. /\ l2 \in ListType(c)
      /\ l2.next = [l.next EXCEPT ![before] = after]
      /\ l2.prev = [l.prev EXCEPT ![after] = before]
  BY <1>1, <1>4 DEF ListType
<1>6. r = [l2 EXCEPT !.prev[x] = x, !.next[x] = x]
  <2>1. l1.prev = l.prev /\ l1.next = [l.next EXCEPT ![before] = after]
    BY <1>1, <1>4 DEF ListType
  <2>2. l1.next[x] = after /\ l1.prev[x] = before
    BY <1>2, <1>4, <2>1
  <2> QED BY <2>2 DEF list_remove
<1> HIDE DEF before, after, l1, l2, r, x
<1>7. /\ r \in ListType(c)
      /\ r.next = [l2.next EXCEPT ![x] = x] /\ r.prev = [l2.prev EXCEPT ![x] = x]
  BY <1>4, <1>5, <1>6 DEF ListType
<1>8. Ring(l2.next, l2.prev, Removed(s, i), Sentinel)
  <2>1. before = l.prev[s[i]] /\ after = l.next[s[i]]
    BY DEF before, after, x
  <2>2. /\ l2.next[before] = after
        /\ \A a \in Elems(s) \cup {Sentinel} : a # before => l2.next[a] = l.next[a]
    BY <1>3, <1>4, <1>5 DEF Links
  <2>3. /\ l2.prev[after] = before
        /\ \A a \in Elems(s) \cup {Sentinel} : a # after => l2.prev[a] = l.prev[a]
    BY <1>3, <1>4, <1>5 DEF Links
  <2> QED BY <1>1, <2>1, <2>2, <2>3, RingDetached
<1>9. /\ Removed(s, i) \in Seq(Entries(c)) /\ Distinct(Removed(s, i))
      /\ Elems(Removed(s, i)) = Elems(s) \ {x}
  BY <1>1, RemovedType, RemovedElems DEF x
<1>10. Ring(r.next, r.prev, Removed(s, i), Sentinel)
  <2>1. /\ l2.next \in [Links(c) -> Links(c)] /\ l2.prev \in [Links(c) -> Links(c)]
    BY <1>5 DEF ListType
  <2>2. \A a \in Elems(Removed(s, i)) \cup {Sentinel} :
          r.next[a] = l2.next[a] /\ r.prev[a] = l2.prev[a]
    BY <1>1, <1>2, <1>3, <1>7, <1>9, <2>1 DEF Links
  <2> QED BY <1>8, <1>9, <2>2, RingKept
<1> QED BY <1>7, <1>9, <1>10 DEF RingRep, x, r

\* Moving an entry to the front moves its place in the sequence.
LEMMA ListMoved ==
  ASSUME NEW c, Apart(c), NEW l, NEW s, RingRep(l, c, s), NEW i \in 1..Len(s)
  PROVE  RingRep(list_push_front(list_remove(l, s[i]), s[i]), c, MoveToFront(s, i))
<1>1. s \in Seq(Entries(c)) /\ Distinct(s) /\ s[i] \in Entries(c)
  BY DEF RingRep
<1>2. RingRep(list_remove(l, s[i]), c, Removed(s, i))
  BY ListRemoved
<1>3. s[i] \notin Elems(Removed(s, i))
  BY <1>1, RemovedElems
<1>4. RingRep(list_push_front(list_remove(l, s[i]), s[i]), c, PushFront(Removed(s, i), s[i]))
  BY <1>1, <1>2, <1>3, ListPushed
<1> QED BY <1>1, <1>4, MovedIsPushed

\* The list that calloc and list_init leave.
LEMMA ListEmpty ==
  ASSUME NEW c, Apart(c)
  PROVE  RingRep(EmptyList(c), c, << >>)
<1>1. EmptyList(c) \in ListType(c)
  BY DEF EmptyList, ListType
<1>2. Sentinel \in Links(c)
  BY DEF Links
<1>3. Ring(EmptyList(c).next, EmptyList(c).prev, << >>, Sentinel)
  BY <1>2 DEF EmptyList, Ring, At
<1> QED BY <1>1, <1>3 DEF RingRep, Distinct

-----------------------------------------------------------------------------
(* int_map.c                                                               *)

\* The pointers that may lead to an entry.
Pointers(c) == {<<"bucket", b>> : b \in Buckets(c)} \cup {<<"next", e>> : e \in Entries(c)}

MapType(c) == [buckets : [Buckets(c) -> Entries(c) \cup {NULL}],
               key : [Entries(c) -> Keys \cup {NULL}],
               next : [Entries(c) -> Entries(c) \cup {NULL}],
               prev_next : [Entries(c) -> Pointers(c) \cup {NULL}]]

\* The pointer to the entry at position i of the chain t of bucket b.
Owner(t, i, b) == IF i = 1 THEN <<"bucket", b>> ELSE <<"next", t[i - 1]>>

\* Bucket b leads along t, whose entries are in use, hash to b and know their owners.
ChainRep(m, f, b, t, U) ==
  /\ Distinct(t)
  /\ Chained(m.buckets[b], m.next, t, NULL)
  /\ \A i \in 1..Len(t) : /\ t[i] \in U /\ f[m.key[t[i]]] = b
                          /\ m.prev_next[t[i]] = Owner(t, i, b)

\* The map m of c entries holds those in U, bucket b in the chain q[b].
MapRep(m, f, c, q, U) ==
  /\ m \in MapType(c) /\ f \in [Keys -> Buckets(c)] /\ U \subseteq Entries(c)
  /\ q \in [Buckets(c) -> Seq(Entries(c))]
  /\ \A b \in Buckets(c) : ChainRep(m, f, b, q[b], U)
  /\ \A e \in U : m.key[e] \in Keys /\ e \in Elems(q[f[m.key[e]]])
  /\ \A e \in Entries(c) \ U : m.next[e] = NULL /\ m.prev_next[e] = NULL
  /\ \A d, e \in U : m.key[d] = m.key[e] => d = e

\* What int_map_remove does to an entry of a chain: its owner leads past it, the
\* next entry takes over its owner, and it is left linked nowhere.
Unlinks(r, m, c, b, t, i) ==
  /\ r \in MapType(c) /\ r.key = m.key
  /\ \A a \in Buckets(c) : r.buckets[a] = IF a = b /\ i = 1 THEN m.next[t[i]] ELSE m.buckets[a]
  /\ r.next[t[i]] = NULL /\ r.prev_next[t[i]] = NULL
  /\ \A a \in Entries(c) : a # t[i] =>
       /\ r.next[a] = IF i # 1 /\ a = t[i - 1] THEN m.next[t[i]] ELSE m.next[a]
       /\ r.prev_next[a] = IF a = m.next[t[i]] THEN Owner(t, i, b) ELSE m.prev_next[a]

LEMMA RemoveUnlinks ==
  ASSUME NEW c, Apart(c), NEW m, NEW f, NEW q, NEW U, MapRep(m, f, c, q, U),
         NEW b \in Buckets(c), NEW i \in 1..Len(q[b])
  PROVE  Unlinks(int_map_remove(m, q[b][i]), m, c, b, q[b], i)
<1> DEFINE t == q[b]
           e == t[i]
           x == m.next[e]
           m1 == Assign(m, m.prev_next[e], x)
           m2 == IF m1.next[e] = NULL THEN m1
                 ELSE [m1 EXCEPT !.prev_next[m1.next[e]] = m1.prev_next[e]]
           r == int_map_remove(m, e)
<1>1. /\ m \in MapType(c) /\ t \in Seq(Entries(c)) /\ Len(t) \in Nat /\ ChainRep(m, f, b, t, U)
      /\ NULL \notin Entries(c)
  BY DEF MapRep, Apart
<1>2. /\ Distinct(t) /\ Chained(m.buckets[b], m.next, t, NULL)
      /\ m.prev_next[e] = Owner(t, i, b) /\ e \in Entries(c)
  BY <1>1 DEF ChainRep
<1>3. /\ x = At(t, i + 1, NULL) /\ x \in Entries(c) \cup {NULL} /\ x # e
      /\ i # 1 => t[i - 1] \in Entries(c) /\ t[i - 1] # e
  <2>1. x = At(t, i + 1, NULL)
    BY <1>2 DEF Chained
  <2>2. x \in Entries(c) \cup {NULL} /\ x # e
    BY <1>1, <1>2, <2>1 DEF At, Distinct
  <2>3. i # 1 => i - 1 \in 1..Len(t)
    BY <1>1
  <2> QED BY <1>1, <1>2, <2>1, <2>2, <2>3 DEF Distinct
<1>4. r = [m2 EXCEPT !.next[e] = NULL, !.prev_next[e] = NULL]
  BY DEF int_map_remove
<1> HIDE DEF x, m1, m2, r, e
<1>5. /\ m1 \in MapType(c) /\ m1.key = m.key /\ m1.prev_next = m.prev_next
      /\ m1.buckets = IF i = 1 THEN [m.buckets EXCEPT ![b] = x] ELSE m.buckets
      /\ m1.next = IF i = 1 THEN m.next ELSE [m.next EXCEPT ![t[i - 1]] = x]
  <2>1. CASE i = 1
    <3>1. m1 = [m EXCEPT !.buckets[b] = x]
      BY <1>2, <2>1 DEF m1, Owner, Assign
    <3> QED BY <1>1, <1>3, <2>1, <3>1 DEF MapType
  <2>2. CASE i # 1
    <3>1. m1 = [m EXCEPT !.next[t[i - 1]] = x]
      BY <1>2, <2>2 DEF m1, Owner, Assign
    <3> QED BY <1>1, <1>3, <2>2, <3>1 DEF MapType
  <2> QED BY <2>1, <2>2
<1>6. m1.next[e] = x /\ m1.prev_next[e] = Owner(t, i, b) /\ Owner(t, i, b) \in Pointers(c)
  <2>1. m1.next[e] = x
    <3>1. CASE i = 1
      BY <1>5, <3>1 DEF x
    <3>2. CASE i # 1
      BY <1>1, <1>2, <1>3, <1>5, <3>2 DEF x, MapType
    <3> QED BY <3>1, <3>2
  <2>2. Owner(t, i, b) \in Pointers(c)
    BY <1>3 DEF Owner, Pointers
  <2> QED BY <1>2, <1>5, <2>1, <2>2
<1>7. /\ m2 \in MapType(c) /\ m2.key = m.key /\ m2.buckets = m1.buckets /\ m2.next = m1.next
      /\ m2.prev_next = IF x = NULL THEN m.prev_next
                        ELSE [m.prev_next EXCEPT ![x] = Owner(t, i, b)]
  <2>1. CASE x = NULL
    BY <1>5, <1>6, <2>1 DEF m2
  <2>2. CASE x # NULL
    <3>1. m2 = [m1 EXCEPT !.prev_next[x] = Owner(t, i, b)] /\ x \in Entries(c)
      BY <1>3, <1>6, <2>2 DEF m2
    <3> QED BY <1>5, <1>6, <2>2, <3>1 DEF MapType
  <2> QED BY <2>1, <2>2
<1>8. /\ r \in MapType(c) /\ r.key = m.key /\ r.buckets = m1.buckets
      /\ r.next = [m1.next EXCEPT ![e] = NULL]
      /\ r.prev_next = [m2.prev_next EXCEPT ![e] = NULL]
  BY <1>2, <1>4, <1>7 DEF MapType
<1>9. /\ m.buckets \in [Buckets(c) -> Entries(c) \cup {NULL}]
      /\ m.next \in [Entries(c) -> Entries(c) \cup {NULL}]
      /\ m1.next \in [Entries(c) -> Entries(c) \cup {NULL}]
      /\ m2.prev_next \in [Entries(c) -> Pointers(c) \cup {NULL}]
      /\ m.prev_next \in [Entries(c) -> Pointers(c) \cup {NULL}]
  BY <1>1, <1>5, <1>7 DEF MapType
<1>10. r.next[e] = NULL /\ r.prev_next[e] = NULL
  BY <1>2, <1>8, <1>9
<1>11. ASSUME NEW a \in Buckets(c)
       PROVE  r.buckets[a] = IF a = b /\ i = 1 THEN x ELSE m.buckets[a]
  BY <1>5, <1>8, <1>9
<1>12. ASSUME NEW a \in Entries(c), a # e
       PROVE  r.next[a] = IF i # 1 /\ a = t[i - 1] THEN x ELSE m.next[a]
  BY <1>5, <1>8, <1>9, <1>12
<1>13. ASSUME NEW a \in Entries(c), a # e
       PROVE  r.prev_next[a] = IF a = x THEN Owner(t, i, b) ELSE m.prev_next[a]
  BY <1>1, <1>7, <1>8, <1>9, <1>13
<1>14. x = m.next[t[i]] /\ e = t[i]
  BY DEF x, e
<1> QED BY <1>8, <1>10, <1>11, <1>12, <1>13, <1>14 DEF Unlinks, r

\* What the chains say of the entries: who is in use is in one place of one chain.
LEMMA ChainEntries ==
  ASSUME NEW m, NEW f, NEW c, NEW q, NEW U, MapRep(m, f, c, q, U), NEW b \in Buckets(c)
  PROVE  /\ q[b] \in Seq(Entries(c)) /\ Len(q[b]) \in Nat /\ Distinct(q[b])
         /\ Chained(m.buckets[b], m.next, q[b], NULL)
         /\ \A i \in 1..Len(q[b]) : /\ q[b][i] \in U /\ q[b][i] \in Entries(c)
                                    /\ f[m.key[q[b][i]]] = b
                                    /\ m.prev_next[q[b][i]] = Owner(q[b], i, b)
                                    /\ m.next[q[b][i]] = At(q[b], i + 1, NULL)
         /\ \A a \in Elems(q[b]) : a \in U /\ f[m.key[a]] = b
<1>1. /\ q[b] \in Seq(Entries(c)) /\ ChainRep(m, f, b, q[b], U) /\ U \subseteq Entries(c)
  BY DEF MapRep
<1> HIDE DEF MapRep
<1>2. /\ Distinct(q[b]) /\ Chained(m.buckets[b], m.next, q[b], NULL)
      /\ \A i \in 1..Len(q[b]) : /\ q[b][i] \in U /\ f[m.key[q[b][i]]] = b
                                 /\ m.prev_next[q[b][i]] = Owner(q[b], i, b)
  BY <1>1 DEF ChainRep
<1>3. \A i \in 1..Len(q[b]) : m.next[q[b][i]] = At(q[b], i + 1, NULL)
  BY <1>2 DEF Chained
<1>4. \A a \in Elems(q[b]) : a \in U /\ f[m.key[a]] = b
  BY <1>2 DEF Elems
<1> QED BY <1>1, <1>2, <1>3, <1>4

\* The entry removed is the only one to leave the map, and its chain closes up.
LEMMA EntryRemoved ==
  ASSUME NEW c, Apart(c), NEW m, NEW f, NEW q, NEW U, MapRep(m, f, c, q, U),
         NEW b \in Buckets(c), NEW i \in 1..Len(q[b])
  PROVE  MapRep(int_map_remove(m, q[b][i]), f, c, [q EXCEPT ![b] = Removed(q[b], i)],
                U \ {q[b][i]})
<1> DEFINE t == q[b]
           e == t[i]
           r == int_map_remove(m, e)
           t2 == Removed(t, i)
           q2 == [q EXCEPT ![b] = t2]
           U2 == U \ {e}
<1>1. /\ m \in MapType(c) /\ f \in [Keys -> Buckets(c)] /\ U \subseteq Entries(c)
      /\ q \in [Buckets(c) -> Seq(Entries(c))]
      /\ \A a \in U : m.key[a] \in Keys /\ a \in Elems(q[f[m.key[a]]])
      /\ \A a \in Entries(c) \ U : m.next[a] = NULL /\ m.prev_next[a] = NULL
      /\ \A d, a \in U : m.key[d] = m.key[a] => d = a
  BY DEF MapRep
<1>2. /\ t \in Seq(Entries(c)) /\ Len(t) \in Nat /\ Distinct(t)
      /\ Chained(m.buckets[b], m.next, t, NULL)
      /\ \A j \in 1..Len(t) : /\ t[j] \in U /\ t[j] \in Entries(c) /\ f[m.key[t[j]]] = b
                              /\ m.prev_next[t[j]] = Owner(t, j, b)
                              /\ m.next[t[j]] = At(t, j + 1, NULL)
      /\ NULL \notin Entries(c)
  BY ChainEntries DEF Apart
<1>3. Unlinks(r, m, c, b, t, i)
  BY RemoveUnlinks
<1>4. /\ t2 \in Seq(Entries(c)) /\ Len(t2) = Len(t) - 1 /\ Distinct(t2)
      /\ Elems(t2) = Elems(t) \ {e}
  BY <1>2, RemovedType, RemovedElems
<1>5. q2 \in [Buckets(c) -> Seq(Entries(c))] /\ q2[b] = t2 /\ \A a \in Buckets(c) : a # b => q2[a] = q[a]
  BY <1>1, <1>4
<1> DEFINE x == m.next[e]
<1>6. /\ e \in Entries(c) /\ e \in U /\ f[m.key[e]] = b /\ x = At(t, i + 1, NULL) /\ x # e
      /\ i # 1 => t[i - 1] \in U /\ f[m.key[t[i - 1]]] = b
      /\ x # NULL => x \in U /\ f[m.key[x]] = b
  <2>1. x = At(t, i + 1, NULL)
    BY <1>2
  <2>2. x # e
    BY <1>2, <2>1 DEF At, Distinct
  <2>3. x # NULL => x \in U /\ f[m.key[x]] = b
    BY <1>2, <2>1 DEF At
  <2>4. i # 1 => i - 1 \in 1..Len(t)
    BY <1>2
  <2> QED BY <1>2, <2>1, <2>2, <2>3, <2>4
<1>7. /\ r \in MapType(c) /\ r.key = m.key
      /\ \A a \in Buckets(c) : r.buckets[a] = IF a = b /\ i = 1 THEN x ELSE m.buckets[a]
      /\ r.next[e] = NULL /\ r.prev_next[e] = NULL
      /\ \A a \in Entries(c) : a # e =>
           /\ r.next[a] = IF i # 1 /\ a = t[i - 1] THEN x ELSE m.next[a]
           /\ r.prev_next[a] = IF a = x THEN Owner(t, i, b) ELSE m.prev_next[a]
  BY <1>3 DEF Unlinks
<1> HIDE DEF r, t2, q2, x, e
<1>8. Chained(r.buckets[b], r.next, t2, NULL)
  <2>1. i # 1 => r.next[t[i - 1]] = m.next[t[i]]
    <3>1. i # 1 => t[i - 1] \in Entries(c) /\ t[i - 1] # e
      <4>1. i # 1 => i - 1 \in 1..Len(t) /\ i - 1 # i
        BY <1>2
      <4> QED BY <1>2, <4>1 DEF Distinct, e
    <3> QED BY <1>7, <3>1 DEF x, e
  <2>2. \A j \in 1..Len(t) : j \notin {i - 1, i} => r.next[t[j]] = m.next[t[j]]
    <3> SUFFICES ASSUME NEW j \in 1..Len(t), j \notin {i - 1, i} PROVE r.next[t[j]] = m.next[t[j]]
      OBVIOUS
    <3>1. t[j] \in Entries(c) /\ t[j] # t[i] /\ (i # 1 => t[j] # t[i - 1])
      <4>1. i # 1 => i - 1 \in 1..Len(t)
        BY <1>2
      <4> QED BY <1>2, <4>1 DEF Distinct
    <3> QED BY <1>7, <3>1 DEF e
  <2>3. r.buckets[b] = IF i = 1 THEN m.next[t[1]] ELSE m.buckets[b]
    BY <1>7 DEF x, e
  <2> DEFINE ch == q[b]
             head == m.buckets[b]
             nx == m.next
             head2 == r.buckets[b]
             nx2 == r.next
  <2>4. /\ Chained(head, nx, ch, NULL) /\ i \in 1..Len(ch)
        /\ i # 1 => nx2[ch[i - 1]] = nx[ch[i]]
        /\ \A j \in 1..Len(ch) : j \notin {i - 1, i} => nx2[ch[j]] = nx[ch[j]]
        /\ head2 = IF i = 1 THEN nx[ch[1]] ELSE head
        /\ ch \in Seq(Entries(c)) /\ Distinct(ch) /\ NULL \notin Entries(c)
    BY <1>2, <2>1, <2>2, <2>3
  <2> HIDE DEF nx, nx2, head, head2, ch
  <2>5. Chained(head2, nx2, Removed(ch, i), NULL)
    BY <2>4, ChainRemoved
  <2> QED BY <2>5 DEF t2, ch, head2, nx2
<1>9. ASSUME NEW j \in 1..Len(t2)
      PROVE  t2[j] \in U2 /\ f[r.key[t2[j]]] = b /\ r.prev_next[t2[j]] = Owner(t2, j, b)
  <2> DEFINE n == IF j < i THEN j ELSE j + 1
  <2>1. n \in 1..Len(t) /\ n # i /\ t2[j] = t[n] /\ t[n] # e
    <3>1. n \in 1..Len(t) /\ n # i /\ j \in 1..(Len(t) - 1)
      BY <1>2, <1>4
    <3>2. t2[j] = t[n]
      BY <3>1 DEF t2, Removed
    <3> QED BY <1>2, <3>1, <3>2 DEF Distinct, e
  <2>2. t2[j] \in U2 /\ f[r.key[t2[j]]] = b
    BY <1>2, <1>7, <2>1
  <2>3. t[n] = x <=> n = i + 1
    BY <1>2, <1>6, <2>1 DEF At, Distinct
  <2>4. CASE n = i + 1
    <3>1. r.prev_next[t[n]] = Owner(t, i, b) /\ j = i
      BY <1>2, <1>7, <2>1, <2>3, <2>4
    <3>2. Owner(t2, j, b) = Owner(t, i, b)
      <4>1. i # 1 => i - 1 \in 1..Len(t2) /\ t2[i - 1] = t[i - 1]
        BY <1>2, <1>4, <3>1 DEF t2, Removed
      <4> QED BY <3>1, <4>1 DEF Owner
    <3> QED BY <2>1, <2>2, <3>1, <3>2
  <2>5. CASE n # i + 1
    <3>1. r.prev_next[t[n]] = Owner(t, n, b)
      BY <1>2, <1>7, <2>1, <2>3, <2>5
    <3>2. Owner(t2, j, b) = Owner(t, n, b)
      <4>1. CASE j < i
        <5>1. j # 1 => j - 1 \in 1..Len(t2) /\ t2[j - 1] = t[j - 1]
          BY <1>2, <1>4, <4>1 DEF t2, Removed
        <5> QED BY <4>1, <5>1 DEF Owner
      <4>2. CASE ~(j < i)
        <5>1. j # 1 /\ n # 1 /\ j - 1 \in 1..Len(t2) /\ t2[j - 1] = t[n - 1]
          BY <1>2, <1>4, <2>5, <4>2 DEF t2, Removed
        <5> QED BY <5>1 DEF Owner
      <4> QED BY <4>1, <4>2
    <3> QED BY <2>1, <2>2, <3>1, <3>2
  <2> QED BY <2>4, <2>5
<1>10. ChainRep(r, f, b, t2, U2)
  BY <1>4, <1>8, <1>9 DEF ChainRep
<1>11. ASSUME NEW d \in Buckets(c), d # b
       PROVE  ChainRep(r, f, d, q[d], U2)
  <2>1. /\ q[d] \in Seq(Entries(c)) /\ Distinct(q[d]) /\ Chained(m.buckets[d], m.next, q[d], NULL)
        /\ \A j \in 1..Len(q[d]) : /\ q[d][j] \in U /\ q[d][j] \in Entries(c) /\ f[m.key[q[d][j]]] = d
                                   /\ m.prev_next[q[d][j]] = Owner(q[d], j, d)
        /\ \A a \in Elems(q[d]) : a \in U /\ f[m.key[a]] = d
    BY ChainEntries
  <2>2. \A a \in Entries(c) : a \in U /\ f[m.key[a]] = d =>
          a # e /\ a # x /\ r.next[a] = m.next[a] /\ r.prev_next[a] = m.prev_next[a]
    BY <1>2, <1>6, <1>7, <1>11
  <2>3. Chained(r.buckets[d], r.next, q[d], NULL)
    <3>1. \A a \in Elems(q[d]) : r.next[a] = m.next[a]
      BY <1>1, <2>1, <2>2
    <3>2. r.buckets[d] = m.buckets[d]
      BY <1>7, <1>11
    <3> QED BY <2>1, <3>1, <3>2, ChainKept
  <2>4. \A j \in 1..Len(q[d]) : /\ q[d][j] \in U2 /\ f[r.key[q[d][j]]] = d
                                /\ r.prev_next[q[d][j]] = Owner(q[d], j, d)
    BY <1>7, <2>1, <2>2
  <2> QED BY <2>1, <2>3, <2>4 DEF ChainRep
<1>12. \A d \in Buckets(c) : ChainRep(r, f, d, q2[d], U2)
  BY <1>5, <1>10, <1>11
<1>13. \A a \in U2 : r.key[a] \in Keys /\ a \in Elems(q2[f[r.key[a]]])
  <2> SUFFICES ASSUME NEW a \in U2 PROVE r.key[a] \in Keys /\ a \in Elems(q2[f[r.key[a]]])
    OBVIOUS
  <2>1. m.key[a] \in Keys /\ a \in Elems(q[f[m.key[a]]]) /\ a # e /\ f[m.key[a]] \in Buckets(c)
    BY <1>1
  <2>2. CASE f[m.key[a]] = b
    BY <1>4, <1>5, <1>7, <2>1, <2>2
  <2>3. CASE f[m.key[a]] # b
    BY <1>5, <1>7, <2>1, <2>3
  <2> QED BY <2>2, <2>3
<1>14. \A a \in Entries(c) \ U2 : r.next[a] = NULL /\ r.prev_next[a] = NULL
  <2> SUFFICES ASSUME NEW a \in Entries(c) \ U2 PROVE r.next[a] = NULL /\ r.prev_next[a] = NULL
    OBVIOUS
  <2>1. CASE a = e
    BY <1>7, <2>1
  <2>2. CASE a # e
    <3>1. a \notin U
      BY <2>2
    <3>2. r.next[a] = m.next[a] /\ r.prev_next[a] = m.prev_next[a]
      <4>1. i # 1 => a # t[i - 1]
        BY <1>6, <3>1
      <4>2. a # x
        BY <1>2, <1>6, <3>1
      <4> QED BY <1>7, <2>2, <4>1, <4>2
    <3> QED BY <1>1, <3>1, <3>2
  <2> QED BY <2>1, <2>2
<1>15. \A d, a \in U2 : r.key[d] = r.key[a] => d = a
  BY <1>1, <1>7
<1>16. MapRep(r, f, c, q2, U2)
  <2>1. U2 \subseteq Entries(c)
    BY <1>1
  <2> HIDE DEF U2
  <2> QED BY <1>1, <1>5, <1>7, <1>12, <1>13, <1>14, <1>15, <2>1 DEF MapRep
<1> QED BY <1>16 DEF r, q2, t2, e

\* An entry in use can be removed, wherever it is.
Left(r, m, f, c, p, U) == MapRep(r, f, c, p, U) /\ r.key = m.key

LEMMA EntryLeaves ==
  ASSUME NEW c, Apart(c), NEW m, NEW f, NEW q, NEW U, MapRep(m, f, c, q, U), NEW e \in U
  PROVE  \E p : Left(int_map_remove(m, e), m, f, c, p, U \ {e})
<1> DEFINE b == f[m.key[e]]
<1>1. b \in Buckets(c) /\ e \in Elems(q[b])
  BY DEF MapRep
<1> HIDE DEF b
<1>2. PICK i \in 1..Len(q[b]) : q[b][i] = e
  BY <1>1 DEF Elems
<1> DEFINE p == [q EXCEPT ![b] = Removed(q[b], i)]
<1>3. MapRep(int_map_remove(m, q[b][i]), f, c, p, U \ {q[b][i]})
  BY <1>1, EntryRemoved
<1>4. int_map_remove(m, q[b][i]).key = m.key
  <2>1. Unlinks(int_map_remove(m, q[b][i]), m, c, b, q[b], i)
    BY <1>1, RemoveUnlinks
  <2> QED BY <2>1 DEF Unlinks
<1> HIDE DEF p
<1>5. Left(int_map_remove(m, q[b][i]), m, f, c, p, U \ {q[b][i]})
  BY <1>3, <1>4 DEF Left
<1> QED BY <1>2, <1>5

\* Walking a chain meets its entries in order.
LEMMA ChainIs ==
  ASSUME NEW m, NEW f, NEW q, NEW U, Apart(capacity), MapRep(m, f, capacity, q, U),
         NEW b \in Buckets(capacity)
  PROVE  Chain(m, b) = [i \in 0..capacity |-> At(q[b], i + 1, NULL)]
<1>1. /\ m \in MapType(capacity) /\ q[b] \in Seq(Entries(capacity)) /\ capacity \in Nat
      /\ Chained(m.buckets[b], m.next, q[b], NULL) /\ NULL \notin Entries(capacity)
  <2>1. m \in MapType(capacity)
    BY DEF MapRep
  <2> QED BY <2>1, ChainEntries DEF Apart
<1>2. /\ m.buckets[b] \in Entries(capacity) \cup {NULL}
      /\ m.next \in [Entries(capacity) -> Entries(capacity) \cup {NULL}]
  BY <1>1 DEF MapType
<1> DEFINE IsChain(g) ==
             g = [i \in 0..capacity |->
                    IF i = 0 THEN m.buckets[b]
                    ELSE LET e == g[i - 1] IN IF e = NULL THEN NULL ELSE m.next[e]]
<1>3. \A g : IsChain(g) <=> IsWalk(g, m.buckets[b], m.next, NULL, capacity)
  BY DEF IsWalk
<1>4. PICK g : IsChain(g)
  <2>1. \E g : IsWalk(g, m.buckets[b], m.next, NULL, capacity)
    BY <1>1, <1>2, WalkExists
  <2> QED BY <1>3, <2>1
<1>5. IsChain(Chain(m, b))
  BY <1>4, Zenon DEF Chain
<1>6. IsWalk(Chain(m, b), m.buckets[b], m.next, NULL, capacity)
  BY <1>3, <1>5
<1> QED BY <1>1, <1>6, ChainWalked

\* No chain is longer than the walks over it.
LEMMA ChainFits ==
  ASSUME NEW c, Apart(c), NEW m, NEW f, NEW q, NEW U, MapRep(m, f, c, q, U),
         NEW b \in Buckets(c)
  PROVE  Len(q[b]) \in 0..c
<1>1. q[b] \in Seq(Entries(c)) /\ Distinct(q[b]) /\ Len(q[b]) \in Nat /\ c \in Nat
  BY ChainEntries DEF Apart
<1>2. IsFiniteSet(Entries(c)) /\ Cardinality(Entries(c)) = c
  BY <1>1, FS_Interval DEF Entries
<1> QED BY <1>1, <1>2, DistinctLength

\* The walk over a bucket passes every entry of its chain, and no other.
LEMMA InChainIs ==
  ASSUME NEW m, NEW f, NEW q, NEW U, Apart(capacity), MapRep(m, f, capacity, q, U),
         NEW b \in Buckets(capacity)
  PROVE  InChain(m, b) = Elems(q[b])
<1>1. Chain(m, b) = [i \in 0..capacity |-> At(q[b], i + 1, NULL)]
  BY ChainIs
<1>2. /\ Len(q[b]) \in 0..capacity /\ capacity \in Nat /\ NULL \notin Entries(capacity)
      /\ \A i \in 1..Len(q[b]) : q[b][i] \in Entries(capacity)
  BY ChainFits, ChainEntries DEF Apart
<1>3. ASSUME NEW x PROVE x \in InChain(m, b) <=> x \in Elems(q[b])
  <2>1. ASSUME x \in InChain(m, b) PROVE x \in Elems(q[b])
    <3>1. PICK i \in 0..capacity : x = At(q[b], i + 1, NULL) /\ x # NULL
      BY <1>1, <2>1 DEF InChain
    <3> QED BY <1>2, <3>1 DEF At, Elems
  <2>2. ASSUME x \in Elems(q[b]) PROVE x \in InChain(m, b)
    <3>1. PICK i \in 1..Len(q[b]) : x = q[b][i]
      BY <2>2 DEF Elems
    <3>2. i - 1 \in 0..capacity /\ Chain(m, b)[i - 1] = x /\ x # NULL
      BY <1>1, <1>2, <3>1 DEF At
    <3> QED BY <3>2 DEF InChain
  <2> QED BY <2>1, <2>2
<1> QED BY <1>3

\* int_map_find finds a key where the map holds it, and nowhere else.
LEMMA FindIs ==
  ASSUME NEW m, NEW q, NEW U, Apart(capacity), MapRep(m, bucket_for, capacity, q, U),
         NEW k \in Keys
  PROVE  /\ \A e \in U : m.key[e] = k => int_map_find(m, k) = e
         /\ (\A e \in U : m.key[e] # k) => int_map_find(m, k) = NULL
<1> DEFINE b == bucket_for[k]
           at == Chain(m, b)
           found == {i \in 0..capacity : at[i] # NULL /\ m.key[at[i]] = k}
<1>1. /\ bucket_for \in [Keys -> Buckets(capacity)] /\ U \subseteq Entries(capacity)
      /\ \A e \in U : m.key[e] \in Keys /\ e \in Elems(q[bucket_for[m.key[e]]])
      /\ \A d, e \in U : m.key[d] = m.key[e] => d = e
      /\ capacity \in Nat /\ NULL \notin Entries(capacity)
  BY DEF MapRep, Apart
<1>2. b \in Buckets(capacity)
  BY <1>1
<1>3. at = [i \in 0..capacity |-> At(q[b], i + 1, NULL)]
  <2> HIDE DEF b
  <2> QED BY <1>2, ChainIs
<1>4. /\ Len(q[b]) \in 0..capacity
      /\ \A i \in 1..Len(q[b]) : q[b][i] \in Entries(capacity) /\ q[b][i] \in U
  BY <1>2, ChainFits, ChainEntries
<1>5. int_map_find(m, k) = IF found = {} THEN NULL
                           ELSE at[CHOOSE i \in found : \A j \in found : i <= j]
  BY DEF int_map_find
<1> HIDE DEF at, b
<1>6. ASSUME NEW i \in found PROVE at[i] \in U /\ m.key[at[i]] = k
  <2>1. i \in 0..capacity /\ at[i] = At(q[b], i + 1, NULL) /\ at[i] # NULL /\ m.key[at[i]] = k
    BY <1>3
  <2> QED BY <1>4, <2>1 DEF At
<1>7. ASSUME NEW e \in U, m.key[e] = k PROVE int_map_find(m, k) = e
  <2>1. PICK i \in 1..Len(q[b]) : e = q[b][i]
    BY <1>1, <1>7 DEF Elems, b
  <2>2. i - 1 \in 0..capacity /\ (i - 1) + 1 = i
    BY <1>1, <1>4
  <2>3. at[i - 1] = e /\ e # NULL
    BY <1>1, <1>3, <2>1, <2>2 DEF At
  <2>4. i - 1 \in found /\ found \in SUBSET Nat
    BY <1>1, <1>7, <2>2, <2>3
  <2> HIDE DEF found
  <2>5. \E n \in found : \A j \in found : n <= j
    BY <2>4, Smallest
  <2>6. (CHOOSE n \in found : \A j \in found : n <= j) \in found
    BY <2>5
  <2>7. int_map_find(m, k) = at[CHOOSE n \in found : \A j \in found : n <= j]
    BY <1>5, <2>4
  <2>8. int_map_find(m, k) \in U /\ m.key[int_map_find(m, k)] = k
    BY <1>6, <2>6, <2>7
  <2> QED BY <1>1, <1>7, <2>8
<1>8. ASSUME \A e \in U : m.key[e] # k PROVE int_map_find(m, k) = NULL
  <2>1. found = {}
    <3> HIDE DEF found
    <3> QED BY <1>6, <1>8
  <2> HIDE DEF found
  <2> QED BY <1>5, <2>1
<1> QED BY <1>7, <1>8

\* The key of an entry that is not in use matters to nobody.
LEMMA KeyGiven ==
  ASSUME NEW c, NEW m, NEW f, NEW q, NEW U, MapRep(m, f, c, q, U),
         NEW e \in Entries(c), e \notin U, NEW k \in Keys
  PROVE  MapRep([m EXCEPT !.key[e] = k], f, c, q, U)
<1> DEFINE r == [m EXCEPT !.key[e] = k]
<1>1. /\ m \in MapType(c) /\ f \in [Keys -> Buckets(c)] /\ U \subseteq Entries(c)
      /\ q \in [Buckets(c) -> Seq(Entries(c))]
      /\ \A b \in Buckets(c) : ChainRep(m, f, b, q[b], U)
      /\ \A a \in U : m.key[a] \in Keys /\ a \in Elems(q[f[m.key[a]]])
      /\ \A a \in Entries(c) \ U : m.next[a] = NULL /\ m.prev_next[a] = NULL
      /\ \A d, a \in U : m.key[d] = m.key[a] => d = a
  BY DEF MapRep
<1>2. /\ r \in MapType(c) /\ r.buckets = m.buckets /\ r.next = m.next /\ r.prev_next = m.prev_next
      /\ \A a \in U : r.key[a] = m.key[a]
  BY <1>1 DEF MapType
<1> HIDE DEF r
<1>3. \A b \in Buckets(c) : ChainRep(r, f, b, q[b], U)
  BY <1>1, <1>2 DEF ChainRep
<1>4. MapRep(r, f, c, q, U)
  BY <1>1, <1>2, <1>3 DEF MapRep
<1> QED BY <1>4 DEF r

\* An entry that is not in use, with a key that no entry in use has, is accepted
\* and becomes the first of its chain.
LEMMA EntryInserted ==
  ASSUME Apart(capacity), NEW m, NEW q, NEW U, MapRep(m, bucket_for, capacity, q, U),
         NEW e \in Entries(capacity), e \notin U, m.key[e] \in Keys,
         \A a \in U : m.key[a] # m.key[e]
  PROVE  /\ ~Refused(m, e)
         /\ \E p : MapRep(int_map_insert(m, e), bucket_for, capacity, p, U \cup {e})
         /\ int_map_insert(m, e).key = m.key
<1> DEFINE b == bucket_for[m.key[e]]
           t == q[b]
           first == m.buckets[b]
           m1 == [m EXCEPT !.next[e] = first, !.prev_next[e] = <<"bucket", b>>]
           m2 == IF first = NULL THEN m1
                 ELSE [m1 EXCEPT !.prev_next[first] = <<"next", e>>]
           r == int_map_insert(m, e)
           t2 == PushFront(t, e)
           q2 == [q EXCEPT ![b] = t2]
           U2 == U \cup {e}
           E == Entries(capacity)
<1>1. /\ m \in MapType(capacity) /\ bucket_for \in [Keys -> Buckets(capacity)] /\ U \subseteq E
      /\ q \in [Buckets(capacity) -> Seq(E)]
      /\ \A a \in U : m.key[a] \in Keys /\ a \in Elems(q[bucket_for[m.key[a]]])
      /\ \A a \in E \ U : m.next[a] = NULL /\ m.prev_next[a] = NULL
      /\ \A d, a \in U : m.key[d] = m.key[a] => d = a
      /\ NULL \notin E
  BY DEF MapRep, Apart
<1>2. b \in Buckets(capacity)
  BY <1>1
<1>2a. b = bucket_for[m.key[e]]
  OBVIOUS
<1> HIDE DEF b
<1>3. /\ t \in Seq(E) /\ Len(t) \in Nat /\ Distinct(t)
      /\ Chained(first, m.next, t, NULL)
      /\ \A j \in 1..Len(t) : /\ t[j] \in U /\ t[j] \in E /\ bucket_for[m.key[t[j]]] = b
                              /\ m.prev_next[t[j]] = Owner(t, j, b)
      /\ e \notin Elems(t)
  <2>1. \A a \in Elems(t) : a \in U
    BY <1>2, ChainEntries
  <2>2. /\ t \in Seq(E) /\ Len(t) \in Nat /\ Distinct(t) /\ Chained(first, m.next, t, NULL)
    BY <1>2, ChainEntries
  <2>3. \A j \in 1..Len(t) : /\ t[j] \in U /\ t[j] \in E /\ bucket_for[m.key[t[j]]] = b
                             /\ m.prev_next[t[j]] = Owner(t, j, b)
    BY <1>2, ChainEntries
  <2> QED BY <2>1, <2>2, <2>3
<1>4. ~Refused(m, e)
  <2>1. m.prev_next[e] = NULL
    BY <1>1
  <2>2. int_map_find(m, m.key[e]) = NULL
    BY FindIs
  <2> QED BY <2>1, <2>2 DEF Refused
<1>5. first = At(t, 1, NULL) /\ first \in E \cup {NULL} /\ first # e
      /\ (first # NULL => first \in U /\ bucket_for[m.key[first]] = b)
  <2>1. first = At(t, 1, NULL)
    BY <1>3 DEF Chained
  <2>2. CASE Len(t) = 0
    BY <1>1, <2>1, <2>2 DEF At
  <2>3. CASE Len(t) # 0
    <3>1. first = t[1] /\ 1 \in 1..Len(t)
      <4>1. 1 \in 1..Len(t)
        BY <1>3, <2>3
      <4> HIDE DEF first, t
      <4> QED BY <2>1, <4>1 DEF At
    <3> HIDE DEF first, t
    <3> QED BY <1>3, <2>1, <3>1
  <2> HIDE DEF first
  <2> QED BY <1>3, <2>2, <2>3
<1>6. r = [m2 EXCEPT !.buckets[b] = e]
  BY <1>2a, <1>4 DEF int_map_insert
<1> HIDE DEF first, m1, m2, r, t, E
<1>7. /\ m1 \in MapType(capacity) /\ m1.key = m.key /\ m1.buckets = m.buckets
      /\ m1.next = [m.next EXCEPT ![e] = first]
      /\ m1.prev_next = [m.prev_next EXCEPT ![e] = <<"bucket", b>>]
  <2>1. <<"bucket", b>> \in Pointers(capacity)
    BY <1>2 DEF Pointers
  <2> QED BY <1>1, <1>5, <2>1 DEF MapType, m1, E
<1>8. /\ m2 \in MapType(capacity) /\ m2.key = m.key /\ m2.buckets = m.buckets /\ m2.next = m1.next
      /\ m2.prev_next = IF first = NULL THEN m1.prev_next
                        ELSE [m1.prev_next EXCEPT ![first] = <<"next", e>>]
  <2>1. <<"next", e>> \in Pointers(capacity)
    BY DEF Pointers
  <2>2. CASE first = NULL
    BY <1>7, <2>2 DEF m2
  <2>3. CASE first # NULL
    <3>1. m2 = [m1 EXCEPT !.prev_next[first] = <<"next", e>>] /\ first \in E
      BY <1>5, <2>3 DEF m2
    <3> QED BY <1>7, <2>1, <2>3, <3>1 DEF MapType, E
  <2> QED BY <2>2, <2>3
<1>9. /\ r \in MapType(capacity) /\ r.key = m.key /\ r.next = m2.next
      /\ r.prev_next = m2.prev_next
      /\ r.buckets = [m.buckets EXCEPT ![b] = e]
  BY <1>2, <1>6, <1>8 DEF MapType
<1>10. /\ m.buckets \in [Buckets(capacity) -> E \cup {NULL}]
       /\ m.next \in [E -> E \cup {NULL}]
       /\ m.prev_next \in [E -> Pointers(capacity) \cup {NULL}]
       /\ m1.prev_next \in [E -> Pointers(capacity) \cup {NULL}]
  BY <1>1, <1>7 DEF MapType, E
<1>11. /\ r.buckets[b] = e /\ \A d \in Buckets(capacity) : d # b => r.buckets[d] = m.buckets[d]
       /\ r.next[e] = first /\ \A a \in E : a # e => r.next[a] = m.next[a]
  BY <1>2, <1>7, <1>8, <1>9, <1>10 DEF E
<1>12. /\ r.prev_next[e] = <<"bucket", b>>
       /\ first # NULL => r.prev_next[first] = <<"next", e>>
       /\ \A a \in E : a # e /\ a # first => r.prev_next[a] = m.prev_next[a]
  BY <1>1, <1>5, <1>7, <1>8, <1>9, <1>10 DEF E
<1>13. /\ t2 \in Seq(E) /\ Distinct(t2) /\ Elems(t2) = Elems(t) \cup {e}
       /\ Len(t2) = Len(t) + 1 /\ t2[1] = e
       /\ \A j \in 1..Len(t) : t2[j + 1] = t[j]
  <2>1. e \in E
    BY DEF E
  <2>2. t2 \in Seq(E) /\ Len(t2) = Len(t) + 1 /\ t2[1] = e
    BY <1>3, <2>1, PushFrontType
  <2>5. \A j \in 1..Len(t) : t2[j + 1] = t[j]
    BY <1>3, <2>1, PushFrontType
  <2>3. Elems(t2) = Elems(t) \cup {e}
    BY <1>3, <2>1, PushFrontElems
  <2>4. Distinct(t2)
    BY <1>3, <2>1, PushFrontDistinct
  <2> QED BY <2>2, <2>3, <2>4, <2>5
<1> HIDE DEF t2
<1>14. Chained(r.buckets[b], r.next, t2, NULL)
  <2>1. \A a \in Elems(t) : r.next[a] = m.next[a]
    <3>1. Elems(t) \subseteq E
      BY <1>3 DEF Elems
    <3> QED BY <1>3, <1>11, <3>1
  <2>2. e \in E
    BY DEF E
  <2>3. Chained(e, r.next, PushFront(t, e), NULL)
    BY <1>3, <1>11, <2>1, <2>2, ChainPushed
  <2> QED BY <1>11, <2>3 DEF t2
<1>15. ASSUME NEW j \in 1..Len(t2)
       PROVE  /\ t2[j] \in U2 /\ bucket_for[r.key[t2[j]]] = b
              /\ r.prev_next[t2[j]] = Owner(t2, j, b)
  <2>1. CASE j = 1
    BY <1>2a, <1>9, <1>12, <1>13, <2>1 DEF Owner
  <2>2. CASE j # 1
    <3>1. j - 1 \in 1..Len(t) /\ t2[j] = t[j - 1]
      <4>1. j - 1 \in 1..Len(t) /\ (j - 1) + 1 = j
        BY <1>3, <1>13, <2>2
      <4> QED BY <1>13, <4>1
    <3>2. t2[j] \in U2 /\ bucket_for[r.key[t2[j]]] = b
      BY <1>3, <1>9, <3>1
    <3>3. CASE j = 2
      <4>1. t[j - 1] = first /\ first # NULL
        BY <1>1, <1>3, <1>5, <3>1, <3>3 DEF At
      <4>2. Owner(t2, j, b) = <<"next", e>>
        BY <1>13, <3>3 DEF Owner
      <4> QED BY <1>12, <3>1, <3>2, <4>1, <4>2
    <3>4. CASE j # 2
      <4>1. j - 2 \in 1..Len(t) /\ (j - 2) + 1 = j - 1 /\ j - 1 # 1
        BY <1>3, <1>13, <2>2, <3>1, <3>4
      <4>2. t[j - 1] # first /\ t[j - 1] # e /\ t[j - 1] \in E
        <5>1. t[j - 1] # first
          BY <1>1, <1>3, <1>5, <3>1, <4>1 DEF At, Distinct
        <5> QED BY <1>3, <3>1, <5>1
      <4>3. Owner(t2, j, b) = Owner(t, j - 1, b)
        <5>1. t2[j - 1] = t[(j - 1) - 1]
          BY <1>13, <4>1
        <5> QED BY <2>2, <4>1, <5>1 DEF Owner
      <4> QED BY <1>3, <1>12, <3>1, <3>2, <4>2, <4>3
    <3> QED BY <3>3, <3>4
  <2> QED BY <2>1, <2>2
<1>16. ChainRep(r, bucket_for, b, t2, U2)
  BY <1>13, <1>14, <1>15 DEF ChainRep
<1>17. ASSUME NEW d \in Buckets(capacity), d # b
       PROVE  ChainRep(r, bucket_for, d, q[d], U2)
  <2>1. /\ q[d] \in Seq(E) /\ Distinct(q[d]) /\ Chained(m.buckets[d], m.next, q[d], NULL)
        /\ \A j \in 1..Len(q[d]) : /\ q[d][j] \in U /\ q[d][j] \in E
                                   /\ bucket_for[m.key[q[d][j]]] = d
                                   /\ m.prev_next[q[d][j]] = Owner(q[d], j, d)
        /\ \A a \in Elems(q[d]) : a \in U /\ bucket_for[m.key[a]] = d
    BY ChainEntries DEF E
  <2>2. \A a \in E : a \in U /\ bucket_for[m.key[a]] = d =>
          a # first /\ r.next[a] = m.next[a] /\ r.prev_next[a] = m.prev_next[a]
    BY <1>1, <1>5, <1>11, <1>12, <1>17
  <2>3. Chained(r.buckets[d], r.next, q[d], NULL)
    <3>1. \A a \in Elems(q[d]) : r.next[a] = m.next[a]
      BY <1>1, <2>1, <2>2
    <3>2. r.buckets[d] = m.buckets[d]
      BY <1>11, <1>17
    <3> QED BY <2>1, <3>1, <3>2, ChainKept
  <2>4. \A j \in 1..Len(q[d]) : /\ q[d][j] \in U2 /\ bucket_for[r.key[q[d][j]]] = d
                                /\ r.prev_next[q[d][j]] = Owner(q[d], j, d)
    BY <1>9, <2>1, <2>2
  <2> QED BY <2>1, <2>3, <2>4 DEF ChainRep
<1>18. q2 \in [Buckets(capacity) -> Seq(E)] /\ q2[b] = t2
       /\ \A a \in Buckets(capacity) : a # b => q2[a] = q[a]
  BY <1>1, <1>2, <1>13
<1> HIDE DEF q2
<1>19. \A d \in Buckets(capacity) : ChainRep(r, bucket_for, d, q2[d], U2)
  BY <1>16, <1>17, <1>18
<1>20. \A a \in U2 : r.key[a] \in Keys /\ a \in Elems(q2[bucket_for[r.key[a]]])
  <2> SUFFICES ASSUME NEW a \in U2
               PROVE  r.key[a] \in Keys /\ a \in Elems(q2[bucket_for[r.key[a]]])
    OBVIOUS
  <2>1. CASE a = e
    BY <1>2a, <1>9, <1>13, <1>18, <2>1
  <2>2. CASE a # e
    <3>1. m.key[a] \in Keys /\ a \in Elems(q[bucket_for[m.key[a]]]) /\ bucket_for[m.key[a]] \in Buckets(capacity)
      BY <1>1, <2>2
    <3>2. CASE bucket_for[m.key[a]] = b
      BY <1>9, <1>13, <1>18, <3>1, <3>2 DEF t
    <3>3. CASE bucket_for[m.key[a]] # b
      BY <1>9, <1>18, <3>1, <3>3
    <3> QED BY <3>2, <3>3
  <2> QED BY <2>1, <2>2
<1>21. \A a \in E \ U2 : r.next[a] = NULL /\ r.prev_next[a] = NULL
  BY <1>1, <1>5, <1>11, <1>12
<1>22. \A d, a \in U2 : r.key[d] = r.key[a] => d = a
  BY <1>1, <1>9
<1>23. U2 \subseteq E
  BY <1>1 DEF E
<1>24. MapRep(r, bucket_for, capacity, q2, U2)
  <2> HIDE DEF U2
  <2> QED BY <1>1, <1>9, <1>18, <1>19, <1>20, <1>21, <1>22, <1>23 DEF MapRep, E
<1> QED BY <1>4, <1>9, <1>24 DEF r

-----------------------------------------------------------------------------
(* int_map_destroy                                                         *)

\* What one round of the loop over bucket d does.
Popped(m, d) == IF m.buckets[d] = NULL THEN m ELSE int_map_remove(m, m.buckets[d])

\* A map whose buckets before d are empty, and which has at most n entries in d.
Emptied(m, f, c, n, d) ==
  \E q, U : /\ MapRep(m, f, c, q, U)
            /\ \A b \in Buckets(c) : b < d => Len(q[b]) = 0
            /\ d \in Buckets(c) => Len(q[d]) <= n

\* A round takes one entry off, while there is one.
LEMMA RoundEmpties ==
  ASSUME NEW c, Apart(c), NEW m, NEW f, NEW n \in Nat, NEW d \in Buckets(c),
         Emptied(m, f, c, n + 1, d)
  PROVE  Emptied(Popped(m, d), f, c, n, d)
<1>1. PICK q, U : /\ MapRep(m, f, c, q, U)
                  /\ \A b \in Buckets(c) : b < d => Len(q[b]) = 0
                  /\ Len(q[d]) <= n + 1
  BY DEF Emptied
<1>2. /\ q \in [Buckets(c) -> Seq(Entries(c))] /\ q[d] \in Seq(Entries(c)) /\ Len(q[d]) \in Nat
      /\ NULL \notin Entries(c)
  <2>1. q \in [Buckets(c) -> Seq(Entries(c))]
    BY <1>1 DEF MapRep
  <2> QED BY <2>1 DEF Apart
<1>3. m.buckets[d] = At(q[d], 1, NULL)
  <2>1. Chained(m.buckets[d], m.next, q[d], NULL)
    BY <1>1, ChainEntries
  <2> QED BY <2>1 DEF Chained
<1>4. CASE Len(q[d]) = 0
  <2>1. Popped(m, d) = m
    BY <1>3, <1>4 DEF At, Popped
  <2> QED BY <1>1, <1>4, <2>1 DEF Emptied
<1>5. CASE Len(q[d]) # 0
  <2> DEFINE t == Removed(q[d], 1)
             p == [q EXCEPT ![d] = t]
  <2>1. 1 \in 1..Len(q[d])
    BY <1>2, <1>5
  <2>2. q[d][1] \in Entries(c) /\ m.buckets[d] = q[d][1]
    BY <1>2, <1>3, <2>1 DEF At
  <2>3. Popped(m, d) = int_map_remove(m, q[d][1])
    BY <1>2, <2>2 DEF Popped
  <2>4. MapRep(int_map_remove(m, q[d][1]), f, c, p, U \ {q[d][1]})
    BY <1>1, <2>1, EntryRemoved
  <2>5. Len(t) = Len(q[d]) - 1
    BY <1>2, <2>1, RemovedType
  <2>6. p[d] = t /\ \A b \in Buckets(c) : b # d => p[b] = q[b]
    BY <1>2
  <2> HIDE DEF t, p
  <2>7. Len(p[d]) <= n
    BY <1>1, <1>2, <2>5, <2>6
  <2>8. \A b \in Buckets(c) : b < d => Len(p[b]) = 0
    <3>1. c \in Nat
      BY DEF Apart
    <3> QED BY <1>1, <2>6, <3>1 DEF Buckets
  <2> QED BY <2>3, <2>4, <2>7, <2>8 DEF Emptied
<1> QED BY <1>4, <1>5

\* What bucket d goes through in c rounds, from map a on.
IsPops(g, c, a, d) ==
  g = [i \in 0..c |->
         IF i = 0 THEN a
         ELSE LET before == g[i - 1]
                  first == before.buckets[d]
              IN  IF first = NULL THEN before ELSE int_map_remove(before, first)]

Pops(c, a, d) == CHOOSE g : IsPops(g, c, a, d)

\* What the map goes through bucket by bucket.
IsUnlinking(h, c, m) == h = [b \in 0..c |-> IF b = 0 THEN m ELSE Pops(c, h[b - 1], b - 1)[c]]

LEMMA UnlinkedIs ==
  ASSUME NEW m
  PROVE  Unlinked(m) = (CHOOSE h : IsUnlinking(h, capacity, m))[capacity]
BY DEF Unlinked, IsUnlinking, Pops, IsPops

\* The loop over a bucket empties it.
LEMMA BucketEmptied ==
  ASSUME NEW c, Apart(c), NEW a, NEW f, NEW d \in Buckets(c), Emptied(a, f, c, c, d)
  PROVE  Emptied(Pops(c, a, d)[c], f, c, c, d + 1)
<1> DEFINE D == [i \in 0..c |-> {m \in MapType(c) : Emptied(m, f, c, c - i, d)}]
           F == [i \in 1..c |-> [m \in D[i - 1] |-> Popped(m, d)]]
<1>1. c \in Nat /\ d \in Nat
  BY DEF Apart, Buckets
<1>2. \A m, n : Emptied(m, f, c, n, d) => m \in MapType(c)
  BY DEF Emptied, MapRep
<1>3. ASSUME NEW i \in 1..c
      PROVE  /\ F[i] \in [D[i - 1] -> D[i]]
             /\ \A m \in D[i - 1] : F[i][m] = Popped(m, d)
  <2>1. i - 1 \in 0..c /\ i \in 0..c /\ c - i \in Nat /\ c - (i - 1) = (c - i) + 1
    BY <1>1
  <2>2. ASSUME NEW m \in D[i - 1] PROVE Popped(m, d) \in D[i]
    <3>1. Emptied(m, f, c, (c - i) + 1, d)
      BY <2>1
    <3>2. Emptied(Popped(m, d), f, c, c - i, d)
      BY <2>1, <3>1, RoundEmpties
    <3> QED BY <1>2, <2>1, <3>2
  <2>3. F[i] = [m \in D[i - 1] |-> Popped(m, d)]
    OBVIOUS
  <2> HIDE DEF D, F
  <2> QED BY <2>2, <2>3
<1>4. a \in D[0]
  <2>1. 0 \in 0..c /\ c - 0 = c
    BY <1>1
  <2> QED BY <1>2, <2>1
<1> HIDE DEF F
<1>5. ASSUME NEW g, IsPops(g, c, a, d) PROVE Staged(g, a, F, D, c)
  <2>1. g[0] = a
    BY <1>1, <1>5 DEF IsPops
  <2>2. ASSUME NEW i \in 1..c, g[i - 1] \in D[i - 1] PROVE g[i] = F[i][g[i - 1]]
    <3>1. g[i] = Popped(g[i - 1], d)
      <4>1. i \in 0..c /\ i # 0
        BY <1>1
      <4>2. g[i] = IF i = 0 THEN a
                   ELSE IF g[i - 1].buckets[d] = NULL THEN g[i - 1]
                        ELSE int_map_remove(g[i - 1], g[i - 1].buckets[d])
        BY <1>5, <4>1 DEF IsPops
      <4> QED BY <4>1, <4>2 DEF Popped
    <3> QED BY <1>3, <2>2, <3>1
  <2> HIDE DEF D
  <2> QED BY <2>1, <2>2 DEF Staged
<1>6. PICK g : IsPops(g, c, a, d)
  <2> HIDE DEF D
  <2>1. PICK g : g = [i \in 0..c |-> g[i]] /\ Staged(g, a, F, D, c)
    BY <1>1, <1>3, <1>4, StagedIteration
  <2>2. \A i \in 0..c : g[i] \in D[i]
    BY <1>1, <1>3, <1>4, <2>1, Stages
  <2>3. ASSUME NEW i \in 0..c
        PROVE  g[i] = IF i = 0 THEN a
                      ELSE IF g[i - 1].buckets[d] = NULL THEN g[i - 1]
                           ELSE int_map_remove(g[i - 1], g[i - 1].buckets[d])
    <3>1. CASE i = 0
      BY <2>1, <3>1 DEF Staged
    <3>2. CASE i # 0
      <4>1. i \in 1..c /\ i - 1 \in 0..c
        BY <1>1, <3>2
      <4>2. g[i] = F[i][g[i - 1]] /\ g[i - 1] \in D[i - 1]
        BY <2>1, <2>2, <4>1 DEF Staged
      <4>3. g[i] = Popped(g[i - 1], d)
        BY <1>3, <4>1, <4>2
      <4> QED BY <3>2, <4>3 DEF Popped
    <3> QED BY <3>1, <3>2
  <2>4. IsPops(g, c, a, d)
    BY <2>1, <2>3 DEF IsPops
  <2> QED BY <2>4
<1>7. IsPops(Pops(c, a, d), c, a, d)
  BY <1>6 DEF Pops
<1>8. Pops(c, a, d)[c] \in D[c]
  <2>1. Staged(Pops(c, a, d), a, F, D, c)
    BY <1>5, <1>7
  <2>2. c \in 0..c
    BY <1>1
  <2> HIDE DEF D
  <2> QED BY <1>1, <1>3, <1>4, <2>1, <2>2, Stages
<1>9. Emptied(Pops(c, a, d)[c], f, c, 0, d)
  <2>1. c \in 0..c /\ c - c = 0
    BY <1>1
  <2> QED BY <1>8, <2>1
<1> HIDE DEF D
<1> DEFINE r == Pops(c, a, d)[c]
<1> HIDE DEF r
<1>10. PICK q, U : /\ MapRep(r, f, c, q, U)
                   /\ \A b \in Buckets(c) : b < d => Len(q[b]) = 0
                   /\ Len(q[d]) <= 0
  BY <1>9 DEF Emptied, r
<1>11. \A b \in Buckets(c) : Len(q[b]) \in 0..c
  BY <1>10, ChainFits
<1>12. \A b \in Buckets(c) : b < d + 1 => Len(q[b]) = 0
  BY <1>1, <1>10, <1>11 DEF Buckets
<1>13. d + 1 \in Buckets(c) => Len(q[d + 1]) <= c
  BY <1>1, <1>11
<1> QED BY <1>10, <1>12, <1>13 DEF Emptied, r

\* So the loop over the buckets unlinks every entry.
LEMMA AllUnlinked ==
  ASSUME Apart(capacity), NEW m, NEW f, NEW q, NEW U, MapRep(m, f, capacity, q, U)
  PROVE  Emptied(Unlinked(m), f, capacity, capacity, capacity)
<1> DEFINE c == capacity
           D == [b \in 0..c |-> {a \in MapType(c) : Emptied(a, f, c, c, b)}]
           F == [b \in 1..c |-> [a \in D[b - 1] |-> Pops(c, a, b - 1)[c]]]
<1>1. c \in Nat
  BY DEF Apart
<1>2. \A a, b : Emptied(a, f, c, c, b) => a \in MapType(c)
  BY DEF Emptied, MapRep
<1>3. ASSUME NEW b \in 1..c
      PROVE  /\ F[b] \in [D[b - 1] -> D[b]]
             /\ \A a \in D[b - 1] : F[b][a] = Pops(c, a, b - 1)[c]
  <2>1. b - 1 \in 0..c /\ b \in 0..c /\ b - 1 \in Buckets(c) /\ (b - 1) + 1 = b
    BY <1>1 DEF Buckets
  <2>2. ASSUME NEW a \in D[b - 1] PROVE Pops(c, a, b - 1)[c] \in D[b]
    <3>1. Emptied(a, f, c, c, b - 1)
      BY <2>1
    <3>2. Emptied(Pops(c, a, b - 1)[c], f, c, c, b)
      <4>1. Emptied(Pops(c, a, b - 1)[c], f, c, c, (b - 1) + 1)
        BY <2>1, <3>1, BucketEmptied
      <4> QED BY <2>1, <4>1
    <3> QED BY <1>2, <2>1, <3>2
  <2>3. F[b] = [a \in D[b - 1] |-> Pops(c, a, b - 1)[c]]
    OBVIOUS
  <2> HIDE DEF D, F
  <2> QED BY <2>2, <2>3
<1>4. m \in D[0]
  <2>1. /\ \A b \in Buckets(c) : ~(b < 0)
        /\ \A b \in Buckets(c) : Len(q[b]) <= c
    BY <1>1, ChainFits DEF Buckets
  <2>2. Emptied(m, f, c, c, 0)
    BY <2>1 DEF Emptied
  <2> QED BY <1>1, <1>2, <2>2
<1> HIDE DEF F
<1>5. ASSUME NEW h, IsUnlinking(h, c, m) PROVE Staged(h, m, F, D, c)
  <2>1. h[0] = m
    BY <1>1, <1>5 DEF IsUnlinking
  <2>2. ASSUME NEW b \in 1..c, h[b - 1] \in D[b - 1] PROVE h[b] = F[b][h[b - 1]]
    <3>1. h[b] = Pops(c, h[b - 1], b - 1)[c]
      <4>1. b \in 0..c /\ b # 0
        BY <1>1
      <4>2. h[b] = IF b = 0 THEN m ELSE Pops(c, h[b - 1], b - 1)[c]
        BY <1>5, <4>1 DEF IsUnlinking
      <4> QED BY <4>1, <4>2
    <3> QED BY <1>3, <2>2, <3>1
  <2> HIDE DEF D
  <2> QED BY <2>1, <2>2 DEF Staged
<1>6. PICK h : IsUnlinking(h, c, m)
  <2> HIDE DEF D
  <2>1. PICK h : h = [i \in 0..c |-> h[i]] /\ Staged(h, m, F, D, c)
    BY <1>1, <1>3, <1>4, StagedIteration
  <2>2. \A b \in 0..c : h[b] \in D[b]
    BY <1>1, <1>3, <1>4, <2>1, Stages
  <2>3. ASSUME NEW b \in 0..c
        PROVE  h[b] = IF b = 0 THEN m ELSE Pops(c, h[b - 1], b - 1)[c]
    <3>1. CASE b = 0
      BY <2>1, <3>1 DEF Staged
    <3>2. CASE b # 0
      <4>1. b \in 1..c /\ b - 1 \in 0..c
        BY <1>1, <3>2
      <4>2. h[b] = F[b][h[b - 1]] /\ h[b - 1] \in D[b - 1]
        BY <2>1, <2>2, <4>1 DEF Staged
      <4> QED BY <1>3, <3>2, <4>1, <4>2
    <3> QED BY <3>1, <3>2
  <2>4. IsUnlinking(h, c, m)
    BY <2>1, <2>3 DEF IsUnlinking
  <2> QED BY <2>4
<1> DEFINE r == CHOOSE g : IsUnlinking(g, c, m)
<1>7. IsUnlinking(r, c, m)
  BY <1>6
<1> HIDE DEF r
<1>8. r[c] \in D[c]
  <2>1. Staged(r, m, F, D, c)
    BY <1>5, <1>7
  <2>2. c \in 0..c
    BY <1>1
  <2> HIDE DEF D
  <2> QED BY <1>1, <1>3, <1>4, <2>1, <2>2, Stages
<1>9. Emptied(r[c], f, c, c, c)
  <2>1. c \in 0..c
    BY <1>1
  <2> QED BY <1>8, <2>1
<1> QED BY <1>9, UnlinkedIs DEF r

\* What is left when the keys are gone too is the map that calloc made.
LEMMA DestroyedIs ==
  ASSUME Apart(capacity), NEW m, NEW f, NEW q, NEW U, MapRep(m, f, capacity, q, U)
  PROVE  [Unlinked(m) EXCEPT !.key = EmptyMap(capacity).key] = EmptyMap(capacity)
<1> DEFINE c == capacity
           r == Unlinked(m)
<1>1. Emptied(r, f, c, c, c)
  BY AllUnlinked
<1> HIDE DEF r
<1>2. PICK p, V : /\ MapRep(r, f, c, p, V)
                  /\ \A b \in Buckets(c) : b < c => Len(p[b]) = 0
  BY <1>1 DEF Emptied
<1>3. /\ r \in MapType(c) /\ f \in [Keys -> Buckets(c)] /\ V \subseteq Entries(c)
      /\ p \in [Buckets(c) -> Seq(Entries(c))]
      /\ \A e \in V : r.key[e] \in Keys /\ e \in Elems(p[f[r.key[e]]])
      /\ \A e \in Entries(c) \ V : r.next[e] = NULL /\ r.prev_next[e] = NULL
  BY <1>2 DEF MapRep
<1>4. \A b \in Buckets(c) : Len(p[b]) = 0 /\ Elems(p[b]) = {}
  <2> SUFFICES ASSUME NEW b \in Buckets(c) PROVE Len(p[b]) = 0 /\ Elems(p[b]) = {}
    OBVIOUS
  <2>1. Len(p[b]) = 0
    BY <1>2 DEF Buckets, Apart
  <2> QED BY <2>1 DEF Elems
<1>5. V = {}
  BY <1>3, <1>4
<1>6. \A b \in Buckets(c) : r.buckets[b] = NULL
  <2> SUFFICES ASSUME NEW b \in Buckets(c) PROVE r.buckets[b] = NULL
    OBVIOUS
  <2>1. Chained(r.buckets[b], r.next, p[b], NULL)
    BY <1>2, ChainEntries
  <2> QED BY <1>4, <2>1 DEF Chained, At
<1>7. /\ r.buckets = EmptyMap(c).buckets /\ r.next = EmptyMap(c).next
      /\ r.prev_next = EmptyMap(c).prev_next
  BY <1>3, <1>5, <1>6 DEF MapType, EmptyMap
<1>8. r = [buckets |-> r.buckets, key |-> r.key, next |-> r.next, prev_next |-> r.prev_next]
  BY <1>3 DEF MapType
<1>9. EmptyMap(c) = [buckets |-> EmptyMap(c).buckets, key |-> EmptyMap(c).key,
                     next |-> EmptyMap(c).next, prev_next |-> EmptyMap(c).prev_next]
  BY DEF EmptyMap
<1>10. [r EXCEPT !.key = EmptyMap(c).key]
         = [buckets |-> r.buckets, key |-> EmptyMap(c).key, next |-> r.next, prev_next |-> r.prev_next]
  <2> DEFINE k == EmptyMap(c).key
  <2> HIDE DEF k
  <2> QED BY <1>8
<1> QED BY <1>7, <1>9, <1>10 DEF r

-----------------------------------------------------------------------------
(* lru.c                                                                   *)

\* The entries taken from the array so far.
Taken(n) == 0..(n - 1)

\* A cache of c entries, u of them taken, whose list is the ring of s and whose
\* map has the chains q; entry i of s holds key i of the history h.
Sound(c, f, l, m, u, h, s, q) ==
  /\ Apart(c) /\ u \in 0..c
  /\ RingRep(l, c, s) /\ Len(s) = u /\ Elems(s) = Taken(u)
  /\ MapRep(m, f, c, q, Taken(u))
  /\ h \in Seq(Keys) /\ Distinct(h) /\ u <= Len(h) /\ (u = c \/ u = Len(h))
  /\ \A i \in 1..u : m.key[s[i]] = h[i]

\* The map finds the keys of the first u requests at their entries, and no other.
LEMMA HeldIsFound ==
  ASSUME NEW l, NEW m, NEW u, NEW h, NEW s, NEW q,
         Sound(capacity, bucket_for, l, m, u, h, s, q), NEW k \in Keys
  PROVE  /\ \A i \in 1..u : h[i] = k => int_map_find(m, k) = s[i] /\ int_map_find(m, k) # NULL
         /\ int_map_find(m, k) = NULL <=> \A i \in 1..u : h[i] # k
         /\ int_map_find(m, k) = NULL <=> \A e \in Taken(u) : m.key[e] # k
<1>1. /\ Apart(capacity) /\ MapRep(m, bucket_for, capacity, q, Taken(u)) /\ Elems(s) = Taken(u)
      /\ Len(s) = u /\ \A i \in 1..u : m.key[s[i]] = h[i]
  BY DEF Sound
<1>2. Taken(u) \subseteq Entries(capacity) /\ NULL \notin Entries(capacity)
  BY <1>1 DEF MapRep, Apart
<1>3. ASSUME NEW i \in 1..u, h[i] = k
      PROVE  int_map_find(m, k) = s[i] /\ int_map_find(m, k) # NULL
  <2>1. s[i] \in Taken(u) /\ m.key[s[i]] = k
    BY <1>1, <1>3 DEF Elems
  <2> QED BY <1>1, <1>2, <2>1, FindIs
<1>4. ASSUME \A i \in 1..u : h[i] # k PROVE \A e \in Taken(u) : m.key[e] # k
  BY <1>1, <1>4 DEF Elems
<1>5. ASSUME \A e \in Taken(u) : m.key[e] # k PROVE int_map_find(m, k) = NULL
  BY <1>1, <1>5, FindIs
<1>6. ASSUME NEW e \in Taken(u), m.key[e] = k PROVE int_map_find(m, k) # NULL
  BY <1>1, <1>2, <1>6, FindIs
<1> QED BY <1>3, <1>4, <1>5, <1>6

\* Another request of a key that is held.
LEMMA HitSound ==
  ASSUME NEW l, NEW m, NEW u, NEW h, NEW s, NEW q,
         Sound(capacity, bucket_for, l, m, u, h, s, q),
         NEW k \in Keys, int_map_find(m, k) # NULL
  PROVE  \E t : Sound(capacity, bucket_for,
                      list_push_front(list_remove(l, int_map_find(m, k)), int_map_find(m, k)),
                      m, u, Touch(h, k), t, q)
<1>1. /\ Apart(capacity) /\ u \in 0..capacity /\ RingRep(l, capacity, s) /\ Len(s) = u
      /\ Elems(s) = Taken(u) /\ MapRep(m, bucket_for, capacity, q, Taken(u))
      /\ h \in Seq(Keys) /\ Distinct(h) /\ u <= Len(h) /\ (u = capacity \/ u = Len(h))
      /\ \A i \in 1..u : m.key[s[i]] = h[i]
  BY DEF Sound
<1>2. capacity \in Nat /\ Len(h) \in Nat /\ u \in Nat
  BY <1>1 DEF Apart
<1>3. PICK i \in 1..u : h[i] = k
  BY HeldIsFound
<1>4. int_map_find(m, k) = s[i]
  BY <1>3, HeldIsFound
<1> DEFINE t == MoveToFront(s, i)
           l2 == list_push_front(list_remove(l, s[i]), s[i])
<1>5. i \in 1..Len(s) /\ i \in 1..Len(h) /\ s \in Seq(Entries(capacity))
  BY <1>1, <1>2 DEF RingRep
<1>6. RingRep(l2, capacity, t)
  BY <1>1, <1>5, ListMoved
<1>7. Len(t) = u /\ Elems(t) = Taken(u)
  BY <1>1, <1>5, MoveToFrontType, MoveToFrontElems
<1>8. Touch(h, k) = MoveToFront(h, i)
  BY <1>1, <1>3, <1>5, TouchKnown
<1>9. /\ Touch(h, k) \in Seq(Keys) /\ Distinct(Touch(h, k)) /\ Len(Touch(h, k)) = Len(h)
  BY <1>1, <1>5, <1>8, MoveToFrontType, MoveToFrontDistinct
<1>10. ASSUME NEW j \in 1..u PROVE m.key[t[j]] = Touch(h, k)[j]
  <2>1. j \in 1..Len(s) /\ j \in 1..Len(h) /\ (j # 1 => j - 1 \in 1..u)
    BY <1>1, <1>2
  <2>2. t[j] = IF j = 1 THEN s[i] ELSE IF j <= i THEN s[j - 1] ELSE s[j]
    BY <2>1 DEF MoveToFront
  <2>3. Touch(h, k)[j] = IF j = 1 THEN h[i] ELSE IF j <= i THEN h[j - 1] ELSE h[j]
    BY <1>8, <2>1 DEF MoveToFront
  <2> QED BY <1>1, <2>1, <2>2, <2>3
<1> HIDE DEF l2, t
<1>11. Sound(capacity, bucket_for, l2, m, u, Touch(h, k), t, q)
  BY <1>1, <1>6, <1>7, <1>9, <1>10 DEF Sound
<1> QED BY <1>4, <1>11 DEF l2

\* Entry e is free to take key k: neither list nor map knows it, nor the key.
Free(l, m, s, q, U, e, k) ==
  /\ Apart(capacity)
  /\ RingRep(l, capacity, s) /\ Elems(s) = U /\ MapRep(m, bucket_for, capacity, q, U)
  /\ e \in Entries(capacity) /\ e \notin U
  /\ k \in Keys /\ \A a \in U : m.key[a] # k

\* Map and list after it has.
KeyedMap(m, e, k) == int_map_insert([m EXCEPT !.key[e] = k], e)

Taking(l, m, s, U, e, k) ==
  /\ RingRep(list_push_front(l, e), capacity, PushFront(s, e))
  /\ ~Refused([m EXCEPT !.key[e] = k], e)
  /\ \E p : MapRep(KeyedMap(m, e, k), bucket_for, capacity, p, U \cup {e})
  /\ KeyedMap(m, e, k).key[e] = k
  /\ \A a \in U : KeyedMap(m, e, k).key[a] = m.key[a]

LEMMA KeyTaken ==
  ASSUME NEW l, NEW m, NEW s, NEW q, NEW U, NEW e, NEW k, Free(l, m, s, q, U, e, k)
  PROVE  Taking(l, m, s, U, e, k)
<1> DEFINE r == [m EXCEPT !.key[e] = k]
<1>1. /\ Apart(capacity) /\ RingRep(l, capacity, s) /\ e \notin Elems(s)
      /\ MapRep(m, bucket_for, capacity, q, U) /\ e \in Entries(capacity) /\ e \notin U
      /\ k \in Keys /\ \A a \in U : m.key[a] # k
  BY DEF Free
<1>2. m \in MapType(capacity) /\ U \subseteq Entries(capacity)
  BY <1>1 DEF MapRep
<1>3. r.key[e] = k /\ \A a \in U : r.key[a] = m.key[a]
  BY <1>1, <1>2 DEF MapType
<1>4. MapRep(r, bucket_for, capacity, q, U)
  BY <1>1, KeyGiven
<1> HIDE DEF r
<1>5. r.key[e] \in Keys /\ \A a \in U : r.key[a] # r.key[e]
  BY <1>1, <1>3
<1>6. /\ ~Refused(r, e)
      /\ \E p : MapRep(int_map_insert(r, e), bucket_for, capacity, p, U \cup {e})
      /\ int_map_insert(r, e).key = r.key
  BY <1>1, <1>4, <1>5, EntryInserted
<1>7. RingRep(list_push_front(l, e), capacity, PushFront(s, e))
  BY <1>1, ListPushed
<1>8. KeyedMap(m, e, k) = int_map_insert(r, e)
  BY DEF KeyedMap, r
<1>9. ~Refused([m EXCEPT !.key[e] = k], e)
  BY <1>6 DEF r
<1> QED BY <1>3, <1>6, <1>7, <1>8, <1>9 DEF Taking

\* The first request of a key, while there are entries not taken yet.
LEMMA FreshSound ==
  ASSUME NEW l, NEW m, NEW u, NEW h, NEW s, NEW q,
         Sound(capacity, bucket_for, l, m, u, h, s, q), u < capacity,
         NEW k \in Keys, int_map_find(m, k) = NULL
  PROVE  /\ ~Refused([m EXCEPT !.key[u] = k], u)
         /\ \E t, p : Sound(capacity, bucket_for,
                            list_push_front([l EXCEPT !.prev[u] = u, !.next[u] = u], u),
                            KeyedMap(m, u, k), u + 1, Touch(h, k), t, p)
<1> DEFINE l1 == [l EXCEPT !.prev[u] = u, !.next[u] = u]
           l2 == list_push_front(l1, u)
           m2 == KeyedMap(m, u, k)
           t == PushFront(s, u)
<1>1. /\ Apart(capacity) /\ u \in 0..capacity /\ RingRep(l, capacity, s) /\ Len(s) = u
      /\ Elems(s) = Taken(u) /\ MapRep(m, bucket_for, capacity, q, Taken(u))
      /\ h \in Seq(Keys) /\ Distinct(h) /\ u <= Len(h) /\ (u = capacity \/ u = Len(h))
      /\ \A i \in 1..u : m.key[s[i]] = h[i]
  BY DEF Sound
<1>2. capacity \in Nat /\ Len(h) \in Nat /\ u \in Nat
  BY <1>1 DEF Apart
<1>3. u \in Entries(capacity) /\ u \notin Taken(u) /\ Taken(u) \cup {u} = Taken(u + 1)
  BY <1>2 DEF Entries, Taken
<1>4. \A a \in Taken(u) : m.key[a] # k
  BY HeldIsFound
<1>5. RingRep(l1, capacity, s)
  <2>1. /\ l \in ListType(capacity) /\ s \in Seq(Entries(capacity)) /\ Distinct(s)
        /\ Ring(l.next, l.prev, s, Sentinel) /\ Sentinel \notin Entries(capacity)
    BY <1>1 DEF RingRep, Apart
  <2>2. u \in Links(capacity) /\ u # Sentinel /\ Elems(s) \subseteq Links(capacity)
        /\ Sentinel \in Links(capacity) /\ u \notin Elems(s)
    BY <1>1, <1>3, <2>1 DEF Links, Elems
  <2>3. /\ l1 \in ListType(capacity)
        /\ l1.next = [l.next EXCEPT ![u] = u] /\ l1.prev = [l.prev EXCEPT ![u] = u]
    BY <2>1, <2>2 DEF ListType
  <2> HIDE DEF l1
  <2>4. \A a \in Elems(s) \cup {Sentinel} : l1.next[a] = l.next[a] /\ l1.prev[a] = l.prev[a]
    BY <2>1, <2>2, <2>3 DEF ListType
  <2>5. Ring(l1.next, l1.prev, s, Sentinel)
    BY <2>1, <2>4, RingKept
  <2> QED BY <2>1, <2>3, <2>5 DEF RingRep
<1> HIDE DEF l1
<1>6. /\ RingRep(l2, capacity, t)
      /\ ~Refused([m EXCEPT !.key[u] = k], u)
      /\ \E p : MapRep(m2, bucket_for, capacity, p, Taken(u) \cup {u})
      /\ m2.key[u] = k /\ \A a \in Taken(u) : m2.key[a] = m.key[a]
  <2>1. Free(l1, m, s, q, Taken(u), u, k)
    BY <1>1, <1>3, <1>4, <1>5 DEF Free
  <2>2. Taking(l1, m, s, Taken(u), u, k)
    BY <2>1, KeyTaken
  <2> QED BY <2>2 DEF Taking
<1>7. PICK p : MapRep(m2, bucket_for, capacity, p, Taken(u + 1))
  BY <1>3, <1>6
<1>8. s \in Seq(Entries(capacity))
  BY <1>1 DEF RingRep
<1>9. /\ Len(t) = u + 1 /\ t[1] = u /\ \A j \in 1..u : t[j + 1] = s[j]
  <2>1. Len(t) = Len(s) + 1 /\ t[1] = u /\ \A j \in 1..Len(s) : t[j + 1] = s[j]
    BY <1>3, <1>8, PushFrontType
  <2> QED BY <1>1, <2>1
<1>10. Elems(t) = Taken(u + 1)
  <2>1. Elems(t) = Elems(s) \cup {u}
    BY <1>3, <1>8, PushFrontElems
  <2> QED BY <1>1, <1>3, <2>1
<1> DEFINE g == Touch(h, k)
<1>11. g \in Seq(Keys) /\ Distinct(g)
  BY <1>1, TouchType
<1>12. /\ Len(g) \in Nat /\ Len(g) > u /\ Len(g) \in {Len(h), Len(h) + 1}
       /\ g[1] = k /\ \A j \in 1..u : g[j + 1] = h[j]
  <2>1. u \in 0..Len(h) /\ \A j \in 1..u : h[j] # k
    BY <1>1, <1>2, HeldIsFound
  <2> QED BY <1>1, <2>1, TouchShifts
<1> HIDE DEF l2, m2, t, g
<1>13. ASSUME NEW j \in 1..(u + 1) PROVE m2.key[t[j]] = g[j]
  <2>1. CASE j = 1
    BY <1>6, <1>9, <1>12, <2>1
  <2>2. CASE j # 1
    <3>1. j - 1 \in 1..u /\ (j - 1) + 1 = j
      BY <1>2, <2>2
    <3>2. t[j] = s[j - 1] /\ g[j] = h[j - 1]
      BY <1>9, <1>12, <3>1
    <3>3. s[j - 1] \in Taken(u)
      BY <1>1, <3>1 DEF Elems
    <3> QED BY <1>1, <1>6, <3>1, <3>2, <3>3
  <2> QED BY <2>1, <2>2
<1>14. u + 1 \in 0..capacity /\ u + 1 <= Len(g) /\ (u + 1 = capacity \/ u + 1 = Len(g))
  BY <1>1, <1>2, <1>12
<1>15. Sound(capacity, bucket_for, l2, m2, u + 1, g, t, p)
  BY <1>1, <1>6, <1>7, <1>9, <1>10, <1>11, <1>13, <1>14 DEF Sound
<1> QED BY <1>6, <1>15 DEF l2, l1, m2, g

\* The first request of a key when every entry is taken: the oldest is turned into it.
Oldest(l) == l.prev[Sentinel]

LEMMA ReuseSound ==
  ASSUME NEW l, NEW m, NEW u, NEW h, NEW s, NEW q,
         Sound(capacity, bucket_for, l, m, u, h, s, q), u = capacity, capacity # 0,
         NEW k \in Keys, int_map_find(m, k) = NULL
  PROVE  /\ ~Refused([int_map_remove(m, Oldest(l)) EXCEPT !.key[Oldest(l)] = k], Oldest(l))
         /\ \E t, p : Sound(capacity, bucket_for,
                            list_push_front(list_remove(l, Oldest(l)), Oldest(l)),
                            KeyedMap(int_map_remove(m, Oldest(l)), Oldest(l), k),
                            u, Touch(h, k), t, p)
<1> DEFINE e == Oldest(l)
<1>1. /\ Apart(capacity) /\ u \in 0..capacity /\ RingRep(l, capacity, s) /\ Len(s) = u
      /\ Elems(s) = Taken(u) /\ MapRep(m, bucket_for, capacity, q, Taken(u))
      /\ h \in Seq(Keys) /\ Distinct(h) /\ u <= Len(h)
      /\ \A i \in 1..u : m.key[s[i]] = h[i]
  BY DEF Sound
<1>2. capacity \in Nat /\ Len(h) \in Nat /\ u \in Nat /\ u \in 1..Len(s)
  BY <1>1 DEF Apart
<1>3. /\ s \in Seq(Entries(capacity)) /\ Distinct(s) /\ l \in ListType(capacity)
      /\ Ring(l.next, l.prev, s, Sentinel) /\ Sentinel \notin Entries(capacity)
  BY <1>1 DEF RingRep, Apart
<1>4. e = s[u]
  <2>1. e = At(s, Len(s), Sentinel)
    BY <1>3, RingEnds DEF Oldest
  <2> HIDE DEF e
  <2> QED BY <1>1, <1>2, <2>1 DEF At
<1> HIDE DEF e
<1> DEFINE s1 == Removed(s, u)
           l1 == list_remove(l, e)
           m1 == int_map_remove(m, e)
           U1 == Taken(u) \ {e}
<1>5. e \in Taken(u) /\ e \in Entries(capacity) /\ m.key[e] \in Keys
  <2>1. e \in Taken(u)
    BY <1>1, <1>2, <1>4 DEF Elems
  <2> QED BY <1>1, <2>1 DEF MapRep
<1>6. RingRep(l1, capacity, s1) /\ Elems(s1) = U1
  BY <1>1, <1>2, <1>3, <1>4, ListRemoved, RemovedElems
<1>7. (\E p : MapRep(m1, bucket_for, capacity, p, U1)) /\ m1.key = m.key
  <2>1. \E p : Left(m1, m, bucket_for, capacity, p, U1)
    BY <1>1, <1>5, EntryLeaves
  <2> QED BY <2>1 DEF Left
<1>8. \A a \in U1 : m1.key[a] # k
  BY <1>7, HeldIsFound
<1>9. e \notin U1 /\ U1 \cup {e} = Taken(u)
  BY <1>5
<1> DEFINE l2 == list_push_front(l1, e)
           m2 == KeyedMap(m1, e, k)
           t == PushFront(s1, e)
<1> HIDE DEF s1, l1, m1, U1
<1>10. PICK p1 : MapRep(m1, bucket_for, capacity, p1, U1)
  BY <1>7
<1>11. /\ RingRep(l2, capacity, t)
       /\ ~Refused([m1 EXCEPT !.key[e] = k], e)
       /\ \E p : MapRep(m2, bucket_for, capacity, p, U1 \cup {e})
       /\ m2.key[e] = k /\ \A a \in U1 : m2.key[a] = m1.key[a]
  <2>1. Free(l1, m1, s1, p1, U1, e, k)
    BY <1>1, <1>5, <1>6, <1>8, <1>9, <1>10 DEF Free
  <2>2. Taking(l1, m1, s1, U1, e, k)
    BY <2>1, KeyTaken
  <2> QED BY <2>2 DEF Taking
<1>12. PICK p : MapRep(m2, bucket_for, capacity, p, Taken(u))
  BY <1>9, <1>11
<1>13. s1 \in Seq(Entries(capacity)) /\ Len(s1) = u - 1 /\ \A j \in 1..(u - 1) : s1[j] = s[j]
  <2>1. s1 \in Seq(Entries(capacity)) /\ Len(s1) = u - 1
    BY <1>1, <1>2, <1>3, RemovedType DEF s1
  <2>2. \A j \in 1..(u - 1) : s1[j] = s[j]
    BY <1>1, <1>2 DEF s1, Removed
  <2> QED BY <2>1, <2>2
<1>14. Len(t) = u /\ t[1] = e /\ \A j \in 1..(u - 1) : t[j + 1] = s[j]
  <2> DEFINE E == Entries(capacity)
  <2>3. s1 \in Seq(E) /\ e \in E
    BY <1>5, <1>13
  <2> HIDE DEF E
  <2>4. Len(t) = Len(s1) + 1 /\ t[1] = e
    BY <2>3, PushFrontType
  <2>1. \A j \in 1..Len(s1) : t[j + 1] = s1[j]
    BY <2>3, PushFrontType
  <2>2. Len(t) = (u - 1) + 1 /\ \A j \in 1..(u - 1) : t[j + 1] = s1[j]
    BY <1>13, <2>1, <2>4
  <2> HIDE DEF t
  <2> QED BY <1>2, <1>13, <2>2, <2>4
<1>15. Elems(t) = Taken(u)
  <2>1. Elems(t) = Elems(s1) \cup {e}
    BY <1>5, <1>13, PushFrontElems
  <2> QED BY <1>6, <1>9, <2>1
<1> DEFINE g == Touch(h, k)
<1>16. g \in Seq(Keys) /\ Distinct(g)
  BY <1>1, TouchType
<1>17. Len(g) \in Nat /\ Len(g) > u /\ g[1] = k /\ \A j \in 1..u : g[j + 1] = h[j]
  <2>1. u \in 0..Len(h) /\ \A j \in 1..u : h[j] # k
    BY <1>1, <1>2, HeldIsFound
  <2> QED BY <1>1, <2>1, TouchShifts
<1> HIDE DEF l2, m2, t, g
<1>18. ASSUME NEW j \in 1..u PROVE m2.key[t[j]] = g[j]
  <2>1. CASE j = 1
    BY <1>11, <1>14, <1>17, <2>1
  <2>2. CASE j # 1
    <3>1. j - 1 \in 1..(u - 1) /\ j - 1 \in 1..u /\ (j - 1) + 1 = j /\ j - 1 \in 1..Len(s1)
      BY <1>2, <1>13, <2>2
    <3>2. t[j] = s[j - 1] /\ g[j] = h[j - 1]
      BY <1>14, <1>17, <3>1
    <3>3. s[j - 1] \in U1
      BY <1>6, <1>13, <3>1 DEF Elems
    <3> QED BY <1>1, <1>7, <1>11, <3>1, <3>2, <3>3
  <2> QED BY <2>1, <2>2
<1>19. Sound(capacity, bucket_for, l2, m2, u, g, t, p)
  BY <1>1, <1>2, <1>11, <1>12, <1>14, <1>15, <1>16, <1>17, <1>18 DEF Sound
<1> QED BY <1>11, <1>19 DEF l2, l1, m2, m1, g, e

-----------------------------------------------------------------------------
(* The calls.                                                              *)

\* While there is a cache of some pages, list and map are sound and hold the
\* latest keys; else nothing is linked.
IInv ==
  /\ capacity \in Capacities \cup {0}
  /\ blocks \in {{}, NeededBlocks(capacity)}
  /\ bucket_for \in HashFunctions(capacity)
  /\ asserted = TRUE
  /\ stack \in Seq(Keys) /\ Distinct(stack)
  /\ blocks = {} => stack = << >>
  /\ blocks = {} \/ capacity = 0 => map = EmptyMap(capacity)
  /\ blocks # {} /\ capacity # 0 =>
       \E s, q : Sound(capacity, bucket_for, list, map, used, stack, s, q)

LEMMA BlocksNeeded == \A c : NeededBlocks(c) # {}
BY DEF NeededBlocks

\* A cache just created.
LEMMA CreatedSound ==
  ASSUME NEW c, Apart(c), c # 0, NEW f \in HashFunctions(c)
  PROVE  \E s, q : Sound(c, f, EmptyList(c), EmptyMap(c), 0, << >>, s, q)
<1> DEFINE q == [b \in Buckets(c) |-> << >>]
<1>1. c \in Nat /\ Taken(0) = {} /\ 0 \in 0..c
  BY DEF Apart, Taken
<1>2. f \in [Keys -> Buckets(c)]
  BY DEF HashFunctions
<1>3. RingRep(EmptyList(c), c, << >>)
  BY ListEmpty
<1>4. EmptyMap(c) \in MapType(c)
  BY DEF EmptyMap, MapType
<1>5. q \in [Buckets(c) -> Seq(Entries(c))]
  OBVIOUS
<1>6. \A b \in Buckets(c) : q[b] = << >> /\ EmptyMap(c).buckets[b] = NULL
  BY DEF EmptyMap
<1> HIDE DEF q
<1>7. \A b \in Buckets(c) : ChainRep(EmptyMap(c), f, b, q[b], {})
  BY <1>6 DEF ChainRep, Chained, At, Distinct
<1>8. \A e \in Entries(c) : EmptyMap(c).next[e] = NULL /\ EmptyMap(c).prev_next[e] = NULL
  BY DEF EmptyMap
<1>9. MapRep(EmptyMap(c), f, c, q, {})
  BY <1>2, <1>4, <1>5, <1>7, <1>8 DEF MapRep
<1>10. << >> \in Seq(Keys) /\ Len(<< >>) = 0 /\ Distinct(<< >>) /\ Elems(<< >>) = {}
  BY DEF Distinct, Elems
<1>11. Sound(c, f, EmptyList(c), EmptyMap(c), 0, << >>, << >>, q)
  BY <1>1, <1>3, <1>9, <1>10 DEF Sound
<1> QED BY <1>11

\* A map without buckets is as calloc made it, and stays so.
LEMMA NothingUnlinked ==
  ASSUME capacity = 0, map = EmptyMap(capacity)
  PROVE  [Unlinked(map) EXCEPT !.key = EmptyMap(capacity).key] = EmptyMap(capacity)
<1> DEFINE h == [b \in 0..0 |-> map]
           r == CHOOSE g : IsUnlinking(g, capacity, map)
<1>1. IsUnlinking(h, capacity, map)
  BY DEF IsUnlinking
<1>2. IsUnlinking(r, capacity, map)
  <2> HIDE DEF h
  <2> QED BY <1>1
<1> HIDE DEF r
<1>3. r[capacity] = map
  BY <1>2 DEF IsUnlinking
<1>4. Unlinked(map) = EmptyMap(capacity)
  BY <1>3, UnlinkedIs DEF r
<1>5. EmptyMap(capacity) = [EmptyMap(capacity) EXCEPT !.key = EmptyMap(capacity).key]
  BY DEF EmptyMap
<1> QED BY <1>4, <1>5

LEMMA IInitInv ==
  ASSUME Init
  PROVE  IInv
<1>1. /\ blocks = {} /\ capacity = 0 /\ map = EmptyMap(0) /\ bucket_for \in HashFunctions(0)
      /\ asserted = TRUE /\ stack = << >>
  BY DEF Init
<1>2. << >> \in Seq(Keys) /\ Distinct(<< >>)
  BY DEF Distinct
<1> QED BY <1>1, <1>2 DEF IInv

\* What a sound cache of some pages is, spelled out.
LEMMA InUseSound ==
  ASSUME ConstantsRight, IInv, blocks = NeededBlocks(capacity), capacity # 0
  PROVE  /\ Apart(capacity)
         /\ \E s, q : Sound(capacity, bucket_for, list, map, used, stack, s, q)
BY CapacityApart, BlocksNeeded DEF IInv

LEMMA CreateKeeps ==
  ASSUME ConstantsRight, IInv, NEW ok \in SUBSET {"cache", "entries", "buckets"},
         NEW cap \in Capacities, NEW f \in HashFunctions(cap), lru_create(ok, cap, f)
  PROVE  IInv'
<1>1. /\ blocks' = IF NeededBlocks(cap) \subseteq ok THEN NeededBlocks(cap) ELSE {}
      /\ capacity' = cap /\ list' = EmptyList(cap) /\ map' = EmptyMap(cap) /\ used' = 0
      /\ bucket_for' = f /\ stack' = << >> /\ asserted' = asserted
  BY DEF lru_create
<1>2. cap # 0 => \E s, q : Sound(cap, f, EmptyList(cap), EmptyMap(cap), 0, << >>, s, q)
  BY CapacityApart, CreatedSound
<1>3. << >> \in Seq(Keys) /\ Distinct(<< >>)
  BY DEF Distinct
<1>4. asserted = TRUE
  BY DEF IInv
<1> QED BY <1>1, <1>2, <1>3, <1>4 DEF IInv

LEMMA DestroyKeeps ==
  ASSUME ConstantsRight, IInv, lru_destroy
  PROVE  IInv'
<1>1. /\ blocks = NeededBlocks(capacity) /\ blocks' = {}
      /\ map' = [Unlinked(map) EXCEPT !.key = EmptyMap(capacity).key]
      /\ stack' = << >> /\ capacity' = capacity /\ bucket_for' = bucket_for /\ asserted' = asserted
  BY DEF lru_destroy
<1>2. map' = EmptyMap(capacity)
  <2>1. CASE capacity = 0
    BY <1>1, <2>1, NothingUnlinked DEF IInv
  <2>2. CASE capacity # 0
    <3>1. PICK s, q : Sound(capacity, bucket_for, list, map, used, stack, s, q)
      BY <1>1, <2>2, InUseSound
    <3>2. Apart(capacity) /\ MapRep(map, bucket_for, capacity, q, Taken(used))
      BY <3>1 DEF Sound
    <3> QED BY <1>1, <3>2, DestroyedIs
  <2> QED BY <2>1, <2>2
<1>3. << >> \in Seq(Keys) /\ Distinct(<< >>)
  BY DEF Distinct
<1> QED BY <1>1, <1>2, <1>3 DEF IInv

\* A request to a cache of some pages.
LEMMA AccessKeeps ==
  ASSUME ConstantsRight, IInv, blocks = NeededBlocks(capacity), capacity # 0,
         NEW k \in Keys, stack' = Touch(stack, k),
         UNCHANGED <<blocks, capacity, bucket_for, asserted>>,
         \E s, q : Sound(capacity, bucket_for, list', map', used', Touch(stack, k), s, q)
  PROVE  IInv'
<1>1. Touch(stack, k) \in Seq(Keys) /\ Distinct(Touch(stack, k))
  BY TouchType DEF IInv
<1> QED BY <1>1, BlocksNeeded DEF IInv

LEMMA ZeroKeeps ==
  ASSUME IInv, NEW k \in Keys, AccessZero(k)
  PROVE  IInv'
<1>1. /\ blocks = NeededBlocks(capacity) /\ capacity = 0 /\ stack' = Touch(stack, k)
      /\ UNCHANGED <<blocks, capacity, list, map, used, bucket_for, asserted>>
  BY DEF AccessZero
<1>2. Touch(stack, k) \in Seq(Keys) /\ Distinct(Touch(stack, k))
  BY TouchType DEF IInv
<1> QED BY <1>1, <1>2, BlocksNeeded DEF IInv

LEMMA HitKeeps ==
  ASSUME ConstantsRight, IInv, NEW k \in Keys, AccessHit(k)
  PROVE  IInv'
<1> DEFINE e == int_map_find(map, k)
           l2 == list_push_front(list_remove(list, e), e)
<1>1. /\ blocks = NeededBlocks(capacity) /\ capacity # 0 /\ e # NULL /\ list' = l2
      /\ stack' = Touch(stack, k)
      /\ UNCHANGED <<blocks, capacity, map, used, bucket_for, asserted>>
  BY DEF AccessHit
<1>2. PICK s, q : Sound(capacity, bucket_for, list, map, used, stack, s, q)
  BY <1>1, InUseSound
<1>3. \E t : Sound(capacity, bucket_for, l2, map, used, Touch(stack, k), t, q)
  BY <1>1, <1>2, HitSound
<1> HIDE DEF l2, e
<1>4. \E t, p : Sound(capacity, bucket_for, list', map', used', Touch(stack, k), t, p)
  BY <1>1, <1>3
<1> QED BY <1>1, <1>4, AccessKeeps

LEMMA FreshKeeps ==
  ASSUME ConstantsRight, IInv, NEW k \in Keys, AccessFresh(k)
  PROVE  IInv'
<1> DEFINE l1 == [list EXCEPT !.prev[used] = used, !.next[used] = used]
           m1 == [map EXCEPT !.key[used] = k]
<1>1. /\ blocks = NeededBlocks(capacity) /\ capacity # 0 /\ int_map_find(map, k) = NULL
      /\ used < capacity /\ used' = used + 1
      /\ asserted' = (asserted /\ ~Refused(m1, used))
      /\ map' = KeyedMap(map, used, k) /\ list' = list_push_front(l1, used)
      /\ stack' = Touch(stack, k) /\ UNCHANGED <<blocks, capacity, bucket_for>>
  BY DEF AccessFresh, Absent, TakeKey, KeyedMap
<1>2. PICK s, q : Sound(capacity, bucket_for, list, map, used, stack, s, q)
  BY <1>1, InUseSound
<1>3. /\ ~Refused(m1, used)
      /\ \E t, p : Sound(capacity, bucket_for, list_push_front(l1, used), KeyedMap(map, used, k),
                         used + 1, Touch(stack, k), t, p)
  BY <1>1, <1>2, FreshSound
<1> HIDE DEF l1, m1
<1>4. asserted' = asserted
  BY <1>1, <1>3 DEF IInv
<1>5. \E t, p : Sound(capacity, bucket_for, list', map', used', Touch(stack, k), t, p)
  BY <1>1, <1>3
<1> QED BY <1>1, <1>4, <1>5, AccessKeeps

LEMMA ReuseKeeps ==
  ASSUME ConstantsRight, IInv, NEW k \in Keys, AccessReuse(k)
  PROVE  IInv'
<1> DEFINE e == Oldest(list)
           m1 == [int_map_remove(map, e) EXCEPT !.key[e] = k]
           l2 == list_push_front(list_remove(list, e), e)
           m2 == KeyedMap(int_map_remove(map, e), e, k)
<1>1. /\ blocks = NeededBlocks(capacity) /\ capacity # 0 /\ int_map_find(map, k) = NULL
      /\ used = capacity /\ used' = used
      /\ asserted' = (asserted /\ ~Refused(m1, e))
      /\ map' = m2 /\ list' = l2
      /\ stack' = Touch(stack, k) /\ UNCHANGED <<blocks, capacity, bucket_for>>
  BY DEF AccessReuse, Absent, TakeKey, KeyedMap, Oldest
<1>2. PICK s, q : Sound(capacity, bucket_for, list, map, used, stack, s, q)
  BY <1>1, InUseSound
<1>3. /\ ~Refused(m1, e)
      /\ \E t, p : Sound(capacity, bucket_for, l2, m2, used, Touch(stack, k), t, p)
  BY <1>1, <1>2, ReuseSound
<1> HIDE DEF e, m1, l2, m2
<1>4. asserted' = asserted
  BY <1>1, <1>3 DEF IInv
<1>5. \E t, p : Sound(capacity, bucket_for, list', map', used', Touch(stack, k), t, p)
  BY <1>1, <1>3
<1> QED BY <1>1, <1>4, <1>5, AccessKeeps

LEMMA IStepInv ==
  ASSUME ConstantsRight, IInv, [Next]_vars
  PROVE  IInv'
<1>1. CASE \E ok \in SUBSET {"cache", "entries", "buckets"}, cap \in Capacities :
             \E f \in HashFunctions(cap) : lru_create(ok, cap, f)
  BY <1>1, CreateKeeps
<1>2. CASE lru_destroy
  BY <1>2, DestroyKeeps
<1>3. ASSUME NEW k \in Keys, lru_access(k) PROVE IInv'
  BY <1>3, ZeroKeeps, HitKeeps, FreshKeeps, ReuseKeeps DEF lru_access
<1>4. CASE UNCHANGED vars
  BY <1>4 DEF vars, IInv
<1> QED BY <1>1, <1>2, <1>3, <1>4 DEF Next

-----------------------------------------------------------------------------
(* What the invariant gives.                                               *)

LEMMA SoundChains ==
  ASSUME NEW s, NEW q, Sound(capacity, bucket_for, list, map, used, stack, s, q)
  PROVE  /\ \A e \in InUse : /\ map.prev_next[e] # NULL
                             /\ Deref(map, map.prev_next[e]) = e
                             /\ e \in InChain(map, bucket_for[map.key[e]])
         /\ \A b \in Buckets(capacity) : \A e \in InChain(map, b) :
              e \in InUse /\ bucket_for[map.key[e]] = b
<1>1. /\ Apart(capacity) /\ used \in 0..capacity
      /\ MapRep(map, bucket_for, capacity, q, Taken(used))
  BY DEF Sound
<1>2. InUse = Taken(used)
  BY <1>1 DEF InUse, Taken, Entries, Apart
<1>3. ASSUME NEW b \in Buckets(capacity), NEW e \in InChain(map, b)
      PROVE  e \in InUse /\ bucket_for[map.key[e]] = b
  <2>1. e \in Elems(q[b])
    BY <1>1, <1>3, InChainIs
  <2> QED BY <1>1, <1>2, <1>3, <2>1, ChainEntries
<1>4. ASSUME NEW e \in InUse
      PROVE  /\ map.prev_next[e] # NULL /\ Deref(map, map.prev_next[e]) = e
             /\ e \in InChain(map, bucket_for[map.key[e]])
  <2> DEFINE b == bucket_for[map.key[e]]
  <2>1. b \in Buckets(capacity) /\ e \in Elems(q[b])
    BY <1>1, <1>2, <1>4 DEF MapRep
  <2> HIDE DEF b
  <2>2. e \in InChain(map, b)
    BY <1>1, <2>1, InChainIs
  <2>3. PICK i \in 1..Len(q[b]) : e = q[b][i]
    BY <2>1 DEF Elems
  <2>4. map.prev_next[e] = Owner(q[b], i, b)
    BY <1>1, <2>1, <2>3, ChainEntries
  <2>5. /\ q[b] \in Seq(Entries(capacity)) /\ Len(q[b]) \in Nat
        /\ Chained(map.buckets[b], map.next, q[b], NULL)
    BY <1>1, <2>1, ChainEntries
  <2>6. CASE i = 1
    <3>1. map.prev_next[e] = <<"bucket", b>> /\ map.buckets[b] = e
      BY <2>3, <2>4, <2>5, <2>6 DEF Owner, Chained, At
    <3>2. <<"bucket", b>> # NULL
      BY <1>1, <2>1 DEF Apart, Buckets, Entries
    <3> QED BY <2>2, <3>1, <3>2 DEF Deref, b
  <2>7. CASE i # 1
    <3>1. i - 1 \in 1..Len(q[b]) /\ (i - 1) + 1 = i
      BY <2>5, <2>7
    <3>2. map.prev_next[e] = <<"next", q[b][i - 1]>> /\ map.next[q[b][i - 1]] = e
      BY <2>3, <2>4, <2>5, <2>7, <3>1 DEF Owner, Chained, At
    <3>3. <<"next", q[b][i - 1]>> # NULL
      BY <1>1, <2>5, <3>1 DEF Apart
    <3> QED BY <2>2, <3>2, <3>3 DEF Deref, b
  <2> QED BY <2>6, <2>7
<1> QED BY <1>3, <1>4

\* The map of a cache is sound and no insertion was refused.
LEMMA InvChains ==
  ASSUME ConstantsRight, IInv
  PROVE  ChainsSound /\ InsertAccepted
<1>1. CASE blocks = {}
  BY <1>1 DEF ChainsSound, IInv, InsertAccepted
<1>2. CASE blocks # {} /\ capacity = 0
  <2>1. Entries(capacity) = {} /\ Buckets(capacity) = {}
    BY <1>2 DEF Entries, Buckets
  <2>2. InUse = {}
    BY <2>1 DEF InUse
  <2> QED BY <1>2, <2>1, <2>2 DEF ChainsSound, IInv, InsertAccepted
<1>3. CASE blocks # {} /\ capacity # 0
  <2>1. PICK s, q : Sound(capacity, bucket_for, list, map, used, stack, s, q)
    BY <1>3 DEF IInv
  <2> QED BY <1>3, <2>1, SoundChains DEF ChainsSound, IInv, InsertAccepted
<1> QED BY <1>1, <1>2, <1>3

\* The keys of the first requests, as many as there are entries taken.
LEMMA SoundResident ==
  ASSUME NEW s, NEW q, Sound(capacity, bucket_for, list, map, used, stack, s, q), NEW k \in Keys
  PROVE  k \in Resident(stack, capacity) <=> int_map_find(map, k) # NULL
<1>1. /\ used \in 0..capacity /\ capacity \in Nat /\ stack \in Seq(Keys) /\ Len(stack) \in Nat
      /\ used <= Len(stack) /\ (used = capacity \/ used = Len(stack))
  BY DEF Sound, Apart
<1>2. k \in Resident(stack, capacity) <=> \E i \in 1..used : stack[i] = k
  <2>1. \A i : i \in 1..used <=> i \in 1..Len(stack) /\ i <= capacity
    BY <1>1
  <2> QED BY <2>1 DEF Resident
<1>3. int_map_find(map, k) = NULL <=> \A i \in 1..used : stack[i] # k
  BY HeldIsFound
<1> QED BY <1>2, <1>3

\* A cache without entries holds no key.
LEMMA ZeroResident == \A h : Resident(h, 0) = {} /\ \A c : Resident(<< >>, c) = {}
BY DEF Resident

\* The cache holds the latest keys, as many as it may.
LEMMA InvPages ==
  ASSUME ConstantsRight, IInv
  PROVE  PagesHeld = [k \in Keys |-> IF k \in Resident(stack, capacity) THEN thePage ELSE NoPage]
<1>1. ASSUME NEW k \in Keys
      PROVE  (IF capacity = 0 \/ blocks = {} THEN NoPage
              ELSE IF int_map_find(map, k) = NULL THEN NoPage ELSE thePage)
               = IF k \in Resident(stack, capacity) THEN thePage ELSE NoPage
  <2>1. CASE capacity = 0
    BY <2>1, ZeroResident
  <2>2. CASE blocks = {}
    BY <2>2, ZeroResident DEF IInv
  <2>3. CASE capacity # 0 /\ blocks # {}
    <3>1. PICK s, q : Sound(capacity, bucket_for, list, map, used, stack, s, q)
      BY <2>3 DEF IInv
    <3>2. k \in Resident(stack, capacity) <=> int_map_find(map, k) # NULL
      BY <3>1, SoundResident
    <3> QED BY <2>3, <3>2
  <2> QED BY <2>1, <2>2, <2>3
<1> QED BY <1>1, Zenon DEF PagesHeld

\* What a request for key k answers, and when.
Answered(k) ==
  /\ capacity' = capacity /\ stack' = Touch(stack, k)
  /\ \/ capacity = 0 /\ result' = [kind |-> "miss", value |-> NoPage]
     \/ k \in Resident(stack, capacity) /\ result' = [kind |-> "hit", value |-> thePage]
     \/ k \notin Resident(stack, capacity) /\ result' = [kind |-> "miss", value |-> thePage]

Cleared == capacity' \in Nat /\ stack' = << >> /\ result' = [kind |-> "none", value |-> NoPage]

\* Each call clears the cache or answers a request by its history.
LEMMA CallAnswers ==
  ASSUME ConstantsRight, IInv, Next
  PROVE  Cleared \/ \E k \in Keys : Answered(k)
<1>1. capacity \in Nat
  BY DEF IInv, ConstantsRight
<1>2. CASE \E ok \in SUBSET {"cache", "entries", "buckets"}, cap \in Capacities :
             \E f \in HashFunctions(cap) : lru_create(ok, cap, f)
  BY <1>2 DEF lru_create, Outcome, Cleared, ConstantsRight
<1>3. CASE lru_destroy
  BY <1>1, <1>3 DEF lru_destroy, Outcome, Cleared
<1>4. ASSUME NEW k \in Keys, AccessZero(k) PROVE Answered(k)
  BY <1>4 DEF AccessZero, Outcome, Answered
<1>5. ASSUME NEW k \in Keys, AccessHit(k) PROVE Answered(k)
  <2>1. /\ blocks = NeededBlocks(capacity) /\ capacity # 0 /\ int_map_find(map, k) # NULL
        /\ capacity' = capacity /\ stack' = Touch(stack, k) /\ result' = Outcome("hit")
    BY <1>5 DEF AccessHit
  <2>2. k \in Resident(stack, capacity)
    BY <2>1, InUseSound, SoundResident
  <2> QED BY <2>1, <2>2 DEF Outcome, Answered
<1>6. ASSUME NEW k \in Keys, AccessFresh(k) \/ AccessReuse(k) PROVE Answered(k)
  <2>1. /\ blocks = NeededBlocks(capacity) /\ capacity # 0 /\ int_map_find(map, k) = NULL
        /\ capacity' = capacity /\ stack' = Touch(stack, k) /\ result' = Outcome("miss")
    BY <1>6 DEF AccessFresh, AccessReuse, Absent, TakeKey
  <2>2. k \notin Resident(stack, capacity)
    BY <2>1, InUseSound, SoundResident
  <2> QED BY <2>1, <2>2 DEF Outcome, Answered
<1> QED BY <1>2, <1>3, <1>4, <1>5, <1>6 DEF Next, lru_access
=============================================================================
