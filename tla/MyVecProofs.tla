---------------------------- MODULE MyVecProofs -----------------------------
(***************************************************************************)
(* Proofs about the five vectors (MCMyVec), for any number of vectors,     *)
(* elements and buffers, whatever throws: their memory is sound, and they  *)
(* implement VecSpec, the strong exception guarantee.                      *)
(*                                                                         *)
(* In three parts: lemmas about storages, the owners of buffers (what an   *)
(* allocation, a write, an exchange and a release keep); the memory of the *)
(* vectors; and the contents they promise.                                 *)
(***************************************************************************)
EXTENDS MCMyVec, SequenceTheorems, FiniteSetTheorems, TLAPS

-----------------------------------------------------------------------------
(* Storages, the owners of buffers: owners O, heap h, and hd slots in      *)
(* front of the first element of a buffer.                                 *)

Names == Vectors \cup {"tmp"}
Slots == Values \cup {"raw", "moved", "block"}
Storages == [arr : Buffers \cup {nullptr}, size : Nat, used : Nat]

\* A storage knows the length of its buffer, and fills it from the front.
Filled(o, h, hd) ==
  /\ o.used <= o.size
  /\ o.arr = nullptr => o.size = 0
  /\ o.arr # nullptr => /\ h[o.arr] # << >> /\ Len(h[o.arr]) = o.size + hd
                        /\ \A i \in 1..o.size : h[o.arr][i + hd] = "raw" <=> i > o.used

Exclusive(O) == \A u, v \in Names : O[u].arr = O[v].arr /\ O[u].arr # nullptr => u = v
Reached(O, h) == \A b \in Buffers : h[b] # << >> => \E u \in Names : O[u].arr = b

Sound(O, h, hd) ==
  /\ h \in [Buffers -> Seq(Slots)] /\ O \in [Names -> Storages]
  /\ Exclusive(O) /\ Reached(O, h)
  /\ \A u \in Names : Filled(O[u], h, hd)

\* g is h but for slot j of buffer a, which is x.
Poked(h, a, j, x, g) == g = [h EXCEPT ![a][j] = x]

\* P is O but for the number of elements of u.
Refilled(O, P, u, k) == P = [n \in Names |-> IF n = u THEN [O[u] EXCEPT !.used = k] ELSE O[n]]

\* One slot of a buffer is written.
LEMMA Written ==
  ASSUME NEW h \in [Buffers -> Seq(Slots)], NEW a \in Buffers, NEW j \in 1..Len(h[a]),
         NEW x \in Slots, NEW g, Poked(h, a, j, x, g)
  PROVE  /\ g \in [Buffers -> Seq(Slots)]
         /\ \A b \in Buffers : b # a => g[b] = h[b]
         /\ g[a] # << >> /\ Len(g[a]) = Len(h[a])
         /\ \A m \in 1..Len(h[a]) : g[a][m] = IF m = j THEN x ELSE h[a][m]
<1> DEFINE s == [h[a] EXCEPT ![j] = x]
<1>1. /\ s \in Seq(Slots) /\ Len(s) = Len(h[a])
      /\ \A m \in 1..Len(h[a]) : s[m] = IF m = j THEN x ELSE h[a][m]
  BY ExceptSeq
<1>2. g \in [Buffers -> Seq(Slots)] /\ g[a] = s /\ \A b \in Buffers : b # a => g[b] = h[b]
  BY <1>1 DEF Poked
<1>3. s # << >>
  BY <1>1, EmptySeq
<1> HIDE DEF s
<1> QED BY <1>1, <1>2, <1>3

\* Two owners exchange their storages.
LEMMA ExchangedSound ==
  ASSUME NEW O, NEW h, NEW hd \in {0, 1}, Sound(O, h, hd),
         NEW u \in Names, NEW v \in Names, NEW P,
         P = [n \in Names |-> IF n = u THEN O[v] ELSE IF n = v THEN O[u] ELSE O[n]]
  PROVE  Sound(P, h, hd)
BY DEF Sound, Exclusive, Reached

\* Owner u of O counts k elements in P; the others stay as they are.
Recounted(O, P, u, k) ==
  /\ P \in [Names -> Storages] /\ \A n \in Names : n # u => P[n] = O[n]
  /\ P[u].arr = O[u].arr /\ P[u].size = O[u].size /\ P[u].used = k

\* Element i of buffer a of h is x in g.
Assigned(h, hd, a, n, g, i, x) ==
  /\ g \in [Buffers -> Seq(Slots)] /\ \A b \in Buffers : b # a => g[b] = h[b]
  /\ g[a] # << >> /\ Len(g[a]) = Len(h[a])
  /\ \A m \in 1..n : g[a][m + hd] = IF m = i THEN x ELSE h[a][m + hd]

\* After it k elements out of n are there, if there were j before.
Counted(n, j, k, i, x) ==
  k <= n /\ \A m \in 1..n : (IF m = i THEN x = "raw" ELSE m > j) <=> m > k

\* What Sound says of one owner.
LEMMA OwnerFacts ==
  ASSUME NEW O, NEW h, NEW hd \in {0, 1}, Sound(O, h, hd), NEW u \in Names
  PROVE  /\ O[u] \in Storages /\ Filled(O[u], h, hd)
         /\ O[u].size \in Nat /\ O[u].used \in Nat /\ O[u].used <= O[u].size
         /\ O[u].arr \in Buffers \cup {nullptr}
         /\ O[u].size > 0 => O[u].arr \in Buffers /\ O[u].arr # nullptr
<1>1. O[u] \in Storages /\ Filled(O[u], h, hd)
  BY DEF Sound
<1>2. O[u].size \in Nat /\ O[u].used \in Nat /\ O[u].arr \in Buffers \cup {nullptr}
  BY <1>1 DEF Storages
<1>3. O[u].used <= O[u].size /\ (O[u].arr = nullptr => O[u].size = 0)
  BY <1>1, Zenon DEF Filled
<1> QED BY <1>1, <1>2, <1>3

LEMMA UpdatedSound ==
  ASSUME NEW O, NEW h, NEW hd \in {0, 1}, Sound(O, h, hd), NEW u \in Names, NEW P, NEW g, NEW k,
         NEW i, NEW x, O[u].arr # nullptr, Recounted(O, P, u, k),
         Assigned(h, hd, O[u].arr, O[u].size, g, i, x), Counted(O[u].size, O[u].used, k, i, x)
  PROVE  Sound(P, g, hd)
<1>0. /\ h \in [Buffers -> Seq(Slots)] /\ O \in [Names -> Storages]
      /\ Exclusive(O) /\ Reached(O, h) /\ \A n \in Names : Filled(O[n], h, hd)
  BY DEF Sound
<1> DEFINE a == O[u].arr
           n == O[u].size
<1>1. /\ P \in [Names -> Storages] /\ P[u].arr = a /\ P[u].size = n /\ P[u].used = k
      /\ \A m \in Names : m # u => P[m] = O[m]
  BY DEF Recounted
<1>2. /\ g \in [Buffers -> Seq(Slots)] /\ g[a] # << >> /\ Len(g[a]) = Len(h[a])
      /\ \A b \in Buffers : b # a => g[b] = h[b]
      /\ \A m \in 1..n : g[a][m + hd] = IF m = i THEN x ELSE h[a][m + hd]
  BY DEF Assigned
<1>3. a \in Buffers /\ Len(h[a]) = n + hd /\ \A m \in 1..n : h[a][m + hd] = "raw" <=> m > O[u].used
  <2>1. a \in Buffers /\ Filled(O[u], h, hd)
    BY OwnerFacts
  <2> QED BY <2>1, Zenon DEF Filled
<1>4. \A m \in Names : P[m].arr = O[m].arr
  BY <1>1
<1>5. Exclusive(P)
  BY <1>0, <1>4 DEF Exclusive
<1>6. Reached(P, g)
  <2>1. ASSUME NEW b \in Buffers, g[b] # << >> PROVE \E m \in Names : P[m].arr = b
    <3>1. CASE b = a
      BY <1>1, <3>1
    <3>2. CASE b # a
      BY <1>0, <1>2, <1>4, <2>1, <3>2, ZenonT(60) DEF Reached
    <3> QED BY <3>1, <3>2
  <2> QED BY <2>1 DEF Reached
<1>7. Filled(P[u], g, hd)
  <2>1. \A m \in 1..n : g[a][m + hd] = "raw" <=> m > k
    BY <1>2, <1>3, Zenon DEF Counted
  <2>2. k <= n /\ a # nullptr /\ g[a] # << >> /\ Len(g[a]) = n + hd
    BY <1>2, <1>3, Zenon DEF Counted
  <2> HIDE DEF a, n
  <2> QED BY <1>1, <2>1, <2>2, Zenon DEF Filled
<1>8. ASSUME NEW m \in Names, m # u PROVE Filled(P[m], g, hd)
  <2>1. P[m] = O[m] /\ O[m].arr # a /\ O[m].arr \in Buffers \cup {nullptr} /\ Filled(O[m], h, hd)
    BY <1>0, <1>1, <1>3, <1>8 DEF Exclusive, Storages
  <2>2. O[m].arr # nullptr => g[O[m].arr] = h[O[m].arr]
    BY <1>2, <2>1
  <2> QED BY <2>1, <2>2 DEF Filled
<1> QED BY <1>1, <1>2, <1>5, <1>6, <1>7, <1>8 DEF Sound

\* What the write of one element of an owner does to its buffer.
LEMMA SlotWritten ==
  ASSUME NEW O, NEW h, NEW hd \in {0, 1}, Sound(O, h, hd), NEW u \in Names,
         NEW i \in 1..O[u].size, NEW x \in Slots, NEW g, Poked(h, O[u].arr, i + hd, x, g)
  PROVE  O[u].arr # nullptr /\ Assigned(h, hd, O[u].arr, O[u].size, g, i, x)
<1> DEFINE a == O[u].arr
<1>1. h \in [Buffers -> Seq(Slots)]
  BY DEF Sound
<1>2. a \in Buffers /\ a # nullptr /\ O[u].size \in Nat /\ Len(h[a]) = O[u].size + hd /\ i + hd \in 1..Len(h[a])
  BY OwnerFacts DEF Filled
<1>3. /\ g \in [Buffers -> Seq(Slots)]
      /\ \A b \in Buffers : b # a => g[b] = h[b]
      /\ g[a] # << >> /\ Len(g[a]) = Len(h[a])
      /\ \A m \in 1..Len(h[a]) : g[a][m] = IF m = i + hd THEN x ELSE h[a][m]
  BY <1>1, <1>2, Written
<1>4. ASSUME NEW m \in 1..O[u].size PROVE g[a][m + hd] = IF m = i THEN x ELSE h[a][m + hd]
  <2>1. m + hd \in 1..Len(h[a]) /\ (m + hd = i + hd <=> m = i)
    BY <1>2
  <2> QED BY <1>3, <2>1
<1> QED BY <1>2, <1>3, <1>4, Zenon DEF Assigned

LEMMA RecountedOwner ==
  ASSUME NEW O, NEW h, NEW hd \in {0, 1}, Sound(O, h, hd), NEW u \in Names, NEW k \in Nat, NEW P,
         Refilled(O, P, u, k)
  PROVE  Recounted(O, P, u, k)
<1> DEFINE o == [O[u] EXCEPT !.used = k]
<1>1. o \in Storages /\ o.arr = O[u].arr /\ o.size = O[u].size /\ o.used = k
  BY OwnerFacts DEF Storages
<1>2. O \in [Names -> Storages] /\ P = [n \in Names |-> IF n = u THEN o ELSE O[n]]
  BY DEF Sound, Refilled
<1> HIDE DEF o
<1> QED BY <1>1, <1>2 DEF Recounted

\* An owner gets one element more, which is no raw slot.
LEMMA GrownSound ==
  ASSUME NEW O, NEW h, NEW hd \in {0, 1}, Sound(O, h, hd), NEW u \in Names,
         O[u].used < O[u].size, NEW x \in Slots, x # "raw", NEW P, NEW g,
         Refilled(O, P, u, O[u].used + 1), Poked(h, O[u].arr, O[u].used + 1 + hd, x, g)
  PROVE  Sound(P, g, hd)
<1>0. O[u].size \in Nat /\ O[u].used \in Nat
  BY OwnerFacts
<1> DEFINE i == O[u].used + 1
<1>1. i \in 1..O[u].size /\ i \in Nat
  BY <1>0
<1>2. Refilled(O, P, u, i)
  OBVIOUS
<1>3. Counted(O[u].size, O[u].used, i, i, x)
  BY <1>0 DEF Counted
<1>5. O[u].arr # nullptr /\ Assigned(h, hd, O[u].arr, O[u].size, g, i, x)
  BY <1>1, SlotWritten
<1> HIDE DEF i
<1>4. Recounted(O, P, u, i)
  BY <1>1, <1>2, RecountedOwner
<1> QED BY <1>3, <1>4, <1>5, UpdatedSound

\* An owner loses its last element.
LEMMA ShrunkSound ==
  ASSUME NEW O, NEW h, NEW hd \in {0, 1}, Sound(O, h, hd), NEW u \in Names,
         O[u].used >= 1, NEW P, NEW g,
         Refilled(O, P, u, O[u].used - 1), Poked(h, O[u].arr, O[u].used + hd, "raw", g)
  PROVE  Sound(P, g, hd)
<1>0. O[u].size \in Nat /\ O[u].used \in Nat /\ O[u].used <= O[u].size
  BY OwnerFacts
<1> DEFINE i == O[u].used
           k == O[u].used - 1
<1>1. i \in 1..O[u].size /\ k \in Nat /\ "raw" \in Slots
  BY <1>0 DEF Slots
<1>2. Refilled(O, P, u, k)
  OBVIOUS
<1>3. Counted(O[u].size, O[u].used, k, i, "raw")
  BY <1>0 DEF Counted
<1>5. O[u].arr # nullptr /\ Assigned(h, hd, O[u].arr, O[u].size, g, i, "raw")
  BY <1>1, SlotWritten
<1> HIDE DEF i, k
<1>4. Recounted(O, P, u, k)
  BY <1>1, <1>2, RecountedOwner
<1> QED BY <1>3, <1>4, <1>5, UpdatedSound

\* An element of an owner is written over.
LEMMA ReplacedSound ==
  ASSUME NEW O, NEW h, NEW hd \in {0, 1}, Sound(O, h, hd), NEW u \in Names,
         NEW i \in 1..O[u].used, NEW x \in Slots, x # "raw", NEW g,
         Poked(h, O[u].arr, i + hd, x, g)
  PROVE  Sound(O, g, hd)
<1>0. O[u].size \in Nat /\ O[u].used \in Nat /\ O[u].used <= O[u].size
  BY OwnerFacts
<1>1. i \in 1..O[u].size
  BY <1>0
<1>3. Counted(O[u].size, O[u].used, O[u].used, i, x)
  BY <1>0 DEF Counted
<1>4. Recounted(O, O, u, O[u].used)
  BY DEF Recounted, Sound
<1>5. O[u].arr # nullptr /\ Assigned(h, hd, O[u].arr, O[u].size, g, i, x)
  BY <1>1, SlotWritten
<1> QED BY <1>3, <1>4, <1>5, UpdatedSound

\* A new buffer of n slots.
Blank(s, n, hd) ==
  s \in Seq(Slots) /\ Len(s) = n + hd /\ s # << >> /\ \A i \in 1..n : s[i + hd] = "raw"

\* Owner u gets buffer b.
Placed(O, P, u, b, n) ==
  P = [m \in Names |-> IF m = u THEN [arr |-> b, size |-> n, used |-> 0] ELSE O[m]]

\* An owner without a buffer gets a new one.
LEMMA AllocatedSound ==
  ASSUME NEW O, NEW h, NEW hd \in {0, 1}, Sound(O, h, hd), NEW u \in Names, O[u].arr = nullptr,
         NEW b \in Buffers, h[b] = << >>, NEW n \in Nat, NEW s, Blank(s, n, hd), NEW P, NEW g,
         Placed(O, P, u, b, n),
         g = [h EXCEPT ![b] = s]
  PROVE  Sound(P, g, hd)
<1>0. /\ h \in [Buffers -> Seq(Slots)] /\ O \in [Names -> Storages]
      /\ Exclusive(O) /\ Reached(O, h) /\ \A m \in Names : Filled(O[m], h, hd)
  BY DEF Sound
<1>9. s \in Seq(Slots) /\ Len(s) = n + hd /\ s # << >> /\ \A i \in 1..n : s[i + hd] = "raw"
  BY DEF Blank
<1>1. g \in [Buffers -> Seq(Slots)] /\ g[b] = s /\ \A c \in Buffers : c # b => g[c] = h[c]
  BY <1>0, <1>9
<1>2. /\ P \in [Names -> Storages] /\ P[u] = [arr |-> b, size |-> n, used |-> 0]
      /\ \A m \in Names : m # u => P[m] = O[m]
  BY <1>0 DEF Storages, Placed
<1>3. \A m \in Names : O[m].arr # b
  BY <1>0, NullAssumption DEF Filled
<1>4. P[u].arr = b /\ \A m \in Names : m # u => P[m].arr = O[m].arr
  BY <1>2
<1>5. Exclusive(P)
  BY <1>0, <1>3, <1>4 DEF Exclusive
<1>8. Reached(P, g)
  <2>1. ASSUME NEW c \in Buffers, g[c] # << >> PROVE \E m \in Names : P[m].arr = c
    <3>1. CASE c = b
      BY <1>4, <3>1
    <3>2. CASE c # b
      <4>1. PICK m \in Names : O[m].arr = c
        BY <1>0, <1>1, <2>1, <3>2 DEF Reached
      <4>2. m # u
        BY <4>1, NullAssumption
      <4> QED BY <1>4, <4>1, <4>2
    <3> QED BY <3>1, <3>2
  <2> QED BY <2>1 DEF Reached
<1>6. Filled(P[u], g, hd)
  <2>1. P[u].arr = b /\ P[u].size = n /\ P[u].used = 0
    BY <1>2
  <2>2. /\ P[u].arr # nullptr /\ P[u].used <= P[u].size
        /\ g[P[u].arr] # << >> /\ Len(g[P[u].arr]) = P[u].size + hd
    BY <1>1, <1>9, <2>1, NullAssumption
  <2>3. ASSUME NEW m \in 1..n PROVE g[b][m + hd] = "raw" <=> m > 0
    BY <1>1, <1>9
  <2>4. \A m \in 1..P[u].size : g[P[u].arr][m + hd] = "raw" <=> m > P[u].used
    BY <2>1, <2>3
  <2> QED BY <2>2, <2>4, Zenon DEF Filled
<1>7. ASSUME NEW m \in Names, m # u PROVE Filled(P[m], g, hd)
  <2>1. O[m].arr # nullptr => g[O[m].arr] = h[O[m].arr]
    BY <1>0, <1>1, <1>3 DEF Storages
  <2> QED BY <1>0, <1>2, <1>7, <2>1 DEF Filled
<1> QED BY <1>1, <1>2, <1>5, <1>6, <1>7, <1>8 DEF Sound

\* An owner gives up its storage.
LEMMA FreedSound ==
  ASSUME NEW O, NEW h, NEW hd \in {0, 1}, Sound(O, h, hd), NEW u \in Names, NEW P, NEW g,
         P = [m \in Names |-> IF m = u THEN [arr |-> nullptr, size |-> 0, used |-> 0] ELSE O[m]],
         g = IF O[u].arr = nullptr THEN h ELSE [h EXCEPT ![O[u].arr] = << >>]
  PROVE  Sound(P, g, hd)
<1>0. /\ h \in [Buffers -> Seq(Slots)] /\ O \in [Names -> Storages]
      /\ Exclusive(O) /\ Reached(O, h) /\ \A m \in Names : Filled(O[m], h, hd)
  BY DEF Sound
<1>1. /\ g \in [Buffers -> Seq(Slots)] /\ O[u].arr \in Buffers \cup {nullptr}
      /\ O[u].arr # nullptr => g[O[u].arr] = << >>
      /\ \A c \in Buffers : c # O[u].arr => g[c] = h[c]
  BY <1>0, NullAssumption DEF Storages
<1>2. /\ P \in [Names -> Storages] /\ P[u] = [arr |-> nullptr, size |-> 0, used |-> 0]
      /\ \A m \in Names : m # u => P[m] = O[m]
  BY <1>0 DEF Storages
<1>3. Exclusive(P)
  BY <1>0, <1>2 DEF Exclusive
<1>4. Reached(P, g)
  BY <1>0, <1>1, <1>2, NullAssumption DEF Reached
<1>5. Filled(P[u], g, hd)
  BY <1>2 DEF Filled
<1>6. ASSUME NEW m \in Names, m # u PROVE Filled(P[m], g, hd)
  <2>1. O[m].arr # nullptr => g[O[m].arr] = h[O[m].arr]
    BY <1>0, <1>1, <1>6 DEF Storages, Exclusive
  <2> QED BY <1>0, <1>2, <1>6, <2>1 DEF Filled
<1> QED BY <1>1, <1>2, <1>3, <1>4, <1>5, <1>6 DEF Sound

\* The elements in g are those in h but for the i-th of u, which is x.
Rewritten(O, h, hd, u, i, x, g) ==
  \A w \in Names : \A m \in 1..O[w].size :
    g[O[w].arr][m + hd] = IF w = u /\ m = i THEN x ELSE h[O[w].arr][m + hd]

\* Where the elements are after one was written,
LEMMA SlotsWritten ==
  ASSUME NEW O, NEW h, NEW hd \in {0, 1}, Sound(O, h, hd), NEW u \in Names,
         NEW i \in 1..O[u].size, NEW x \in Slots, NEW g, Poked(h, O[u].arr, i + hd, x, g)
  PROVE  Rewritten(O, h, hd, u, i, x, g)
<1>0. O[u].arr # nullptr /\ Assigned(h, hd, O[u].arr, O[u].size, g, i, x)
  BY SlotWritten
<1>1. ASSUME NEW w \in Names, NEW m \in 1..O[w].size, w # u
      PROVE  g[O[w].arr][m + hd] = h[O[w].arr][m + hd]
  <2>1. O[w].arr \in Buffers /\ O[w].arr # nullptr
    BY OwnerFacts
  <2>2. O[w].arr # O[u].arr
    BY <1>0, <1>1, <2>1 DEF Sound, Exclusive
  <2> QED BY <1>0, <2>1, <2>2 DEF Assigned
<1>2. ASSUME NEW m \in 1..O[u].size
      PROVE  g[O[u].arr][m + hd] = IF m = i THEN x ELSE h[O[u].arr][m + hd]
  BY <1>0, Zenon DEF Assigned
<1> QED BY <1>1, <1>2, Zenon DEF Rewritten

\* after a buffer was allocated,
LEMMA SlotsAllocated ==
  ASSUME NEW O, NEW h, NEW hd \in {0, 1}, Sound(O, h, hd), NEW b \in Buffers, h[b] = << >>,
         NEW s, NEW g, g = [h EXCEPT ![b] = s]
  PROVE  \A w \in Names : \A m \in 1..O[w].size : g[O[w].arr][m + hd] = h[O[w].arr][m + hd]
<1>1. ASSUME NEW w \in Names, NEW m \in 1..O[w].size
      PROVE  g[O[w].arr][m + hd] = h[O[w].arr][m + hd]
  <2>1. O[w].arr \in Buffers /\ O[w].arr # nullptr /\ Filled(O[w], h, hd)
    BY OwnerFacts
  <2>2. O[w].arr # b
    BY <2>1 DEF Filled
  <2>3. h \in [Buffers -> Seq(Slots)]
    BY DEF Sound
  <2> QED BY <2>1, <2>2, <2>3
<1> QED BY <1>1

\* and after the one of u was freed.
LEMMA SlotsFreed ==
  ASSUME NEW O, NEW h, NEW hd \in {0, 1}, Sound(O, h, hd), NEW u \in Names, NEW g,
         g = IF O[u].arr = nullptr THEN h ELSE [h EXCEPT ![O[u].arr] = << >>]
  PROVE  \A w \in Names \ {u} : \A m \in 1..O[w].size : g[O[w].arr][m + hd] = h[O[w].arr][m + hd]
<1>1. ASSUME NEW w \in Names \ {u}, NEW m \in 1..O[w].size
      PROVE  g[O[w].arr][m + hd] = h[O[w].arr][m + hd]
  <2>1. O[w].arr \in Buffers /\ O[w].arr # nullptr
    BY OwnerFacts
  <2>2. O[w].arr # O[u].arr
    BY <2>1 DEF Sound, Exclusive
  <2>3. h \in [Buffers -> Seq(Slots)]
    BY DEF Sound
  <2> QED BY <2>1, <2>2, <2>3
<1> QED BY <1>1

-----------------------------------------------------------------------------
(* The vectors and the temporary as owners.                                *)

VecTypeOK == vec \in [Vectors -> Storages] /\ tmp \in Storages
Memory(hd) == VecTypeOK /\ Sound(Owners, heap, hd)

LEMMA OwnersAre ==
  /\ Owners = [n \in Names |-> IF n \in Vectors THEN vec[n] ELSE tmp]
  /\ "tmp" \in Names /\ "tmp" \notin Vectors /\ Owners["tmp"] = tmp
  /\ \A v \in Vectors : v \in Names /\ v # "tmp" /\ Owners[v] = vec[v]
BY TmpAssumption DEF Owners, Names

LEMMA NextOwners ==
  Owners' = [n \in Names |-> IF n \in Vectors THEN vec'[n] ELSE tmp']
BY DEF Owners, Names

\* What Sound says of one storage.
LEMMA StorageFacts ==
  ASSUME VecTypeOK, NEW h, NEW hd \in {0, 1}, Sound(Owners, h, hd), NEW o,
         o = tmp \/ \E v \in Vectors : o = vec[v]
  PROVE  /\ o \in Storages /\ o.arr \in Buffers \cup {nullptr} /\ o.size \in Nat /\ o.used \in Nat
         /\ o.used <= o.size
         /\ o.size > 0 => o.arr \in Buffers /\ o.arr # nullptr
         /\ o.arr # nullptr => /\ Len(h[o.arr]) = o.size + hd
                               /\ \A i \in 1..o.size : h[o.arr][i + hd] = "raw" <=> i > o.used
<1>1. o \in Storages
  BY DEF VecTypeOK
<1>2. PICK n \in Names : o = Owners[n]
  BY OwnersAre
<1>3. Filled(o, h, hd)
  BY <1>2 DEF Sound
<1>4. o.arr \in Buffers \cup {nullptr} /\ o.size \in Nat /\ o.used \in Nat
  BY <1>1 DEF Storages
<1>5. /\ o.used <= o.size /\ (o.arr = nullptr => o.size = 0)
      /\ o.arr # nullptr => /\ Len(h[o.arr]) = o.size + hd
                            /\ \A i \in 1..o.size : h[o.arr][i + hd] = "raw" <=> i > o.used
  BY <1>3, Zenon DEF Filled
<1> QED BY <1>1, <1>4, <1>5

\* The storages that an operation leaves alone.
LEMMA MemoryKept ==
  ASSUME NEW hd, Memory(hd), UNCHANGED <<vec, heap, tmp>>
  PROVE  Memory(hd)'
<1>1. Owners' = Owners /\ heap' = heap
  BY DEF Owners
<1> QED BY <1>1 DEF Memory, VecTypeOK

\* What Memory says of one storage.
LEMMA MemoryFacts ==
  ASSUME NEW hd \in {0, 1}, Memory(hd), NEW o, o = tmp \/ \E v \in Vectors : o = vec[v]
  PROVE  /\ o \in Storages /\ o.arr \in Buffers \cup {nullptr} /\ o.size \in Nat /\ o.used \in Nat
         /\ o.used <= o.size
         /\ o.size > 0 => o.arr \in Buffers /\ o.arr # nullptr
         /\ o.arr # nullptr => /\ Len(heap[o.arr]) = o.size + hd
                               /\ \A i \in 1..o.size : heap[o.arr][i + hd] = "raw" <=> i > o.used
BY StorageFacts DEF Memory

\* tmp gets the new buffer b.
LEMMA TmpAllocated ==
  ASSUME NEW hd \in {0, 1}, Memory(hd), tmp.arr = nullptr, NEW b \in Buffers, heap[b] = << >>,
         NEW n \in Nat, NEW s, Blank(s, n, hd), vec' = vec, heap' = [heap EXCEPT ![b] = s],
         tmp' = [arr |-> b, size |-> n, used |-> 0]
  PROVE  Memory(hd)' /\ tmp'.arr = b /\ tmp'.size = n /\ tmp'.used = 0
<1> DEFINE O == Owners
           P == Owners'
           g == heap'
<1>1. "tmp" \in Names /\ O["tmp"].arr = nullptr
  BY OwnersAre
<1>2. Placed(O, P, "tmp", b, n)
  BY NextOwners, OwnersAre DEF Placed, Names
<1>3. Sound(O, heap, hd) /\ VecTypeOK
  BY DEF Memory
<1>4. VecTypeOK' /\ tmp'.arr = b /\ tmp'.size = n /\ tmp'.used = 0
  BY <1>3 DEF VecTypeOK, Storages
<1>6. g = [heap EXCEPT ![b] = s]
  OBVIOUS
<1> HIDE DEF O, P, g
<1>5. Sound(P, g, hd)
  BY <1>1, <1>2, <1>3, <1>6, AllocatedSound
<1> QED BY <1>4, <1>5 DEF Memory, P, g

\* tmp gets one element more, which is no raw slot.
LEMMA TmpGrown ==
  ASSUME NEW hd \in {0, 1}, VecTypeOK, NEW h, Sound(Owners, h, hd), NEW x \in Slots, x # "raw",
         tmp.used < tmp.size, vec' = vec, heap' = [h EXCEPT ![tmp.arr][tmp.used + 1 + hd] = x],
         tmp' = [tmp EXCEPT !.used = tmp.used + 1]
  PROVE  /\ Memory(hd)'
         /\ tmp'.arr = tmp.arr /\ tmp'.size = tmp.size /\ tmp'.used = tmp.used + 1
<1>0. tmp \in Storages /\ tmp.used \in Nat
  BY StorageFacts
<1>1. tmp' \in Storages /\ tmp'.arr = tmp.arr /\ tmp'.size = tmp.size /\ tmp'.used = tmp.used + 1
  BY <1>0 DEF Storages
<1>2. "tmp" \in Names /\ Owners["tmp"] = tmp
  BY OwnersAre
<1> DEFINE O == Owners
           P == Owners'
           g == heap'
<1>3. Refilled(O, P, "tmp", O["tmp"].used + 1) /\ O["tmp"].used < O["tmp"].size
  BY <1>2, NextOwners, OwnersAre DEF Names, Refilled
<1>4. Poked(h, O["tmp"].arr, O["tmp"].used + 1 + hd, x, g)
  BY <1>2 DEF Poked
<1>5. Sound(O, h, hd)
  OBVIOUS
<1> HIDE DEF O, P, g
<1>6. Sound(P, g, hd)
  BY <1>2, <1>3, <1>4, <1>5, GrownSound
<1> QED BY <1>0, <1>1, <1>6 DEF VecTypeOK, Memory, P, g

\* An element of a vector is moved from.
LEMMA VecTaken ==
  ASSUME NEW hd \in {0, 1}, Memory(hd), NEW v \in Vectors, NEW i \in 1..vec[v].used, NEW g,
         g = [heap EXCEPT ![vec[v].arr][i + hd] = "moved"]
  PROVE  Sound(Owners, g, hd)
<1> DEFINE O == Owners
<1>1. Owners[v] = vec[v] /\ v \in Names
  BY OwnersAre
<1>2. Poked(heap, O[v].arr, i + hd, "moved", g)
  BY <1>1 DEF Poked
<1>3. i \in 1..O[v].used /\ "moved" \in Slots /\ "moved" # "raw"
  BY <1>1 DEF Slots
<1>4. Sound(O, heap, hd)
  BY DEF Memory
<1> HIDE DEF O
<1>5. Sound(O, g, hd)
  BY <1>1, <1>2, <1>3, <1>4, ReplacedSound
<1> QED BY <1>5 DEF O

\* tmp and a vector are exchanged.
LEMMA TmpExchanged ==
  ASSUME NEW hd \in {0, 1}, Memory(hd), NEW v \in Vectors, heap' = heap,
         vec' = [vec EXCEPT ![v] = tmp], tmp' = vec[v]
  PROVE  Memory(hd)'
<1>0. VecTypeOK /\ Sound(Owners, heap, hd) /\ vec \in [Vectors -> Storages]
  BY DEF Memory, VecTypeOK
<1>1. VecTypeOK'
  BY <1>0 DEF VecTypeOK
<1>2. Owners' = [n \in Names |-> IF n = v THEN Owners["tmp"]
                                ELSE IF n = "tmp" THEN Owners[v] ELSE Owners[n]]
  BY <1>0, NextOwners, OwnersAre DEF Names
<1>3. v \in Names /\ "tmp" \in Names
  BY OwnersAre
<1>4. Sound(Owners', heap', hd)
  BY <1>0, <1>2, <1>3, ExchangedSound
<1> QED BY <1>1, <1>4 DEF Memory

\* Two vectors are exchanged.
LEMMA VecExchanged ==
  ASSUME NEW hd \in {0, 1}, Memory(hd), NEW v \in Vectors, NEW w \in Vectors,
         heap' = heap, tmp' = tmp, vec' = [vec EXCEPT ![v] = vec[w], ![w] = vec[v]]
  PROVE  Memory(hd)'
<1>0. VecTypeOK /\ Sound(Owners, heap, hd) /\ vec \in [Vectors -> Storages]
  BY DEF Memory, VecTypeOK
<1>1. VecTypeOK'
  BY <1>0 DEF VecTypeOK
<1>2. Owners' = [n \in Names |-> IF n = v THEN Owners[w] ELSE IF n = w THEN Owners[v] ELSE Owners[n]]
  BY <1>0, NextOwners, OwnersAre
<1>3. v \in Names /\ w \in Names
  BY OwnersAre
<1>4. Sound(Owners', heap', hd)
  BY <1>0, <1>2, <1>3, ExchangedSound
<1> QED BY <1>1, <1>4 DEF Memory

\* tmp is destroyed.
LEMMA TmpFreed ==
  ASSUME NEW hd \in {0, 1}, Memory(hd), vec' = vec,
         heap' = IF tmp.arr = nullptr THEN heap ELSE [heap EXCEPT ![tmp.arr] = << >>],
         tmp' = [arr |-> nullptr, size |-> 0, used |-> 0]
  PROVE  Memory(hd)'
<1>0. VecTypeOK /\ Sound(Owners, heap, hd)
  BY DEF Memory
<1>1. Owners' = [n \in Names |-> IF n = "tmp" THEN [arr |-> nullptr, size |-> 0, used |-> 0] ELSE Owners[n]]
  BY NextOwners, OwnersAre DEF Names
<1>2. "tmp" \in Names /\ Owners["tmp"] = tmp
  BY OwnersAre
<1>3. Sound(Owners', heap', hd)
  BY <1>0, <1>1, <1>2, FreedSound
<1>4. VecTypeOK'
  BY <1>0 DEF VecTypeOK, Storages
<1> QED BY <1>3, <1>4 DEF Memory

\* Vector v counts k elements.
LEMMA VecRecounted ==
  ASSUME VecTypeOK, NEW v \in Vectors, NEW k \in Nat, tmp' = tmp, vec' = [vec EXCEPT ![v].used = k]
  PROVE  /\ VecTypeOK' /\ vec'[v].arr = vec[v].arr /\ vec'[v].size = vec[v].size /\ vec'[v].used = k
         /\ \A w \in Vectors : w # v => vec'[w] = vec[w]
         /\ Refilled(Owners, Owners', v, k)
<1> DEFINE o == [vec[v] EXCEPT !.used = k]
<1>0. vec \in [Vectors -> Storages] /\ vec[v] \in Storages
  BY DEF VecTypeOK
<1>1. o \in Storages /\ o.arr = vec[v].arr /\ o.size = vec[v].size /\ o.used = k
  BY <1>0 DEF Storages
<1>2. vec' = [vec EXCEPT ![v] = o]
  OBVIOUS
<1>4. [Owners[v] EXCEPT !.used = k] = o
  BY OwnersAre
<1> HIDE DEF o
<1>3. Owners' = [n \in Names |-> IF n = v THEN o ELSE Owners[n]]
  BY <1>0, <1>2, NextOwners, OwnersAre
<1>5. vec' \in [Vectors -> Storages] /\ vec'[v] = o /\ \A w \in Vectors : w # v => vec'[w] = vec[w]
  BY <1>0, <1>1, <1>2
<1> QED BY <1>1, <1>3, <1>4, <1>5 DEF VecTypeOK, Refilled

\* A vector gets one element more in place.
LEMMA VecGrown ==
  ASSUME NEW hd \in {0, 1}, Memory(hd), NEW v \in Vectors, vec[v].used < vec[v].size,
         NEW x \in Slots, x # "raw", tmp' = tmp, vec' = [vec EXCEPT ![v].used = vec[v].used + 1],
         heap' = [heap EXCEPT ![vec[v].arr][vec[v].used + 1 + hd] = x]
  PROVE  Memory(hd)'
<1>0. VecTypeOK /\ Sound(Owners, heap, hd) /\ vec[v].used + 1 \in Nat
  BY StorageFacts DEF Memory
<1> DEFINE O == Owners
           P == Owners'
           g == heap'
<1>1. v \in Names /\ O[v] = vec[v]
  BY OwnersAre
<1>2. VecTypeOK' /\ Refilled(O, P, v, O[v].used + 1)
  BY <1>0, <1>1, VecRecounted
<1>3. Poked(heap, O[v].arr, O[v].used + 1 + hd, x, g) /\ O[v].used < O[v].size
  BY <1>1 DEF Poked
<1>4. Sound(O, heap, hd)
  BY <1>0
<1> HIDE DEF O, P, g
<1>5. Sound(P, g, hd)
  BY <1>1, <1>2, <1>3, <1>4, GrownSound
<1> QED BY <1>2, <1>5 DEF Memory, P, g

\* A vector loses its last element.
LEMMA VecShrunk ==
  ASSUME NEW hd \in {0, 1}, Memory(hd), NEW v \in Vectors, vec[v].used >= 1,
         tmp' = tmp, vec' = [vec EXCEPT ![v].used = vec[v].used - 1],
         heap' = [heap EXCEPT ![vec[v].arr][vec[v].used + hd] = "raw"]
  PROVE  Memory(hd)'
<1>0. VecTypeOK /\ Sound(Owners, heap, hd) /\ vec[v].used - 1 \in Nat
  BY StorageFacts DEF Memory
<1> DEFINE O == Owners
           P == Owners'
           g == heap'
<1>1. v \in Names /\ O[v] = vec[v]
  BY OwnersAre
<1>2. VecTypeOK' /\ Refilled(O, P, v, O[v].used - 1)
  BY <1>0, <1>1, VecRecounted
<1>3. Poked(heap, O[v].arr, O[v].used + hd, "raw", g) /\ O[v].used >= 1
  BY <1>1 DEF Poked
<1>4. Sound(O, heap, hd)
  BY <1>0
<1> HIDE DEF O, P, g
<1>5. Sound(P, g, hd)
  BY <1>1, <1>2, <1>3, <1>4, ShrunkSound
<1> QED BY <1>2, <1>5 DEF Memory, P, g

\* The elements of the vectors in g are those in h, but for the i-th of v, which is x.
VecRewritten(hd, h, v, i, x, g) ==
  \A w \in Vectors : \A m \in 1..vec[w].size :
    g[vec[w].arr][m + hd] = IF w = v /\ m = i THEN x ELSE h[vec[w].arr][m + hd]
VecSame(hd, h, g) ==
  \A w \in Vectors : \A m \in 1..vec[w].size : g[vec[w].arr][m + hd] = h[vec[w].arr][m + hd]

\* Those of tmp.
TmpRewritten(hd, h, i, x, g) ==
  \A m \in 1..tmp.size : g[tmp.arr][m + hd] = IF m = i THEN x ELSE h[tmp.arr][m + hd]
TmpSame(hd, h, g) == \A m \in 1..tmp.size : g[tmp.arr][m + hd] = h[tmp.arr][m + hd]

\* Where the elements are after one of a vector was written,
LEMMA VecPoked ==
  ASSUME NEW hd \in {0, 1}, Memory(hd), NEW v \in Vectors, NEW i \in 1..vec[v].size, NEW x \in Slots,
         NEW g, Poked(heap, vec[v].arr, i + hd, x, g)
  PROVE  VecRewritten(hd, heap, v, i, x, g) /\ TmpSame(hd, heap, g)
<1> DEFINE O == Owners
<1>1. /\ "tmp" \in Names /\ "tmp" \notin Vectors /\ O["tmp"] = tmp
      /\ \A w \in Vectors : w \in Names /\ O[w] = vec[w]
  BY OwnersAre
<1>2. Poked(heap, O[v].arr, i + hd, x, g) /\ i \in 1..O[v].size /\ v \in Names
  BY <1>1
<1>3. Sound(O, heap, hd)
  BY DEF Memory
<1> HIDE DEF O
<1>4. Rewritten(O, heap, hd, v, i, x, g)
  BY <1>2, <1>3, SlotsWritten
<1>5. ASSUME NEW w \in Vectors, NEW m \in 1..vec[w].size
      PROVE  g[vec[w].arr][m + hd] = IF w = v /\ m = i THEN x ELSE heap[vec[w].arr][m + hd]
  <2>1. w \in Names /\ O[w] = vec[w] /\ m \in 1..O[w].size
    BY <1>1
  <2>2. g[O[w].arr][m + hd] = IF w = v /\ m = i THEN x ELSE heap[O[w].arr][m + hd]
    BY <1>4, <2>1, Zenon DEF Rewritten
  <2> QED BY <1>1, <2>1, <2>2
<1>6. ASSUME NEW m \in 1..tmp.size
      PROVE  g[tmp.arr][m + hd] = heap[tmp.arr][m + hd]
  <2>1. "tmp" \in Names /\ O["tmp"] = tmp /\ m \in 1..O["tmp"].size
    BY <1>1
  <2>2. g[O["tmp"].arr][m + hd] = IF "tmp" = v /\ m = i THEN x ELSE heap[O["tmp"].arr][m + hd]
    BY <1>4, <2>1, Zenon DEF Rewritten
  <2> QED BY <1>1, <2>1, <2>2
<1> QED BY <1>5, <1>6, Zenon DEF VecRewritten, TmpSame

\* or one of tmp.
LEMMA TmpPoked ==
  ASSUME NEW hd \in {0, 1}, NEW h, Sound(Owners, h, hd), NEW i \in 1..tmp.size, NEW x \in Slots,
         NEW g, Poked(h, tmp.arr, i + hd, x, g)
  PROVE  VecSame(hd, h, g) /\ TmpRewritten(hd, h, i, x, g)
<1> DEFINE O == Owners
<1>1. /\ "tmp" \in Names /\ "tmp" \notin Vectors /\ O["tmp"] = tmp
      /\ \A w \in Vectors : w \in Names /\ O[w] = vec[w]
  BY OwnersAre
<1>2. Poked(h, O["tmp"].arr, i + hd, x, g) /\ i \in 1..O["tmp"].size
  BY <1>1
<1>3. Sound(O, h, hd)
  OBVIOUS
<1> HIDE DEF O
<1>4. Rewritten(O, h, hd, "tmp", i, x, g)
  BY <1>1, <1>2, <1>3, SlotsWritten
<1>5. ASSUME NEW w \in Vectors, NEW m \in 1..vec[w].size
      PROVE  g[vec[w].arr][m + hd] = h[vec[w].arr][m + hd]
  <2>1. w \in Names /\ O[w] = vec[w] /\ m \in 1..O[w].size
    BY <1>1
  <2>2. g[O[w].arr][m + hd] = IF w = "tmp" /\ m = i THEN x ELSE h[O[w].arr][m + hd]
    BY <1>4, <2>1, Zenon DEF Rewritten
  <2> QED BY <1>1, <2>1, <2>2
<1>6. ASSUME NEW m \in 1..tmp.size
      PROVE  g[tmp.arr][m + hd] = IF m = i THEN x ELSE h[tmp.arr][m + hd]
  <2>1. "tmp" \in Names /\ O["tmp"] = tmp /\ m \in 1..O["tmp"].size
    BY <1>1
  <2>2. g[O["tmp"].arr][m + hd] = IF "tmp" = "tmp" /\ m = i THEN x ELSE h[O["tmp"].arr][m + hd]
    BY <1>4, <2>1, Zenon DEF Rewritten
  <2> QED BY <1>1, <2>1, <2>2
<1> QED BY <1>5, <1>6, Zenon DEF VecSame, TmpRewritten

\* Each buffer has one owner.
LEMMA OneOwner ==
  ASSUME NEW O, NEW h, Exclusive(O), Reached(O, h), NEW b \in Buffers, h[b] # << >>
  PROVE  Cardinality({n \in Names : O[n].arr = b}) = 1
<1>1. b # nullptr
  BY NullAssumption
<1>2. PICK n \in Names : O[n].arr = b
  BY DEF Reached
<1>3. {m \in Names : O[m].arr = b} = {n}
  BY <1>1, <1>2 DEF Exclusive
<1> QED BY <1>3, FS_Singleton


-----------------------------------------------------------------------------
(* Versions 3 and 4.                                                       *)

\* The operations under way, and the labels of each.
Pushing == [pc : {"copy", "alloc", "here", "fill", "swap", "drop"}, name : {"push"},
            v : Vectors, from : Vectors, t : Values]
Copying == [pc : {"alloc", "fill", "swap", "drop"}, name : {"copy"}, v : Vectors, from : Vectors]

OpSound == op = Idle \/ (op \in Pushing /\ op.from = op.v) \/ op \in Copying

\* tmp exists while it is filled and until it is dropped.
TmpSound ==
  /\ op.pc \in {"idle", "copy", "alloc", "here"} => tmp = NoVector
  /\ op.pc = "here" => vec[op.v].used < vec[op.v].size
  /\ op.pc = "fill" => /\ tmp.arr # nullptr /\ tmp.size = TmpSize
                       /\ tmp.used <= vec[op.from].used

\* The inductive invariant of versions 3 and 4.
BufferSound == Memory(0) /\ OpSound /\ TmpSound

LEMMA InitBuffer ==
  ASSUME Init
  PROVE  BufferSound
<1>1. PICK s \in [Vectors -> {0, 1}], a \in [Vectors -> Buffers] :
        /\ \A v, w \in Vectors : a[v] = a[w] => v = w
        /\ vec = [v \in Vectors |-> Vector(IF s[v] = 0 THEN nullptr ELSE a[v], s[v], 0)]
        /\ heap = [b \in Buffers |->
                     IF \E v \in Vectors : a[v] = b /\ s[v] = 1 THEN <<"raw">> ELSE << >>]
  BY DEF Init
<1>2. tmp = NoVector /\ op = Idle /\ tmp.arr = nullptr /\ tmp.size = 0 /\ tmp.used = 0
  BY DEF Init, NoVector, Vector
<1>3. ASSUME NEW v \in Vectors
      PROVE  /\ vec[v] \in Storages /\ vec[v].used = 0
             /\ \/ vec[v].arr = nullptr /\ vec[v].size = 0
                \/ /\ vec[v].arr = a[v] /\ vec[v].size = 1 /\ s[v] = 1
                   /\ a[v] \in Buffers /\ heap[a[v]] = <<"raw">>
  BY <1>1 DEF Storages, Vector
<1>4. VecTypeOK
  BY <1>1, <1>2, <1>3 DEF VecTypeOK, Storages, NoVector, Vector
<1>5. heap \in [Buffers -> Seq(Slots)]
  <2>1. << >> \in Seq(Slots) /\ <<"raw">> \in Seq(Slots)
    BY DEF Slots
  <2> QED BY <1>1, <2>1
<1>6. Owners \in [Names -> Storages]
  BY <1>4, OwnersAre DEF VecTypeOK
<1>7. Exclusive(Owners)
  <2>1. ASSUME NEW v \in Vectors, NEW w \in Vectors, vec[v].arr = vec[w].arr, vec[v].arr # nullptr
        PROVE  v = w
    <3>1. vec[v].arr = a[v] /\ vec[w].arr = a[w]
      BY <1>3, <2>1
    <3> QED BY <1>1, <2>1, <3>1
  <2> QED BY <1>2, <2>1, OwnersAre DEF Exclusive, Names
<1>8. Reached(Owners, heap)
  <2>1. ASSUME NEW b \in Buffers, heap[b] # << >> PROVE \E v \in Vectors : vec[v].arr = b
    <3>1. PICK v \in Vectors : a[v] = b /\ s[v] = 1
      BY <1>1, <2>1
    <3>2. vec[v] = [arr |-> a[v], size |-> 1, used |-> 0]
      BY <1>1, <3>1 DEF Vector
    <3> QED BY <3>1, <3>2
  <2> QED BY <2>1, OwnersAre DEF Reached
<1>9. ASSUME NEW n \in Names PROVE Filled(Owners[n], heap, 0)
  <2>1. CASE n = "tmp"
    BY <1>2, <2>1, OwnersAre DEF Filled
  <2>2. CASE n \in Vectors
    <3>1. /\ <<"raw">> # << >> /\ Len(<<"raw">>) = 1 /\ \A i \in 1..1 : <<"raw">>[i + 0] = "raw"
      OBVIOUS
    <3>2. CASE vec[n].arr = nullptr /\ vec[n].size = 0
      BY <1>3, <2>2, <3>2, OwnersAre DEF Filled
    <3>3. CASE /\ vec[n].arr = a[n] /\ vec[n].size = 1 /\ s[n] = 1
               /\ a[n] \in Buffers /\ heap[a[n]] = <<"raw">>
      <4>1. /\ vec[n].arr # nullptr /\ vec[n].used <= vec[n].size
            /\ heap[vec[n].arr] # << >> /\ Len(heap[vec[n].arr]) = vec[n].size + 0
        BY <1>3, <2>2, <3>1, <3>3, NullAssumption
      <4>2. ASSUME NEW m \in 1..1 PROVE heap[vec[n].arr][m + 0] = "raw" <=> m > vec[n].used
        BY <1>3, <2>2, <3>1, <3>3
      <4>3. \A m \in 1..vec[n].size : heap[vec[n].arr][m + 0] = "raw" <=> m > vec[n].used
        BY <3>3, <4>2
      <4>4. Filled(vec[n], heap, 0)
        BY <4>1, <4>3, Zenon DEF Filled
      <4> QED BY <2>2, <4>4, OwnersAre
    <3> QED BY <1>3, <2>2, <3>2, <3>3
  <2> QED BY <2>1, <2>2 DEF Names
<1> QED BY <1>2, <1>4, <1>5, <1>6, <1>7, <1>8, <1>9
        DEF BufferSound, Memory, Sound, OpSound, TmpSound, Idle

LEMMA OpFacts ==
  ASSUME OpSound, op.pc # "idle"
  PROVE  /\ op # Idle /\ op.v \in Vectors /\ op.from \in Vectors
         /\ op.name = "push" => op \in Pushing /\ op.from = op.v /\ op.t \in Values
         /\ op.name # "push" => op \in Copying /\ op.name = "copy"
         /\ op.pc \in {"copy", "here"} => op.name = "push"
BY DEF OpSound, Idle, Pushing, Copying

LEMMA GotoFacts ==
  ASSUME OpSound, op.pc # "idle", NEW label \in {"alloc", "here", "fill", "swap", "drop"},
         label = "here" => op.name = "push", Goto(label)
  PROVE  /\ OpSound' /\ op'.pc = label /\ op'.name = op.name /\ op'.v = op.v
         /\ op'.from = op.from
<1>1. op' = [op EXCEPT !.pc = label]
  BY DEF Goto
<1>2. CASE op.name = "push"
  <2>1. op \in Pushing /\ op.from = op.v
    BY <1>2, OpFacts
  <2>2. op' \in Pushing /\ op'.pc = label /\ op'.name = op.name /\ op'.v = op.v /\ op'.from = op.from
    BY <1>1, <2>1 DEF Pushing
  <2> QED BY <2>1, <2>2 DEF OpSound
<1>3. CASE op.name # "push"
  <2>1. op \in Copying
    BY <1>3, OpFacts
  <2>2. op' \in Copying /\ op'.pc = label /\ op'.name = op.name /\ op'.v = op.v /\ op'.from = op.from
    BY <1>1, <1>3, <2>1 DEF Copying
  <2> QED BY <2>2 DEF OpSound
<1> QED BY <1>2, <1>3

\* The operations that start or are done at once.
LEMMA StartStep ==
  ASSUME BufferSound, NEW v \in Vectors,
         \/ \E x \in Values : push(v, x)
         \/ \E w \in Vectors : copy(v, w)
  PROVE  BufferSound'
<1>0. Memory(0) /\ OpSound /\ TmpSound
  BY DEF BufferSound
<1>1. UNCHANGED <<vec, heap, tmp>> /\ At("idle")
  BY DEF push, copy
<1>2. Memory(0)'
  BY <1>0, <1>1, MemoryKept
<1>3. tmp = NoVector
  BY <1>0, <1>1 DEF TmpSound, At
<1>4. CASE \E x \in Values : push(v, x)
  <2>1. PICK x \in Values : push(v, x)
    BY <1>4
  <2> DEFINE label == IF version = 4 THEN "copy" ELSE BeginPush(v)
  <2>2. label \in {"copy", "alloc", "here"} /\ (label = "here" => vec[v].used # vec[v].size)
    BY DEF BeginPush
  <2>3. op' = [pc |-> label, name |-> "push", v |-> v, from |-> v, t |-> x]
    BY <2>1 DEF push
  <2> HIDE DEF label
  <2>4. OpSound' /\ op'.pc = label /\ op'.v = v
    BY <2>2, <2>3 DEF OpSound, Pushing
  <2>5. vec[v].used # vec[v].size => vec[v].used < vec[v].size
    BY <1>0, MemoryFacts
  <2>6. TmpSound'
    BY <1>1, <1>3, <2>2, <2>4, <2>5 DEF TmpSound, NoVector, Vector
  <2> QED BY <1>2, <2>4, <2>6 DEF BufferSound
<1>5. CASE \E w \in Vectors : copy(v, w)
  <2>1. PICK w \in Vectors : copy(v, w)
    BY <1>5
  <2>2. op' = [pc |-> "alloc", name |-> "copy", v |-> v, from |-> w]
    BY <2>1 DEF copy
  <2>3. OpSound' /\ op'.pc = "alloc"
    BY <2>2 DEF OpSound, Copying
  <2>4. TmpSound'
    BY <1>1, <1>3, <2>3 DEF TmpSound, NoVector, Vector
  <2> QED BY <1>2, <2>3, <2>4 DEF BufferSound
<1> QED BY <1>4, <1>5

LEMMA PopStep ==
  ASSUME BufferSound, NEW v \in Vectors, pop(v)
  PROVE  BufferSound'
<1>0. Memory(0) /\ OpSound /\ TmpSound
  BY DEF BufferSound
<1>1. /\ At("idle") /\ vec[v].used >= 1 /\ op' = op /\ tmp' = tmp
      /\ vec' = [vec EXCEPT ![v].used = vec[v].used - 1]
      /\ heap' = [heap EXCEPT ![vec[v].arr][vec[v].used] = "raw"]
  BY DEF pop
<1>2. vec[v].used + 0 = vec[v].used
  BY <1>0, MemoryFacts
<1>3. Memory(0)'
  BY <1>0, <1>1, <1>2, VecShrunk
<1>4. OpSound' /\ TmpSound'
  BY <1>0, <1>1 DEF OpSound, TmpSound, At, NoVector, Vector
<1> QED BY <1>3, <1>4 DEF BufferSound

LEMMA MoveStep ==
  ASSUME BufferSound, NEW v \in Vectors, NEW w \in Vectors, move(v, w)
  PROVE  BufferSound'
<1>0. Memory(0) /\ OpSound /\ TmpSound
  BY DEF BufferSound
<1>1. /\ At("idle") /\ heap' = heap /\ op' = op /\ tmp' = tmp
      /\ vec' = [vec EXCEPT ![v] = vec[w], ![w] = vec[v]]
  BY DEF move
<1>2. Memory(0)'
  BY <1>0, <1>1, VecExchanged
<1>3. OpSound' /\ TmpSound'
  BY <1>0, <1>1 DEF OpSound, TmpSound, At, NoVector, Vector
<1> QED BY <1>2, <1>3 DEF BufferSound

LEMMA ArgumentStep ==
  ASSUME BufferSound, CopyArgument
  PROVE  BufferSound'
<1>0. Memory(0) /\ OpSound /\ TmpSound
  BY DEF BufferSound
<1>1. op.pc = "copy" /\ UNCHANGED <<vec, heap, tmp>> /\ Goto(BeginPush(op.v))
  BY DEF CopyArgument, At
<1>2. op.v \in Vectors /\ op.name = "push"
  BY <1>0, <1>1, OpFacts
<1>3. /\ BeginPush(op.v) \in {"alloc", "here"}
      /\ BeginPush(op.v) = "here" => vec[op.v].used # vec[op.v].size
  BY DEF BeginPush
<1>4. OpSound' /\ op'.pc = BeginPush(op.v) /\ op'.v = op.v
  BY <1>0, <1>1, <1>2, <1>3, GotoFacts
<1>5. vec[op.v].used # vec[op.v].size => vec[op.v].used < vec[op.v].size
  BY <1>0, <1>2, MemoryFacts
<1>6. TmpSound'
  BY <1>0, <1>1, <1>3, <1>4, <1>5 DEF TmpSound, NoVector, Vector
<1>7. Memory(0)'
  BY <1>0, <1>1, MemoryKept
<1> QED BY <1>4, <1>6, <1>7 DEF BufferSound

LEMMA AllocateStep ==
  ASSUME BufferSound, NEW b \in Buffers, Allocate(b)
  PROVE  BufferSound'
<1>0. Memory(0) /\ OpSound /\ TmpSound
  BY DEF BufferSound
<1>1. /\ op.pc = "alloc" /\ TmpSize > 0 /\ b \notin Allocated /\ Goto("fill") /\ vec' = vec
      /\ heap' = New(TmpSize, b, heap) /\ tmp' = Vector(b, TmpSize, 0)
  BY DEF Allocate, At
<1>2. op.v \in Vectors /\ op.from \in Vectors
  BY <1>0, <1>1, OpFacts
<1>3. TmpSize \in Nat
  <2>1. vec[op.v].size \in Nat /\ vec[op.from].used \in Nat
    BY <1>0, <1>2, MemoryFacts
  <2> QED BY <2>1 DEF TmpSize
<1> DEFINE n == TmpSize
           s == [i \in 1..n |-> "raw"]
<1>4. s \in Seq(Slots) /\ Len(s) = n + 0 /\ s # << >> /\ \A i \in 1..n : s[i + 0] = "raw"
  <2>1. s \in [1..n -> Slots] /\ n \in Nat /\ n > 0
    BY <1>1, <1>3 DEF Slots
  <2>2. s \in Seq(Slots) /\ Len(s) = n
    BY <2>1
  <2>3. \A i \in 1..n : s[i + 0] = "raw"
    BY <2>1
  <2> HIDE DEF n, s
  <2> QED BY <2>1, <2>2, <2>3, EmptySeq
<1>13. Blank(s, n, 0)
  BY <1>4 DEF Blank
<1>5. /\ heap' = [heap EXCEPT ![b] = s] /\ heap[b] = << >>
      /\ tmp' = [arr |-> b, size |-> n, used |-> 0]
  BY <1>1 DEF New, Vector, Allocated
<1>6. tmp.arr = nullptr /\ n \in Nat
  BY <1>0, <1>1, <1>3 DEF TmpSound, NoVector, Vector
<1> HIDE DEF n, s
<1>7. Memory(0)' /\ tmp'.arr = b /\ tmp'.size = n /\ tmp'.used = 0
  BY <1>0, <1>1, <1>5, <1>6, <1>13, TmpAllocated
<1>11. OpSound' /\ op'.pc = "fill" /\ op'.name = op.name /\ op'.v = op.v /\ op'.from = op.from
  BY <1>0, <1>1, GotoFacts
<1>12. TmpSound'
  <2>1. TmpSize' = n
    BY <1>1, <1>11 DEF TmpSize, n
  <2>2. tmp'.arr # nullptr
    BY <1>7, NullAssumption
  <2>3. vec'[op'.from].used \in Nat
    BY <1>0, <1>1, <1>2, <1>11, MemoryFacts
  <2> QED BY <1>7, <1>11, <2>1, <2>2, <2>3 DEF TmpSound
<1> QED BY <1>7, <1>11, <1>12 DEF BufferSound

LEMMA AllocateNoneStep ==
  ASSUME BufferSound, AllocateNone
  PROVE  BufferSound'
<1>0. Memory(0) /\ OpSound /\ TmpSound
  BY DEF BufferSound
<1>1. op.pc = "alloc" /\ Goto("swap") /\ UNCHANGED <<vec, heap>> /\ tmp' = NoVector
  BY DEF AllocateNone, At
<1>2. tmp' = tmp
  BY <1>0, <1>1 DEF TmpSound
<1>3. OpSound' /\ op'.pc = "swap"
  BY <1>0, <1>1, GotoFacts
<1>4. Memory(0)'
  BY <1>0, <1>1, <1>2, MemoryKept
<1> QED BY <1>3, <1>4 DEF BufferSound, TmpSound

LEMMA SwapStep ==
  ASSUME BufferSound, Swap
  PROVE  BufferSound'
<1>0. Memory(0) /\ OpSound /\ TmpSound
  BY DEF BufferSound
<1>1. op.pc = "swap" /\ Goto("drop") /\ heap' = heap /\ vec' = [vec EXCEPT ![op.v] = tmp]
      /\ tmp' = vec[op.v]
  BY DEF Swap, At
<1>2. op.v \in Vectors
  BY <1>0, <1>1, OpFacts
<1>3. Memory(0)'
  BY <1>0, <1>1, <1>2, TmpExchanged
<1>4. OpSound' /\ op'.pc = "drop"
  BY <1>0, <1>1, GotoFacts
<1> QED BY <1>3, <1>4 DEF BufferSound, TmpSound

LEMMA DestroyStep ==
  ASSUME BufferSound, DestroyTmp, op' = Idle, vec' = vec
  PROVE  BufferSound'
<1>1. /\ heap' = IF tmp.arr = nullptr THEN heap ELSE [heap EXCEPT ![tmp.arr] = << >>]
      /\ tmp' = [arr |-> nullptr, size |-> 0, used |-> 0] /\ tmp' = NoVector
  BY DEF DestroyTmp, NoVector, Vector
<1>2. Memory(0)'
  BY <1>1, TmpFreed DEF BufferSound
<1> QED BY <1>1, <1>2 DEF BufferSound, OpSound, TmpSound, Idle, NoVector, Vector

\* tmp has room for what it is filled with.
LEMMA FillRoom ==
  ASSUME BufferSound, op.pc = "fill"
  PROVE  /\ op.v \in Vectors /\ op.from \in Vectors
         /\ tmp.used \in Nat /\ vec[op.from].used \in Nat /\ tmp.used <= vec[op.from].used
         /\ vec[op.from].used <= tmp.size /\ tmp.size = TmpSize /\ tmp.arr # nullptr
         /\ op.name = "push" => op.from = op.v /\ vec[op.v].used < tmp.size /\ op.t \in Values
<1>0. Memory(0) /\ OpSound /\ TmpSound
  BY DEF BufferSound
<1>1. /\ op.v \in Vectors /\ op.from \in Vectors
      /\ op.name = "push" => op.from = op.v /\ op.t \in Values
  BY <1>0, OpFacts
<1>2. tmp.arr # nullptr /\ tmp.size = TmpSize /\ tmp.used <= vec[op.from].used
  BY <1>0 DEF TmpSound
<1>3. /\ vec[op.from].used \in Nat /\ tmp.used \in Nat
  BY <1>0, <1>1, MemoryFacts
<1>4. vec[op.v].used \in Nat /\ vec[op.v].size \in Nat /\ vec[op.v].used <= vec[op.v].size
  BY <1>0, <1>1, MemoryFacts
<1> QED BY <1>1, <1>2, <1>3, <1>4 DEF TmpSize

LEMMA FillStep ==
  ASSUME BufferSound, Fill
  PROVE  BufferSound'
<1>0. Memory(0) /\ OpSound /\ TmpSound
  BY DEF BufferSound
<1> DEFINE j == tmp.used + 1
           x == heap[Source][j]
           taken == IF Moves THEN [heap EXCEPT ![Source][j] = "moved"] ELSE heap
<1>1. /\ op.pc = "fill" /\ tmp.used < vec[op.from].used /\ UNCHANGED <<vec, op>>
      /\ heap' = [taken EXCEPT ![tmp.arr][j] = x] /\ tmp' = [tmp EXCEPT !.used = @ + 1]
  BY DEF Fill, At, Constructed
<1>2. /\ op.from \in Vectors /\ tmp.used \in Nat /\ vec[op.from].used \in Nat
      /\ vec[op.from].used <= tmp.size /\ tmp.size = TmpSize /\ tmp.arr # nullptr
  BY <1>1, FillRoom
<1>3. /\ vec[op.from].size \in Nat /\ vec[op.from].used <= vec[op.from].size
      /\ vec[op.from].size > 0 => vec[op.from].arr \in Buffers
      /\ vec[op.from].arr # nullptr =>
           /\ Len(heap[vec[op.from].arr]) = vec[op.from].size + 0
           /\ \A i \in 1..vec[op.from].size : heap[vec[op.from].arr][i + 0] = "raw" <=> i > vec[op.from].used
  BY <1>0, <1>2, MemoryFacts
<1>4. /\ j \in 1..vec[op.from].size /\ j + 0 = j /\ j <= vec[op.from].used
      /\ Source \in Buffers /\ Source = vec[op.from].arr /\ Source # nullptr
      /\ j \in 1..Len(heap[Source])
  BY <1>1, <1>2, <1>3, NullAssumption DEF Source
<1>5. x \in Slots /\ x # "raw"
  <2>1. heap[Source] \in Seq(Slots)
    BY <1>0, <1>4 DEF Memory, Sound
  <2>2. x \in Slots
    BY <1>4, <2>1, ElementOfSeq
  <2>3. ~(j > vec[op.from].used)
    BY <1>2, <1>4
  <2>4. heap[Source][j + 0] = "raw" <=> j > vec[op.from].used
    BY <1>3, <1>4
  <2> QED BY <1>4, <2>2, <2>3, <2>4
<1>6. Sound(Owners, taken, 0)
  <2>1. CASE Moves
    <3>1. taken = [heap EXCEPT ![vec[op.from].arr][j + 0] = "moved"]
      BY <1>4, <2>1
    <3>2. j \in 1..vec[op.from].used
      BY <1>2, <1>4
    <3> HIDE DEF taken, j
    <3> QED BY <1>0, <1>2, <3>1, <3>2, VecTaken
  <2>2. CASE ~Moves
    BY <1>0, <2>2 DEF Memory
  <2> QED BY <2>1, <2>2
<1>10. heap' = [taken EXCEPT ![tmp.arr][tmp.used + 1 + 0] = x]
  BY <1>1, <1>4
<1> HIDE DEF x, taken
<1>7. /\ Memory(0)'
      /\ tmp'.arr = tmp.arr /\ tmp'.size = tmp.size /\ tmp'.used = tmp.used + 1
  <2>1. tmp.used < tmp.size
    <3>1. tmp.used < vec[op.from].used
      BY <1>1
    <3>2. tmp.used \in Nat /\ vec[op.from].used \in Nat /\ tmp.size \in Nat /\ vec[op.from].used <= tmp.size
      BY <1>0, <1>2, MemoryFacts
    <3> QED BY <3>1, <3>2
  <2>2. vec' = vec /\ tmp' = [tmp EXCEPT !.used = tmp.used + 1] /\ VecTypeOK
    BY <1>0, <1>1 DEF Memory
  <2> QED BY <1>5, <1>6, <1>10, <2>1, <2>2, TmpGrown
<1>8. OpSound'
  BY <1>0, <1>1 DEF OpSound
<1>9. TmpSound'
  <2>1. TmpSize' = TmpSize
    BY <1>1 DEF TmpSize
  <2> QED BY <1>1, <1>2, <1>7, <2>1 DEF TmpSound
<1> QED BY <1>7, <1>8, <1>9 DEF BufferSound

LEMMA FillLastStep ==
  ASSUME BufferSound, FillLast
  PROVE  BufferSound'
<1>0. Memory(0) /\ OpSound /\ TmpSound /\ VecTypeOK /\ Sound(Owners, heap, 0)
  BY DEF BufferSound, Memory
<1>1. /\ op.pc = "fill" /\ op.name = "push" /\ tmp.used = vec[op.v].used /\ Goto("swap") /\ vec' = vec
      /\ heap' = [heap EXCEPT ![tmp.arr][tmp.used + 1] = op.t]
      /\ tmp' = [tmp EXCEPT !.used = tmp.used + 1]
  BY DEF FillLast, At, Constructed
<1>2. op.t \in Slots /\ op.t # "raw" /\ tmp.used < tmp.size
  BY <1>1, FillRoom, SlotAssumption DEF Slots
<1>3. heap' = [heap EXCEPT ![tmp.arr][tmp.used + 1 + 0] = op.t]
  <2>1. tmp.used + 1 + 0 = tmp.used + 1
    BY <1>0, MemoryFacts
  <2> QED BY <1>1, <2>1
<1>4. Memory(0)'
  <2>1. vec' = vec /\ tmp' = [tmp EXCEPT !.used = tmp.used + 1]
    BY <1>1
  <2> QED BY <1>0, <1>2, <1>3, <2>1, TmpGrown
<1>5. OpSound' /\ op'.pc = "swap"
  BY <1>0, <1>1, GotoFacts
<1> QED BY <1>4, <1>5 DEF BufferSound, TmpSound

LEMMA FillCopiedStep ==
  ASSUME BufferSound, FillCopied
  PROVE  BufferSound'
<1>0. Memory(0) /\ OpSound /\ TmpSound
  BY DEF BufferSound
<1>1. op.pc = "fill" /\ Goto("swap") /\ UNCHANGED <<vec, heap, tmp>>
  BY DEF FillCopied, At
<1>2. OpSound' /\ op'.pc = "swap"
  BY <1>0, <1>1, GotoFacts
<1>3. Memory(0)'
  BY <1>0, <1>1, MemoryKept
<1> QED BY <1>2, <1>3 DEF BufferSound, TmpSound

LEMMA HereStep ==
  ASSUME BufferSound, Here
  PROVE  BufferSound'
<1>0. Memory(0) /\ OpSound /\ TmpSound
  BY DEF BufferSound
<1>1. /\ op.pc = "here" /\ op' = Idle /\ tmp' = tmp
      /\ heap' = [heap EXCEPT ![vec[op.v].arr][vec[op.v].used + 1] = op.t]
      /\ vec' = [vec EXCEPT ![op.v].used = vec[op.v].used + 1]
  BY DEF Here, At
<1>2. op.v \in Vectors /\ op.t \in Values /\ vec[op.v].used < vec[op.v].size /\ tmp = NoVector
  BY <1>0, <1>1, OpFacts DEF TmpSound
<1>3. op.t \in Slots /\ op.t # "raw"
  BY <1>2, SlotAssumption DEF Slots
<1>4. heap' = [heap EXCEPT ![vec[op.v].arr][vec[op.v].used + 1 + 0] = op.t]
  <2>1. vec[op.v].used + 1 + 0 = vec[op.v].used + 1
    BY <1>0, <1>2, MemoryFacts
  <2> QED BY <1>1, <2>1
<1>5. Memory(0)'
  <2>1. tmp' = tmp /\ vec' = [vec EXCEPT ![op.v].used = vec[op.v].used + 1]
    BY <1>1
  <2> QED BY <1>0, <1>2, <1>3, <1>4, <2>1, VecGrown
<1>6. OpSound' /\ TmpSound'
  BY <1>1, <1>2 DEF OpSound, TmpSound, Idle, NoVector, Vector
<1> QED BY <1>5, <1>6 DEF BufferSound

LEMMA BufferStep ==
  ASSUME BufferSound, Next
  PROVE  BufferSound'
<1>1. CASE Step
  <2>1. CASE Drop \/ Throw
    BY <2>1, DestroyStep DEF Drop, Throw
  <2> QED BY <1>1, <2>1, ArgumentStep, AllocateStep, AllocateNoneStep, FillStep, FillLastStep,
             FillCopiedStep, SwapStep, HereStep DEF Step
<1>2. CASE ~Step
  BY <1>2, StartStep, PopStep, MoveStep DEF Next
<1> QED BY <1>1, <1>2

\* The two properties of MyVec.
LEMMA BufferOwned ==
  ASSUME BufferSound
  PROVE  OwnedOnce /\ ElementsExact
<1>0. VecTypeOK /\ Sound(Owners, heap, 0) /\ DOMAIN Owners = Names
  BY DEF BufferSound, Memory, Owners, Names
<1>1. ASSUME NEW n \in Names
      PROVE  /\ Owners[n].used <= Owners[n].size
             /\ Owners[n].size \in Nat
             /\ IF Owners[n].arr = nullptr THEN Owners[n].size = 0
                ELSE Owners[n].size = Len(heap[Owners[n].arr]) /\ Owners[n].size > 0
             /\ \A i \in 1..Owners[n].size : heap[Owners[n].arr][i] = "raw" <=> i > Owners[n].used
  <2>1. Filled(Owners[n], heap, 0) /\ Owners[n] \in Storages /\ heap \in [Buffers -> Seq(Slots)]
    BY <1>0 DEF Sound
  <2>2. Owners[n].size \in Nat /\ Owners[n].used \in Nat /\ Owners[n].arr \in Buffers \cup {nullptr}
    BY <2>1 DEF Storages
  <2>3. /\ Owners[n].used <= Owners[n].size
        /\ Owners[n].arr = nullptr => Owners[n].size = 0
        /\ Owners[n].arr # nullptr =>
             /\ heap[Owners[n].arr] # << >> /\ Len(heap[Owners[n].arr]) = Owners[n].size + 0
             /\ \A i \in 1..Owners[n].size : heap[Owners[n].arr][i + 0] = "raw" <=> i > Owners[n].used
    BY <2>1, Zenon DEF Filled
  <2>4. Owners[n].arr # nullptr => Len(heap[Owners[n].arr]) \in Nat \ {0}
    BY <2>1, <2>2, <2>3, EmptySeq
  <2>5. \A i \in 1..Owners[n].size : i + 0 = i
    BY <2>2
  <2>6. \A i \in 1..Owners[n].size : heap[Owners[n].arr][i] = "raw" <=> i > Owners[n].used
    <3>1. CASE Owners[n].arr = nullptr
      BY <2>2, <2>3, <3>1
    <3>2. CASE Owners[n].arr # nullptr
      BY <2>3, <2>5, <3>2
    <3> QED BY <3>1, <3>2
  <2>7. Owners[n].arr # nullptr => Owners[n].size = Len(heap[Owners[n].arr]) /\ Owners[n].size > 0
    <3> DEFINE k == Len(heap[Owners[n].arr])
    <3>1. Owners[n].arr # nullptr => k \in Nat \ {0} /\ k = Owners[n].size + 0
      BY <2>3, <2>4
    <3> HIDE DEF k
    <3>2. Owners[n].arr # nullptr => Owners[n].size = k /\ Owners[n].size > 0
      BY <2>2, <3>1
    <3> QED BY <3>2 DEF k
  <2> QED BY <2>2, <2>3, <2>6, <2>7, Zenon
<1>2. ASSUME NEW b \in Allocated
      PROVE  Cardinality({n \in Names : Owners[n].arr = b}) = 1
  BY <1>0, OneOwner DEF Sound, Allocated
<1> QED BY <1>0, <1>1, <1>2 DEF OwnedOnce, ElementsExact

-----------------------------------------------------------------------------
(* The vector with iterators.                                              *)

\* What push may be given: a value, or the place of an element.
Arguments == Values \cup {"none"} \cup [block : Buffers, place : Nat]

\* The operations under way, and the labels of each.
Building == [pc : {"alloc", "fill", "drop", "here", "dangling"}, name : {"construct", "assign", "push"},
             v : Vectors, from : Vectors, alloc : Nat, list : Seq(Values), arg : Arguments]
Inserting == [pc : {"here", "dangling"}, name : {"push"}, v : Vectors, arg : Arguments]
Walking == [pc : {"walk"}, name : {"walk"}, v : Vectors, back : BOOLEAN, seen : Seq(Slots), ptr : Nat]

IterOpSound ==
  \/ op = Idle
  \/ op \in Building /\ (op.pc \in {"here", "dangling"} => op.name = "push")
  \/ op \in Inserting
  \/ op \in Walking

\* tmp exists while it is filled and until it is dropped, and has the room for it.
RoomSound ==
  /\ op.pc \in {"idle", "alloc", "here", "walk"} => tmp = Iter!NoStorage
  /\ op.pc \in {"alloc", "fill"} => Iter!FillCount <= op.alloc
  /\ op.pc = "fill" => tmp.arr # nullptr /\ tmp.size = op.alloc /\ tmp.used <= Iter!FillCount

\* What push is given is a value or was an element; only realloc takes it away.
Argued == /\ vec[op.v].used < MaxUsed - 1
          /\ op.arg \in Values \/ op.arg \in [block : Buffers, place : 1..vec[op.v].used]
Doubled == vec[op.v].size = 2 * vec[op.v].used + 1

PushSound ==
  /\ op.pc \in {"alloc", "fill"} /\ op.name = "push" =>
       Argued /\ op.from = op.v /\ op.alloc = 2 * vec[op.v].used + 1
  /\ op.pc = "drop" /\ op.name = "push" => Argued /\ Doubled
  /\ op.pc = "here" => /\ Argued /\ vec[op.v].used < vec[op.v].size
                       /\ Doubled \/ op.arg \in Values \/ op.arg.block = vec[op.v].arr
  /\ op.pc = "dangling" => Doubled /\ Iter!IsElement(op.arg)

\* Only realloc leaves elements that were moved from, up to where it has come.
Unmoved ==
  /\ \A v \in Vectors : \A i \in 1..vec[v].used :
       \/ heap[vec[v].arr][i + 1] # "moved"
       \/ op.pc = "fill" /\ Iter!moveOrCopyT /\ v = op.v /\ i <= tmp.used
  /\ op.pc = "fill" => \A i \in 1..tmp.used : heap[tmp.arr][i + 1] # "moved"

\* What a loop has seen.
Seen(o, h, back, ptr) ==
  IF back THEN [k \in 1..(o.used - ptr) |-> h[o.arr][(o.used - k + 1) + 1]]
  ELSE [k \in 1..ptr |-> h[o.arr][k + 1]]
WalkSound ==
  op.pc = "walk" => op.ptr <= vec[op.v].used /\ op.seen = Seen(vec[op.v], heap, op.back, op.ptr)

\* The inductive invariant of the vector with iterators.
IterSound == Memory(1) /\ IterOpSound /\ RoomSound /\ PushSound /\ Unmoved /\ WalkSound

LEMMA InitIter ==
  ASSUME Iter!Init
  PROVE  IterSound
<1> DEFINE none == [arr |-> nullptr, size |-> 0, used |-> 0]
<1>1. /\ vec = [v \in Vectors |-> none] /\ heap = [b \in Buffers |-> << >>]
      /\ op = [pc |-> "idle"] /\ tmp = none /\ tmp = Iter!NoStorage
  BY DEF Iter!Init, Iter!NoStorage, Iter!VectorStorage, Iter!Idle
<1>2. none \in Storages /\ none.arr = nullptr /\ none.size = 0 /\ none.used = 0
  BY DEF Storages
<1> HIDE DEF none
<1>3. VecTypeOK /\ \A n \in Names : Owners[n] = none
  BY <1>1, <1>2, OwnersAre DEF VecTypeOK, Names
<1>4. Owners \in [Names -> Storages]
  BY <1>2, <1>3, OwnersAre
<1>5. heap \in [Buffers -> Seq(Slots)]
  BY <1>1, EmptySeq
<1>6. Exclusive(Owners) /\ Reached(Owners, heap) /\ \A n \in Names : Filled(Owners[n], heap, 1)
  BY <1>1, <1>2, <1>3 DEF Exclusive, Reached, Filled
<1>7. Memory(1)
  BY <1>3, <1>4, <1>5, <1>6 DEF Memory, Sound
<1>8. op.pc = "idle" /\ op = Idle
  BY <1>1 DEF Idle
<1>9. Unmoved
  BY <1>1, <1>2, <1>8 DEF Unmoved
<1> QED BY <1>1, <1>7, <1>8, <1>9 DEF IterSound, IterOpSound, RoomSound, PushSound, WalkSound

LEMMA IterOpFacts ==
  ASSUME IterOpSound
  PROVE  /\ op.pc = "idle" => op = Idle
         /\ op.pc = "walk" => op \in Walking
         /\ op.pc \in {"alloc", "fill", "drop"} => op \in Building
         /\ op.pc = "here" => op.name = "push" /\ (op \in Building \/ op \in Inserting)
         /\ op.pc # "idle" => op.v \in Vectors
         /\ op.pc \in {"here", "alloc", "fill", "drop"} => op.arg \in Arguments
BY DEF IterOpSound, Idle, Building, Inserting, Walking

LEMMA BuildGoto ==
  ASSUME op \in Building, NEW label \in {"alloc", "fill", "drop", "here", "dangling"},
         label \in {"here", "dangling"} => op.name = "push", Iter!Goto(label)
  PROVE  /\ IterOpSound' /\ op' \in Building /\ op'.pc = label /\ op'.name = op.name /\ op'.v = op.v
         /\ op'.from = op.from /\ op'.alloc = op.alloc /\ op'.list = op.list /\ op'.arg = op.arg
<1>1. op' = [op EXCEPT !.pc = label]
  BY DEF Iter!Goto
<1>2. /\ op' \in Building /\ op'.pc = label /\ op'.name = op.name /\ op'.v = op.v
      /\ op'.from = op.from /\ op'.alloc = op.alloc /\ op'.list = op.list /\ op'.arg = op.arg
  BY <1>1 DEF Building
<1> QED BY <1>2 DEF IterOpSound

\* Between operations nothing is moved from.
AllUnmoved == \A v \in Vectors : \A i \in 1..vec[v].used : heap[vec[v].arr][i + 1] # "moved"

LEMMA IterQuiet ==
  ASSUME IterSound, op.pc # "fill"
  PROVE  AllUnmoved
BY DEF IterSound, Unmoved, AllUnmoved

\* The operations that start.
LEMMA IterStart ==
  ASSUME IterSound, op.pc = "idle", UNCHANGED <<vec, heap, tmp>>, op'.pc # "fill"
  PROVE  Memory(1)' /\ tmp' = Iter!NoStorage /\ Unmoved'
<1>1. Memory(1)'
  BY MemoryKept DEF IterSound
<1>2. tmp' = Iter!NoStorage
  BY DEF IterSound, RoomSound
<1>3. AllUnmoved
  BY IterQuiet
<1> QED BY <1>1, <1>2, <1>3 DEF Unmoved, AllUnmoved

LEMMA IterConstruct ==
  ASSUME IterSound, NEW v \in Vectors, NEW list \in Given, Iter!construct(v, list)
  PROVE  IterSound'
<1>1. /\ op.pc = "idle" /\ UNCHANGED <<vec, heap, tmp>>
      /\ op' = [pc |-> "alloc", name |-> "construct", v |-> v, from |-> v, alloc |-> Len(list),
                list |-> list, arg |-> "none"]
  BY DEF Iter!construct, Iter!At, Iter!Build
<1>2. list \in Seq(Values) /\ Len(list) \in Nat
  BY GivenAssumption
<1>3. op' \in Building /\ op'.pc = "alloc" /\ op'.name = "construct" /\ op'.alloc = Len(list) /\ op'.list = list
  BY <1>1, <1>2 DEF Building, Arguments
<1>4. Memory(1)' /\ tmp' = Iter!NoStorage /\ Unmoved'
  BY <1>1, <1>3, IterStart
<1>5. IterOpSound' /\ PushSound' /\ WalkSound'
  BY <1>3 DEF IterOpSound, PushSound, WalkSound
<1>6. RoomSound'
  BY <1>2, <1>3, <1>4 DEF RoomSound, Iter!FillCount
<1> QED BY <1>4, <1>5, <1>6 DEF IterSound

LEMMA IterAssign ==
  ASSUME IterSound, NEW v \in Vectors, NEW w \in Vectors, Iter!assign(v, w)
  PROVE  IterSound'
<1>1. /\ op.pc = "idle" /\ UNCHANGED <<vec, heap, tmp>>
      /\ op' = [pc |-> "alloc", name |-> "assign", v |-> v, from |-> w, alloc |-> vec[w].used,
                list |-> << >>, arg |-> "none"]
  BY DEF Iter!assign, Iter!At, Iter!Build
<1>2. << >> \in Seq(Values) /\ vec[w].used \in Nat
  BY MemoryFacts, EmptySeq DEF IterSound
<1>3. op' \in Building /\ op'.pc = "alloc" /\ op'.name = "assign" /\ op'.alloc = vec[w].used /\ op'.from = w
  BY <1>1, <1>2 DEF Building, Arguments
<1>4. Memory(1)' /\ tmp' = Iter!NoStorage /\ Unmoved'
  BY <1>1, <1>3, IterStart
<1>5. IterOpSound' /\ PushSound' /\ WalkSound'
  BY <1>3 DEF IterOpSound, PushSound, WalkSound
<1>6. RoomSound'
  BY <1>1, <1>2, <1>3, <1>4 DEF RoomSound, Iter!FillCount
<1> QED BY <1>4, <1>5, <1>6 DEF IterSound

LEMMA IterPush ==
  ASSUME IterSound, NEW v \in Vectors, NEW arg, Iter!push(v, arg),
         arg \in Values \/ (arg \in [block : Buffers, place : 1..vec[v].used] /\ arg.block = vec[v].arr)
  PROVE  IterSound'
<1>0. Memory(1) /\ vec[v].used \in Nat /\ vec[v].size \in Nat /\ vec[v].used <= vec[v].size
  BY MemoryFacts DEF IterSound
<1>1. op.pc = "idle" /\ vec[v].used < MaxUsed - 1 /\ UNCHANGED <<vec, heap, tmp>>
  BY DEF Iter!push, Iter!At
<1>2. arg \in Arguments
  <2>1. 1..vec[v].used \subseteq Nat
    BY <1>0
  <2> QED BY <2>1 DEF Arguments
<1>3. CASE vec[v].used = vec[v].size
  <2> DEFINE a == 2 * vec[v].size + 1
  <2>1. op' = [pc |-> "alloc", name |-> "push", v |-> v, from |-> v, alloc |-> a, list |-> << >>, arg |-> arg]
    BY <1>3 DEF Iter!push, Iter!Build
  <2>2. a \in Nat /\ vec[v].used <= a /\ a = 2 * vec[v].used + 1 /\ << >> \in Seq(Values)
    BY <1>0, <1>3, EmptySeq
  <2> HIDE DEF a
  <2>3. /\ op' \in Building /\ op'.pc = "alloc" /\ op'.name = "push" /\ op'.alloc = a /\ op'.v = v
        /\ op'.from = v /\ op'.arg = arg
    BY <1>2, <2>1, <2>2 DEF Building
  <2>4. Memory(1)' /\ tmp' = Iter!NoStorage /\ Unmoved'
    BY <1>1, <2>3, IterStart
  <2>5. IterOpSound' /\ WalkSound'
    BY <2>3 DEF IterOpSound, WalkSound
  <2>6. RoomSound'
    BY <1>1, <2>2, <2>3, <2>4 DEF RoomSound, Iter!FillCount
  <2>7. PushSound'
    BY <1>1, <2>2, <2>3 DEF PushSound, Argued
  <2> QED BY <2>4, <2>5, <2>6, <2>7 DEF IterSound
<1>4. CASE vec[v].used # vec[v].size
  <2>1. op' = [pc |-> "here", name |-> "push", v |-> v, arg |-> arg]
    BY <1>4 DEF Iter!push
  <2>3. op' \in Inserting /\ op'.pc = "here" /\ op'.name = "push" /\ op'.v = v /\ op'.arg = arg
    BY <1>2, <2>1 DEF Inserting
  <2>4. Memory(1)' /\ tmp' = Iter!NoStorage /\ Unmoved'
    BY <1>1, <2>3, IterStart
  <2>5. IterOpSound' /\ WalkSound' /\ RoomSound'
    BY <2>3, <2>4 DEF IterOpSound, WalkSound, RoomSound
  <2>6. vec[v].used < vec[v].size
    BY <1>0, <1>4
  <2>7. PushSound'
    BY <1>1, <2>3, <2>6 DEF PushSound, Argued
  <2> QED BY <2>4, <2>5, <2>7 DEF IterSound
<1> QED BY <1>3, <1>4

LEMMA IterWalk ==
  ASSUME IterSound, NEW v \in Vectors, NEW back \in BOOLEAN, Iter!walk(v, back)
  PROVE  IterSound'
<1>0. vec[v].used \in Nat
  BY MemoryFacts DEF IterSound
<1> DEFINE p == IF back THEN vec[v].used ELSE 0
<1>1. /\ op.pc = "idle" /\ UNCHANGED <<vec, heap, tmp>>
      /\ op' = [pc |-> "walk", name |-> "walk", v |-> v, back |-> back, seen |-> << >>, ptr |-> p]
  BY DEF Iter!walk, Iter!At
<1>2. p \in Nat /\ p <= vec[v].used /\ << >> \in Seq(Slots)
  BY <1>0, EmptySeq
<1>3. Seen(vec[v], heap, back, p) = << >>
  <2>1. 1..0 = {}
    OBVIOUS
  <2>2. CASE back
    <3>1. vec[v].used - p = 0
      BY <1>0, <2>2
    <3>2. Seen(vec[v], heap, back, p) = [k \in 1..0 |-> heap[vec[v].arr][(vec[v].used - k + 1) + 1]]
      BY <2>2, <3>1 DEF Seen
    <3> QED BY <2>1, <3>2
  <2>3. CASE ~back
    <3>1. Seen(vec[v], heap, back, p) = [k \in 1..0 |-> heap[vec[v].arr][k + 1]]
      BY <2>3 DEF Seen
    <3> QED BY <2>1, <3>1
  <2> QED BY <2>2, <2>3
<1> HIDE DEF p
<1>4. op' \in Walking /\ op'.pc = "walk" /\ op'.v = v /\ op'.back = back /\ op'.seen = << >> /\ op'.ptr = p
  BY <1>1, <1>2 DEF Walking
<1>5. Memory(1)' /\ tmp' = Iter!NoStorage /\ Unmoved'
  BY <1>1, <1>4, IterStart
<1>6. WalkSound'
  BY <1>1, <1>2, <1>3, <1>4 DEF WalkSound
<1>7. IterOpSound' /\ RoomSound' /\ PushSound'
  BY <1>4, <1>5 DEF IterOpSound, RoomSound, PushSound
<1> QED BY <1>5, <1>6, <1>7 DEF IterSound

\* The operations that are done at once.
LEMMA IterMove ==
  ASSUME IterSound, NEW v \in Vectors, NEW w \in Vectors, Iter!move(v, w)
  PROVE  IterSound'
<1>1. /\ op.pc = "idle" /\ heap' = heap /\ op' = op /\ tmp' = tmp
      /\ vec' = [vec EXCEPT ![v] = vec[w], ![w] = vec[v]]
  BY DEF Iter!move, Iter!At
<1>2. Memory(1)'
  BY <1>1, VecExchanged DEF IterSound
<1>3. AllUnmoved /\ vec \in [Vectors -> Storages]
  BY <1>1, IterQuiet DEF IterSound, Memory, VecTypeOK
<1>4. Unmoved'
  BY <1>1, <1>3 DEF Unmoved, AllUnmoved
<1>5. IterOpSound' /\ RoomSound' /\ PushSound' /\ WalkSound'
  BY <1>1 DEF IterSound, IterOpSound, RoomSound, PushSound, WalkSound
<1> QED BY <1>2, <1>4, <1>5 DEF IterSound

LEMMA IterPop ==
  ASSUME IterSound, NEW v \in Vectors, Iter!pop(v)
  PROVE  IterSound'
<1>0. /\ Memory(1) /\ VecTypeOK /\ vec[v].used \in Nat /\ vec[v].size \in Nat /\ vec[v].used <= vec[v].size
      /\ \A w \in Vectors : vec[w].used \in Nat /\ vec[w].size \in Nat /\ vec[w].used <= vec[w].size
  BY MemoryFacts DEF IterSound, Memory
<1>1. /\ op.pc = "idle" /\ vec[v].used # 0 /\ op' = op /\ tmp' = tmp
      /\ vec' = [vec EXCEPT ![v].used = vec[v].used - 1]
      /\ heap' = [heap EXCEPT ![vec[v].arr][vec[v].used + 1] = "raw"]
  BY DEF Iter!pop, Iter!At
<1>2. vec[v].used >= 1 /\ vec[v].used \in 1..vec[v].size /\ vec[v].used - 1 \in Nat /\ "raw" \in Slots
  BY <1>0, <1>1 DEF Slots
<1>3. Memory(1)'
  BY <1>0, <1>1, <1>2, VecShrunk
<1>4. \A w \in Vectors : \A m \in 1..vec[w].size :
        heap'[vec[w].arr][m + 1] = IF w = v /\ m = vec[v].used THEN "raw" ELSE heap[vec[w].arr][m + 1]
  <2> DEFINE j == vec[v].used
             g == heap'
  <2>1. j \in 1..vec[v].size /\ "raw" \in Slots /\ Memory(1)
    BY <1>0, <1>2
  <2>2. Poked(heap, vec[v].arr, j + 1, "raw", g)
    BY <1>1 DEF Poked
  <2> HIDE DEF j, g
  <2>3. VecRewritten(1, heap, v, j, "raw", g)
    BY <2>1, <2>2, VecPoked
  <2> QED BY <2>3, Zenon DEF VecRewritten, j, g
<1>5. \A w \in Vectors : vec'[w].arr = vec[w].arr /\ vec'[w].used \in Nat /\ vec'[w].used <= vec[w].used
  <2>1. /\ vec'[v].arr = vec[v].arr /\ vec'[v].used = vec[v].used - 1
        /\ \A w \in Vectors : w # v => vec'[w] = vec[w]
    BY <1>0, <1>1, <1>2, VecRecounted
  <2> QED BY <1>0, <1>2, <2>1
<1>6. AllUnmoved
  BY <1>1, IterQuiet
<1>7. AllUnmoved'
  <2>1. ASSUME NEW w \in Vectors, NEW i \in 1..vec'[w].used PROVE heap'[vec'[w].arr][i + 1] # "moved"
    <3>1. i \in 1..vec[w].used /\ i \in 1..vec[w].size
      BY <1>0, <1>5
    <3>2. heap[vec[w].arr][i + 1] # "moved"
      BY <1>6, <3>1, Zenon DEF AllUnmoved
    <3>3. heap'[vec[w].arr][i + 1] \in {"raw", heap[vec[w].arr][i + 1]}
      BY <1>4, <3>1
    <3> QED BY <1>5, <3>2, <3>3
  <2> QED BY <2>1 DEF AllUnmoved
<1>8. Unmoved' /\ IterOpSound' /\ RoomSound' /\ PushSound' /\ WalkSound'
  BY <1>1, <1>7 DEF AllUnmoved, Unmoved, IterSound, IterOpSound, RoomSound, PushSound, WalkSound
<1> QED BY <1>3, <1>8 DEF IterSound

\* The steps of an operation.
LEMMA BlockBlank ==
  ASSUME NEW n \in Nat
  PROVE  Blank(Iter!Block(n), n, 1)
<1> DEFINE r == [i \in 1..n |-> "raw"]
           s == <<"block">> \o r
<1>1. <<"block">> \in Seq(Slots) /\ Len(<<"block">>) = 1
  BY DEF Slots
<1>2. r \in Seq(Slots) /\ Len(r) = n /\ \A i \in 1..n : r[i] = "raw"
  BY DEF Slots
<1> HIDE DEF r
<1>3. s \in Seq(Slots) /\ Len(s) = n + 1 /\ \A i \in 1..n : s[i + 1] = "raw"
  <2>1. s \in Seq(Slots) /\ Len(s) = 1 + n
    BY <1>1, <1>2, ConcatProperties
  <2>2. ASSUME NEW i \in 1..n PROVE s[i + 1] = r[i]
    <3>1. i + 1 \in 1..(1 + n) /\ ~(i + 1 <= 1) /\ (i + 1) - 1 = i
      OBVIOUS
    <3> QED BY <1>1, <1>2, <3>1, ConcatProperties
  <2> QED BY <1>2, <2>1, <2>2
<1>4. s # << >>
  BY <1>3, EmptySeq
<1> QED BY <1>3, <1>4 DEF Blank, Iter!Block, r

LEMMA IterAllocate ==
  ASSUME IterSound, NEW b \in Buffers, Iter!Allocate(b)
  PROVE  IterSound'
<1>0. Memory(1) /\ IterOpSound /\ RoomSound /\ PushSound /\ Sound(Owners, heap, 1)
  BY DEF IterSound, Memory
<1> DEFINE n == op.alloc
           s == Iter!Block(n)
<1>1. /\ op.pc = "alloc" /\ heap[b] = << >> /\ vec' = vec /\ heap' = [heap EXCEPT ![b] = s]
      /\ tmp' = [arr |-> b, size |-> n, used |-> 0] /\ Iter!Goto("fill")
  BY DEF Iter!Allocate, Iter!At, Iter!Allocated, Iter!VectorStorage
<1>2. op \in Building /\ n \in Nat /\ op.v \in Vectors /\ op.from \in Vectors /\ op.list \in Seq(Values)
  BY <1>0, <1>1, IterOpFacts DEF Building
<1>3. Blank(s, n, 1) /\ tmp.arr = nullptr
  BY <1>0, <1>1, <1>2, BlockBlank DEF RoomSound, Iter!NoStorage, Iter!VectorStorage
<1>4. /\ IterOpSound' /\ op'.pc = "fill" /\ op'.name = op.name /\ op'.v = op.v
      /\ op'.from = op.from /\ op'.alloc = n /\ op'.list = op.list /\ op'.arg = op.arg
  BY <1>1, <1>2, BuildGoto
<1> HIDE DEF n, s
<1>5. Memory(1)' /\ tmp'.arr = b /\ tmp'.size = n /\ tmp'.used = 0
  BY <1>0, <1>1, <1>2, <1>3, TmpAllocated
<1>6. Iter!FillCount' = Iter!FillCount /\ Iter!FillCount \in Nat /\ Iter!FillCount <= n
  <2>1. vec[op.from].used \in Nat /\ Len(op.list) \in Nat
    BY <1>0, <1>2, MemoryFacts
  <2>2. Iter!FillCount <= n
    BY <1>0, <1>1 DEF RoomSound, n
  <2> QED BY <1>1, <1>4, <2>1, <2>2 DEF Iter!FillCount
<1>7. RoomSound'
  <2>1. b # nullptr
    BY NullAssumption
  <2> QED BY <1>4, <1>5, <1>6, <2>1 DEF RoomSound
<1>8. PushSound' /\ WalkSound'
  <2>1. op.name = "push" => Argued /\ op.from = op.v /\ op.alloc = 2 * vec[op.v].used + 1
    BY <1>0, <1>1 DEF PushSound
  <2> QED BY <1>1, <1>4, <2>1 DEF PushSound, Argued, WalkSound, n
<1>9. Unmoved'
  <2>1. ASSUME NEW v \in Vectors, NEW i \in 1..vec[v].used PROVE heap'[vec[v].arr][i + 1] # "moved"
    <3>1. i \in 1..vec[v].size
      BY <1>0, MemoryFacts
    <3>2. \A w \in Names : \A m \in 1..Owners[w].size :
            heap'[Owners[w].arr][m + 1] = heap[Owners[w].arr][m + 1]
      BY <1>0, <1>1, SlotsAllocated
    <3>3. v \in Names /\ Owners[v] = vec[v]
      BY OwnersAre
    <3>4. heap'[vec[v].arr][i + 1] = heap[vec[v].arr][i + 1]
      BY <3>1, <3>2, <3>3
    <3>5. AllUnmoved
      BY <1>1, IterQuiet
    <3>6. heap[vec[v].arr][i + 1] # "moved"
      BY <3>5, Zenon DEF AllUnmoved
    <3> QED BY <3>4, <3>6
  <2>2. 1..tmp'.used = {}
    BY <1>5
  <2> QED BY <1>1, <2>1, <2>2 DEF Unmoved
<1> QED BY <1>4, <1>5, <1>7, <1>8, <1>9 DEF IterSound

\* An element of a vector.
LEMMA ElementFacts ==
  ASSUME Memory(1), NEW v \in Vectors, NEW i \in 1..vec[v].used
  PROVE  /\ i \in 1..vec[v].size /\ vec[v].arr \in Buffers
         /\ heap[vec[v].arr][i + 1] \in Slots /\ heap[vec[v].arr][i + 1] # "raw"
<1>1. /\ vec[v].used \in Nat /\ vec[v].size \in Nat /\ vec[v].used <= vec[v].size
      /\ vec[v].size > 0 => vec[v].arr \in Buffers /\ vec[v].arr # nullptr
      /\ vec[v].arr # nullptr =>
           /\ Len(heap[vec[v].arr]) = vec[v].size + 1
           /\ \A m \in 1..vec[v].size : heap[vec[v].arr][m + 1] = "raw" <=> m > vec[v].used
  BY MemoryFacts
<1>2. i \in 1..vec[v].size /\ vec[v].size > 0 /\ ~(i > vec[v].used)
  BY <1>1
<1>3. heap[vec[v].arr] \in Seq(Slots) /\ vec[v].arr \in Buffers /\ vec[v].arr # nullptr
  BY <1>1, <1>2 DEF Memory, Sound
<1>4. i + 1 \in 1..Len(heap[vec[v].arr])
  BY <1>1, <1>2, <1>3
<1>5. heap[vec[v].arr][i + 1] \in Slots
  BY <1>3, <1>4, ElementOfSeq
<1>6. heap[vec[v].arr][i + 1] # "raw"
  BY <1>1, <1>2, <1>3
<1> QED BY <1>2, <1>3, <1>5, <1>6

LEMMA IterFill ==
  ASSUME IterSound, Iter!Fill
  PROVE  IterSound'
<1> DEFINE i == tmp.used + 1
           x == IF op.name = "construct" THEN op.list[i] ELSE heap[vec[op.from].arr][i + 1]
           left == IF Iter!moveOrCopyT THEN [heap EXCEPT ![vec[op.from].arr][i + 1] = "moved"] ELSE heap
<1>0. Memory(1) /\ IterOpSound /\ RoomSound /\ PushSound /\ Unmoved /\ Sound(Owners, heap, 1) /\ VecTypeOK
  BY DEF IterSound, Memory
<1>1. /\ op.pc = "fill" /\ tmp.used < Iter!FillCount /\ vec' = vec /\ op' = op /\ version' = version
      /\ heap' = [left EXCEPT ![tmp.arr][i + 1] = x] /\ tmp' = [tmp EXCEPT !.used = i]
  BY DEF Iter!Fill, Iter!At, Iter!Slot
<1>2. op \in Building /\ op.v \in Vectors /\ op.from \in Vectors /\ op.list \in Seq(Values) /\ op.alloc \in Nat
  BY <1>0, <1>1, IterOpFacts DEF Building
<1>3. /\ tmp.used \in Nat /\ tmp.size \in Nat /\ vec[op.from].used \in Nat /\ Len(op.list) \in Nat
      /\ Iter!FillCount \in Nat
  BY <1>0, <1>2, MemoryFacts DEF Iter!FillCount
<1>4. tmp.size = op.alloc /\ Iter!FillCount <= op.alloc /\ tmp.arr # nullptr
  BY <1>0, <1>1 DEF RoomSound
<1>5. i \in 1..Iter!FillCount /\ i \in 1..tmp.size /\ tmp.used < tmp.size /\ i \in Nat
  <2>1. tmp.used < Iter!FillCount
    BY <1>1
  <2> QED BY <1>2, <1>3, <1>4, <2>1
<1>6. op.name # "construct" => i \in 1..vec[op.from].used
  BY <1>5 DEF Iter!FillCount
<1>7. x \in Slots /\ x # "raw" /\ x # "moved"
  <2>1. CASE op.name = "construct"
    <3>1. i \in 1..Len(op.list)
      BY <1>5, <2>1 DEF Iter!FillCount
    <3>2. op.list[i] \in Values
      BY <1>2, <3>1, ElementOfSeq
    <3> QED BY <2>1, <3>2, SlotAssumption DEF Slots
  <2>2. CASE op.name # "construct"
    <3>1. x = heap[vec[op.from].arr][i + 1] /\ x \in Slots /\ x # "raw"
      BY <1>0, <1>2, <1>6, <2>2, ElementFacts
    <3>2. ~(i <= tmp.used)
      BY <1>3
    <3> HIDE DEF i, x
    <3>3. heap[vec[op.from].arr][i + 1] # "moved"
      BY <1>0, <1>2, <1>6, <2>2, <3>2, Zenon DEF Unmoved
    <3> QED BY <3>1, <3>3
  <2> QED BY <2>1, <2>2
<1>8. Iter!moveOrCopyT => op.from = op.v /\ op.name # "construct"
  BY <1>0, <1>1 DEF Iter!moveOrCopyT, PushSound
<1>10. Iter!moveOrCopyT' = Iter!moveOrCopyT
  BY <1>1 DEF Iter!moveOrCopyT
<1>11. Iter!moveOrCopyT => Poked(heap, vec[op.v].arr, i + 1, "moved", left)
  BY <1>8 DEF Poked
<1>12. ~Iter!moveOrCopyT => left = heap
  OBVIOUS
<1>13. Poked(left, tmp.arr, i + 1, x, heap')
  BY <1>1 DEF Poked
<1>20. heap' = [left EXCEPT ![tmp.arr][tmp.used + 1 + 1] = x] /\ tmp' = [tmp EXCEPT !.used = tmp.used + 1]
  BY <1>1
<1>25. ~(i <= tmp.used) /\ i = tmp.used + 1 /\ \A m \in 1..i : m = i \/ m \in 1..tmp.used
  BY <1>3
<1> HIDE DEF x, left, i
<1>14. Sound(Owners, left, 1) /\ TmpSame(1, heap, left)
       /\ \A w \in Vectors : \A m \in 1..vec[w].size :
            left[vec[w].arr][m + 1] = IF Iter!moveOrCopyT /\ w = op.v /\ m = i THEN "moved" ELSE heap[vec[w].arr][m + 1]
  <2>1. CASE Iter!moveOrCopyT
    <3>1. i \in 1..vec[op.v].used /\ i \in 1..vec[op.v].size /\ "moved" \in Slots
      BY <1>0, <1>2, <1>6, <1>8, <2>1, ElementFacts DEF Slots
    <3>2. left = [heap EXCEPT ![vec[op.v].arr][i + 1] = "moved"]
      BY <1>11, <2>1 DEF Poked
    <3>3. Sound(Owners, left, 1)
      BY <1>0, <1>2, <3>1, <3>2, VecTaken
    <3>4. VecRewritten(1, heap, op.v, i, "moved", left) /\ TmpSame(1, heap, left)
      BY <1>0, <1>2, <1>11, <2>1, <3>1, VecPoked
    <3> QED BY <2>1, <3>3, <3>4, Zenon DEF VecRewritten
  <2>2. CASE ~Iter!moveOrCopyT
    BY <1>0, <1>12, <2>2 DEF TmpSame
  <2> QED BY <2>1, <2>2
<1>15. Memory(1)' /\ tmp'.arr = tmp.arr /\ tmp'.size = tmp.size /\ tmp'.used = i
  <2>1. vec' = vec /\ tmp.used < tmp.size
    BY <1>1, <1>5
  <2>2. Sound(Owners, left, 1)
    BY <1>14
  <2> QED BY <1>0, <1>7, <1>20, <1>25, <2>1, <2>2, TmpGrown
<1>16. VecSame(1, left, heap') /\ TmpRewritten(1, left, i, x, heap')
  BY <1>5, <1>7, <1>13, <1>14, TmpPoked
<1>17. Unmoved'
  <2>1. ASSUME NEW w \in Vectors, NEW m \in 1..vec[w].used
        PROVE  heap'[vec[w].arr][m + 1] # "moved" \/ (Iter!moveOrCopyT /\ w = op.v /\ m <= i)
    <3>1. m \in 1..vec[w].size /\ m \in Nat
      BY <1>0, MemoryFacts
    <3>2. heap'[vec[w].arr][m + 1] = left[vec[w].arr][m + 1]
      BY <1>16, <3>1, Zenon DEF VecSame
    <3>3. heap[vec[w].arr][m + 1] # "moved" \/ (Iter!moveOrCopyT /\ w = op.v /\ m <= tmp.used)
      BY <1>0, Zenon DEF Unmoved
    <3>4. m <= tmp.used \/ m = i => m <= i
      BY <1>3, <1>25, <3>1
    <3>5. left[vec[w].arr][m + 1] =
            IF Iter!moveOrCopyT /\ w = op.v /\ m = i THEN "moved" ELSE heap[vec[w].arr][m + 1]
      BY <1>14, <3>1, Zenon
    <3> QED BY <3>2, <3>3, <3>4, <3>5, Zenon
  <2>2. ASSUME NEW m \in 1..i PROVE heap'[tmp.arr][m + 1] # "moved"
    <3>1. m \in 1..tmp.size
      BY <1>3, <1>5, <1>25
    <3>2. heap'[tmp.arr][m + 1] = IF m = i THEN x ELSE left[tmp.arr][m + 1]
      BY <1>16, <3>1, Zenon DEF TmpRewritten
    <3>3. left[tmp.arr][m + 1] = heap[tmp.arr][m + 1]
      BY <1>14, <3>1, Zenon DEF TmpSame
    <3>4. m # i => heap[tmp.arr][m + 1] # "moved"
      BY <1>0, <1>1, <1>25, Zenon DEF Unmoved
    <3> QED BY <1>7, <3>2, <3>3, <3>4, Zenon
  <2>3. /\ vec' = vec /\ op' = op /\ op'.pc = "fill" /\ op'.v = op.v /\ tmp'.used = i /\ tmp'.arr = tmp.arr
    BY <1>1, <1>15
  <2>4. \A w \in Vectors : \A m \in 1..vec'[w].used :
          \/ heap'[vec'[w].arr][m + 1] # "moved"
          \/ op'.pc = "fill" /\ Iter!moveOrCopyT' /\ w = op'.v /\ m <= tmp'.used
    BY <1>10, <2>1, <2>3
  <2>5. \A m \in 1..tmp'.used : heap'[tmp'.arr][m + 1] # "moved"
    BY <2>2, <2>3
  <2> QED BY <2>4, <2>5 DEF Unmoved
<1>18. IterOpSound' /\ PushSound' /\ WalkSound'
  <2>1. op' = op /\ vec' = vec /\ op.pc = "fill"
    BY <1>1
  <2> QED BY <1>0, <2>1 DEF IterOpSound, PushSound, Argued, WalkSound
<1>19. RoomSound'
  <2>1. op' = op /\ vec' = vec /\ op.pc = "fill"
    BY <1>1
  <2>2. Iter!FillCount' = Iter!FillCount
    BY <2>1 DEF Iter!FillCount
  <2>3. i <= Iter!FillCount
    BY <1>3, <1>5
  <2> QED BY <1>4, <1>15, <2>1, <2>2, <2>3 DEF RoomSound
<1> QED BY <1>15, <1>17, <1>18, <1>19 DEF IterSound

LEMMA IterExchange ==
  ASSUME IterSound, Iter!Exchange
  PROVE  IterSound'
<1>0. Memory(1) /\ IterOpSound /\ RoomSound /\ PushSound /\ Unmoved /\ vec \in [Vectors -> Storages]
  BY DEF IterSound, Memory, VecTypeOK
<1>1. /\ op.pc = "fill" /\ tmp.used = Iter!FillCount /\ Iter!Goto("drop") /\ heap' = heap
      /\ vec' = [vec EXCEPT ![op.v] = tmp] /\ tmp' = vec[op.v]
  BY DEF Iter!Exchange, Iter!At
<1>2. op \in Building /\ op.v \in Vectors
  BY <1>0, <1>1, IterOpFacts DEF Building
<1>3. Memory(1)'
  BY <1>0, <1>1, <1>2, TmpExchanged
<1>4. IterOpSound' /\ op'.pc = "drop" /\ op'.name = op.name /\ op'.v = op.v /\ op'.arg = op.arg
  BY <1>1, <1>2, BuildGoto
<1>5. vec'[op.v] = tmp /\ \A w \in Vectors : w # op.v => vec'[w] = vec[w]
  BY <1>0, <1>1, <1>2
<1>6. Unmoved'
  <2>1. ASSUME NEW w \in Vectors, NEW m \in 1..vec'[w].used PROVE heap[vec'[w].arr][m + 1] # "moved"
    <3>1. CASE w = op.v
      BY <1>0, <1>1, <1>5, <3>1 DEF Unmoved
    <3>2. CASE w # op.v
      BY <1>0, <1>5, <3>2 DEF Unmoved
    <3> QED BY <3>1, <3>2
  <2> QED BY <1>1, <1>4, <2>1 DEF Unmoved
<1>7. op.name = "push" => Argued /\ tmp.size = 2 * vec[op.v].used + 1 /\ tmp.used = vec[op.v].used
  BY <1>0, <1>1 DEF PushSound, RoomSound, Iter!FillCount
<1>8. PushSound'
  BY <1>4, <1>5, <1>7 DEF PushSound, Argued, Doubled
<1>9. RoomSound' /\ WalkSound'
  BY <1>4 DEF RoomSound, WalkSound
<1> QED BY <1>3, <1>4, <1>6, <1>8, <1>9 DEF IterSound

\* A storage is destroyed.
LEMMA IterDestroy ==
  ASSUME IterSound, Iter!Destroy, vec' = vec, AllUnmoved
  PROVE  Memory(1)' /\ tmp' = Iter!NoStorage /\ AllUnmoved'
<1>1. /\ heap' = IF tmp.arr = nullptr THEN heap ELSE [heap EXCEPT ![tmp.arr] = << >>]
      /\ tmp' = [arr |-> nullptr, size |-> 0, used |-> 0] /\ tmp' = Iter!NoStorage
  BY DEF Iter!Destroy, Iter!NoStorage, Iter!VectorStorage
<1>2. Memory(1) /\ Sound(Owners, heap, 1)
  BY DEF IterSound, Memory
<1>3. Memory(1)'
  BY <1>1, <1>2, TmpFreed
<1>4. \A w \in Names \ {"tmp"} : \A m \in 1..Owners[w].size :
        heap'[Owners[w].arr][m + 1] = heap[Owners[w].arr][m + 1]
  <2>1. "tmp" \in Names /\ Owners["tmp"] = tmp
    BY OwnersAre
  <2> QED BY <1>1, <1>2, <2>1, SlotsFreed
<1>5. ASSUME NEW v \in Vectors, NEW i \in 1..vec[v].used PROVE heap'[vec[v].arr][i + 1] # "moved"
  <2>1. i \in 1..vec[v].size
    BY <1>2, ElementFacts
  <2>2. v \in Names \ {"tmp"} /\ Owners[v] = vec[v]
    BY OwnersAre
  <2>3. heap'[vec[v].arr][i + 1] = heap[vec[v].arr][i + 1]
    BY <1>4, <2>1, <2>2
  <2>4. heap[vec[v].arr][i + 1] # "moved"
    BY Zenon DEF AllUnmoved
  <2> QED BY <2>3, <2>4
<1> QED BY <1>1, <1>3, <1>5 DEF AllUnmoved

LEMMA IterDrop ==
  ASSUME IterSound, Iter!Drop
  PROVE  IterSound'
<1>0. Memory(1) /\ IterOpSound /\ PushSound
  BY DEF IterSound
<1>1. op.pc = "drop" /\ Iter!Destroy /\ vec' = vec /\ IF op.name = "push" THEN Iter!Goto("here") ELSE op' = Idle
  BY DEF Iter!Drop, Iter!At, Iter!Idle, Idle
<1>2. AllUnmoved
  BY <1>1, IterQuiet
<1>3. Memory(1)' /\ tmp' = Iter!NoStorage /\ AllUnmoved'
  BY <1>1, <1>2, IterDestroy
<1>4. CASE op.name = "push"
  <2>1. op \in Building /\ op.v \in Vectors
    BY <1>0, <1>1, IterOpFacts DEF Building
  <2>2. IterOpSound' /\ op'.pc = "here" /\ op'.v = op.v /\ op'.arg = op.arg
    BY <1>1, <1>4, <2>1, BuildGoto
  <2>3. Argued /\ Doubled
    BY <1>0, <1>1, <1>4 DEF PushSound
  <2>4. vec[op.v].used < vec[op.v].size
    <3>1. vec[op.v].used \in Nat
      BY <1>0, <2>1, MemoryFacts
    <3> QED BY <2>3, <3>1 DEF Doubled
  <2>5. PushSound'
    BY <1>1, <2>2, <2>3, <2>4 DEF PushSound, Argued, Doubled
  <2>6. RoomSound' /\ WalkSound' /\ Unmoved'
    BY <1>3, <2>2 DEF RoomSound, WalkSound, Unmoved, AllUnmoved
  <2> QED BY <1>3, <2>2, <2>5, <2>6 DEF IterSound
<1>5. CASE op.name # "push"
  <2>1. op' = Idle /\ op'.pc = "idle"
    BY <1>1, <1>5 DEF Idle
  <2> QED BY <1>3, <2>1 DEF IterSound, IterOpSound, RoomSound, WalkSound, Unmoved, AllUnmoved, PushSound
<1> QED BY <1>4, <1>5

LEMMA IterThrow ==
  ASSUME IterSound, Iter!Throw
  PROVE  IterSound'
<1>1. /\ op.pc # "fill" \/ ~Iter!moveOrCopyT
      /\ Iter!Destroy /\ vec' = vec /\ op' = Idle /\ op'.pc = "idle"
  BY DEF Iter!Throw, Iter!At, Iter!Idle, Idle
<1>2. AllUnmoved
  BY <1>1 DEF IterSound, Unmoved, AllUnmoved
<1>3. Memory(1)' /\ tmp' = Iter!NoStorage /\ AllUnmoved'
  BY <1>1, <1>2, IterDestroy
<1> QED BY <1>1, <1>3 DEF IterSound, IterOpSound, RoomSound, WalkSound, Unmoved, AllUnmoved, PushSound

LEMMA IterHere ==
  ASSUME IterSound, Iter!Here
  PROVE  IterSound'
<1> DEFINE v == op.v
           x == IF Iter!IsElement(op.arg) THEN heap[op.arg.block][op.arg.place + 1] ELSE op.arg
           j == vec[v].used + 1
<1>0. Memory(1) /\ VecTypeOK /\ IterOpSound /\ RoomSound /\ PushSound /\ Unmoved
  BY DEF IterSound, Memory
<1>1. op.pc = "here" /\ version' = version /\ tmp' = tmp
  BY DEF Iter!Here, Iter!At
<1>2. /\ v \in Vectors /\ tmp = Iter!NoStorage
      /\ vec[v].used < MaxUsed - 1 /\ vec[v].used < vec[v].size
      /\ op.arg \in Values \/ op.arg \in [block : Buffers, place : 1..vec[v].used]
      /\ Doubled \/ op.arg \in Values \/ op.arg.block = vec[v].arr
  BY <1>0, <1>1, IterOpFacts DEF RoomSound, PushSound, Argued
<1>3. vec[v].used \in Nat /\ vec[v].size \in Nat /\ MaxUsed - 1 \in Int
  BY <1>0, <1>2, MemoryFacts, BoundAssumption
<1>4. Iter!IsElement(op.arg) <=> op.arg \notin Values
  <2>1. ASSUME op.arg \in Values PROVE ~Iter!IsElement(op.arg)
    <3>1. 1..(MaxUsed - 1) \subseteq Nat
      BY <1>3
    <3>2. op.arg \notin [block : Buffers, place : Nat]
      BY <2>1, ElementAssumption
    <3> QED BY <3>1, <3>2 DEF Iter!IsElement
  <2>2. ASSUME op.arg \in [block : Buffers, place : 1..vec[v].used] PROVE Iter!IsElement(op.arg)
    <3>1. 1..vec[v].used \subseteq 1..(MaxUsed - 1)
      BY <1>2, <1>3
    <3> QED BY <2>2, <3>1 DEF Iter!IsElement
  <2> QED BY <1>2, <2>1, <2>2
<1>5. CASE Iter!Dangles(op.arg)
  <2>1. op' = [op EXCEPT !.pc = "dangling"] /\ vec' = vec /\ heap' = heap /\ Iter!Goto("dangling")
    BY <1>5 DEF Iter!Here, Iter!Goto
  <2>2. Iter!IsElement(op.arg) /\ Doubled
    BY <1>2, <1>4, <1>5 DEF Iter!Dangles
  <2>3. IterOpSound' /\ op'.pc = "dangling" /\ op'.v = op.v /\ op'.arg = op.arg
    <3>1. CASE op \in Building
      BY <1>0, <1>1, <2>1, <3>1, BuildGoto, IterOpFacts
    <3>2. CASE op \in Inserting
      <4>1. op' \in Inserting /\ op'.pc = "dangling" /\ op'.v = op.v /\ op'.arg = op.arg
        BY <2>1, <3>2 DEF Inserting
      <4> QED BY <4>1 DEF IterOpSound
    <3> QED BY <1>0, <1>1, <3>1, <3>2, IterOpFacts
  <2>4. PushSound'
    BY <2>1, <2>2, <2>3 DEF PushSound, Doubled, Iter!IsElement
  <2>5. RoomSound' /\ WalkSound'
    BY <2>3 DEF RoomSound, WalkSound
  <2>6. Unmoved'
    BY <1>0, <1>1, <2>1, <2>3 DEF Unmoved
  <2>7. Memory(1)'
    BY <1>0, <1>1, <2>1, MemoryKept
  <2> QED BY <2>3, <2>4, <2>5, <2>6, <2>7 DEF IterSound
<1>6. CASE ~Iter!Dangles(op.arg)
  <2>1. /\ op' = Idle /\ op'.pc = "idle" /\ vec' = [vec EXCEPT ![v].used = vec[v].used + 1]
        /\ heap' = [heap EXCEPT ![vec[v].arr][vec[v].used + 2] = x]
    BY <1>6 DEF Iter!Here, Iter!Idle, Idle
  <2>2. AllUnmoved
    BY <1>1, IterQuiet
  <2>3. x \in Slots /\ x # "raw" /\ x # "moved"
    <3>1. CASE op.arg \in Values
      <4>1. x = op.arg
        BY <1>4, <3>1
      <4> QED BY <3>1, <4>1, SlotAssumption DEF Slots
    <3>2. CASE op.arg \notin Values
      <4>1. op.arg.place \in 1..vec[v].used /\ op.arg.block = vec[v].arr
        BY <1>2, <1>4, <1>6, <3>2 DEF Iter!Dangles
      <4>2. x = heap[vec[v].arr][op.arg.place + 1]
        BY <1>4, <3>2, <4>1
      <4>3. heap[vec[v].arr][op.arg.place + 1] # "moved"
        BY <1>2, <2>2, <4>1, Zenon DEF AllUnmoved
      <4> QED BY <1>0, <1>2, <4>1, <4>2, <4>3, ElementFacts
    <3> QED BY <3>1, <3>2
  <2>4. /\ heap' = [heap EXCEPT ![vec[v].arr][vec[v].used + 1 + 1] = x]
        /\ Poked(heap, vec[v].arr, j + 1, x, heap')
    <3>1. vec[v].used + 2 = vec[v].used + 1 + 1
      BY <1>3
    <3> QED BY <2>1, <3>1 DEF Poked
  <2>5. j \in 1..vec[v].size /\ j \in Nat /\ \A m \in 1..j : m = j \/ m \in 1..vec[v].used
    BY <1>2, <1>3
  <2> HIDE DEF x
  <2>6. Memory(1)'
    <3>1. vec' = [vec EXCEPT ![v].used = vec[v].used + 1] /\ tmp' = tmp /\ vec[v].used < vec[v].size
      BY <1>1, <1>2, <2>1
    <3> QED BY <1>0, <1>2, <2>3, <2>4, <3>1, VecGrown
  <2>7. vec'[v].arr = vec[v].arr /\ vec'[v].used = j /\ \A w \in Vectors : w # v => vec'[w] = vec[w]
    <3>1. vec' = [vec EXCEPT ![v].used = j] /\ tmp' = tmp
      BY <1>1, <2>1
    <3> HIDE DEF j, v
    <3> QED BY <1>0, <1>2, <2>5, <3>1, VecRecounted
  <2> HIDE DEF j, v
  <2>8. VecRewritten(1, heap, v, j, x, heap')
    BY <1>0, <1>2, <2>3, <2>4, <2>5, VecPoked
  <2>9. ASSUME NEW w \in Vectors, NEW m \in 1..vec'[w].used PROVE heap'[vec'[w].arr][m + 1] # "moved"
    <3>1. CASE w = v /\ m = j
      <4>1. heap'[vec[v].arr][j + 1] = x
        BY <1>2, <2>5, <2>8, Zenon DEF VecRewritten
      <4> QED BY <2>3, <2>7, <3>1, <4>1
    <3>2. CASE ~(w = v /\ m = j)
      <4>1. m \in 1..vec[w].used /\ vec'[w].arr = vec[w].arr
        BY <2>5, <2>7, <3>2
      <4>2. m \in 1..vec[w].size
        BY <1>0, <4>1, ElementFacts
      <4>3. heap'[vec[w].arr][m + 1] = heap[vec[w].arr][m + 1]
        BY <2>8, <3>2, <4>2, Zenon DEF VecRewritten
      <4>4. heap[vec[w].arr][m + 1] # "moved"
        BY <2>2, <4>1, Zenon DEF AllUnmoved
      <4> QED BY <4>1, <4>3, <4>4
    <3> QED BY <3>1, <3>2
  <2>10. IterOpSound' /\ RoomSound' /\ PushSound' /\ WalkSound' /\ Unmoved'
    <3>1. tmp' = Iter!NoStorage
      BY <1>1, <1>2 DEF Iter!NoStorage, Iter!VectorStorage
    <3> QED BY <2>1, <2>9, <3>1 DEF IterOpSound, RoomSound, WalkSound, Unmoved, PushSound
  <2> QED BY <2>6, <2>10 DEF IterSound
<1> QED BY <1>5, <1>6

\* The elements a loop has seen, one by one.
LEMMA SeenFacts ==
  ASSUME Memory(1), NEW v \in Vectors, NEW back \in BOOLEAN, NEW p \in 0..vec[v].used
  PROVE  LET s == Seen(vec[v], heap, back, p)
             n == IF back THEN vec[v].used - p ELSE p
         IN /\ n \in Nat /\ s \in Seq(Slots) /\ Len(s) = n
            /\ \A k \in 1..n : s[k] = heap[vec[v].arr][(IF back THEN vec[v].used - k + 1 ELSE k) + 1]
<1>1. vec[v].used \in Nat
  BY MemoryFacts
<1>2. CASE back
  <2> DEFINE s == [k \in 1..(vec[v].used - p) |-> heap[vec[v].arr][(vec[v].used - k + 1) + 1]]
             n == vec[v].used - p
  <2>1. n \in Nat
    BY <1>1
  <2>2. ASSUME NEW k \in 1..n PROVE heap[vec[v].arr][(vec[v].used - k + 1) + 1] \in Slots
    <3> DEFINE m == vec[v].used - k + 1
    <3>1. m \in 1..vec[v].used
      BY <1>1
    <3> HIDE DEF m
    <3>2. heap[vec[v].arr][m + 1] \in Slots
      BY <3>1, ElementFacts
    <3> QED BY <3>2 DEF m
  <2>3. s \in [1..n -> Slots]
    BY <2>2
  <2>4. s \in Seq(Slots) /\ Len(s) = n
    BY <2>1, <2>3
  <2>5. \A k \in 1..n : s[k] = heap[vec[v].arr][(vec[v].used - k + 1) + 1]
    OBVIOUS
  <2>6. Seen(vec[v], heap, back, p) = s
    BY <1>2 DEF Seen
  <2> HIDE DEF s
  <2> QED BY <1>2, <2>1, <2>4, <2>5, <2>6
<1>3. CASE ~back
  <2> DEFINE s == [k \in 1..p |-> heap[vec[v].arr][k + 1]]
  <2>1. ASSUME NEW k \in 1..p PROVE heap[vec[v].arr][k + 1] \in Slots
    <3>1. k \in 1..vec[v].used
      BY <1>1
    <3> QED BY <3>1, ElementFacts
  <2>2. s \in [1..p -> Slots]
    BY <2>1
  <2>3. s \in Seq(Slots) /\ Len(s) = p /\ p \in Nat
    BY <1>1, <2>2
  <2>4. \A k \in 1..p : s[k] = heap[vec[v].arr][k + 1]
    OBVIOUS
  <2>5. Seen(vec[v], heap, back, p) = s
    BY <1>3 DEF Seen
  <2> HIDE DEF s
  <2> QED BY <1>3, <2>3, <2>4, <2>5
<1> QED BY <1>2, <1>3

LEMMA IterIterate ==
  ASSUME IterSound, Iter!Iterate
  PROVE  IterSound'
<1>0. Memory(1) /\ IterOpSound /\ RoomSound /\ WalkSound /\ Unmoved
  BY DEF IterSound
<1> DEFINE v == op.v
           p == op.ptr
           at == IF op.back THEN p - 1 ELSE p
           q == IF op.back THEN at ELSE at + 1
           e == heap[vec[v].arr][(at + 1) + 1]
<1>1. /\ op.pc = "walk" /\ p # (IF op.back THEN 0 ELSE vec[v].used) /\ UNCHANGED <<vec, heap, tmp>>
      /\ op' = [op EXCEPT !.ptr = q, !.seen = Append(op.seen, e)]
  BY DEF Iter!Iterate, Iter!At, Iter!Slot
<1>2. /\ op \in Walking /\ v \in Vectors /\ op.back \in BOOLEAN /\ op.seen \in Seq(Slots) /\ p \in Nat
      /\ p <= vec[v].used /\ op.seen = Seen(vec[v], heap, op.back, p)
  BY <1>0, <1>1, IterOpFacts DEF Walking, WalkSound
<1>3. vec[v].used \in Nat /\ p \in 0..vec[v].used
  BY <1>0, <1>2, MemoryFacts
<1>4. q \in 0..vec[v].used /\ at + 1 \in 1..vec[v].used /\ q \in Nat
  BY <1>1, <1>2, <1>3
<1>5. e \in Slots
  <2> DEFINE m == at + 1
  <2>1. m \in 1..vec[v].used
    BY <1>4
  <2> HIDE DEF m
  <2>2. heap[vec[v].arr][m + 1] \in Slots
    BY <1>0, <1>2, <2>1, ElementFacts
  <2> QED BY <2>2 DEF m
<1> DEFINE s == Seen(vec[v], heap, op.back, p)
           t == Append(s, e)
           r == Seen(vec[v], heap, op.back, q)
           n == IF op.back THEN vec[v].used - p ELSE p
           k1 == IF op.back THEN vec[v].used - q ELSE q
<1>6. /\ n \in Nat /\ s \in Seq(Slots) /\ Len(s) = n
      /\ \A k \in 1..n : s[k] = heap[vec[v].arr][(IF op.back THEN vec[v].used - k + 1 ELSE k) + 1]
  BY <1>0, <1>2, <1>3, SeenFacts
<1>7. /\ r \in Seq(Slots) /\ Len(r) = k1
      /\ \A k \in 1..k1 : r[k] = heap[vec[v].arr][(IF op.back THEN vec[v].used - k + 1 ELSE k) + 1]
  BY <1>0, <1>2, <1>4, SeenFacts
<1>8. /\ k1 = n + 1 /\ (IF op.back THEN vec[v].used - (n + 1) + 1 ELSE n + 1) = at + 1
      /\ \A k \in 1..(n + 1) : k = n + 1 \/ k \in 1..n
  BY <1>2, <1>3, <1>6
<1>9. /\ t \in Seq(Slots) /\ Len(t) = n + 1 /\ t[n + 1] = e
      /\ \A k \in 1..n : t[k] = s[k]
  BY <1>5, <1>6, AppendProperties
<1>10. t = r
  <2>1. r[n + 1] = e
    <3>1. n + 1 \in 1..k1
      BY <1>6, <1>8
    <3>2. r[n + 1] = heap[vec[v].arr][(IF op.back THEN vec[v].used - (n + 1) + 1 ELSE n + 1) + 1]
      BY <1>7, <3>1
    <3> QED BY <1>8, <3>2
  <2>2. ASSUME NEW k \in 1..n PROVE r[k] = s[k]
    <3>1. k \in 1..k1
      BY <1>6, <1>8
    <3> QED BY <1>6, <1>7, <3>1, Zenon
  <2>3. Len(t) = Len(r)
    BY <1>7, <1>8, <1>9
  <2>4. ASSUME NEW k \in 1..Len(t) PROVE t[k] = r[k]
    <3>1. k = n + 1 \/ k \in 1..n
      BY <1>8, <1>9
    <3> QED BY <1>9, <2>1, <2>2, <3>1
  <2> HIDE DEF t, r
  <2> QED BY <1>7, <1>9, <2>3, <2>4, SeqEqual
<1>11. /\ op' \in Walking /\ op'.pc = "walk" /\ op'.v = v /\ op'.back = op.back /\ op'.ptr = q /\ op'.seen = t
  <2>1. t \in Seq(Slots) /\ q \in Nat /\ op' = [op EXCEPT !.ptr = q, !.seen = t]
    BY <1>1, <1>2, <1>4, <1>9
  <2> HIDE DEF t, q
  <2> QED BY <1>1, <1>2, <2>1 DEF Walking
<1>12. WalkSound'
  <2>1. q <= vec[v].used
    BY <1>3, <1>4
  <2> HIDE DEF q, t
  <2> QED BY <1>1, <1>10, <1>11, <2>1 DEF WalkSound
<1> HIDE DEF t, q
<1>13. Memory(1)'
  BY <1>0, <1>1, MemoryKept
<1>14. IterOpSound' /\ PushSound'
  BY <1>11 DEF IterOpSound, PushSound
<1>15. RoomSound' /\ Unmoved'
  <2>1. UNCHANGED <<vec, heap, tmp>> /\ op.pc = "walk" /\ op'.pc = "walk"
    BY <1>1, <1>11
  <2> QED BY <1>0, <2>1 DEF RoomSound, Unmoved, Iter!NoStorage, Iter!VectorStorage
<1> QED BY <1>12, <1>13, <1>14, <1>15 DEF IterSound

LEMMA IterEnds ==
  ASSUME IterSound, Iter!IterateEnds
  PROVE  IterSound'
<1>1. op.pc = "walk" /\ UNCHANGED <<vec, heap, tmp>> /\ op' = Idle /\ op'.pc = "idle"
  BY DEF Iter!IterateEnds, Iter!At, Iter!Idle, Idle
<1>2. Memory(1)'
  BY <1>1, MemoryKept DEF IterSound
<1>3. RoomSound' /\ Unmoved'
  BY <1>1 DEF IterSound, RoomSound, Unmoved, Iter!NoStorage, Iter!VectorStorage
<1> QED BY <1>1, <1>2, <1>3 DEF IterSound, IterOpSound, WalkSound, PushSound

LEMMA IterStep ==
  ASSUME IterSound, Iter!Next
  PROVE  IterSound'
<1>1. CASE Iter!Step
  BY <1>1, IterAllocate, IterFill, IterExchange, IterDrop, IterHere, IterIterate, IterEnds, IterThrow
     DEF Iter!Step
<1>2. ASSUME NEW v \in Vectors, NEW i \in 1..vec[v].used, Iter!push(v, Iter!Element(vec[v].arr, i))
      PROVE  IterSound'
  <2> DEFINE a == Iter!Element(vec[v].arr, i)
  <2>1. vec[v].arr \in Buffers
    BY ElementFacts DEF IterSound
  <2>2. a \in [block : Buffers, place : 1..vec[v].used] /\ a.block = vec[v].arr
    BY <2>1 DEF Iter!Element
  <2>3. Iter!push(v, a)
    BY <1>2
  <2> HIDE DEF a
  <2> QED BY <2>2, <2>3, IterPush
<1>3. ASSUME NEW v \in Vectors, NEW x \in Values, Iter!push(v, x) PROVE IterSound'
  BY <1>3, IterPush
<1> QED BY <1>1, <1>2, <1>3, IterConstruct, IterAssign, IterMove, IterPop, IterWalk DEF Iter!Next

\* The property of IterVector.
LEMMA IterOwned ==
  ASSUME IterSound
  PROVE  Iter!StorageOwned
<1>0. Memory(1) /\ Sound(Owners, heap, 1) /\ IterOpSound /\ PushSound /\ WalkSound
  BY DEF IterSound, Memory
<1>1. Iter!Owners = Owners /\ DOMAIN Owners = Names
  BY DEF Iter!Owners, Owners, Names
<1>2. ASSUME NEW b \in Iter!Allocated PROVE Cardinality({v \in Names : Owners[v].arr = b}) = 1
  BY <1>0, OneOwner DEF Iter!Allocated, Sound
<1>3. ASSUME NEW n \in Names
      PROVE  IF Owners[n].arr = nullptr THEN Owners[n] = Iter!NoStorage
             ELSE /\ Owners[n].arr \in Iter!Allocated /\ Len(heap[Owners[n].arr]) = Owners[n].size + 1
                  /\ \A i \in 1..Owners[n].size :
                       heap[Owners[n].arr][i + 1] = "raw" <=> i > Owners[n].used
  <2>1. /\ Owners[n] \in Storages /\ Filled(Owners[n], heap, 1) /\ Owners[n].size \in Nat
        /\ Owners[n].used \in Nat /\ Owners[n].used <= Owners[n].size
        /\ Owners[n].arr \in Buffers \cup {nullptr}
    BY <1>0, OwnerFacts
  <2>2. CASE Owners[n].arr = nullptr
    <3>1. Owners[n].size = 0
      BY <2>1, <2>2, Zenon DEF Filled
    <3>2. Owners[n].used = 0
      BY <2>1, <3>1
    <3> QED BY <2>1, <2>2, <3>1, <3>2 DEF Storages, Iter!NoStorage, Iter!VectorStorage
  <2>3. CASE Owners[n].arr # nullptr
    <3>1. /\ heap[Owners[n].arr] # << >> /\ Len(heap[Owners[n].arr]) = Owners[n].size + 1
          /\ \A i \in 1..Owners[n].size : heap[Owners[n].arr][i + 1] = "raw" <=> i > Owners[n].used
      BY <2>1, <2>3, Zenon DEF Filled
    <3>2. Owners[n].arr \in Iter!Allocated
      BY <2>1, <2>3, <3>1 DEF Iter!Allocated
    <3> QED BY <2>3, <3>1, <3>2, Zenon
  <2> QED BY <2>2, <2>3
<1>4. ASSUME op.pc = "walk"
      PROVE  op.seen = IF op.back
                       THEN Iter!Reverse(SubSeq(Iter!Contents[op.v], op.ptr + 1, Len(Iter!Contents[op.v])))
                       ELSE SubSeq(Iter!Contents[op.v], 1, op.ptr)
  <2> DEFINE v == op.v
             u == vec[v].used
             p == op.ptr
             c == [i \in 1..u |-> heap[vec[v].arr][i + 1]]
  <2>1. /\ op \in Walking /\ v \in Vectors /\ op.back \in BOOLEAN /\ p \in Nat
        /\ p <= vec[v].used /\ op.seen = Seen(vec[v], heap, op.back, p)
    BY <1>0, <1>4, IterOpFacts DEF Walking, WalkSound
  <2>2. u \in Nat /\ p \in 0..u
    BY <1>0, <2>1, MemoryFacts
  <2>3. Iter!Contents[v] = c
    <3>1. AllUnmoved
      BY <1>4, IterQuiet
    <3>2. \A i \in 1..u : heap[vec[v].arr][i + 1] # "moved"
      BY <2>1, <3>1, Zenon DEF AllUnmoved
    <3> QED BY <2>1, <3>2 DEF Iter!Contents, Iter!Slot
  <2>4. /\ c \in Seq(Slots) /\ Len(c) = u /\ \A i \in 1..u : c[i] = heap[vec[v].arr][i + 1] /\ c[i] \in Slots
    <3>1. ASSUME NEW i \in 1..u PROVE heap[vec[v].arr][i + 1] \in Slots
      BY <1>0, <2>1, ElementFacts
    <3>2. c \in [1..u -> Slots]
      BY <3>1
    <3> QED BY <2>2, <3>1, <3>2
  <2> DEFINE s == Seen(vec[v], heap, op.back, p)
             n == IF op.back THEN u - p ELSE p
  <2>5. /\ n \in Nat /\ s \in Seq(Slots) /\ Len(s) = n
        /\ \A k \in 1..n : s[k] = heap[vec[v].arr][(IF op.back THEN u - k + 1 ELSE k) + 1]
    BY <1>0, <2>1, <2>2, SeenFacts
  <2> HIDE DEF c, s
  <2>6. CASE op.back
    <3> DEFINE d == SubSeq(c, p + 1, u)
               r == Iter!Reverse(d)
    <3>1. p + 1 \in Int /\ u \in Int /\ n = u - p /\ u - (p + 1) + 1 = n /\ n \in Nat
      BY <2>2, <2>6
    <3>2. \A i \in (p + 1)..u : c[i] \in Slots
      BY <2>2, <2>4
    <3>3. d \in Seq(Slots) /\ Len(d) = n /\ \A i \in 1..n : d[i] = c[(p + 1) + i - 1]
      <4>1. /\ d \in Seq(Slots)
            /\ Len(d) = IF p + 1 <= u THEN u - (p + 1) + 1 ELSE 0
            /\ \A i \in 1..(u - (p + 1) + 1) : d[i] = c[(p + 1) + i - 1]
        BY <3>1, <3>2, SubSeqProperties
      <4>2. p + 1 <= u \/ n = 0
        BY <2>2, <3>1
      <4> QED BY <3>1, <4>1, <4>2
    <3> HIDE DEF d
    <3>4. r = [i \in 1..n |-> d[(n - i) + 1]]
      BY <3>3 DEF Iter!Reverse
    <3>5. \A i \in 1..n : (n - i) + 1 \in 1..n
      BY <3>1
    <3>6. r \in Seq(Slots) /\ Len(r) = n /\ \A i \in 1..n : r[i] = d[(n - i) + 1]
      <4> HIDE DEF r, n
      <4>4. ASSUME NEW i \in 1..n PROVE d[(n - i) + 1] \in Slots
        <5>1. (n - i) + 1 \in 1..Len(d)
          BY <3>3, <3>5
        <5> QED BY <3>3, <5>1, ElementOfSeq
      <4>1. r \in [1..n -> Slots]
        BY <3>4, <4>4
      <4>2. \A i \in 1..n : r[i] = d[(n - i) + 1]
        BY <3>4
      <4>3. r \in Seq(Slots) /\ Len(r) = n
        BY <3>1, <4>1
      <4> QED BY <4>2, <4>3
    <3> HIDE DEF r
    <3>7. ASSUME NEW k \in 1..n PROVE s[k] = r[k]
      <4> DEFINE m == u - k + 1
      <4>1. m \in 1..u /\ (p + 1) + ((n - k) + 1) - 1 = m
        BY <2>2, <3>1
      <4>2. r[k] = c[(p + 1) + ((n - k) + 1) - 1]
        BY <3>3, <3>5, <3>6
      <4>3. s[k] = heap[vec[v].arr][m + 1]
        BY <2>5, <2>6
      <4> HIDE DEF m
      <4>4. c[m] = heap[vec[v].arr][m + 1]
        BY <2>4, <4>1
      <4> QED BY <4>1, <4>2, <4>3, <4>4
    <3>8. s = r
      BY <2>5, <3>6, <3>7, SeqEqual
    <3> QED BY <2>1, <2>3, <2>4, <2>6, <3>8 DEF d, r, s
  <2>7. CASE ~op.back
    <3> DEFINE d == SubSeq(c, 1, p)
    <3>1. p \in Int /\ 1 \in Int /\ n = p /\ p - 1 + 1 = p
      BY <2>2, <2>7
    <3>2. \A i \in 1..p : c[i] \in Slots /\ 1 + i - 1 = i
      BY <2>2, <2>4
    <3>3. d \in Seq(Slots) /\ Len(d) = n /\ \A i \in 1..n : d[i] = c[i]
      <4>1. /\ d \in Seq(Slots)
            /\ Len(d) = IF 1 <= p THEN p - 1 + 1 ELSE 0
            /\ \A i \in 1..(p - 1 + 1) : d[i] = c[1 + i - 1]
        BY <3>1, <3>2, SubSeqProperties
      <4> QED BY <2>2, <3>1, <3>2, <4>1
    <3> HIDE DEF d
    <3>4. ASSUME NEW k \in 1..n PROVE s[k] = d[k]
      <4>1. k \in 1..u
        BY <2>2, <3>1
      <4> QED BY <2>4, <2>5, <2>7, <3>3, <4>1
    <3>5. s = d
      BY <2>5, <3>3, <3>4, SeqEqual
    <3> QED BY <2>1, <2>3, <2>7, <3>5 DEF d, s
  <2> QED BY <2>6, <2>7
<1>5. op.pc = "dangling" => Iter!IsElement(op.arg) /\ vec[op.v].size = 2 * vec[op.v].used + 1
  BY <1>0 DEF PushSound, Doubled
<1>6. \A b \in Iter!Allocated : Cardinality({v \in DOMAIN Iter!Owners : Iter!Owners[v].arr = b}) = 1
  BY <1>1, <1>2
<1>7. \A n \in DOMAIN Iter!Owners :
        IF Iter!Owners[n].arr = nullptr THEN Iter!Owners[n] = Iter!NoStorage
        ELSE /\ Iter!Owners[n].arr \in Iter!Allocated
             /\ Len(heap[Iter!Owners[n].arr]) = Iter!Owners[n].size + 1
             /\ \A i \in 1..Iter!Owners[n].size :
                  Iter!Slot(Iter!Owners[n], i) = "raw" <=> i > Iter!Owners[n].used
  BY <1>1, <1>3 DEF Iter!Slot
<1> QED BY <1>4, <1>5, <1>6, <1>7, Zenon DEF Iter!StorageOwned, Iter!At, Iter!Cardinality, Cardinality

-----------------------------------------------------------------------------
(* Versions 1 and 2.                                                       *)

\* The array that each vector, or the operation under way, has to delete.
Hold == [n \in Names |-> IF n \notin Vectors THEN tmp.arr
                         ELSE IF Arrays!Bereft(n) THEN nullptr ELSE vec[n].arr]

\* Holders H of the arrays in h.
Held(H, h) ==
  /\ H \in [Names -> Buffers \cup {nullptr}]
  /\ \A m, n \in Names : H[m] = H[n] /\ H[m] # nullptr => m = n
  /\ \A b \in Buffers : h[b] # << >> <=> \E n \in Names : H[n] = b

\* Elements, what new[] keeps before an array, and what it fills it with.
Cells == Values \cup {"count", "default"}

\* A vector uses no more than its array has; that of version 1 knows how much that is.
Fits(o, h) == /\ o.used <= o.size /\ o.used <= Len(h[o.arr]) - 1
              /\ version = 1 => o.size = Len(h[o.arr]) - 1

ArrTypeOK == /\ version \in {1, 2} /\ vec \in [Vectors -> Storages] /\ tmp \in Storages
             /\ heap \in [Buffers -> Seq(Cells)]

\* The operation under way.
Shaped == op = [pc |-> op.pc, name |-> op.name, v |-> op.v, from |-> op.from, t |-> op.t, old |-> op.old]
ArrOpSound ==
  \/ op = Idle
  \/ /\ Shaped /\ op.pc \in {"alloc", "fill", "store", "overrun"} /\ op.t \in Cells
     /\ op.v \in Vectors /\ op.from \in Vectors /\ op.name \in {"push", "construct", "assign"}

\* Where it is.
ArrPhases ==
  /\ op.pc \in {"idle", "alloc", "store"} => tmp = NoVector
  /\ op.pc \in {"alloc", "fill"} =>
       /\ op.name = "push" => op.from = op.v /\ vec[op.v].used = vec[op.v].size
       /\ op.name = "construct" => vec[op.v].arr = nullptr
       /\ op.name = "assign" => /\ version = 1 /\ op.v # op.from /\ vec[op.v].size = vec[op.from].size
                                /\ vec[op.v].used = vec[op.from].used
  /\ op.pc = "fill" => /\ tmp.arr # nullptr /\ Len(heap[tmp.arr]) = Arrays!NewSize + 1
                       /\ tmp.used <= Arrays!CopyCount
  /\ op.pc = "store" => /\ op.name = "push" /\ vec[op.v].arr # nullptr
                        /\ vec[op.v].used < vec[op.v].size
  /\ op.pc = "overrun" => /\ op.name = "push" /\ version = 2
                          /\ vec[op.v].size > Len(heap[vec[op.v].arr]) - 1

\* A vector without an array is empty, unless an assignment just took its array.
Bare == \A v \in Vectors : vec[v].arr = nullptr /\ ~Arrays!Bereft(v) => vec[v] = NoVector

\* The inductive invariant of versions 1 and 2, up to an exception of version 1.
ArrInvariant == /\ ArrTypeOK /\ ArrOpSound /\ ArrPhases /\ Held(Hold, heap) /\ Bare
                /\ \A v \in Vectors : Hold[v] # nullptr => Fits(vec[v], heap)
ArraysSound == op.pc = "thrown" \/ ArrInvariant

\* delete[], which takes nullptr as well.
Freed(h, a) == IF a = nullptr THEN h ELSE [h EXCEPT ![a] = << >>]

\* Holders that change their arrays.
LEMMA HeldExchanged ==
  ASSUME NEW H, NEW h, Held(H, h), NEW u \in Names, NEW v \in Names, NEW G,
         G = [n \in Names |-> IF n = u THEN H[v] ELSE IF n = v THEN H[u] ELSE H[n]]
  PROVE  Held(G, h)
<1>1. G \in [Names -> Buffers \cup {nullptr}]
  BY DEF Held
<1>2. \A m, n \in Names : G[m] = G[n] /\ G[m] # nullptr => m = n
  BY DEF Held
<1>3. ASSUME NEW b \in Buffers PROVE h[b] # << >> <=> \E n \in Names : G[n] = b
  <2>1. ASSUME NEW n \in Names, G[n] = b PROVE \E m \in Names : H[m] = b
    BY <2>1
  <2>2. ASSUME NEW n \in Names, H[n] = b PROVE \E m \in Names : G[m] = b
    <3>1. CASE n = v
      <4>1. G[u] = b
        BY <2>2, <3>1
      <4> QED BY <4>1
    <3>2. CASE n # v /\ n = u
      <4>1. G[v] = b
        BY <2>2, <3>2
      <4> QED BY <4>1
    <3>3. CASE n # v /\ n # u
      <4>1. G[n] = b
        BY <2>2, <3>3
      <4> QED BY <4>1
    <3> QED BY <3>1, <3>2, <3>3
  <2> QED BY <2>1, <2>2 DEF Held
<1> QED BY <1>1, <1>2, <1>3 DEF Held

LEMMA HeldFreed ==
  ASSUME NEW H, NEW h \in [Buffers -> Seq(Cells)], Held(H, h), NEW u \in Names, NEW G, NEW g,
         G = [n \in Names |-> IF n = u THEN nullptr ELSE H[n]],
         g = IF H[u] = nullptr THEN h ELSE [h EXCEPT ![H[u]] = << >>]
  PROVE  Held(G, g)
<1>1. G \in [Names -> Buffers \cup {nullptr}]
  BY DEF Held
<1>2. \A m, n \in Names : G[m] = G[n] /\ G[m] # nullptr => m = n
  BY DEF Held
<1>3. ASSUME NEW b \in Buffers PROVE g[b] # << >> <=> \E n \in Names : G[n] = b
  <2>1. b # nullptr /\ (h[b] # << >> <=> \E n \in Names : H[n] = b)
    BY NullAssumption DEF Held
  <2>2. CASE b = H[u]
    <3>1. g[b] = << >>
      BY <2>1, <2>2
    <3>2. \A n \in Names : G[n] # b
      BY <2>1, <2>2 DEF Held
    <3> QED BY <3>1, <3>2
  <2>3. CASE b # H[u]
    <3>1. g[b] = h[b]
      BY <2>3
    <3>2. \A n \in Names : G[n] = b <=> H[n] = b
      BY <2>1, <2>3
    <3> QED BY <2>1, <3>1, <3>2
  <2> QED BY <2>2, <2>3
<1> QED BY <1>1, <1>2, <1>3 DEF Held

LEMMA HeldAllocated ==
  ASSUME NEW H, NEW h \in [Buffers -> Seq(Cells)], Held(H, h), NEW u \in Names, H[u] = nullptr,
         NEW b \in Buffers, h[b] = << >>, NEW s, s # << >>, NEW G, NEW g,
         G = [n \in Names |-> IF n = u THEN b ELSE H[n]], g = [h EXCEPT ![b] = s]
  PROVE  Held(G, g)
<1>1. G \in [Names -> Buffers \cup {nullptr}]
  BY DEF Held
<1>2. \A n \in Names : H[n] # b
  BY DEF Held
<1>3. \A m, n \in Names : G[m] = G[n] /\ G[m] # nullptr => m = n
  BY <1>2 DEF Held
<1>4. ASSUME NEW c \in Buffers PROVE g[c] # << >> <=> \E n \in Names : G[n] = c
  <2>1. CASE c = b
    BY <2>1
  <2>2. CASE c # b
    <3>1. g[c] = h[c] /\ c # nullptr
      BY <2>2, NullAssumption
    <3>2. \A n \in Names : G[n] = c <=> H[n] = c
      BY <2>2, <3>1
    <3> QED BY <3>1, <3>2 DEF Held
  <2> QED BY <2>1, <2>2
<1> QED BY <1>1, <1>3, <1>4 DEF Held

\* One cell of an array is written.
LEMMA CellWritten ==
  ASSUME NEW h \in [Buffers -> Seq(Cells)], NEW a \in Buffers, NEW j \in 1..Len(h[a]), NEW x \in Cells,
         NEW g, g = [h EXCEPT ![a][j] = x]
  PROVE  /\ g \in [Buffers -> Seq(Cells)]
         /\ \A b \in Buffers : Len(g[b]) = Len(h[b]) /\ (g[b] # << >> <=> h[b] # << >>)
<1> DEFINE s == [h[a] EXCEPT ![j] = x]
<1>1. s \in Seq(Cells) /\ Len(s) = Len(h[a])
  BY ExceptSeq
<1>2. g \in [Buffers -> Seq(Cells)] /\ g[a] = s /\ \A b \in Buffers : b # a => g[b] = h[b]
  BY <1>1
<1>3. s # << >> /\ h[a] # << >>
  BY <1>1, EmptySeq
<1> HIDE DEF s
<1> QED BY <1>1, <1>2, <1>3

LEMMA HeldWritten ==
  ASSUME NEW H, NEW h, Held(H, h), NEW g, \A b \in Buffers : g[b] # << >> <=> h[b] # << >>
  PROVE  Held(H, g)
BY DEF Held

\* new T[n]
LEMMA NewArrayFacts ==
  ASSUME NEW n \in Nat
  PROVE  Arrays!NewArray(n) \in Seq(Cells) /\ Len(Arrays!NewArray(n)) = n + 1 /\ Arrays!NewArray(n) # << >>
<1> DEFINE r == [i \in 1..n |-> "default"]
           s == <<"count">> \o r
<1>1. <<"count">> \in Seq(Cells) /\ Len(<<"count">>) = 1
  BY DEF Cells
<1>2. r \in Seq(Cells) /\ Len(r) = n
  BY DEF Cells
<1> HIDE DEF r
<1>3. s \in Seq(Cells) /\ Len(s) = n + 1
  BY <1>1, <1>2, ConcatProperties
<1>4. s # << >>
  BY <1>3, EmptySeq
<1> QED BY <1>3, <1>4 DEF Arrays!NewArray, r

LEMMA HoldIs ==
  /\ Hold \in [Names -> {Hold[n] : n \in Names}] /\ "tmp" \in Names /\ Hold["tmp"] = tmp.arr
  /\ \A v \in Vectors : v \in Names /\ v # "tmp" /\ Hold[v] = IF Arrays!Bereft(v) THEN nullptr ELSE vec[v].arr
BY TmpAssumption DEF Hold, Names

LEMMA NextHold ==
  Hold' = [n \in Names |-> IF n \notin Vectors THEN tmp'.arr
                           ELSE IF Arrays!Bereft(n)' THEN nullptr ELSE vec'[n].arr]
BY DEF Hold

LEMMA ArrGoto ==
  ASSUME Shaped, NEW label, op' = [op EXCEPT !.pc = label]
  PROVE  /\ Shaped' /\ op'.pc = label /\ op'.name = op.name /\ op'.v = op.v /\ op'.from = op.from
         /\ op'.t = op.t
<1>1. PICK p, n, v, w, x, o : op = [pc |-> p, name |-> n, v |-> v, from |-> w, t |-> x, old |-> o]
  BY DEF Shaped
<1>2. op' = [pc |-> label, name |-> n, v |-> v, from |-> w, t |-> x, old |-> o]
  BY <1>1
<1> QED BY <1>1, <1>2 DEF Shaped

\* No operation other than an assignment of version 1 takes an array away.
LEMMA NotBereft ==
  ASSUME op.pc \notin {"alloc", "fill"} \/ op.name # "assign"
  PROVE  \A v \in Vectors : ~Arrays!Bereft(v)
BY DEF Arrays!Bereft

\* What the invariant says of one vector.
LEMMA ArrFacts ==
  ASSUME ArrInvariant, NEW v \in Vectors
  PROVE  /\ v \in Names /\ v # "tmp" /\ vec[v] \in Storages /\ vec[v].arr \in Buffers \cup {nullptr}
         /\ vec[v].size \in Nat /\ vec[v].used \in Nat
         /\ Hold[v] = nullptr \/ (Hold[v] = vec[v].arr /\ Hold[v] \in Buffers)
         /\ ~Arrays!Bereft(v) => Hold[v] = vec[v].arr
         /\ ~Arrays!Bereft(v) /\ vec[v].arr = nullptr => vec[v] = NoVector /\ vec[v].size = 0 /\ vec[v].used = 0
         /\ ~Arrays!Bereft(v) => vec[v].used <= vec[v].size
         /\ Hold[v] # nullptr =>
              /\ vec[v].used <= vec[v].size /\ vec[v].used <= Len(heap[vec[v].arr]) - 1
              /\ version = 1 => vec[v].size = Len(heap[vec[v].arr]) - 1
<1>1. vec[v] \in Storages
  BY DEF ArrInvariant, ArrTypeOK
<1>2. vec[v].arr \in Buffers \cup {nullptr} /\ vec[v].size \in Nat /\ vec[v].used \in Nat
  BY <1>1 DEF Storages
<1>3. v \in Names /\ v # "tmp" /\ Hold[v] = IF Arrays!Bereft(v) THEN nullptr ELSE vec[v].arr
  BY HoldIs
<1>4. Hold[v] # nullptr => Fits(vec[v], heap)
  BY DEF ArrInvariant
<1>5. ~Arrays!Bereft(v) /\ vec[v].arr = nullptr => vec[v] = NoVector /\ vec[v].size = 0 /\ vec[v].used = 0
  BY DEF ArrInvariant, Bare, NoVector, Vector
<1> QED BY <1>1, <1>2, <1>3, <1>4, <1>5 DEF Fits

\* Arrays that a step leaves with their holders and as long as they are.
LEMMA FitsKept ==
  ASSUME ArrInvariant, version' = version, NEW v \in Vectors, vec'[v] = vec[v], Hold[v] # nullptr,
         Len(heap'[Hold[v]]) = Len(heap[Hold[v]])
  PROVE  Fits(vec[v], heap)'
<1>1. vec[v].arr = Hold[v] /\ Fits(vec[v], heap)
  BY ArrFacts DEF ArrInvariant
<1> QED BY <1>1 DEF Fits

LEMMA InitArrays == Arrays!Init => ArraysSound
<1> SUFFICES ASSUME Arrays!Init PROVE ArrInvariant
  BY DEF ArraysSound
<1>1. PICK u \in Vectors, b \in Buffers, sz \in {0, 1} :
        /\ vec = [v \in Vectors |-> IF v = u THEN Arrays!Vector(b, sz, 0) ELSE Arrays!NoVector]
        /\ heap = [a \in Buffers |-> IF a = b THEN Arrays!NewArray(sz) ELSE << >>]
  BY DEF Arrays!Init
<1>2. op = [pc |-> "idle"] /\ op.pc = "idle" /\ tmp = NoVector /\ version \in {1, 2} /\ sz \in Nat /\ b # nullptr
  BY NullAssumption DEF Arrays!Init, Arrays!Idle, Arrays!NoVector, Arrays!Vector, NoVector, Vector
<1>3. /\ heap \in [Buffers -> Seq(Cells)] /\ heap[b] # << >> /\ Len(heap[b]) = sz + 1
      /\ \A c \in Buffers : c # b => heap[c] = << >>
  <2>1. << >> \in Seq(Cells)
    OBVIOUS
  <2> DEFINE s == Arrays!NewArray(sz)
  <2>2. s \in Seq(Cells) /\ Len(s) = sz + 1 /\ s # << >>
    BY <1>2, NewArrayFacts
  <2>3. heap = [a \in Buffers |-> IF a = b THEN s ELSE << >>]
    BY <1>1
  <2> HIDE DEF s
  <2> QED BY <2>1, <2>2, <2>3
<1>4. /\ vec \in [Vectors -> Storages] /\ tmp \in Storages /\ tmp.arr = nullptr
      /\ vec[u].arr = b /\ vec[u].size = sz /\ vec[u].used = 0
      /\ \A v \in Vectors : v # u => vec[v].arr = nullptr
  BY <1>1, <1>2 DEF Storages, Arrays!Vector, Arrays!NoVector, NoVector, Vector
<1>5. /\ u \in Names /\ \A n \in Names : Hold[n] = IF n = u THEN b ELSE nullptr
  BY <1>2, <1>4, NotBereft, TmpAssumption DEF Hold, Names
<1>6. Held(Hold, heap)
  <2>1. Hold \in [Names -> Buffers \cup {nullptr}]
    BY <1>5 DEF Hold
  <2> QED BY <1>3, <1>5, <2>1, NullAssumption DEF Held
<1>7. ArrTypeOK /\ ArrOpSound
  BY <1>2, <1>3, <1>4 DEF ArrTypeOK, ArrOpSound, Idle
<1>8. ArrPhases
  BY <1>2 DEF ArrPhases
<1>9. \A v \in Vectors : Hold[v] # nullptr => Fits(vec[v], heap)
  <2>1. Fits(vec[u], heap)
    BY <1>2, <1>3, <1>4 DEF Fits
  <2>2. \A v \in Vectors : v \in Names
    BY DEF Names
  <2> QED BY <1>5, <2>1, <2>2
<1>10. Bare
  BY <1>1, <1>2, <1>4 DEF Bare, Arrays!NoVector, Arrays!Vector, NoVector, Vector
<1> QED BY <1>6, <1>7, <1>8, <1>9, <1>10 DEF ArrInvariant

\* Steps that change neither arrays nor their holders.
LEMMA ArrKept ==
  ASSUME ArrInvariant, UNCHANGED <<version, vec, heap, tmp>>,
         \A v \in Vectors : Arrays!Bereft(v)' <=> Arrays!Bereft(v)
  PROVE  /\ ArrTypeOK' /\ Held(Hold, heap)' /\ Bare'
         /\ \A v \in Vectors : Hold'[v] # nullptr => Fits(vec[v], heap)'
<1>1. Hold' = Hold
  BY NextHold DEF Hold
<1>2. \A v \in Vectors : Hold[v] # nullptr => Fits(vec[v], heap)'
  BY DEF ArrInvariant, Fits
<1>3. Bare'
  BY DEF ArrInvariant, Bare
<1> QED BY <1>1, <1>2, <1>3 DEF ArrInvariant, ArrTypeOK

LEMMA ArrPush ==
  ASSUME ArrInvariant, NEW v \in Vectors, NEW x \in Values, Arrays!push(v, x)
  PROVE  ArrInvariant'
<1> DEFINE p == IF vec[v].used = vec[v].size THEN "alloc" ELSE "store"
<1>1. /\ op.pc = "idle" /\ UNCHANGED <<version, vec, heap, tmp>>
      /\ op' = [pc |-> p, name |-> "push", v |-> v, from |-> v, t |-> x, old |-> Arrays!Contents]
  BY DEF Arrays!push, Arrays!At, Arrays!Start
<1>2. /\ op'.pc = p /\ op'.name = "push" /\ op'.v = v /\ op'.from = v /\ op'.t = x /\ Shaped'
  BY <1>1 DEF Shaped
<1>3. \A w \in Vectors : Arrays!Bereft(w)' <=> Arrays!Bereft(w)
  BY <1>1, <1>2 DEF Arrays!Bereft
<1>4. ArrTypeOK' /\ Held(Hold, heap)' /\ Bare' /\ \A w \in Vectors : Hold'[w] # nullptr => Fits(vec[w], heap)'
  BY <1>1, <1>3, ArrKept
<1>5. /\ vec[v].used <= vec[v].size /\ vec[v].used \in Nat /\ vec[v].size \in Nat /\ tmp = NoVector
      /\ vec[v].used # vec[v].size => vec[v].arr # nullptr
  BY <1>1, ArrFacts, NotBereft DEF ArrInvariant, ArrPhases
<1>6. ArrOpSound'
  BY <1>2 DEF ArrOpSound, Cells
<1>7. ArrPhases'
  BY <1>1, <1>2, <1>5 DEF ArrPhases, NoVector, Vector
<1> QED BY <1>4, <1>6, <1>7 DEF ArrInvariant

LEMMA ArrPop ==
  ASSUME ArrInvariant, NEW v \in Vectors, Arrays!pop(v)
  PROVE  ArraysSound'
<1>0. CASE op' = op
  <2>1. /\ op.pc = "idle" /\ vec[v].used >= 1 /\ UNCHANGED <<version, heap, tmp>>
        /\ vec' = [vec EXCEPT ![v].used = vec[v].used - 1]
    BY DEF Arrays!pop, Arrays!At
  <2>2. \A w \in Vectors : ~Arrays!Bereft(w) /\ ~Arrays!Bereft(w)'
    BY <1>0, <2>1 DEF Arrays!Bereft
  <2>3. Hold[v] = vec[v].arr /\ vec[v].used \in Nat /\ vec[v].size \in Nat /\ vec[v] \in Storages
        /\ vec[v].arr \in Buffers
    BY <2>1, <2>2, ArrFacts
  <2>4. vec \in [Vectors -> Storages] /\ tmp \in Storages
    BY DEF ArrInvariant, ArrTypeOK
  <2>5. /\ vec' \in [Vectors -> Storages] /\ vec'[v].arr = vec[v].arr /\ vec'[v].size = vec[v].size
        /\ vec'[v].used = vec[v].used - 1 /\ \A w \in Vectors : w # v => vec'[w] = vec[w]
    <3>1. vec[v].used - 1 \in Nat
      BY <2>1, <2>3
    <3> QED BY <2>1, <2>4, <3>1 DEF Storages
  <2>6. Hold' = Hold
    <3>1. \A w \in Vectors : vec'[w].arr = vec[w].arr
      BY <2>5
    <3> QED BY <2>1, <2>2, <3>1, NextHold DEF Hold
  <2>7. Held(Hold, heap)'
    BY <2>1, <2>6 DEF ArrInvariant
  <2>8. ASSUME NEW w \in Vectors, Hold'[w] # nullptr PROVE Fits(vec[w], heap)'
    <3>1. CASE w # v
      BY <2>1, <2>5, <2>6, <2>8, <3>1, FitsKept
    <3>2. CASE w = v
      <4>1. /\ vec[v].used <= vec[v].size /\ vec[v].used <= Len(heap[vec[v].arr]) - 1
            /\ version = 1 => vec[v].size = Len(heap[vec[v].arr]) - 1
        BY <2>6, <2>8, <3>2, ArrFacts
      <4>2. Len(heap[vec[v].arr]) \in Nat
        BY <2>3 DEF ArrInvariant, ArrTypeOK
      <4> QED BY <2>1, <2>3, <2>5, <3>2, <4>1, <4>2 DEF Fits
    <3> QED BY <3>1, <3>2
  <2>9. ArrTypeOK' /\ ArrOpSound'
    BY <1>0, <2>1, <2>4, <2>5 DEF ArrInvariant, ArrTypeOK, ArrOpSound, Idle, Shaped
  <2>10. ArrPhases'
    BY <1>0, <2>1 DEF ArrInvariant, ArrPhases, NoVector, Vector
  <2>11. Bare'
    BY <2>2, <2>3, <2>5, NullAssumption DEF ArrInvariant, Bare
  <2> QED BY <2>7, <2>8, <2>9, <2>10, <2>11 DEF ArrInvariant, ArraysSound
<1>1. CASE op' # op
  <2>1. op' = [Arrays!Start("thrown", "pop", v, v) EXCEPT !.pc = "thrown"]
    BY <1>1 DEF Arrays!pop
  <2>2. op'.pc = "thrown"
    BY <2>1 DEF Arrays!Start
  <2> QED BY <2>2 DEF ArraysSound
<1> QED BY <1>0, <1>1

LEMMA ArrConstruct ==
  ASSUME ArrInvariant, NEW v \in Vectors, NEW w \in Vectors, Arrays!construct(v, w)
  PROVE  ArrInvariant'
<1>1. /\ op.pc = "idle" /\ vec[v].arr = nullptr /\ UNCHANGED <<version, vec, heap, tmp>>
      /\ op' = [pc |-> "alloc", name |-> "construct", v |-> v, from |-> w, t |-> "default", old |-> Arrays!Contents]
  BY DEF Arrays!construct, Arrays!At, Arrays!HasArray, Arrays!Start
<1>2. /\ op'.pc = "alloc" /\ op'.name = "construct" /\ op'.v = v /\ op'.from = w /\ op'.t = "default" /\ Shaped'
  BY <1>1 DEF Shaped
<1>3. \A u \in Vectors : Arrays!Bereft(u)' <=> Arrays!Bereft(u)
  BY <1>1, <1>2 DEF Arrays!Bereft
<1>4. ArrTypeOK' /\ Held(Hold, heap)' /\ Bare' /\ \A u \in Vectors : Hold'[u] # nullptr => Fits(vec[u], heap)'
  BY <1>1, <1>3, ArrKept
<1>5. tmp = NoVector
  BY <1>1 DEF ArrInvariant, ArrPhases
<1>6. ArrOpSound'
  BY <1>2 DEF ArrOpSound, Cells
<1>7. ArrPhases'
  BY <1>1, <1>2, <1>5 DEF ArrPhases, NoVector, Vector
<1> QED BY <1>4, <1>6, <1>7 DEF ArrInvariant

LEMMA ArrSteal ==
  ASSUME ArrInvariant, NEW v \in Vectors, NEW w \in Vectors, Arrays!steal(v, w)
  PROVE  ArrInvariant'
<1>1. /\ op.pc = "idle" /\ vec[v].arr = nullptr /\ vec[w].arr # nullptr /\ UNCHANGED <<version, heap, op, tmp>>
      /\ vec' = [vec EXCEPT ![v] = vec[w], ![w] = NoVector]
  BY DEF Arrays!steal, Arrays!At, Arrays!HasArray, Arrays!NoVector, NoVector, Arrays!Vector, Vector
<1>2. \A u \in Vectors : ~Arrays!Bereft(u) /\ ~Arrays!Bereft(u)'
  BY <1>1 DEF Arrays!Bereft
<1>3. v # w /\ vec \in [Vectors -> Storages] /\ tmp \in Storages
  BY <1>1 DEF ArrInvariant, ArrTypeOK
<1>4. NoVector \in Storages /\ NoVector.arr = nullptr
  BY DEF NoVector, Vector, Storages
<1>5. /\ vec' \in [Vectors -> Storages] /\ vec'[v] = vec[w] /\ vec'[w] = NoVector
      /\ \A u \in Vectors : u # v /\ u # w => vec'[u] = vec[u]
  BY <1>1, <1>3, <1>4
<1>6. \A u \in Vectors : Hold[u] = vec[u].arr /\ u \in Names /\ u # "tmp"
  BY <1>2, ArrFacts
<1>7. Hold' = [n \in Names |-> IF n = v THEN Hold[w] ELSE IF n = w THEN Hold[v] ELSE Hold[n]]
  BY <1>1, <1>2, <1>3, <1>4, <1>5, <1>6, NextHold DEF Hold
<1>8. Held(Hold', heap')
  BY <1>1, <1>6, <1>7, HeldExchanged DEF ArrInvariant
<1>9. ASSUME NEW u \in Vectors, Hold'[u] # nullptr PROVE Fits(vec[u], heap)'
  <2>1. CASE u = v
    <3>1. Fits(vec[w], heap)
      BY <1>1, <1>6 DEF ArrInvariant
    <3> QED BY <1>1, <1>5, <2>1, <3>1 DEF Fits
  <2>2. CASE u = w
    BY <1>1, <1>6, <1>7, <1>9, <2>2
  <2>3. CASE u # v /\ u # w
    BY <1>1, <1>5, <1>6, <1>7, <1>9, <2>3, FitsKept
  <2> QED BY <2>1, <2>2, <2>3
<1>10. ArrTypeOK' /\ ArrOpSound'
  BY <1>1, <1>3, <1>5 DEF ArrInvariant, ArrTypeOK, ArrOpSound, Idle, Shaped
<1>11. ArrPhases'
  BY <1>1 DEF ArrInvariant, ArrPhases, NoVector, Vector
<1>12. Bare'
  BY <1>1, <1>2, <1>5 DEF ArrInvariant, Bare
<1> QED BY <1>8, <1>9, <1>10, <1>11, <1>12 DEF ArrInvariant

\* operator= of version 1: the array of v goes, and so v holds none.
LEMMA ArrAssign ==
  ASSUME ArrInvariant, NEW v \in Vectors, NEW w \in Vectors, Arrays!assign(v, w)
  PROVE  ArrInvariant'
<1>1. /\ op.pc = "idle" /\ version = 1 /\ v # w
      /\ vec' = [vec EXCEPT ![v].size = vec[w].size, ![v].used = vec[w].used]
      /\ heap' = Freed(heap, vec[v].arr) /\ UNCHANGED <<version, tmp>>
      /\ op' = [pc |-> "alloc", name |-> "assign", v |-> v, from |-> w, t |-> "default", old |-> Arrays!Contents]
  BY DEF Arrays!assign, Arrays!At, Arrays!Without, Arrays!Start, Freed
<1>2. /\ op'.pc = "alloc" /\ op'.name = "assign" /\ op'.v = v /\ op'.from = w /\ op'.t = "default" /\ Shaped'
  BY <1>1 DEF Shaped
<1>3. \A u \in Vectors : ~Arrays!Bereft(u) /\ (Arrays!Bereft(u)' <=> u = v)
  BY <1>1, <1>2 DEF Arrays!Bereft
<1>4. /\ vec \in [Vectors -> Storages] /\ tmp \in Storages /\ heap \in [Buffers -> Seq(Cells)]
      /\ vec[w].size \in Nat /\ vec[w].used \in Nat /\ Held(Hold, heap)
  BY ArrFacts DEF ArrInvariant, ArrTypeOK
<1>5. /\ vec' \in [Vectors -> Storages] /\ vec'[v].arr = vec[v].arr /\ vec'[v].size = vec[w].size
      /\ vec'[v].used = vec[w].used /\ \A u \in Vectors : u # v => vec'[u] = vec[u]
  BY <1>1, <1>4 DEF Storages
<1>6. \A u \in Vectors : Hold[u] = vec[u].arr /\ u \in Names /\ u # "tmp"
  BY <1>3, ArrFacts
<1>7. Hold' = [n \in Names |-> IF n = v THEN nullptr ELSE Hold[n]]
  BY <1>1, <1>3, <1>5, <1>6, NextHold DEF Hold
<1> DEFINE H == Hold
           g == heap'
           G == Hold'
<1>8. /\ g = IF H[v] = nullptr THEN heap ELSE [heap EXCEPT ![H[v]] = << >>]
      /\ Held(H, heap) /\ v \in Names /\ G = [n \in Names |-> IF n = v THEN nullptr ELSE H[n]]
  BY <1>1, <1>4, <1>6, <1>7 DEF Freed
<1>9. Held(G, g)
  <2> HIDE DEF H, g, G
  <2> QED BY <1>4, <1>8, HeldFreed
<1>10. ASSUME NEW u \in Vectors, Hold'[u] # nullptr PROVE Fits(vec[u], heap)'
  <2>1. u # v /\ Hold[u] # nullptr
    BY <1>6, <1>7, <1>10
  <2>2. Hold[u] # Hold[v] /\ Hold[u] \in Buffers
    BY <1>4, <1>6, <2>1 DEF Held
  <2>3. heap'[Hold[u]] = heap[Hold[u]]
    BY <1>1, <1>4, <1>6, <2>2 DEF Freed
  <2> QED BY <1>1, <1>5, <2>1, <2>3, FitsKept
<1>11. heap' \in [Buffers -> Seq(Cells)]
  BY <1>1, <1>4, ArrFacts DEF Freed
<1>12. ArrTypeOK' /\ ArrOpSound'
  BY <1>1, <1>2, <1>4, <1>5, <1>11 DEF ArrTypeOK, ArrOpSound, Cells
<1>13. tmp = NoVector
  BY <1>1 DEF ArrInvariant, ArrPhases
<1>14. ArrPhases'
  BY <1>1, <1>2, <1>5, <1>13 DEF ArrPhases, NoVector, Vector
<1>15. Bare'
  BY <1>3, <1>5 DEF ArrInvariant, Bare
<1> QED BY <1>9, <1>10, <1>12, <1>14, <1>15 DEF ArrInvariant

\* The operation under way.
LEMMA ArrOpFacts ==
  ASSUME ArrInvariant, op.pc # "idle"
  PROVE  /\ Shaped /\ op.t \in Cells /\ op.v \in Vectors /\ op.from \in Vectors
         /\ op.name \in {"push", "construct", "assign"}
<1>1. op # Idle
  BY DEF Idle
<1> QED BY <1>1 DEF ArrInvariant, ArrOpSound

\* The vector that an operation copies from keeps its array, and all that is
\* copied lies within; nothing is copied from a vector without an array.
LEMMA CopyFacts ==
  ASSUME ArrInvariant, op.pc \in {"alloc", "fill"}
  PROVE  /\ Hold[op.from] = vec[op.from].arr /\ ~Arrays!Bereft(op.from)
         /\ Arrays!NewSize \in Nat /\ Arrays!CopyCount \in Nat /\ Arrays!CopyCount <= Arrays!NewSize
         /\ IF Hold[op.from] = nullptr THEN Arrays!CopyCount = 0
            ELSE Arrays!CopyCount <= Len(heap[vec[op.from].arr]) - 1
         /\ op.name = "push" => op.from = op.v /\ vec[op.v].used = vec[op.v].size
         /\ op.name = "construct" => vec[op.v].arr = nullptr
         /\ op.name = "assign" => /\ version = 1 /\ op.v # op.from /\ vec[op.v].size = vec[op.from].size
                                  /\ vec[op.v].used = vec[op.from].used
<1>1. /\ op.v \in Vectors /\ op.from \in Vectors /\ op.name \in {"push", "construct", "assign"}
  BY ArrOpFacts
<1>2. /\ op.name = "push" => op.from = op.v /\ vec[op.v].used = vec[op.v].size
      /\ op.name = "construct" => vec[op.v].arr = nullptr
      /\ op.name = "assign" => /\ version = 1 /\ op.v # op.from /\ vec[op.v].size = vec[op.from].size
                               /\ vec[op.v].used = vec[op.from].used
  BY DEF ArrInvariant, ArrPhases
<1>3. ~Arrays!Bereft(op.from)
  BY <1>2 DEF Arrays!Bereft
<1>4. Hold[op.from] = vec[op.from].arr
  BY <1>1, <1>2, <1>3, ArrFacts
<1>5. /\ vec[op.from].size \in Nat /\ vec[op.from].used \in Nat /\ vec[op.v].size \in Nat
      /\ vec[op.from].used <= vec[op.from].size
      /\ Hold[op.from] = nullptr => vec[op.from].size = 0 /\ vec[op.from].used = 0
      /\ Hold[op.from] # nullptr =>
           /\ vec[op.from].used <= Len(heap[vec[op.from].arr]) - 1
           /\ version = 1 => vec[op.from].size = Len(heap[vec[op.from].arr]) - 1
      /\ version \in {1, 2}
  BY <1>1, <1>3, <1>4, ArrFacts DEF ArrInvariant, ArrTypeOK
<1>6. /\ Arrays!NewSize \in Nat /\ Arrays!CopyCount \in Nat /\ Arrays!CopyCount <= Arrays!NewSize
      /\ \/ Arrays!CopyCount = vec[op.from].used
         \/ version = 1 /\ Arrays!CopyCount = vec[op.from].size
  <2>1. CASE op.name = "push"
    <3>1. Arrays!NewSize = 2 * vec[op.v].size + 1 /\ Arrays!CopyCount = vec[op.v].size
      BY <2>1 DEF Arrays!NewSize, Arrays!CopyCount
    <3> DEFINE n == vec[op.v].size
    <3>2. n \in Nat /\ vec[op.from].used = n /\ op.from = op.v
      BY <1>2, <1>5, <2>1
    <3> HIDE DEF n
    <3>3. 2 * n + 1 \in Nat /\ n <= 2 * n + 1
      BY <3>2
    <3> QED BY <3>1, <3>2, <3>3 DEF n
  <2>2. CASE op.name = "construct"
    <3>1. /\ Arrays!NewSize = IF version = 2 THEN vec[op.from].used ELSE vec[op.from].size
          /\ Arrays!CopyCount = Arrays!NewSize
      BY <2>2 DEF Arrays!NewSize, Arrays!CopyCount
    <3> QED BY <1>5, <3>1
  <2>3. CASE op.name = "assign"
    <3>1. Arrays!NewSize = vec[op.from].size /\ Arrays!CopyCount = vec[op.from].size
      BY <2>3 DEF Arrays!NewSize, Arrays!CopyCount
    <3> QED BY <1>2, <1>5, <2>3, <3>1
  <2> QED BY <1>1, <2>1, <2>2, <2>3
<1>7. Hold[op.from] = nullptr => Arrays!CopyCount = 0
  BY <1>5, <1>6
<1>8. Hold[op.from] # nullptr => Arrays!CopyCount <= Len(heap[vec[op.from].arr]) - 1
  <2> SUFFICES ASSUME Hold[op.from] # nullptr
               PROVE  Arrays!CopyCount <= Len(heap[vec[op.from].arr]) - 1
    OBVIOUS
  <2>1. CASE Arrays!CopyCount = vec[op.from].used
    BY <1>5, <2>1
  <2>2. CASE version = 1 /\ Arrays!CopyCount = vec[op.from].size
    <3>1. vec[op.from].size = Len(heap[vec[op.from].arr]) - 1
      BY <1>5, <2>2
    <3> DEFINE k == Len(heap[vec[op.from].arr]) - 1
    <3>2. vec[op.from].size = k /\ vec[op.from].size \in Nat
      BY <1>5, <3>1
    <3> HIDE DEF k
    <3>3. vec[op.from].size <= k
      BY <3>2
    <3> QED BY <2>2, <3>3 DEF k
  <2> QED BY <1>6, <2>1, <2>2
<1> QED BY <1>2, <1>3, <1>4, <1>6, <1>7, <1>8

LEMMA ArrAllocate ==
  ASSUME ArrInvariant, NEW b \in Buffers, Arrays!Allocate(b)
  PROVE  ArrInvariant'
<1> DEFINE n == Arrays!NewSize
           s == Arrays!NewArray(n)
<1>1. /\ op.pc = "alloc" /\ heap[b] = << >> /\ UNCHANGED <<version, vec>>
      /\ heap' = [heap EXCEPT ![b] = s] /\ op' = [op EXCEPT !.pc = "fill"]
      /\ tmp' = [arr |-> b, size |-> n, used |-> 0]
  BY DEF Arrays!Allocate, Arrays!At, Arrays!Allocated, Arrays!Vector
<1>2. /\ Shaped /\ op.t \in Cells /\ op.v \in Vectors /\ op.from \in Vectors
      /\ op.name \in {"push", "construct", "assign"}
  BY <1>1, ArrOpFacts
<1>3. Shaped' /\ op'.pc = "fill" /\ op'.name = op.name /\ op'.v = op.v /\ op'.from = op.from /\ op'.t = op.t
  BY <1>1, <1>2, ArrGoto
<1>4. n \in Nat /\ Arrays!CopyCount \in Nat
  BY <1>1, CopyFacts
<1>5. s \in Seq(Cells) /\ Len(s) = n + 1 /\ s # << >>
  BY <1>4, NewArrayFacts
<1>6. /\ vec \in [Vectors -> Storages] /\ tmp \in Storages /\ heap \in [Buffers -> Seq(Cells)]
      /\ Held(Hold, heap)
  BY DEF ArrInvariant, ArrTypeOK
<1>7. tmp.arr = nullptr /\ b # nullptr /\ tmp' \in Storages /\ tmp'.arr = b /\ tmp'.used = 0
  BY <1>1, <1>4, NullAssumption DEF ArrInvariant, ArrPhases, NoVector, Vector, Storages
<1>8. \A u \in Vectors : Arrays!Bereft(u)' <=> Arrays!Bereft(u)
  BY <1>1, <1>3 DEF Arrays!Bereft
<1>9. Hold["tmp"] = nullptr /\ "tmp" \in Names /\ Hold' = [m \in Names |-> IF m = "tmp" THEN b ELSE Hold[m]]
  BY <1>1, <1>7, <1>8, HoldIs, NextHold DEF Hold, Names
<1> HIDE DEF s, n
<1>10. Held(Hold', heap')
  <2> DEFINE H == Hold
             g == heap'
             G == Hold'
  <2>1. /\ Held(H, heap) /\ H["tmp"] = nullptr /\ G = [m \in Names |-> IF m = "tmp" THEN b ELSE H[m]]
        /\ g = [heap EXCEPT ![b] = s]
    BY <1>1, <1>6, <1>9
  <2> HIDE DEF H, g, G
  <2>2. Held(G, g)
    BY <1>1, <1>5, <1>6, <1>9, <2>1, HeldAllocated
  <2> QED BY <2>2 DEF G, g
<1>11. /\ heap' \in [Buffers -> Seq(Cells)] /\ heap'[b] = s /\ \A c \in Buffers : c # b => heap'[c] = heap[c]
  BY <1>1, <1>5, <1>6
<1>12. ASSUME NEW u \in Vectors, Hold'[u] # nullptr PROVE Fits(vec[u], heap)'
  <2>1. u \in Names /\ Hold'[u] = Hold[u]
    BY <1>9, HoldIs
  <2>2. Hold[u] # b /\ Hold[u] \in Buffers
    BY <1>1, <1>6, <1>12, <2>1 DEF Held
  <2> QED BY <1>1, <1>11, <1>12, <2>1, <2>2, FitsKept
<1>13. ArrTypeOK' /\ ArrOpSound'
  BY <1>1, <1>2, <1>3, <1>6, <1>7, <1>11 DEF ArrInvariant, ArrTypeOK, ArrOpSound
<1>14. Arrays!NewSize' = n /\ Arrays!CopyCount' = Arrays!CopyCount
  BY <1>1, <1>3 DEF Arrays!NewSize, Arrays!CopyCount, n
<1>15. ArrPhases'
  <2>1. /\ op'.name = "push" => op'.from = op'.v /\ vec'[op'.v].used = vec'[op'.v].size
        /\ op'.name = "construct" => vec'[op'.v].arr = nullptr
        /\ op'.name = "assign" => /\ version' = 1 /\ op'.v # op'.from /\ vec'[op'.v].size = vec'[op'.from].size
                                  /\ vec'[op'.v].used = vec'[op'.from].used
    BY <1>1, <1>3, CopyFacts
  <2>2. tmp'.arr # nullptr /\ Len(heap'[tmp'.arr]) = Arrays!NewSize' + 1 /\ tmp'.used <= Arrays!CopyCount'
    BY <1>4, <1>5, <1>7, <1>11, <1>14
  <2> QED BY <1>3, <2>1, <2>2 DEF ArrPhases
<1>16. Bare'
  BY <1>1, <1>8 DEF ArrInvariant, Bare
<1> QED BY <1>10, <1>12, <1>13, <1>15, <1>16 DEF ArrInvariant

LEMMA ArrFill ==
  ASSUME ArrInvariant, Arrays!Fill
  PROVE  ArrInvariant'
<1> DEFINE src == vec[op.from].arr
           i == tmp.used + 1
<1>1. op.pc = "fill" /\ tmp.used < Arrays!CopyCount
  BY DEF Arrays!Fill, Arrays!At
<1>2. /\ Shaped /\ op.v \in Vectors /\ op.from \in Vectors
  BY <1>1, ArrOpFacts
<1>3. /\ Hold[op.from] = src /\ Hold[op.from] # nullptr /\ Arrays!NewSize \in Nat /\ Arrays!CopyCount \in Nat
      /\ Arrays!CopyCount <= Arrays!NewSize /\ Arrays!CopyCount <= Len(heap[src]) - 1
  <2>1. tmp.used \in Nat
    BY DEF ArrInvariant, ArrTypeOK, Storages
  <2> QED BY <1>1, <2>1, CopyFacts
<1>4. /\ vec \in [Vectors -> Storages] /\ tmp \in Storages /\ heap \in [Buffers -> Seq(Cells)]
      /\ Held(Hold, heap)
  BY DEF ArrInvariant, ArrTypeOK
<1>5. tmp.arr \in Buffers /\ tmp.used \in Nat /\ Len(heap[tmp.arr]) = Arrays!NewSize + 1 /\ tmp.arr # nullptr
  BY <1>1, <1>4 DEF ArrInvariant, ArrPhases, Storages
<1>6. src \in Buffers /\ src # nullptr /\ heap[src] # << >> /\ heap[src] \in Seq(Cells)
  BY <1>2, <1>3, <1>4, ArrFacts DEF Held
<1>7. Arrays!Within(src, i)
  <2>1. i <= Len(heap[src]) - 1
    BY <1>1, <1>3, <1>5, <1>6
  <2> QED BY <1>6, <2>1 DEF Arrays!Within, Arrays!Allocated, Arrays!Length
<1>8. /\ heap' = [heap EXCEPT ![tmp.arr][i + 1] = heap[src][i + 1]]
      /\ tmp' = [tmp EXCEPT !.used = i] /\ UNCHANGED <<version, vec, op>>
  BY <1>7 DEF Arrays!Fill
<1>9. heap[src][i + 1] \in Cells /\ i + 1 \in 1..Len(heap[tmp.arr]) /\ i \in Nat /\ i <= Arrays!CopyCount
  <2> DEFINE n == Arrays!NewSize
             c == Arrays!CopyCount
  <2>1. Len(heap[src]) \in Nat /\ n \in Nat /\ c \in Nat /\ c <= n /\ c <= Len(heap[src]) - 1 /\ tmp.used < c
    BY <1>1, <1>3, <1>6
  <2> HIDE DEF n, c, src
  <2>2. i + 1 \in 1..Len(heap[src]) /\ i + 1 \in 1..(n + 1) /\ i \in Nat /\ i <= c
    BY <1>5, <2>1
  <2>3. heap[src][i + 1] \in Cells
    BY <1>6, <2>2
  <2> QED BY <1>5, <2>2, <2>3 DEF n, c
<1>10. tmp' \in Storages /\ tmp'.arr = tmp.arr /\ tmp'.used = i
  BY <1>4, <1>8, <1>9 DEF Storages
<1>11. /\ heap' \in [Buffers -> Seq(Cells)]
       /\ \A b \in Buffers : Len(heap'[b]) = Len(heap[b]) /\ (heap'[b] # << >> <=> heap[b] # << >>)
  <2> DEFINE g == heap'
             x == heap[src][i + 1]
             j == i + 1
  <2>1. x \in Cells /\ j \in 1..Len(heap[tmp.arr]) /\ g = [heap EXCEPT ![tmp.arr][j] = x]
    BY <1>8, <1>9
  <2> HIDE DEF g, x, j
  <2>2. /\ g \in [Buffers -> Seq(Cells)]
        /\ \A b \in Buffers : Len(g[b]) = Len(heap[b]) /\ (g[b] # << >> <=> heap[b] # << >>)
    BY <1>4, <1>5, <2>1, CellWritten
  <2> QED BY <2>2 DEF g
<1>12. Hold' = Hold
  BY <1>8, <1>10, NextHold DEF Hold, Arrays!Bereft
<1>13. Held(Hold', heap')
  BY <1>4, <1>11, <1>12, HeldWritten
<1>14. ASSUME NEW u \in Vectors, Hold'[u] # nullptr PROVE Fits(vec[u], heap)'
  <2>1. Hold[u] \in Buffers
    BY <1>12, <1>14, ArrFacts
  <2> QED BY <1>8, <1>11, <1>12, <1>14, <2>1, FitsKept
<1>15. ArrTypeOK' /\ ArrOpSound'
  BY <1>4, <1>8, <1>10, <1>11 DEF ArrInvariant, ArrTypeOK, ArrOpSound, Idle, Shaped
<1>16. Arrays!NewSize' = Arrays!NewSize /\ Arrays!CopyCount' = Arrays!CopyCount
  BY <1>8 DEF Arrays!NewSize, Arrays!CopyCount
<1>17. ArrPhases'
  <2>1. /\ op'.name = "push" => op'.from = op'.v /\ vec'[op'.v].used = vec'[op'.v].size
        /\ op'.name = "construct" => vec'[op'.v].arr = nullptr
        /\ op'.name = "assign" => /\ version' = 1 /\ op'.v # op'.from /\ vec'[op'.v].size = vec'[op'.from].size
                                  /\ vec'[op'.v].used = vec'[op'.from].used
    BY <1>1, <1>8, CopyFacts
  <2>2. tmp'.arr # nullptr /\ Len(heap'[tmp'.arr]) = Arrays!NewSize' + 1 /\ tmp'.used <= Arrays!CopyCount'
    BY <1>5, <1>9, <1>10, <1>11, <1>16
  <2> QED BY <1>1, <1>8, <2>1, <2>2 DEF ArrPhases
<1>18. Bare'
  BY <1>8 DEF ArrInvariant, Bare, Arrays!Bereft
<1> QED BY <1>13, <1>14, <1>15, <1>17, <1>18 DEF ArrInvariant

\* What Filled makes of the vector under the operation.
LEMMA FilledVector ==
  ASSUME ArrInvariant, Arrays!Filled
  PROVE  /\ vec' \in [Vectors -> Storages] /\ \A u \in Vectors : u # op.v => vec'[u] = vec[u]
         /\ vec'[op.v].arr = tmp.arr /\ vec'[op.v].used <= vec'[op.v].size
         /\ vec'[op.v].used <= Arrays!NewSize /\ (version = 1 => vec'[op.v].size = Arrays!NewSize)
         /\ op.name = "push" => vec'[op.v].used < vec'[op.v].size
<1>1. op.pc = "fill"
  BY DEF Arrays!Filled, Arrays!At
<1>2. op.v \in Vectors /\ op.from \in Vectors /\ op.name \in {"push", "construct", "assign"}
  BY <1>1, ArrOpFacts
<1>3. /\ ~Arrays!Bereft(op.from) /\ Arrays!NewSize \in Nat
      /\ op.name = "push" => op.from = op.v /\ vec[op.v].used = vec[op.v].size
      /\ op.name = "assign" => /\ version = 1 /\ vec[op.v].size = vec[op.from].size
                               /\ vec[op.v].used = vec[op.from].used
  BY <1>1, CopyFacts
<1>4. /\ vec[op.from] \in Storages /\ vec[op.from].size \in Nat /\ vec[op.from].used \in Nat
      /\ vec[op.from].used <= vec[op.from].size
      /\ vec[op.v] \in Storages /\ vec[op.v].size \in Nat /\ vec[op.v].used \in Nat
  BY <1>2, <1>3, ArrFacts
<1>5. vec \in [Vectors -> Storages] /\ tmp.arr \in Buffers \cup {nullptr} /\ version \in {1, 2}
  BY DEF ArrInvariant, ArrTypeOK, Storages
<1>6. ASSUME NEW o \in Storages, vec' = [vec EXCEPT ![op.v] = o]
      PROVE  vec' \in [Vectors -> Storages] /\ vec'[op.v] = o /\ \A u \in Vectors : u # op.v => vec'[u] = vec[u]
  BY <1>2, <1>5, <1>6
<1>7. CASE op.name = "push"
  <2> DEFINE o == [arr |-> tmp.arr, size |-> Arrays!NewSize, used |-> vec[op.v].used]
  <2>1. vec' = [vec EXCEPT ![op.v] = o]
    BY <1>7 DEF Arrays!Filled, Arrays!Vector
  <2>2. o \in Storages /\ o.arr = tmp.arr /\ o.size = Arrays!NewSize /\ o.used = vec[op.v].used
    BY <1>3, <1>4, <1>5 DEF Storages
  <2>3. Arrays!NewSize = 2 * vec[op.v].size + 1
    BY <1>7 DEF Arrays!NewSize
  <2>4. vec[op.v].used = vec[op.v].size
    BY <1>3, <1>7
  <2> HIDE DEF o
  <2>5. vec' \in [Vectors -> Storages] /\ vec'[op.v] = o /\ \A u \in Vectors : u # op.v => vec'[u] = vec[u]
    BY <1>6, <2>1, <2>2
  <2>6. o.used < o.size /\ o.used <= o.size /\ o.used <= Arrays!NewSize
    BY <1>4, <2>2, <2>3, <2>4
  <2> QED BY <2>2, <2>5, <2>6
<1>8. CASE op.name = "construct"
  <2> DEFINE o == [vec[op.from] EXCEPT !.arr = tmp.arr]
  <2>1. vec' = [vec EXCEPT ![op.v] = o]
    BY <1>8 DEF Arrays!Filled
  <2>2. o \in Storages /\ o.arr = tmp.arr /\ o.size = vec[op.from].size /\ o.used = vec[op.from].used
    BY <1>4, <1>5 DEF Storages
  <2>3. Arrays!NewSize = IF version = 2 THEN vec[op.from].used ELSE vec[op.from].size
    BY <1>8 DEF Arrays!NewSize
  <2> HIDE DEF o
  <2>5. vec' \in [Vectors -> Storages] /\ vec'[op.v] = o /\ \A u \in Vectors : u # op.v => vec'[u] = vec[u]
    BY <1>6, <2>1, <2>2
  <2>6. o.used <= o.size /\ o.used <= Arrays!NewSize /\ (version = 1 => o.size = Arrays!NewSize)
    BY <1>4, <2>2, <2>3
  <2> QED BY <1>8, <2>2, <2>5, <2>6
<1>9. CASE op.name = "assign"
  <2> DEFINE o == [vec[op.v] EXCEPT !.arr = tmp.arr]
  <2>1. vec' = [vec EXCEPT ![op.v] = o]
    BY <1>9 DEF Arrays!Filled
  <2>2. o \in Storages /\ o.arr = tmp.arr /\ o.size = vec[op.from].size /\ o.used = vec[op.from].used
    BY <1>3, <1>4, <1>5, <1>9 DEF Storages
  <2>3. Arrays!NewSize = vec[op.from].size
    BY <1>9 DEF Arrays!NewSize
  <2> HIDE DEF o
  <2>5. vec' \in [Vectors -> Storages] /\ vec'[op.v] = o /\ \A u \in Vectors : u # op.v => vec'[u] = vec[u]
    BY <1>6, <2>1, <2>2
  <2>6. o.used <= o.size /\ o.used <= Arrays!NewSize /\ o.size = Arrays!NewSize
    BY <1>4, <2>2, <2>3
  <2> QED BY <1>9, <2>2, <2>5, <2>6
<1> QED BY <1>2, <1>7, <1>8, <1>9

\* The old array goes, then the vector takes the new one.
LEMMA ArrFilled ==
  ASSUME ArrInvariant, Arrays!Filled
  PROVE  ArrInvariant'
<1> DEFINE v == op.v
<1>1. /\ op.pc = "fill" /\ version' = version /\ tmp' = NoVector
      /\ heap' = IF op.name = "push" THEN Freed(heap, vec[v].arr) ELSE heap
      /\ op' = IF op.name = "push" THEN [op EXCEPT !.pc = "store"] ELSE Idle
  BY DEF Arrays!Filled, Arrays!Without, Freed, Arrays!At, Arrays!Idle, Idle, Arrays!NoVector, NoVector, Arrays!Vector, Vector
<1>2. /\ Shaped /\ op.t \in Cells /\ v \in Vectors /\ op.from \in Vectors
      /\ op.name \in {"push", "construct", "assign"}
  BY <1>1, ArrOpFacts
<1>3. /\ Hold[op.from] = vec[op.from].arr
      /\ op.name = "push" => op.from = v /\ vec[v].used = vec[v].size
      /\ op.name = "construct" => vec[v].arr = nullptr
  BY <1>1, CopyFacts
<1>4. /\ vec \in [Vectors -> Storages] /\ tmp \in Storages /\ heap \in [Buffers -> Seq(Cells)]
      /\ Held(Hold, heap) /\ version \in {1, 2}
  BY DEF ArrInvariant, ArrTypeOK
<1>5. tmp.arr \in Buffers /\ Len(heap[tmp.arr]) = Arrays!NewSize + 1 /\ tmp.arr # nullptr /\ Arrays!NewSize \in Nat
  BY <1>1, <1>4, CopyFacts DEF ArrInvariant, ArrPhases, Storages
<1>6. heap' = IF Hold[v] = nullptr THEN heap ELSE [heap EXCEPT ![Hold[v]] = << >>]
  <2>1. CASE op.name = "push"
    <3>1. Hold[v] = vec[v].arr
      BY <1>3, <2>1
    <3> QED BY <1>1, <2>1, <3>1 DEF Freed
  <2>2. CASE op.name # "push"
    <3>1. Hold[v] = nullptr
      BY <1>1, <1>2, <1>3, <2>2, ArrFacts, HoldIs DEF Arrays!Bereft
    <3> QED BY <1>1, <2>2, <3>1
  <2> QED BY <2>1, <2>2
<1>7. /\ op.name = "push" => Shaped' /\ op'.pc = "store" /\ op'.name = "push" /\ op'.v = v /\ op'.from = op.from
                             /\ op'.t = op.t
      /\ op.name # "push" => op'.pc = "idle"
  BY <1>1, <1>2, ArrGoto DEF Idle
<1>8. /\ vec' \in [Vectors -> Storages] /\ \A u \in Vectors : u # v => vec'[u] = vec[u]
      /\ vec'[v].arr = tmp.arr /\ vec'[v].used <= vec'[v].size
      /\ vec'[v].used <= Arrays!NewSize /\ (version = 1 => vec'[v].size = Arrays!NewSize)
      /\ op.name = "push" => vec'[v].used < vec'[v].size
  BY FilledVector
<1>9. /\ \A u \in Vectors : ~Arrays!Bereft(u)' /\ (u # v => ~Arrays!Bereft(u))
      /\ tmp'.arr = nullptr /\ tmp' \in Storages
  BY <1>1, <1>7 DEF Arrays!Bereft, NoVector, Vector, Storages
<1>10. /\ v \in Names /\ v # "tmp" /\ "tmp" \in Names /\ Hold["tmp"] = tmp.arr
       /\ \A u \in Vectors : u # v => Hold[u] = vec[u].arr
  BY <1>2, <1>9, HoldIs
<1>11. Hold' = [n \in Names |-> IF n = v THEN tmp.arr ELSE IF n = "tmp" THEN nullptr ELSE Hold[n]]
  BY <1>2, <1>8, <1>9, <1>10, NextHold, TmpAssumption DEF Names
<1> DEFINE H == Hold
           g == heap'
           G == Hold'
           F == [n \in Names |-> IF n = v THEN nullptr ELSE H[n]]
<1>12. /\ Held(H, heap) /\ g = IF H[v] = nullptr THEN heap ELSE [heap EXCEPT ![H[v]] = << >>]
       /\ G = [n \in Names |-> IF n = v THEN F["tmp"] ELSE IF n = "tmp" THEN F[v] ELSE F[n]]
  BY <1>4, <1>6, <1>10, <1>11
<1>13. Held(G, g)
  <2>1. F = [n \in Names |-> IF n = v THEN nullptr ELSE H[n]]
    OBVIOUS
  <2> HIDE DEF H, g, G, F, v
  <2>2. Held(F, g)
    BY <1>4, <1>10, <1>12, <2>1, HeldFreed
  <2> QED BY <1>10, <1>12, <2>2, HeldExchanged
<1>14. \A u \in Names : Hold[u] # nullptr => Hold[u] \in Buffers /\ (u # v => Hold[u] # Hold[v])
  BY <1>4, <1>10 DEF Held
<1>15. \A b \in Buffers : b # Hold[v] => heap'[b] = heap[b]
  BY <1>4, <1>6
<1>16. heap' \in [Buffers -> Seq(Cells)]
  BY <1>4, <1>6, <1>10, <1>14
<1>17. ASSUME NEW u \in Vectors, Hold'[u] # nullptr PROVE Fits(vec[u], heap)'
  <2>1. CASE u = v
    <3>1. heap'[tmp.arr] = heap[tmp.arr]
      BY <1>5, <1>10, <1>14, <1>15
    <3>2. vec'[v].used \in Nat /\ vec'[v].size \in Nat
      BY <1>2, <1>8 DEF Storages
    <3> HIDE DEF v
    <3> QED BY <1>1, <1>5, <1>8, <2>1, <3>1, <3>2 DEF Fits
  <2>2. CASE u # v
    <3>1. u \in Names /\ u # "tmp"
      BY HoldIs
    <3>2. Hold[u] = Hold'[u]
      BY <1>11, <2>2, <3>1
    <3> QED BY <1>1, <1>8, <1>14, <1>15, <1>17, <2>2, <3>1, <3>2, FitsKept
  <2> QED BY <2>1, <2>2
<1>18. ArrTypeOK'
  BY <1>1, <1>4, <1>8, <1>9, <1>16 DEF ArrTypeOK
<1>19. ArrOpSound'
  BY <1>1, <1>2, <1>7 DEF ArrOpSound
<1>20. ArrPhases'
  <2>1. CASE op.name = "push"
    BY <1>1, <1>5, <1>7, <1>8, <2>1 DEF ArrPhases, NoVector, Vector
  <2>2. CASE op.name # "push"
    BY <1>1, <1>7, <2>2 DEF ArrPhases, NoVector, Vector
  <2> QED BY <2>1, <2>2
<1>21. Bare'
  BY <1>5, <1>8, <1>9 DEF ArrInvariant, Bare
<1> QED BY <1>13, <1>17, <1>18, <1>19, <1>20, <1>21 DEF ArrInvariant

LEMMA ArrOverrun ==
  ASSUME ArrInvariant, op.pc = "store", Arrays!Overrun, ~Arrays!Within(vec[op.v].arr, vec[op.v].used + 1)
  PROVE  ArrInvariant'
<1>1. op' = [op EXCEPT !.pc = "overrun"] /\ UNCHANGED <<version, vec, heap, tmp>>
  BY DEF Arrays!Overrun
<1>2. /\ Shaped /\ op.t \in Cells /\ op.v \in Vectors /\ op.from \in Vectors
      /\ op.name \in {"push", "construct", "assign"}
  BY ArrOpFacts
<1>3. Shaped' /\ op'.pc = "overrun" /\ op'.name = op.name /\ op'.v = op.v /\ op'.from = op.from /\ op'.t = op.t
  BY <1>1, <1>2, ArrGoto
<1>4. \A u \in Vectors : Arrays!Bereft(u)' <=> Arrays!Bereft(u)
  BY <1>3 DEF Arrays!Bereft
<1>5. ArrTypeOK' /\ Held(Hold, heap)' /\ Bare' /\ \A u \in Vectors : Hold'[u] # nullptr => Fits(vec[u], heap)'
  BY <1>1, <1>4, ArrKept
<1>6. ArrOpSound'
  BY <1>2, <1>3 DEF ArrOpSound
<1>7. op.name = "push" /\ vec[op.v].arr # nullptr /\ vec[op.v].used < vec[op.v].size
  BY DEF ArrInvariant, ArrPhases
<1>8. Hold[op.v] = vec[op.v].arr /\ vec[op.v].arr \in Buffers /\ ~Arrays!Bereft(op.v)
  BY <1>2, <1>7, ArrFacts DEF Arrays!Bereft
<1>9. heap[vec[op.v].arr] # << >> /\ heap[vec[op.v].arr] \in Seq(Cells) /\ version \in {1, 2}
  <2>1. op.v \in Names
    BY <1>2, HoldIs
  <2> QED BY <1>8, <2>1 DEF ArrInvariant, ArrTypeOK, Held
<1>10. ~(vec[op.v].used + 1 <= Len(heap[vec[op.v].arr]) - 1)
  BY <1>8, <1>9 DEF Arrays!Within, Arrays!Allocated, Arrays!Length
<1>11. vec[op.v].size \in Nat /\ vec[op.v].used \in Nat /\ (version = 1 => vec[op.v].size = Len(heap[vec[op.v].arr]) - 1)
  BY <1>2, <1>7, <1>8, ArrFacts
<1>12. version = 2 /\ vec[op.v].size > Len(heap[vec[op.v].arr]) - 1
  <2> DEFINE n == Len(heap[vec[op.v].arr])
             k == vec[op.v].used
             m == vec[op.v].size
  <2>1. n \in Nat /\ m \in Nat /\ k \in Nat /\ k < m /\ ~(k + 1 <= n - 1) /\ (version = 1 => m = n - 1)
    BY <1>7, <1>9, <1>10, <1>11
  <2> HIDE DEF n, k, m
  <2>2. version = 2 /\ m > n - 1
    BY <1>9, <2>1
  <2> QED BY <2>2 DEF n, m
<1>13. ArrPhases'
  BY <1>1, <1>3, <1>7, <1>12 DEF ArrPhases
<1> QED BY <1>5, <1>6, <1>13 DEF ArrInvariant

LEMMA ArrStore ==
  ASSUME ArrInvariant, Arrays!Store
  PROVE  ArrInvariant'
<1> DEFINE v == op.v
           i == vec[v].used + 1
           a == vec[v].arr
<1>1. op.pc = "store"
  BY DEF Arrays!Store, Arrays!At
<1>2. CASE ~Arrays!Within(a, i)
  BY <1>1, <1>2, ArrOverrun DEF Arrays!Store
<1>3. CASE Arrays!Within(a, i)
  <2>1. /\ heap' = [heap EXCEPT ![a][i + 1] = op.t] /\ vec' = [vec EXCEPT ![v].used = i]
        /\ op' = Idle /\ UNCHANGED <<version, tmp>>
    BY <1>3 DEF Arrays!Store, Arrays!Idle, Idle
  <2>2. op.t \in Cells /\ v \in Vectors
    BY <1>1, ArrOpFacts
  <2>3. a # nullptr /\ vec[v].used < vec[v].size /\ tmp = NoVector
    BY <1>1 DEF ArrInvariant, ArrPhases
  <2>4. \A u \in Vectors : ~Arrays!Bereft(u) /\ ~Arrays!Bereft(u)'
    BY <1>1, <2>1 DEF Arrays!Bereft, Idle
  <2>5. \A u \in Vectors : Hold[u] = vec[u].arr
    BY <2>4, ArrFacts
  <2>6. /\ vec[v] \in Storages /\ vec[v].used \in Nat /\ vec[v].size \in Nat /\ a \in Buffers
        /\ version = 1 => vec[v].size = Len(heap[a]) - 1
    BY <2>2, <2>3, <2>5, ArrFacts
  <2>7. /\ vec \in [Vectors -> Storages] /\ tmp \in Storages /\ heap \in [Buffers -> Seq(Cells)]
        /\ Held(Hold, heap) /\ version \in {1, 2}
    BY DEF ArrInvariant, ArrTypeOK
  <2>8. i <= Len(heap[a]) - 1 /\ i \in Nat /\ Len(heap[a]) \in Nat
    BY <1>3, <2>6, <2>7 DEF Arrays!Within, Arrays!Length
  <2>9. /\ heap' \in [Buffers -> Seq(Cells)]
        /\ \A b \in Buffers : Len(heap'[b]) = Len(heap[b]) /\ (heap'[b] # << >> <=> heap[b] # << >>)
    <3> DEFINE g == heap'
               j == i + 1
    <3>1. j \in 1..Len(heap[a]) /\ g = [heap EXCEPT ![a][j] = op.t]
      BY <2>1, <2>8
    <3> HIDE DEF g, j, a
    <3>2. /\ g \in [Buffers -> Seq(Cells)]
          /\ \A b \in Buffers : Len(g[b]) = Len(heap[b]) /\ (g[b] # << >> <=> heap[b] # << >>)
      BY <2>2, <2>6, <2>7, <3>1, CellWritten
    <3> QED BY <3>2 DEF g
  <2>10. /\ vec' \in [Vectors -> Storages] /\ vec'[v].arr = a /\ vec'[v].size = vec[v].size
         /\ vec'[v].used = i /\ \A u \in Vectors : u # v => vec'[u] = vec[u]
    BY <2>1, <2>2, <2>6, <2>7, <2>8 DEF Storages
  <2>11. Hold' = Hold
    <3>1. \A u \in Vectors : vec'[u].arr = vec[u].arr
      BY <2>10
    <3> QED BY <2>1, <2>4, <3>1, NextHold DEF Hold
  <2>12. Held(Hold', heap')
    BY <2>7, <2>9, <2>11, HeldWritten
  <2>13. ASSUME NEW u \in Vectors, Hold'[u] # nullptr PROVE Fits(vec[u], heap)'
    <3>1. CASE u = v
      <4>1. Len(heap'[a]) = Len(heap[a])
        BY <2>6, <2>9
      <4> HIDE DEF v, a
      <4> QED BY <2>1, <2>3, <2>6, <2>8, <2>10, <3>1, <4>1 DEF Fits
    <3>2. CASE u # v
      <4>1. Hold[u] \in Buffers
        BY <2>11, <2>13, ArrFacts
      <4> QED BY <2>1, <2>9, <2>10, <2>11, <2>13, <3>2, <4>1, FitsKept
    <3> QED BY <3>1, <3>2
  <2>14. ArrTypeOK' /\ ArrOpSound'
    BY <2>1, <2>7, <2>9, <2>10 DEF ArrTypeOK, ArrOpSound
  <2>15. ArrPhases'
    BY <2>1, <2>3 DEF ArrPhases, Idle, NoVector, Vector
  <2>16. Bare'
    BY <2>3, <2>4, <2>10 DEF ArrInvariant, Bare
  <2> QED BY <2>12, <2>13, <2>14, <2>15, <2>16 DEF ArrInvariant
<1> QED BY <1>2, <1>3

\* The handler of version 2 gives the new array back.
LEMMA ArrSafeCopy ==
  ASSUME ArrInvariant, Arrays!safe_copy
  PROVE  ArrInvariant'
<1>1. /\ version = 2 /\ op.pc \in {"alloc", "store", "fill"} /\ tmp' = NoVector /\ op' = Idle
      /\ heap' = (IF tmp.arr = nullptr THEN heap ELSE [heap EXCEPT ![tmp.arr] = << >>])
      /\ UNCHANGED <<version, vec>>
  BY DEF Arrays!safe_copy, Arrays!Without, Arrays!Throws, Arrays!At, Arrays!Idle, Idle, Arrays!NoVector, NoVector,
         Arrays!Vector, Vector
<1>2. \A u \in Vectors : ~Arrays!Bereft(u) /\ ~Arrays!Bereft(u)'
  <2>1. op.pc \in {"alloc", "fill"} => op.name # "assign"
    BY <1>1, CopyFacts
  <2> QED BY <1>1, <2>1 DEF Arrays!Bereft, Idle
<1>3. /\ vec \in [Vectors -> Storages] /\ tmp \in Storages /\ heap \in [Buffers -> Seq(Cells)]
      /\ Held(Hold, heap)
  BY DEF ArrInvariant, ArrTypeOK
<1>4. tmp'.arr = nullptr /\ tmp' \in Storages /\ op'.pc = "idle"
  BY <1>1 DEF NoVector, Vector, Storages, Idle
<1>5. "tmp" \in Names /\ Hold["tmp"] = tmp.arr /\ \A u \in Vectors : u \in Names /\ u # "tmp" /\ Hold[u] = vec[u].arr
  BY <1>2, HoldIs
<1>6. Hold' = [n \in Names |-> IF n = "tmp" THEN nullptr ELSE Hold[n]]
  BY <1>1, <1>2, <1>4, <1>5, NextHold, TmpAssumption DEF Names
<1> DEFINE H == Hold
           g == heap'
           G == Hold'
<1>7. /\ Held(H, heap) /\ g = IF H["tmp"] = nullptr THEN heap ELSE [heap EXCEPT ![H["tmp"]] = << >>]
      /\ G = [n \in Names |-> IF n = "tmp" THEN nullptr ELSE H[n]]
  BY <1>1, <1>3, <1>5, <1>6
<1>8. Held(G, g)
  <2> HIDE DEF H, g, G
  <2> QED BY <1>3, <1>5, <1>7, HeldFreed
<1>9. heap' \in [Buffers -> Seq(Cells)]
  <2>1. << >> \in Seq(Cells)
    OBVIOUS
  <2> QED BY <1>1, <1>3, <2>1
<1>10. ASSUME NEW u \in Vectors, Hold'[u] # nullptr PROVE Fits(vec[u], heap)'
  <2>1. Hold[u] = Hold'[u]
    BY <1>5, <1>6
  <2>2. Hold[u] \in Buffers /\ Hold[u] # Hold["tmp"]
    BY <1>3, <1>5, <1>10, <2>1 DEF Held
  <2>3. heap'[Hold[u]] = heap[Hold[u]]
    BY <1>1, <1>3, <1>5, <2>2
  <2> QED BY <1>1, <1>10, <2>1, <2>3, FitsKept
<1>11. ArrTypeOK' /\ ArrOpSound'
  BY <1>1, <1>3, <1>4, <1>9 DEF ArrTypeOK, ArrOpSound
<1>12. ArrPhases'
  BY <1>1, <1>4 DEF ArrPhases, NoVector, Vector
<1>13. Bare'
  BY <1>1, <1>2 DEF ArrInvariant, Bare
<1> QED BY <1>8, <1>10, <1>11, <1>12, <1>13 DEF ArrInvariant

\* Nothing follows an exception of version 1.
LEMMA ArraysStep == ArraysSound /\ Arrays!Next => ArraysSound'
<1> SUFFICES ASSUME ArraysSound, Arrays!Next PROVE ArraysSound'
  OBVIOUS
<1>1. op.pc \in {"idle", "alloc", "fill", "store"}
  BY DEF Arrays!Next, Arrays!Step, Arrays!Allocate, Arrays!Fill, Arrays!Filled, Arrays!Store, Arrays!safe_copy,
         Arrays!Unprotected, Arrays!Throws, Arrays!At, Arrays!push, Arrays!pop, Arrays!construct, Arrays!steal,
         Arrays!assign
<1>2. ArrInvariant
  BY <1>1 DEF ArraysSound
<1>3. CASE \E b \in Buffers : Arrays!Allocate(b)
  BY <1>2, <1>3, ArrAllocate DEF ArraysSound
<1>4. CASE Arrays!Fill
  BY <1>2, <1>4, ArrFill DEF ArraysSound
<1>5. CASE Arrays!Filled
  BY <1>2, <1>5, ArrFilled DEF ArraysSound
<1>6. CASE Arrays!Store
  BY <1>2, <1>6, ArrStore DEF ArraysSound
<1>7. CASE Arrays!safe_copy
  BY <1>2, <1>7, ArrSafeCopy DEF ArraysSound
<1>8. CASE Arrays!Unprotected
  <2>1. op.pc # "idle" /\ op' = [op EXCEPT !.pc = "thrown"]
    BY <1>8 DEF Arrays!Unprotected, Arrays!Throws, Arrays!At
  <2>2. op'.pc = "thrown"
    BY <1>2, <2>1, ArrOpFacts, ArrGoto
  <2> QED BY <2>2 DEF ArraysSound
<1>9. CASE \E v \in Vectors : \E x \in Values : Arrays!push(v, x)
  BY <1>2, <1>9, ArrPush DEF ArraysSound
<1>10. CASE \E v \in Vectors : Arrays!pop(v)
  BY <1>2, <1>10, ArrPop
<1>11. CASE \E v, w \in Vectors : Arrays!construct(v, w)
  BY <1>2, <1>11, ArrConstruct DEF ArraysSound
<1>12. CASE \E v, w \in Vectors : Arrays!steal(v, w)
  BY <1>2, <1>12, ArrSteal DEF ArraysSound
<1>13. CASE \E v, w \in Vectors : Arrays!assign(v, w)
  BY <1>2, <1>13, ArrAssign DEF ArraysSound
<1> QED BY <1>3, <1>4, <1>5, <1>6, <1>7, <1>8, <1>9, <1>10, <1>11, <1>12, <1>13, Zenon
        DEF Arrays!Next, Arrays!Step

\* An array has one holder.
LEMMA OneHolder ==
  ASSUME ArrInvariant, NEW b \in Buffers, heap[b] # << >>
  PROVE  Cardinality({v \in DOMAIN Arrays!Holders : Arrays!Holders[v].arr = b}) = 1
<1>1. /\ b # nullptr /\ DOMAIN Arrays!Holders = Names
      /\ \A n \in Names : Arrays!Holders[n].arr = Hold[n]
  BY NullAssumption DEF Arrays!Holders, Names, Hold, Arrays!NoVector, Arrays!Vector
<1>2. PICK n \in Names : Hold[n] = b
  BY DEF ArrInvariant, Held
<1>3. \A m \in Names : Hold[m] = b => m = n
  BY <1>1, <1>2 DEF ArrInvariant, Held
<1>4. {v \in DOMAIN Arrays!Holders : Arrays!Holders[v].arr = b} = {n}
  BY <1>1, <1>2, <1>3
<1> QED BY <1>4, FS_Singleton

\* What the invariant is for.
LEMMA ArraysHeld == ArrInvariant => Arrays!ArraysOwned
<1> SUFFICES ASSUME ArrInvariant PROVE Arrays!ArraysOwned
  OBVIOUS
<1>1. ASSUME NEW b \in Arrays!Allocated
      PROVE  Cardinality({v \in DOMAIN Arrays!Holders : Arrays!Holders[v].arr = b}) = 1
  BY OneHolder DEF Arrays!Allocated
<1>2. ASSUME NEW v \in Vectors, vec[v].arr # nullptr, ~Arrays!Bereft(v)
      PROVE  vec[v].arr \in Arrays!Allocated
  <2>1. Hold[v] = vec[v].arr /\ vec[v].arr \in Buffers /\ v \in Names
    BY <1>2, ArrFacts
  <2> QED BY <2>1 DEF Arrays!Allocated, ArrInvariant, Held
<1>3. ASSUME NEW v \in Vectors, vec[v].arr # nullptr, vec[v].size # Arrays!Length(vec[v].arr),
             version # 2, op.pc = "idle"
      PROVE  FALSE
  <2>1. ~Arrays!Bereft(v) /\ version = 1
    BY <1>3 DEF Arrays!Bereft, ArrInvariant, ArrTypeOK
  <2> QED BY <1>3, <2>1, ArrFacts DEF Arrays!Length
<1>4. op.pc = "overrun" => version = 2 /\ vec[op.v].size > Arrays!Length(vec[op.v].arr)
  BY DEF ArrInvariant, ArrPhases, Arrays!Length
<1> QED BY <1>1, <1>2, <1>3, <1>4, Zenon
        DEF Arrays!ArraysOwned, Arrays!At, Arrays!HasArray, Arrays!Cardinality, Cardinality

\* After an exception of version 1 nothing is claimed of its arrays.
LEMMA ArraysOwnedAlways == ArraysSound => Arrays!ArraysOwned
<1>1. ASSUME op.pc = "thrown" PROVE Arrays!ArraysOwned
  BY <1>1 DEF Arrays!ArraysOwned, Arrays!At
<1> QED BY <1>1, ArraysHeld DEF ArraysSound

-----------------------------------------------------------------------------
(* All five.                                                               *)

\* The inductive invariant of the five programs.
AnySound ==
  /\ version \in Versions \cup {1, 2, 5, 6}
  /\ Buffered => BufferSound
  /\ InArrays => ArraysSound
  /\ Iterated => IterSound

\* A program remains the one it is.
LEMMA VersionKept == AnyNext => version' = version
<1>1. Next => version' = version
  BY DEF Next, Step, CopyArgument, Allocate, AllocateNone, Fill, FillLast, FillCopied, Swap, Drop, Here, Throw,
         push, pop, copy, move
<1>2. Arrays!Next => version' = version
  BY DEF Arrays!Next, Arrays!Step, Arrays!Allocate, Arrays!Fill, Arrays!Overrun, Arrays!Filled, Arrays!Store,
         Arrays!safe_copy, Arrays!Unprotected, Arrays!push, Arrays!pop, Arrays!construct, Arrays!steal, Arrays!assign
<1>3. Iter!Next => version' = version
  BY DEF Iter!Next, Iter!Step, Iter!Allocate, Iter!Fill, Iter!Exchange, Iter!Drop, Iter!Here, Iter!Iterate,
         Iter!IterateEnds, Iter!Throw, Iter!construct, Iter!assign, Iter!move, Iter!push, Iter!pop, Iter!walk
<1> QED BY <1>1, <1>2, <1>3 DEF AnyNext

LEMMA InitAny == AnyInit => AnySound
<1> SUFFICES ASSUME AnyInit PROVE AnySound
  OBVIOUS
<1>1. CASE Init
  <2>1. version \in Versions /\ Versions \subseteq {3, 4}
    BY <1>1, VersionAssumption DEF Init
  <2>2. Buffered /\ ~InArrays /\ ~Iterated
    BY <2>1 DEF Buffered, InArrays, Iterated
  <2> QED BY <1>1, <2>1, <2>2, InitBuffer DEF AnySound
<1>2. CASE Arrays!Init
  <2>1. version \in {1, 2} /\ Versions \subseteq {3, 4}
    BY <1>2, VersionAssumption DEF Arrays!Init
  <2>2. ~Buffered /\ InArrays /\ ~Iterated
    BY <2>1 DEF Buffered, InArrays, Iterated
  <2> QED BY <1>2, <2>1, <2>2, InitArrays DEF AnySound
<1>3. CASE Iter!Init
  <2>1. version \in {5, 6} /\ Versions \subseteq {3, 4}
    BY <1>3, VersionAssumption DEF Iter!Init
  <2>2. ~Buffered /\ ~InArrays /\ Iterated
    BY <2>1 DEF Buffered, InArrays, Iterated
  <2> QED BY <1>3, <2>1, <2>2, InitIter DEF AnySound
<1> QED BY <1>1, <1>2, <1>3 DEF AnyInit

\* Each program takes its own steps.
LEMMA AnyStep == AnySound /\ AnyNext => AnySound'
<1> SUFFICES ASSUME AnySound, AnyNext PROVE AnySound'
  OBVIOUS
<1>1. version' = version /\ version \in Versions \cup {1, 2, 5, 6}
  BY VersionKept DEF AnySound
<1>2. (Buffered' <=> Buffered) /\ (InArrays' <=> InArrays) /\ (Iterated' <=> Iterated)
  BY <1>1 DEF Buffered, InArrays, Iterated
<1>3. ~(Buffered /\ Iterated) /\ ~(Buffered /\ InArrays) /\ ~(Iterated /\ InArrays)
  BY VersionAssumption DEF Buffered, InArrays, Iterated
<1>4. Buffered => BufferSound'
  BY <1>3, BufferStep DEF AnySound, AnyNext
<1>5. InArrays => ArraysSound'
  BY <1>3, ArraysStep DEF AnySound, AnyNext
<1>6. Iterated => IterSound'
  BY <1>3, IterStep DEF AnySound, AnyNext
<1> QED BY <1>1, <1>2, <1>4, <1>5, <1>6 DEF AnySound

LEMMA AnyStutter == AnySound /\ UNCHANGED vars => AnySound'
<1> SUFFICES ASSUME AnySound, UNCHANGED vars PROVE AnySound'
  OBVIOUS
<1>1. UNCHANGED <<version, vec, heap, op, tmp>>
  BY DEF vars
<1>2. (Buffered' <=> Buffered) /\ (InArrays' <=> InArrays) /\ (Iterated' <=> Iterated)
  BY <1>1 DEF Buffered, InArrays, Iterated
<1>3. ASSUME BufferSound PROVE BufferSound'
  <2>1. OpSound' /\ TmpSound'
    BY <1>1, <1>3 DEF BufferSound, OpSound, TmpSound, TmpSize, Idle, NoVector, Vector, Pushing, Copying
  <2> QED BY <1>1, <1>3, <2>1, MemoryKept DEF BufferSound
<1>4. ASSUME IterSound PROVE IterSound'
  <2>1. IterOpSound' /\ RoomSound'
    BY <1>1, <1>4 DEF IterSound, IterOpSound, RoomSound, Iter!FillCount, Iter!NoStorage, Iter!VectorStorage,
                      Idle, Building, Inserting, Walking
  <2>2. PushSound'
    BY <1>1, <1>4 DEF IterSound, PushSound, Argued, Doubled, Iter!IsElement
  <2>3. Unmoved' /\ WalkSound'
    BY <1>1, <1>4 DEF IterSound, Unmoved, Iter!moveOrCopyT, WalkSound, Seen
  <2> QED BY <1>1, <1>4, <2>1, <2>2, <2>3, MemoryKept DEF IterSound
<1>5. ASSUME ArrInvariant PROVE ArrInvariant'
  <2>1. \A v \in Vectors : Arrays!Bereft(v)' <=> Arrays!Bereft(v)
    BY <1>1 DEF Arrays!Bereft
  <2>2. ArrTypeOK' /\ Held(Hold, heap)' /\ Bare' /\ \A v \in Vectors : Hold'[v] # nullptr => Fits(vec[v], heap)'
    BY <1>1, <1>5, <2>1, ArrKept
  <2>3. ArrOpSound' /\ ArrPhases'
    BY <1>1, <1>5 DEF ArrInvariant, ArrOpSound, Shaped, Idle, ArrPhases, Arrays!NewSize, Arrays!CopyCount,
                      NoVector, Vector
  <2> QED BY <2>2, <2>3 DEF ArrInvariant
<1>6. ASSUME ArraysSound PROVE ArraysSound'
  BY <1>1, <1>5, <1>6 DEF ArraysSound
<1> QED BY <1>1, <1>2, <1>3, <1>4, <1>6 DEF AnySound

LEMMA AnyOwned == AnySound => MemoryOwned
<1> SUFFICES ASSUME AnySound PROVE MemoryOwned
  OBVIOUS
<1>1. CASE Buffered
  <2>1. ~InArrays /\ ~Iterated /\ OwnedOnce /\ ElementsExact
    BY <1>1, BufferOwned, VersionAssumption DEF AnySound, Buffered, InArrays, Iterated
  <2> QED BY <1>1, <2>1 DEF MemoryOwned
<1>2. CASE InArrays
  <2>1. ~Buffered /\ ~Iterated /\ Arrays!ArraysOwned
    BY <1>2, ArraysOwnedAlways DEF AnySound, InArrays
  <2> QED BY <1>2, <2>1 DEF MemoryOwned
<1>3. CASE Iterated
  <2>1. ~Buffered /\ ~InArrays /\ Iter!StorageOwned
    BY <1>3, IterOwned, VersionAssumption DEF AnySound, Buffered, InArrays, Iterated
  <2> QED BY <1>3, <2>1 DEF MemoryOwned
<1> QED BY <1>1, <1>2, <1>3 DEF InArrays

\* The memory of all five vectors stays sound, whatever their elements throw and
\* wherever: no buffer of MyVectorBuf or VectorStorage is leaked, freed twice or
\* shared, and exactly the slots that hold elements are destroyed; the arrays of
\* the first two versions have one owner each up to an exception of version 1.
THEOREM MemoryAlwaysOwned == AnySpec => []MemoryOwned
<1>1. AnyInit => AnySound
  BY InitAny
<1>2. AnySound /\ [AnyNext]_vars => AnySound'
  BY AnyStep, AnyStutter
<1>3. AnySound => MemoryOwned
  BY AnyOwned
<1> QED BY <1>1, <1>2, <1>3, PTL DEF AnySpec


-----------------------------------------------------------------------------
(* The contents of all vectors, one row of elements each.                  *)

\* C has one row for each vector of V, as long as the vector is.
Rows(C, V) == C = [v \in Vectors |-> [i \in 1..V[v].used |-> C[v][i]]]

\* The row of w in D, with vectors W, is that of u in C, with vectors V.
SameRow(D, W, w, C, V, u) == W[w].used = V[u].used /\ \A i \in 1..V[u].used : D[w][i] = C[u][i]

\* The rows of all vectors but v stay.
OtherRows(D, W, C, V, v) == \A w \in Vectors : w # v => SameRow(D, W, w, C, V, w)

LEMMA RowsEqual ==
  ASSUME NEW C, NEW V, Rows(C, V), NEW D, NEW W, Rows(D, W), NEW u \in Vectors, NEW w \in Vectors,
         SameRow(D, W, w, C, V, u)
  PROVE  D[w] = C[u]
<1>1. D[w] = [i \in 1..W[w].used |-> D[w][i]]
  BY Zenon DEF Rows
<1>2. C[u] = [i \in 1..V[u].used |-> C[u][i]]
  BY Zenon DEF Rows
<1>3. 1..W[w].used = 1..V[u].used
  BY DEF SameRow
<1>4. \A i \in 1..V[u].used : D[w][i] = C[u][i]
  BY DEF SameRow
<1> DEFINE n == 1..V[u].used
<1>5. D[w] = [i \in n |-> D[w][i]] /\ C[u] = [i \in n |-> C[u][i]] /\ \A i \in n : D[w][i] = C[u][i]
  BY <1>1, <1>2, <1>3, <1>4
<1> HIDE DEF n
<1>6. [i \in n |-> D[w][i]] = [i \in n |-> C[u][i]]
  BY <1>5
<1> QED BY <1>5, <1>6

\* Nothing changes.
LEMMA RowsSame ==
  ASSUME NEW C, NEW V, Rows(C, V), NEW D, NEW W, Rows(D, W),
         \A w \in Vectors : SameRow(D, W, w, C, V, w)
  PROVE  D = C
<1>1. \A w \in Vectors : D[w] = C[w]
  BY RowsEqual
<1>2. C = [v \in Vectors |-> C[v]] /\ D = [v \in Vectors |-> D[v]]
  BY DEF Rows
<1> QED BY <1>1, <1>2

\* One row becomes s.
LEMMA RowsUpdated ==
  ASSUME NEW C, NEW V, Rows(C, V), NEW D, NEW W, Rows(D, W), NEW v \in Vectors,
         OtherRows(D, W, C, V, v), NEW s, D[v] = s
  PROVE  D = [C EXCEPT ![v] = s]
<1>1. \A w \in Vectors : w # v => D[w] = C[w]
  BY RowsEqual DEF OtherRows
<1>2. C = [w \in Vectors |-> C[w]] /\ D = [w \in Vectors |-> D[w]]
  BY DEF Rows
<1> QED BY <1>1, <1>2

\* A row gets one element more.
LEMMA RowsPushed ==
  ASSUME NEW C, NEW V, Rows(C, V), NEW D, NEW W, Rows(D, W), NEW v \in Vectors, NEW x,
         OtherRows(D, W, C, V, v), V[v].used \in Nat, W[v].used = V[v].used + 1,
         \A i \in 1..V[v].used : D[v][i] = C[v][i], D[v][V[v].used + 1] = x
  PROVE  D = [C EXCEPT ![v] = Append(C[v], x)]
<1> DEFINE n == V[v].used
           c == C[v]
           d == D[v]
           S == {d[i] : i \in 1..(n + 1)}
<1>1. c = [i \in 1..n |-> c[i]] /\ d = [i \in 1..(n + 1) |-> d[i]] /\ n \in Nat
      /\ (\A i \in 1..n : d[i] = c[i]) /\ d[n + 1] = x
  BY Zenon DEF Rows
<1> HIDE DEF n, c, d
<1>2. (\A i \in 1..n : c[i] \in S) /\ x \in S
  <2>1. n + 1 \in 1..(n + 1) /\ \A i \in 1..n : i \in 1..(n + 1)
    BY <1>1
  <2> QED BY <1>1, <2>1
<1> HIDE DEF S
<1>3. c \in Seq(S) /\ Len(c) = n
  <2>1. c \in [1..n -> S] /\ n \in Nat
    BY <1>1, <1>2
  <2> QED BY <2>1
<1>4. d \in Seq(S) /\ Len(d) = n + 1
  <2>1. \A i \in 1..(n + 1) : d[i] \in S
    BY DEF S
  <2> QED BY <1>1, <2>1
<1>5. /\ Append(c, x) \in Seq(S) /\ Len(Append(c, x)) = n + 1
      /\ \A i \in 1..n : Append(c, x)[i] = c[i]
      /\ Append(c, x)[n + 1] = x
  BY <1>2, <1>3, AppendProperties
<1>6. \A i \in 1..(n + 1) : d[i] = Append(c, x)[i]
  <2>1. ASSUME NEW i \in 1..(n + 1) PROVE d[i] = Append(c, x)[i]
    <3>1. i \in 1..n \/ i = n + 1
      BY <1>1
    <3> QED BY <1>1, <1>5, <3>1
  <2> QED BY <2>1
<1>7. d = Append(c, x)
  BY <1>4, <1>5, <1>6, SeqEqual
<1>8. D[v] = Append(C[v], x)
  BY <1>7 DEF c, d
<1> QED BY <1>8, RowsUpdated

\* A row loses its last element.
LEMMA RowsPopped ==
  ASSUME NEW C, NEW V, Rows(C, V), NEW D, NEW W, Rows(D, W), NEW v \in Vectors,
         OtherRows(D, W, C, V, v), W[v].used \in Nat, V[v].used = W[v].used + 1,
         \A i \in 1..W[v].used : D[v][i] = C[v][i]
  PROVE  C[v] # << >> /\ D = [C EXCEPT ![v] = SubSeq(C[v], 1, Len(C[v]) - 1)]
<1> DEFINE n == W[v].used
           c == C[v]
           d == D[v]
           S == {c[i] : i \in 1..(n + 1)}
<1>1. c = [i \in 1..(n + 1) |-> c[i]] /\ d = [i \in 1..n |-> d[i]] /\ n \in Nat
      /\ (\A i \in 1..n : d[i] = c[i])
  BY Zenon DEF Rows
<1> HIDE DEF n, c, d
<1>2. \A i \in 1..n : d[i] \in S
  <2>1. \A i \in 1..n : i \in 1..(n + 1)
    BY <1>1
  <2> QED BY <1>1, <2>1
<1>3. \A i \in 1..(n + 1) : c[i] \in S
  OBVIOUS
<1> HIDE DEF S
<1>4. c \in Seq(S) /\ Len(c) = n + 1 /\ c # << >>
  <2>1. c \in Seq(S) /\ Len(c) = n + 1
    BY <1>1, <1>3
  <2> QED BY <1>1, <2>1, EmptySeq
<1>5. d \in Seq(S) /\ Len(d) = n
  <2>1. d \in [1..n -> S] /\ n \in Nat
    BY <1>1, <1>2
  <2> QED BY <2>1
<1> DEFINE e == SubSeq(c, 1, n)
<1>6. e \in Seq(S) /\ Len(e) = n /\ \A i \in 1..n : e[i] = c[i]
  <2>1. 1 \in Int /\ n \in Int /\ \A i \in 1..n : c[i] \in S
    BY <1>1, <1>3
  <2>2. /\ e \in Seq(S) /\ Len(e) = (IF 1 <= n THEN n - 1 + 1 ELSE 0)
        /\ \A i \in 1..(n - 1 + 1) : e[i] = c[1 + i - 1]
    BY <2>1, SubSeqProperties
  <2>3. n - 1 + 1 = n /\ (IF 1 <= n THEN n - 1 + 1 ELSE 0) = n /\ \A i \in 1..n : 1 + i - 1 = i
    BY <1>1
  <2> HIDE DEF e
  <2> QED BY <2>2, <2>3
<1>7. d = e
  <2> HIDE DEF e
  <2> QED BY <1>1, <1>5, <1>6, SeqEqual
<1>8. Len(c) - 1 = n
  BY <1>1, <1>4
<1>9. D[v] = SubSeq(C[v], 1, Len(C[v]) - 1) /\ C[v] # << >>
  BY <1>4, <1>7, <1>8 DEF c, d
<1> QED BY <1>9, RowsUpdated

\* Two vectors are exchanged.
LEMMA RowsMoved ==
  ASSUME NEW C, NEW V, Rows(C, V), NEW D, NEW W, Rows(D, W), NEW v \in Vectors, NEW w \in Vectors,
         SameRow(D, W, v, C, V, w), SameRow(D, W, w, C, V, v),
         \A u \in Vectors : u # v /\ u # w => SameRow(D, W, u, C, V, u)
  PROVE  D = [C EXCEPT ![v] = C[w], ![w] = C[v]]
<1>1. D[v] = C[w] /\ D[w] = C[v] /\ \A u \in Vectors : u # v /\ u # w => D[u] = C[u]
  BY RowsEqual
<1>2. C = [u \in Vectors |-> C[u]] /\ D = [u \in Vectors |-> D[u]]
  BY DEF Rows
<1> QED BY <1>1, <1>2

-----------------------------------------------------------------------------
(* Elements of a storage o in a heap h, with hd slots in front.            *)

Elt(h, o, hd, i) == h[o.arr][i + hd]

\* What counts as the i-th element: one that was moved on is in the temporary tm.
Val(h, o, tm, hd, i) ==
  IF Elt(h, o, hd, i) = "moved" /\ tm.arr # nullptr THEN Elt(h, tm, hd, i) ELSE Elt(h, o, hd, i)

\* The elements of all vectors are values, but for those of the vectors in M that
\* were moved on.  While tm is filled from the vectors in F it repeats theirs.
Keeps(h, V, tm, hd, F, M) ==
  /\ \A v \in Vectors : \A i \in 1..V[v].used :
       \/ Elt(h, V[v], hd, i) \in Values
       \/ v \in M /\ Elt(h, V[v], hd, i) = "moved" /\ i <= tm.used
  /\ \A s \in F : \A i \in 1..tm.used :
       /\ Elt(h, tm, hd, i) \in Values
       /\ i <= V[s].used => Elt(h, V[s], hd, i) \in {"moved", Elt(h, tm, hd, i)}

\* The contents C are the values in the vectors.
Holds(C, h, V, tm, hd) ==
  /\ Rows(C, V)
  /\ \A v \in Vectors : \A i \in 1..V[v].used : C[v][i] = Val(h, V[v], tm, hd, i)

\* In g the vectors W have the elements that the vectors V have in h,
SameElts(h, V, g, W, hd) ==
  /\ \A v \in Vectors : W[v].used = V[v].used
  /\ \A v \in Vectors : \A i \in 1..V[v].used : Elt(g, W[v], hd, i) = Elt(h, V[v], hd, i)

\* and v has x besides.
Appended(h, V, g, W, hd, v, x) ==
  /\ W[v].used = V[v].used + 1
  /\ \A w \in Vectors : w # v => W[w].used = V[w].used
  /\ \A w \in Vectors : \A i \in 1..W[w].used :
       Elt(g, W[w], hd, i) = IF w = v /\ i = V[v].used + 1 THEN x ELSE Elt(h, V[w], hd, i)

\* v has one less.
Shortened(h, V, g, W, hd, v) ==
  /\ V[v].used = W[v].used + 1
  /\ \A w \in Vectors : w # v => W[w].used = V[w].used
  /\ \A w \in Vectors : \A i \in 1..W[w].used : Elt(g, W[w], hd, i) = Elt(h, V[w], hd, i)

\* The j-th element of the vectors in T is moved from.
Taken(h, V, g, hd, T, j) ==
  \A w \in Vectors : \A m \in 1..V[w].used :
    Elt(g, V[w], hd, m) = IF w \in T /\ m = j THEN "moved" ELSE Elt(h, V[w], hd, m)

\* Storage tn has x after what tm had.
Followed(h, tm, g, tn, hd, x) ==
  /\ tn.used = tm.used + 1 /\ tn.arr # nullptr /\ tm.arr # nullptr
  /\ \A m \in 1..tn.used : Elt(g, tn, hd, m) = IF m = tm.used + 1 THEN x ELSE Elt(h, tm, hd, m)

\* The vectors W are V, but v is o.
Replaced(V, W, v, o) == W[v] = o /\ \A w \in Vectors : w # v => W[w] = V[w]

\* The vectors W are V with v and w exchanged.
Exchanged(V, W, v, w) ==
  W[v] = V[w] /\ W[w] = V[v] /\ \A u \in Vectors : u # v /\ u # w => W[u] = V[u]

\* What counts in w is what counted in u.
SameVals(h, o, tm, g, p, tn, hd) ==
  \A i \in 1..o.used : Val(g, p, tn, hd, i) = Val(h, o, tm, hd, i)

\* The numbers of elements.
Counts(V) == \A v \in Vectors : V[v].used \in Nat

LEMMA NotMoved == "moved" \notin Values
BY SlotAssumption

\* Where nothing is being moved the elements are what counts.
LEMMA ValPlain ==
  ASSUME NEW h, NEW V, NEW tm, NEW hd, NEW F, NEW M, Keeps(h, V, tm, hd, F, M),
         NEW v \in Vectors, v \notin M, NEW i \in 1..V[v].used
  PROVE  Val(h, V[v], tm, hd, i) = Elt(h, V[v], hd, i) /\ Elt(h, V[v], hd, i) \in Values
<1>1. Elt(h, V[v], hd, i) \in Values
  BY DEF Keeps
<1> QED BY <1>1, NotMoved DEF Val

\* What the temporary has is what counts in the vector it is filled from.
LEMMA ValCopied ==
  ASSUME NEW h, NEW V, NEW tm, NEW hd, NEW F, NEW M, Keeps(h, V, tm, hd, F, M),
         NEW s \in F, tm.used \in Nat, V[s].used \in Nat, tm.used > 0 => tm.arr # nullptr,
         NEW i \in 1..tm.used, i <= V[s].used
  PROVE  Val(h, V[s], tm, hd, i) = Elt(h, tm, hd, i) /\ Elt(h, tm, hd, i) \in Values
<1>1. Elt(h, tm, hd, i) \in Values /\ Elt(h, V[s], hd, i) \in {"moved", Elt(h, tm, hd, i)}
  BY DEF Keeps
<1>2. tm.arr # nullptr
  OBVIOUS
<1> QED BY <1>1, <1>2, NotMoved DEF Val

\* The elements stay while nothing is being moved; a temporary is empty at first.
LEMMA KeepsSame ==
  ASSUME NEW h, NEW V, NEW tm, NEW hd, NEW F, Keeps(h, V, tm, hd, F, {}),
         NEW g, NEW W, NEW tn, NEW G, NEW M, Counts(V), tn.used \in Nat,
         SameElts(h, V, g, W, hd), G # {} => tn.used = 0
  PROVE  /\ Keeps(g, W, tn, hd, G, M)
         /\ \A v \in Vectors : SameVals(h, V[v], tm, g, W[v], tn, hd)
<1> USE DEF SameElts, SameVals
<1>1. \A v \in Vectors : \A i \in 1..V[v].used : Elt(h, V[v], hd, i) \in Values
  BY DEF Keeps
<1>2. ASSUME NEW v \in Vectors, NEW i \in 1..W[v].used
      PROVE  Elt(g, W[v], hd, i) = Elt(h, V[v], hd, i) /\ Elt(g, W[v], hd, i) \in Values
  BY <1>1
<1>3. \A s \in G : 1..tn.used = {}
  OBVIOUS
<1>4. Keeps(g, W, tn, hd, G, M)
  BY <1>2, <1>3 DEF Keeps
<1>5. ASSUME NEW v \in Vectors, NEW i \in 1..V[v].used
      PROVE  Val(g, W[v], tn, hd, i) = Val(h, V[v], tm, hd, i)
  BY <1>1, <1>2, NotMoved DEF Val
<1> QED BY <1>4, <1>5

\* The temporary gets x, its j-th element; the vectors in T are moved from.
LEMMA KeepsFilled ==
  ASSUME NEW h, NEW V, NEW tm, NEW hd, NEW s \in Vectors, NEW M, Keeps(h, V, tm, hd, {s}, M),
         NEW g, NEW tn, NEW T, T \subseteq M, M \subseteq {s},
         Counts(V), tm.used \in Nat, NEW j, j = tm.used + 1,
         NEW x \in Values, j <= V[s].used => x = Elt(h, V[s], hd, j),
         Taken(h, V, g, hd, T, j), Followed(h, tm, g, tn, hd, x)
  PROVE  /\ Keeps(g, V, tn, hd, {s}, M)
         /\ \A v \in Vectors : SameVals(h, V[v], tm, g, V[v], tn, hd)
<1> USE DEF Taken, Followed, SameVals
<1>1. \A v \in Vectors : \A i \in 1..V[v].used : i \in Nat /\ i >= 1
  BY DEF Counts
<1>2. ASSUME NEW v \in Vectors, NEW i \in 1..V[v].used
      PROVE  /\ \/ Elt(g, V[v], hd, i) \in Values
                \/ v \in M /\ Elt(g, V[v], hd, i) = "moved" /\ i <= tn.used
             /\ Val(g, V[v], tn, hd, i) = Val(h, V[v], tm, hd, i)
  <2>1. \/ Elt(h, V[v], hd, i) \in Values
        \/ v \in M /\ Elt(h, V[v], hd, i) = "moved" /\ i <= tm.used
    BY DEF Keeps
  <2>2. Elt(g, V[v], hd, i) = IF v \in T /\ i = j THEN "moved" ELSE Elt(h, V[v], hd, i)
    OBVIOUS
  <2>3. CASE v \in T /\ i = j
    <3>1. v = s /\ v \in M /\ i <= tn.used /\ ~(i <= tm.used) /\ j \in 1..j /\ j <= V[s].used
      BY <1>1, <2>3
    <3>2. Elt(h, V[v], hd, i) = x /\ Elt(g, tn, hd, i) = x /\ Elt(g, V[v], hd, i) = "moved"
      BY <2>2, <2>3, <3>1
    <3>3. Val(g, V[v], tn, hd, i) = x
      BY <3>2 DEF Val
    <3>4. Val(h, V[v], tm, hd, i) = x
      BY <3>2, NotMoved DEF Val
    <3> QED BY <3>1, <3>2, <3>3, <3>4
  <2>4. CASE ~(v \in T /\ i = j)
    <3>1. Elt(g, V[v], hd, i) = Elt(h, V[v], hd, i)
      BY <2>2, <2>4
    <3>2. CASE Elt(h, V[v], hd, i) \in Values
      BY <3>1, <3>2, NotMoved DEF Val
    <3>3. CASE v \in M /\ Elt(h, V[v], hd, i) = "moved" /\ i <= tm.used
      <4>1. i \in 1..j /\ i # j /\ i <= tn.used
        BY <1>1, <3>3
      <4>2. Elt(g, tn, hd, i) = Elt(h, tm, hd, i)
        BY <4>1
      <4> QED BY <3>1, <3>3, <4>1, <4>2 DEF Val
    <3> QED BY <2>1, <3>2, <3>3
  <2> QED BY <2>3, <2>4
<1>3. ASSUME NEW i \in 1..tn.used
      PROVE  /\ Elt(g, tn, hd, i) \in Values
             /\ i <= V[s].used => Elt(g, V[s], hd, i) \in {"moved", Elt(g, tn, hd, i)}
  <2>0. i \in 1..j /\ (i <= V[s].used => i \in 1..V[s].used)
    BY DEF Counts
  <2>1. Elt(g, tn, hd, i) = IF i = j THEN x ELSE Elt(h, tm, hd, i)
    BY <2>0
  <2>2. i <= V[s].used => Elt(g, V[s], hd, i) \in {"moved", Elt(h, V[s], hd, i)}
    BY <2>0
  <2>3. CASE i = j
    BY <2>1, <2>2, <2>3
  <2>4. CASE i # j
    <3>1. i \in 1..tm.used
      BY <2>0, <2>4
    <3>2. /\ Elt(h, tm, hd, i) \in Values
          /\ i <= V[s].used => Elt(h, V[s], hd, i) \in {"moved", Elt(h, tm, hd, i)}
      BY <3>1 DEF Keeps
    <3> QED BY <2>1, <2>2, <2>4, <3>2
  <2> QED BY <2>3, <2>4
<1> QED BY <1>2, <1>3 DEF Keeps

\* The temporary becomes vector v.
LEMMA KeepsExchanged ==
  ASSUME NEW h, NEW V, NEW tm, NEW hd, NEW s \in Vectors, NEW M, Keeps(h, V, tm, hd, {s}, M),
         NEW W, NEW tn, NEW v \in Vectors, M \subseteq {v}, Replaced(V, W, v, tm)
  PROVE  /\ Keeps(h, W, tn, hd, {}, {})
         /\ \A i \in 1..tm.used : Val(h, W[v], tn, hd, i) = Elt(h, tm, hd, i)
         /\ \A w \in Vectors : w # v => SameVals(h, V[w], tm, h, W[w], tn, hd)
<1> USE DEF SameVals, Replaced
<1>1. \A i \in 1..tm.used : Elt(h, tm, hd, i) \in Values
  BY DEF Keeps
<1>2. ASSUME NEW w \in Vectors, w # v, NEW i \in 1..V[w].used
      PROVE  Elt(h, W[w], hd, i) \in Values /\ Elt(h, W[w], hd, i) = Elt(h, V[w], hd, i)
  <2>1. w \notin M
    BY <1>2
  <2> QED BY <1>2, <2>1 DEF Keeps
<1>3. ASSUME NEW w \in Vectors, NEW i \in 1..W[w].used
      PROVE  Elt(h, W[w], hd, i) \in Values
  BY <1>1, <1>2
<1>4. Keeps(h, W, tn, hd, {}, {})
  BY <1>3 DEF Keeps
<1>5. \A i \in 1..tm.used : Val(h, W[v], tn, hd, i) = Elt(h, tm, hd, i)
  BY <1>1, NotMoved DEF Val
<1>6. ASSUME NEW w \in Vectors, w # v, NEW i \in 1..V[w].used
      PROVE  Val(h, W[w], tn, hd, i) = Val(h, V[w], tm, hd, i)
  BY <1>2, <1>6, NotMoved DEF Val
<1> QED BY <1>4, <1>5, <1>6

\* Vector v gets x in place.
LEMMA KeepsGrown ==
  ASSUME NEW h, NEW V, NEW tm, NEW hd, NEW F, Keeps(h, V, tm, hd, F, {}), Counts(V),
         NEW g, NEW W, NEW tn, NEW v \in Vectors, NEW x \in Values, Appended(h, V, g, W, hd, v, x)
  PROVE  /\ Keeps(g, W, tn, hd, {}, {})
         /\ Val(g, W[v], tn, hd, V[v].used + 1) = x
         /\ \A w \in Vectors : SameVals(h, V[w], tm, g, W[w], tn, hd)
<1> USE DEF Appended, SameVals
<1>1. \A w \in Vectors : \A i \in 1..V[w].used : Elt(h, V[w], hd, i) \in Values
  BY DEF Keeps
<1>2. ASSUME NEW w \in Vectors, NEW i \in 1..W[w].used, ~(w = v /\ i = V[v].used + 1)
      PROVE  i \in 1..V[w].used
  BY <1>2 DEF Counts
<1>3. ASSUME NEW w \in Vectors, NEW i \in 1..W[w].used PROVE Elt(g, W[w], hd, i) \in Values
  BY <1>1, <1>2
<1>4. Keeps(g, W, tn, hd, {}, {})
  BY <1>3 DEF Keeps
<1>5. V[v].used + 1 \in 1..W[v].used
  BY DEF Counts
<1>6. Elt(g, W[v], hd, V[v].used + 1) = x
  BY <1>5
<1>7. Val(g, W[v], tn, hd, V[v].used + 1) = x
  BY <1>6, NotMoved DEF Val
<1>8. ASSUME NEW w \in Vectors, NEW i \in 1..V[w].used
      PROVE  Val(g, W[w], tn, hd, i) = Val(h, V[w], tm, hd, i)
  <2>1. i \in 1..W[w].used /\ ~(w = v /\ i = V[v].used + 1)
    BY DEF Counts
  <2>2. Elt(g, W[w], hd, i) = Elt(h, V[w], hd, i) /\ Elt(h, V[w], hd, i) \in Values
    BY <1>1, <2>1
  <2> QED BY <2>2, NotMoved DEF Val
<1> QED BY <1>4, <1>7, <1>8

\* Vector v loses its last element.
LEMMA KeepsShrunk ==
  ASSUME NEW h, NEW V, NEW tm, NEW hd, NEW F, Keeps(h, V, tm, hd, F, {}), Counts(V),
         NEW g, NEW W, Counts(W), NEW tn, NEW v \in Vectors, Shortened(h, V, g, W, hd, v)
  PROVE  /\ Keeps(g, W, tn, hd, {}, {})
         /\ \A w \in Vectors : SameVals(g, W[w], tn, h, V[w], tm, hd)
<1> USE DEF Shortened, SameVals
<1>0. \A w \in Vectors : \A i \in 1..W[w].used : i \in 1..V[w].used
  BY DEF Counts
<1>1. \A w \in Vectors : \A i \in 1..V[w].used : Elt(h, V[w], hd, i) \in Values
  BY DEF Keeps
<1>2. \A w \in Vectors : \A i \in 1..W[w].used :
        Elt(g, W[w], hd, i) \in Values /\ Elt(g, W[w], hd, i) = Elt(h, V[w], hd, i)
  BY <1>0, <1>1
<1> QED BY <1>2, NotMoved DEF Val, Keeps

\* Two vectors are exchanged.
LEMMA KeepsMoved ==
  ASSUME NEW h, NEW V, NEW tm, NEW hd, NEW F, Keeps(h, V, tm, hd, F, {}),
         NEW W, NEW tn, NEW v \in Vectors, NEW w \in Vectors,
         Exchanged(V, W, v, w)
  PROVE  /\ Keeps(h, W, tn, hd, {}, {})
         /\ SameVals(h, V[w], tm, h, W[v], tn, hd) /\ SameVals(h, V[v], tm, h, W[w], tn, hd)
         /\ \A u \in Vectors : u # v /\ u # w => SameVals(h, V[u], tm, h, W[u], tn, hd)
<1> USE DEF Exchanged, SameVals
<1>1. \A u \in Vectors : \A i \in 1..V[u].used : Elt(h, V[u], hd, i) \in Values
  BY DEF Keeps
<1>2. \A u \in Vectors : \E y \in Vectors : W[u] = V[y]
  OBVIOUS
<1>3. \A u \in Vectors : \A i \in 1..W[u].used : Elt(h, W[u], hd, i) \in Values
  BY <1>1, <1>2
<1>4. Keeps(h, W, tn, hd, {}, {})
  BY <1>3 DEF Keeps
<1>5. \A u \in Vectors : \A i \in 1..V[u].used :
        Val(h, V[u], tn, hd, i) = Val(h, V[u], tm, hd, i)
  BY <1>1, NotMoved DEF Val
<1> QED BY <1>4, <1>5

\* From the values to a step of the abstract specification.
LEMMA HoldsSame ==
  ASSUME NEW C, NEW h, NEW V, NEW tm, NEW hd, Holds(C, h, V, tm, hd),
         NEW D, NEW g, NEW W, NEW tn, Holds(D, g, W, tn, hd),
         \A v \in Vectors : W[v].used = V[v].used,
         \A v \in Vectors : SameVals(h, V[v], tm, g, W[v], tn, hd)
  PROVE  D = C
<1> USE DEF SameVals
<1>1. Rows(C, V) /\ Rows(D, W)
  BY DEF Holds
<1>2. ASSUME NEW v \in Vectors PROVE SameRow(D, W, v, C, V, v)
  BY DEF Holds, SameRow
<1> QED BY <1>1, <1>2, RowsSame

LEMMA HoldsPushed ==
  ASSUME NEW C, NEW h, NEW V, NEW tm, NEW hd, Holds(C, h, V, tm, hd),
         NEW D, NEW g, NEW W, NEW tn, Holds(D, g, W, tn, hd), NEW v \in Vectors, NEW x,
         V[v].used \in Nat, W[v].used = V[v].used + 1, \A w \in Vectors : w # v => W[w].used = V[w].used,
         Val(g, W[v], tn, hd, V[v].used + 1) = x,
         \A w \in Vectors : SameVals(h, V[w], tm, g, W[w], tn, hd)
  PROVE  D = [C EXCEPT ![v] = Append(C[v], x)]
<1> USE DEF SameVals
<1>1. Rows(C, V) /\ Rows(D, W)
  BY DEF Holds
<1>2. OtherRows(D, W, C, V, v)
  <2>1. ASSUME NEW w \in Vectors, w # v PROVE SameRow(D, W, w, C, V, w)
    BY <2>1 DEF Holds, SameRow
  <2> QED BY <2>1 DEF OtherRows
<1>3. \A i \in 1..V[v].used : i \in 1..W[v].used
  OBVIOUS
<1>4. V[v].used + 1 \in 1..W[v].used
  OBVIOUS
<1>5. (\A i \in 1..V[v].used : D[v][i] = C[v][i]) /\ D[v][V[v].used + 1] = x
  BY <1>3, <1>4 DEF Holds
<1> QED BY <1>1, <1>2, <1>5, RowsPushed

LEMMA HoldsPopped ==
  ASSUME NEW C, NEW h, NEW V, NEW tm, NEW hd, Holds(C, h, V, tm, hd),
         NEW D, NEW g, NEW W, NEW tn, Holds(D, g, W, tn, hd), NEW v \in Vectors,
         W[v].used \in Nat, V[v].used = W[v].used + 1, \A w \in Vectors : w # v => W[w].used = V[w].used,
         \A w \in Vectors : SameVals(g, W[w], tn, h, V[w], tm, hd)
  PROVE  C[v] # << >> /\ D = [C EXCEPT ![v] = SubSeq(C[v], 1, Len(C[v]) - 1)]
<1> USE DEF SameVals
<1>1. Rows(C, V) /\ Rows(D, W)
  BY DEF Holds
<1>2. OtherRows(D, W, C, V, v)
  <2>1. ASSUME NEW w \in Vectors, w # v PROVE SameRow(D, W, w, C, V, w)
    BY <2>1 DEF Holds, SameRow
  <2> QED BY <2>1 DEF OtherRows
<1>3. \A i \in 1..W[v].used : i \in 1..V[v].used
  OBVIOUS
<1>5. \A i \in 1..W[v].used : D[v][i] = C[v][i]
  BY <1>3 DEF Holds
<1> QED BY <1>1, <1>2, <1>5, RowsPopped

\* Vector v becomes what vector s is.
LEMMA HoldsCopied ==
  ASSUME NEW C, NEW h, NEW V, NEW tm, NEW hd, Holds(C, h, V, tm, hd),
         NEW D, NEW g, NEW W, NEW tn, Holds(D, g, W, tn, hd), NEW v \in Vectors, NEW s \in Vectors,
         W[v].used = V[s].used, \A w \in Vectors : w # v => W[w].used = V[w].used,
         SameVals(h, V[s], tm, g, W[v], tn, hd),
         \A w \in Vectors : w # v => SameVals(h, V[w], tm, g, W[w], tn, hd)
  PROVE  D = [C EXCEPT ![v] = C[s]]
<1> USE DEF SameVals
<1>1. Rows(C, V) /\ Rows(D, W)
  BY DEF Holds
<1>2. OtherRows(D, W, C, V, v)
  <2>1. ASSUME NEW w \in Vectors, w # v PROVE SameRow(D, W, w, C, V, w)
    BY <2>1 DEF Holds, SameRow
  <2> QED BY <2>1 DEF OtherRows
<1>3. SameRow(D, W, v, C, V, s)
  BY DEF Holds, SameRow
<1>4. D[v] = C[s]
  BY <1>1, <1>3, RowsEqual
<1> QED BY <1>1, <1>2, <1>4, RowsUpdated

LEMMA HoldsMoved ==
  ASSUME NEW C, NEW h, NEW V, NEW tm, NEW hd, Holds(C, h, V, tm, hd),
         NEW D, NEW g, NEW W, NEW tn, Holds(D, g, W, tn, hd), NEW v \in Vectors, NEW w \in Vectors,
         Exchanged(V, W, v, w),
         SameVals(h, V[w], tm, g, W[v], tn, hd), SameVals(h, V[v], tm, g, W[w], tn, hd),
         \A u \in Vectors : u # v /\ u # w => SameVals(h, V[u], tm, g, W[u], tn, hd)
  PROVE  D = [C EXCEPT ![v] = C[w], ![w] = C[v]]
<1> USE DEF SameVals, Exchanged
<1>1. Rows(C, V) /\ Rows(D, W)
  BY DEF Holds
<1>2. SameRow(D, W, v, C, V, w) /\ SameRow(D, W, w, C, V, v)
  BY DEF Holds, SameRow
<1>3. ASSUME NEW u \in Vectors, u # v, u # w PROVE SameRow(D, W, u, C, V, u)
  BY <1>3 DEF Holds, SameRow
<1> QED BY <1>1, <1>2, <1>3, RowsMoved

-----------------------------------------------------------------------------
(* Versions 3 and 4.                                                       *)

\* The vectors that tmp is filled from, and those whose elements are moved.
Feeding == IF op.pc \in {"fill", "swap"} THEN {op.from} ELSE {}
Emptied == IF op.pc \in {"fill", "swap"} /\ Moves THEN {op.v} ELSE {}

\* When the swap comes tmp is complete.
Completed ==
  op.pc = "swap" =>
    IF op.name = "push" THEN tmp.used = vec[op.v].used + 1 /\ Elt(heap, tmp, 0, vec[op.v].used + 1) = op.t
    ELSE tmp.used = vec[op.from].used

\* The invariant of versions 3 and 4 that the refinement needs.
BufferKeeps == Keeps(heap, vec, tmp, 0, Feeding, Emptied) /\ Completed

LEMMA CountsFacts ==
  ASSUME NEW hd \in {0, 1}, Memory(hd)
  PROVE  /\ Counts(vec) /\ tmp.used \in Nat /\ (tmp.used > 0 => tmp.arr # nullptr)
         /\ tmp.size \in Nat /\ tmp.used <= tmp.size
         /\ \A v \in Vectors : vec[v].size \in Nat /\ vec[v].used <= vec[v].size
<1>1. \A v \in Vectors : vec[v].size \in Nat /\ vec[v].used \in Nat /\ vec[v].used <= vec[v].size
  BY MemoryFacts
<1>2. tmp.size \in Nat /\ tmp.used \in Nat /\ tmp.used <= tmp.size /\ (tmp.size > 0 => tmp.arr # nullptr)
  BY MemoryFacts
<1> QED BY <1>1, <1>2 DEF Counts

\* What ContentsOf finds.
LEMMA BufferHolds ==
  ASSUME NEW h, NEW V, NEW tm, Counts(V), NEW C,
         C = [v \in Vectors |-> [i \in 1..V[v].used |->
                LET x == h[V[v].arr][i] IN IF x = "moved" /\ tm.arr # nullptr THEN h[tm.arr][i] ELSE x]]
  PROVE  Holds(C, h, V, tm, 0)
<1>1. \A v \in Vectors : \A i \in 1..V[v].used : i + 0 = i
  BY DEF Counts
<1>2. \A v \in Vectors : C[v] = [i \in 1..V[v].used |->
        LET x == h[V[v].arr][i] IN IF x = "moved" /\ tm.arr # nullptr THEN h[tm.arr][i] ELSE x]
  BY Zenon
<1>3. ASSUME NEW v \in Vectors, NEW i \in 1..V[v].used
      PROVE  C[v][i] = Val(h, V[v], tm, 0, i)
  <2>1. C[v][i] = IF h[V[v].arr][i] = "moved" /\ tm.arr # nullptr THEN h[tm.arr][i] ELSE h[V[v].arr][i]
    BY <1>2
  <2>2. i + 0 = i
    BY <1>1
  <2> QED BY <2>1, <2>2, Zenon DEF Val, Elt
<1>4. Rows(C, V)
  <2>1. \A v \in Vectors : C[v] = [i \in 1..V[v].used |-> C[v][i]]
    BY <1>2
  <2>2. C = [v \in Vectors |-> C[v]]
    OBVIOUS
  <2> QED BY <2>1, <2>2, Zenon DEF Rows
<1> QED BY <1>3, <1>4 DEF Holds

\* Whose contents AnyContents are,
LEMMA WhoseContents ==
  /\ Buffered => AnyContents = [v \in Vectors |-> ContentsOf(v)]
  /\ InArrays => AnyContents = Arrays!Contents
  /\ Iterated => AnyContents = Iter!Contents
<1>1. (Buffered => ~InArrays /\ ~Iterated) /\ (InArrays => ~Iterated)
  BY VersionAssumption DEF Buffered, InArrays, Iterated
<1> QED BY <1>1 DEF AnyContents

\* and after a step.
LEMMA WhoseNextContents ==
  /\ Buffered' => AnyContents' = [v \in Vectors |-> ContentsOf(v)']
  /\ InArrays' => AnyContents' = Arrays!Contents'
  /\ Iterated' => AnyContents' = Iter!Contents'
<1>1. (Buffered' => ~InArrays' /\ ~Iterated') /\ (InArrays' => ~Iterated')
  BY VersionAssumption DEF Buffered, InArrays, Iterated
<1> QED BY <1>1 DEF AnyContents

LEMMA BufferContents ==
  ASSUME Buffered, Memory(0)
  PROVE  Holds(AnyContents, heap, vec, tmp, 0)
<1>1. Counts(vec)
  BY CountsFacts
<1>2. AnyContents = [v \in Vectors |-> ContentsOf(v)]
  BY WhoseContents
<1>3. AnyContents = [v \in Vectors |-> [i \in 1..vec[v].used |->
        LET x == heap[vec[v].arr][i] IN IF x = "moved" /\ tmp.arr # nullptr THEN heap[tmp.arr][i] ELSE x]]
  BY <1>2 DEF ContentsOf
<1> QED BY <1>1, <1>3, BufferHolds

LEMMA BufferNextContents ==
  ASSUME Buffered', Memory(0)'
  PROVE  Holds(AnyContents', heap', vec', tmp', 0)
<1>1. Counts(vec')
  BY DEF Counts, Memory, VecTypeOK, Storages
<1>2. AnyContents' = [v \in Vectors |-> ContentsOf(v)']
  BY WhoseNextContents
<1>3. AnyContents' = [v \in Vectors |-> [i \in 1..vec'[v].used |->
        LET x == heap'[vec'[v].arr][i] IN IF x = "moved" /\ tmp'.arr # nullptr THEN heap'[tmp'.arr][i] ELSE x]]
  BY <1>2 DEF ContentsOf
<1> QED BY <1>1, <1>3, BufferHolds

\* A step that leaves all elements where they are; the temporary, if it is to be
\* filled, is empty yet.
LEMMA BufferQuiet ==
  ASSUME Buffered, version' = version, Memory(0), Memory(0)', BufferKeeps, Emptied = {},
         SameElts(heap, vec, heap', vec', 0),
         op'.pc \in {"fill", "swap"} => tmp'.used = 0
  PROVE  /\ Keeps(heap', vec', tmp', 0, Feeding', Emptied')
         /\ UNCHANGED AnyContents
<1>1. Holds(AnyContents, heap, vec, tmp, 0)
  BY BufferContents
<1>2. Holds(AnyContents', heap', vec', tmp', 0)
  <2>1. Buffered'
    BY DEF Buffered
  <2> QED BY <2>1, BufferNextContents
<1>3. Counts(vec) /\ tmp'.used \in Nat
  BY CountsFacts DEF Memory, VecTypeOK, Storages
<1>4. Keeps(heap, vec, tmp, 0, Feeding, {})
  BY DEF BufferKeeps
<1>5. Feeding' # {} => tmp'.used = 0
  BY DEF Feeding
<1>6. /\ Keeps(heap', vec', tmp', 0, Feeding', Emptied')
      /\ \A v \in Vectors : SameVals(heap, vec[v], tmp, heap', vec'[v], tmp', 0)
  BY <1>3, <1>4, <1>5, KeepsSame
<1>7. AnyContents' = AnyContents
  <2>1. \A v \in Vectors : vec'[v].used = vec[v].used
    BY DEF SameElts
  <2> QED BY <1>1, <1>2, <1>6, <2>1, HoldsSame
<1> QED BY <1>6, <1>7

\* push and copy start, and version 4 has copied the argument.
LEMMA BufferStarts ==
  ASSUME Buffered, version' = version, Memory(0), BufferKeeps,
         UNCHANGED <<vec, heap, tmp>>, op.pc \in {"idle", "copy"}, op'.pc \in {"copy", "alloc", "here"}
  PROVE  BufferKeeps' /\ UNCHANGED AnyContents
<1>1. Memory(0)' /\ Emptied = {}
  BY MemoryKept DEF Emptied
<1>2. SameElts(heap, vec, heap', vec', 0)
  BY DEF SameElts
<1>3. /\ Keeps(heap', vec', tmp', 0, Feeding', Emptied')
      /\ UNCHANGED AnyContents
  BY <1>1, <1>2, BufferQuiet
<1> QED BY <1>3 DEF BufferKeeps, Completed

LEMMA BufferAllocate ==
  ASSUME Buffered, BufferSound, BufferSound', BufferKeeps, NEW b \in Buffers, Allocate(b)
  PROVE  BufferKeeps' /\ UNCHANGED AnyContents
<1>1. /\ op.pc = "alloc" /\ version' = version /\ vec' = vec /\ heap[b] = << >> /\ tmp'.used = 0
      /\ heap' = [heap EXCEPT ![b] = [i \in 1..TmpSize |-> "raw"]] /\ Goto("fill")
  BY DEF Allocate, At, Allocated, New, Vector
<1>2. Memory(0) /\ Memory(0)' /\ Emptied = {} /\ Sound(Owners, heap, 0)
  BY <1>1 DEF BufferSound, Emptied, Memory
<1>3. op'.pc = "fill"
  BY <1>1, GotoFacts DEF BufferSound
<1>4. ASSUME NEW v \in Vectors, NEW i \in 1..vec[v].used
      PROVE  Elt(heap', vec'[v], 0, i) = Elt(heap, vec[v], 0, i)
  <2>1. \A w \in Names : \A m \in 1..Owners[w].size : heap'[Owners[w].arr][m + 0] = heap[Owners[w].arr][m + 0]
    <3> DEFINE s == [i1 \in 1..TmpSize |-> "raw"]
               O == Owners
    <3>1. heap' = [heap EXCEPT ![b] = s] /\ heap[b] = << >> /\ Sound(O, heap, 0)
      BY <1>1, <1>2
    <3> HIDE DEF s, O
    <3>2. \A w \in Names : \A m \in 1..O[w].size : heap'[O[w].arr][m + 0] = heap[O[w].arr][m + 0]
      BY <3>1, SlotsAllocated
    <3> QED BY <3>2 DEF O
  <2>2. v \in Names /\ Owners[v] = vec[v]
    BY OwnersAre
  <2>3. i \in 1..vec[v].size
    BY <1>2, CountsFacts DEF Counts
  <2> QED BY <1>1, <2>1, <2>2, <2>3 DEF Elt
<1>5. /\ Keeps(heap', vec', tmp', 0, Feeding', Emptied')
      /\ UNCHANGED AnyContents
  <2>1. SameElts(heap, vec, heap', vec', 0)
    BY <1>1, <1>4 DEF SameElts
  <2> QED BY <1>1, <1>2, <2>1, BufferQuiet
<1> QED BY <1>3, <1>5 DEF BufferKeeps, Completed

LEMMA BufferAllocateNone ==
  ASSUME Buffered, BufferSound, BufferSound', BufferKeeps, AllocateNone
  PROVE  BufferKeeps' /\ UNCHANGED AnyContents
<1>1. /\ op.pc = "alloc" /\ TmpSize = 0 /\ version' = version /\ vec' = vec /\ heap' = heap /\ tmp'.used = 0
      /\ Goto("swap")
  BY DEF AllocateNone, At, NoVector, Vector
<1>2. Memory(0) /\ Memory(0)' /\ Emptied = {}
  BY <1>1 DEF BufferSound, Emptied
<1>3. op'.pc = "swap" /\ op'.name = op.name /\ op'.v = op.v /\ op'.from = op.from
  BY <1>1, GotoFacts DEF BufferSound
<1>4. op.v \in Vectors /\ op.from \in Vectors
  BY <1>1, OpFacts DEF BufferSound
<1>5. vec[op.v].size \in Nat
  BY <1>2, <1>4, CountsFacts
<1>6. op.name # "push" /\ vec[op.from].used = 0
  BY <1>1, <1>5 DEF TmpSize
<1>7. Completed'
  BY <1>1, <1>3, <1>6 DEF Completed
<1>8. /\ Keeps(heap', vec', tmp', 0, Feeding', Emptied')
      /\ UNCHANGED AnyContents
  <2>1. SameElts(heap, vec, heap', vec', 0)
    BY <1>1 DEF SameElts
  <2> QED BY <1>1, <1>2, <2>1, BufferQuiet
<1> QED BY <1>7, <1>8 DEF BufferKeeps

LEMMA BufferDestroy ==
  ASSUME Buffered, version' = version, BufferSound, BufferSound', BufferKeeps, DestroyTmp, op' = Idle, vec' = vec,
         Emptied = {}
  PROVE  BufferKeeps' /\ UNCHANGED AnyContents
<1>1. /\ heap' = IF tmp.arr = nullptr THEN heap ELSE [heap EXCEPT ![tmp.arr] = << >>]
      /\ op'.pc = "idle"
  BY DEF DestroyTmp, Idle
<1>2. Memory(0) /\ Memory(0)' /\ Sound(Owners, heap, 0)
  BY DEF BufferSound, Memory
<1>4. ASSUME NEW v \in Vectors, NEW i \in 1..vec[v].used
      PROVE  Elt(heap', vec'[v], 0, i) = Elt(heap, vec[v], 0, i)
  <2>0. "tmp" \in Names /\ Owners["tmp"] = tmp /\ v \in Names /\ v # "tmp" /\ Owners[v] = vec[v]
    BY OwnersAre
  <2>1. \A w \in Names \ {"tmp"} : \A m \in 1..Owners[w].size :
          heap'[Owners[w].arr][m + 0] = heap[Owners[w].arr][m + 0]
    BY <1>1, <1>2, <2>0, SlotsFreed
  <2>3. i \in 1..vec[v].size
    BY <1>2, CountsFacts DEF Counts
  <2> QED BY <2>0, <2>1, <2>3 DEF Elt
<1>5. /\ Keeps(heap', vec', tmp', 0, Feeding', Emptied')
      /\ UNCHANGED AnyContents
  <2>1. SameElts(heap, vec, heap', vec', 0)
    BY <1>1, <1>4 DEF SameElts
  <2> QED BY <1>1, <1>2, <2>1, BufferQuiet
<1> QED BY <1>1, <1>5 DEF BufferKeeps, Completed

\* An exception passes only while nothing is being moved.
LEMMA ThrowQuiet ==
  ASSUME MayThrow
  PROVE  Emptied = {}
BY DEF MayThrow, Emptied, At

\* tmp gets its next element, and nothing else changes but what was moved.
LEMMA BufferFilled ==
  ASSUME Buffered, version' = version, Memory(0), Memory(0)', vec' = vec, op.pc = "fill",
         op.from \in Vectors, Keeps(heap, vec, tmp, 0, {op.from}, Emptied), Emptied \subseteq {op.from},
         NEW T, T \subseteq Emptied, NEW x \in Values,
         tmp.used + 1 <= vec[op.from].used => x = Elt(heap, vec[op.from], 0, tmp.used + 1),
         Taken(heap, vec, heap', 0, T, tmp.used + 1), Followed(heap, tmp, heap', tmp', 0, x)
  PROVE  Keeps(heap', vec', tmp', 0, {op.from}, Emptied) /\ UNCHANGED AnyContents
<1>1. Holds(AnyContents, heap, vec, tmp, 0)
  BY BufferContents
<1>2. Holds(AnyContents', heap', vec', tmp', 0)
  <2>1. Buffered'
    BY DEF Buffered
  <2> QED BY <2>1, BufferNextContents
<1>3. Counts(vec) /\ tmp.used \in Nat
  BY CountsFacts
<1>4. /\ Keeps(heap', vec, tmp', 0, {op.from}, Emptied)
      /\ \A v \in Vectors : SameVals(heap, vec[v], tmp, heap', vec[v], tmp', 0)
  BY <1>3, KeepsFilled
<1>5. AnyContents' = AnyContents
  <2>1. /\ \A v \in Vectors : vec'[v].used = vec[v].used
        /\ \A v \in Vectors : SameVals(heap, vec[v], tmp, heap', vec'[v], tmp', 0)
    BY <1>4
  <2> QED BY <1>1, <1>2, <2>1, HoldsSame
<1> QED BY <1>4, <1>5

\* The vectors in the phases of filling and swapping.
LEMMA FeedFacts ==
  ASSUME BufferSound, BufferKeeps, op.pc \in {"fill", "swap"}
  PROVE  /\ op.from \in Vectors /\ op.v \in Vectors /\ Feeding = {op.from}
         /\ Keeps(heap, vec, tmp, 0, {op.from}, Emptied)
         /\ Emptied \subseteq {op.from} /\ Emptied \subseteq {op.v}
         /\ op.name # "push" => op.name = "copy" /\ Emptied = {}
         /\ op.name = "push" => op.from = op.v /\ op.t \in Values
<1>1. /\ op.from \in Vectors /\ op.v \in Vectors
      /\ op.name = "push" => op.from = op.v /\ op.t \in Values
      /\ op.name # "push" => op.name = "copy"
  BY OpFacts DEF BufferSound
<1>2. Feeding = {op.from}
  BY DEF Feeding
<1>3. CASE op.name = "push"
  <2>1. Emptied \subseteq {op.v}
    BY DEF Emptied
  <2> QED BY <1>1, <1>2, <1>3, <2>1 DEF BufferKeeps
<1>4. CASE op.name # "push"
  <2>1. Emptied = {}
    BY <1>4 DEF Emptied, Moves
  <2> QED BY <1>1, <1>2, <1>4, <2>1 DEF BufferKeeps
<1> QED BY <1>3, <1>4

LEMMA BufferFill ==
  ASSUME Buffered, BufferSound, BufferSound', BufferKeeps, Fill
  PROVE  BufferKeeps' /\ UNCHANGED AnyContents
<1> DEFINE j == tmp.used + 1
           s == op.from
           x == heap[Source][j]
           taken == IF Moves THEN [heap EXCEPT ![Source][j] = "moved"] ELSE heap
<1>1. /\ op.pc = "fill" /\ tmp.used < vec[s].used /\ vec' = vec /\ op' = op /\ version' = version
      /\ heap' = [taken EXCEPT ![tmp.arr][j] = x] /\ tmp' = [tmp EXCEPT !.used = tmp.used + 1]
  BY DEF Fill, At, Constructed
<1>2. Memory(0) /\ Memory(0)'
  BY DEF BufferSound
<1>3. /\ s \in Vectors /\ Feeding = {s} /\ Keeps(heap, vec, tmp, 0, {s}, Emptied) /\ Emptied \subseteq {s}
  BY <1>1, FeedFacts
<1>4. /\ tmp.used \in Nat /\ vec[s].used \in Nat /\ vec[s].used <= tmp.size /\ tmp.arr # nullptr
  BY <1>1, FillRoom
<1>5. /\ tmp.size \in Nat /\ vec[s].size \in Nat /\ vec[s].used <= vec[s].size /\ Counts(vec)
  BY <1>2, <1>3, CountsFacts
<1>6. /\ j \in 1..vec[s].used /\ j \in 1..vec[s].size /\ j \in 1..tmp.size /\ j + 0 = j
      /\ ~(j <= tmp.used)
  BY <1>1, <1>4, <1>5
<1>7. x = Elt(heap, vec[s], 0, j)
  BY <1>6 DEF Elt, Source
<1> HIDE DEF x, j
<1>8. x \in Values
  BY <1>3, <1>6, <1>7 DEF Keeps
<1>9. Emptied = (IF Moves THEN {op.v} ELSE {}) /\ (Moves => Emptied = {s})
  <2>1. Emptied = IF Moves THEN {op.v} ELSE {}
    BY <1>1 DEF Emptied
  <2> QED BY <1>3, <2>1
<1>10. /\ Sound(Owners, taken, 0)
       /\ \A w \in Vectors : \A m \in 1..vec[w].size :
            taken[vec[w].arr][m + 0] = IF w \in Emptied /\ m = j THEN "moved" ELSE heap[vec[w].arr][m + 0]
       /\ TmpSame(0, heap, taken)
  <2>1. CASE Moves
    <3>1. taken = [heap EXCEPT ![vec[s].arr][j + 0] = "moved"]
      BY <1>6, <2>1 DEF Source
    <3> HIDE DEF taken, s
    <3>2. Sound(Owners, taken, 0)
      BY <1>2, <1>3, <1>6, <3>1, VecTaken
    <3>3. "moved" \in Slots /\ Poked(heap, vec[s].arr, j + 0, "moved", taken)
      BY <3>1 DEF Slots, Poked
    <3>4. VecRewritten(0, heap, s, j, "moved", taken) /\ TmpSame(0, heap, taken)
      BY <1>2, <1>3, <1>6, <3>3, VecPoked
    <3>5. \A w \in Vectors : w \in Emptied <=> w = s
      BY <1>9, <2>1
    <3>6. ASSUME NEW w \in Vectors, NEW m \in 1..vec[w].size
          PROVE  taken[vec[w].arr][m + 0] = IF w \in Emptied /\ m = j THEN "moved" ELSE heap[vec[w].arr][m + 0]
      <4>1. taken[vec[w].arr][m + 0] = IF w = s /\ m = j THEN "moved" ELSE heap[vec[w].arr][m + 0]
        BY <3>4, Zenon DEF VecRewritten
      <4> QED BY <3>5, <4>1
    <3> QED BY <3>2, <3>4, <3>6
  <2>2. CASE ~Moves
    <3>1. taken = heap /\ Emptied = {}
      BY <1>9, <2>2
    <3> HIDE DEF taken
    <3> QED BY <1>2, <3>1 DEF Memory, TmpSame
  <2> QED BY <2>1, <2>2
<1> HIDE DEF taken
<1>11. VecSame(0, taken, heap') /\ TmpRewritten(0, taken, j, x, heap')
  <2>1. x \in Slots /\ Poked(taken, tmp.arr, j + 0, x, heap')
    BY <1>1, <1>6, <1>8 DEF Slots, Poked
  <2> QED BY <1>6, <1>10, <2>1, TmpPoked
<1>12. Taken(heap, vec, heap', 0, Emptied, j)
  <2>1. ASSUME NEW w \in Vectors, NEW m \in 1..vec[w].used
        PROVE  heap'[vec[w].arr][m + 0] = IF w \in Emptied /\ m = j THEN "moved" ELSE heap[vec[w].arr][m + 0]
    <3>1. m \in 1..vec[w].size
      BY <1>2, CountsFacts DEF Counts
    <3>2. heap'[vec[w].arr][m + 0] = taken[vec[w].arr][m + 0]
      BY <1>11, <3>1, Zenon DEF VecSame
    <3> QED BY <1>10, <3>1, <3>2, Zenon
  <2> QED BY <2>1, Zenon DEF Taken, Elt
<1>13. tmp'.arr = tmp.arr /\ tmp'.used = tmp.used + 1
  BY <1>1, <1>2 DEF Memory, VecTypeOK, Storages
<1>14. Followed(heap, tmp, heap', tmp', 0, x)
  <2>1. ASSUME NEW m \in 1..tmp'.used
        PROVE  heap'[tmp'.arr][m + 0] = IF m = tmp.used + 1 THEN x ELSE heap[tmp.arr][m + 0]
    <3>1. m \in 1..tmp.size
      BY <1>4, <1>5, <1>6, <1>13 DEF j
    <3>2. heap'[tmp.arr][m + 0] = IF m = j THEN x ELSE taken[tmp.arr][m + 0]
      BY <1>11, <3>1, Zenon DEF TmpRewritten
    <3>3. taken[tmp.arr][m + 0] = heap[tmp.arr][m + 0]
      BY <1>10, <3>1, Zenon DEF TmpSame
    <3> QED BY <1>13, <3>2, <3>3 DEF j
  <2> QED BY <1>4, <1>13, <2>1, Zenon DEF Followed, Elt
<1>15. /\ tmp.used + 1 <= vec[s].used => x = Elt(heap, vec[s], 0, tmp.used + 1)
       /\ Taken(heap, vec, heap', 0, Emptied, tmp.used + 1)
  BY <1>7, <1>12 DEF j
<1>16. Keeps(heap', vec', tmp', 0, {s}, Emptied) /\ UNCHANGED AnyContents
  BY <1>1, <1>2, <1>3, <1>8, <1>14, <1>15, BufferFilled
<1>17. Feeding' = {s} /\ Emptied' = Emptied /\ Completed'
  BY <1>1 DEF Feeding, Emptied, Moves, Completed
<1> QED BY <1>16, <1>17 DEF BufferKeeps

LEMMA BufferFillLast ==
  ASSUME Buffered, BufferSound, BufferSound', BufferKeeps, FillLast
  PROVE  BufferKeeps' /\ UNCHANGED AnyContents
<1>1. /\ op.pc = "fill" /\ op.name = "push" /\ tmp.used = vec[op.v].used /\ Goto("swap") /\ vec' = vec
      /\ heap' = [heap EXCEPT ![tmp.arr][tmp.used + 1] = op.t] /\ version' = version
      /\ tmp' = [tmp EXCEPT !.used = tmp.used + 1]
  BY DEF FillLast, At, Constructed
<1>2. Memory(0) /\ Memory(0)' /\ Sound(Owners, heap, 0)
  BY DEF BufferSound, Memory
<1>3. /\ op.from \in Vectors /\ Keeps(heap, vec, tmp, 0, {op.from}, Emptied) /\ Emptied \subseteq {op.from}
      /\ op.from = op.v /\ op.t \in Values
  BY <1>1, FeedFacts
<1>4. /\ tmp.used \in Nat /\ vec[op.v].used < tmp.size /\ tmp.arr # nullptr
  BY <1>1, FillRoom
<1>5. /\ tmp.size \in Nat /\ Counts(vec)
  BY <1>2, CountsFacts
<1> DEFINE j == tmp.used + 1
<1>6. j \in 1..tmp.size /\ j + 0 = j /\ ~(j <= vec[op.from].used)
  BY <1>1, <1>3, <1>4, <1>5
<1>7. Poked(heap, tmp.arr, j + 0, op.t, heap') /\ op.t \in Slots
  BY <1>1, <1>3, <1>6 DEF Poked, Slots
<1> HIDE DEF j
<1>8. VecSame(0, heap, heap') /\ TmpRewritten(0, heap, j, op.t, heap')
  BY <1>2, <1>6, <1>7, TmpPoked
<1>9. Taken(heap, vec, heap', 0, {}, tmp.used + 1)
  <2>1. ASSUME NEW w \in Vectors, NEW m \in 1..vec[w].used
        PROVE  heap'[vec[w].arr][m + 0] = heap[vec[w].arr][m + 0]
    <3>1. m \in 1..vec[w].size
      BY <1>2, CountsFacts DEF Counts
    <3> QED BY <1>8, <3>1, Zenon DEF VecSame
  <2> QED BY <2>1 DEF Taken, Elt
<1>10. tmp'.arr = tmp.arr /\ tmp'.used = tmp.used + 1
  BY <1>1, <1>2 DEF Memory, VecTypeOK, Storages
<1>11. Followed(heap, tmp, heap', tmp', 0, op.t)
  <2>1. ASSUME NEW m \in 1..tmp'.used
        PROVE  heap'[tmp'.arr][m + 0] = IF m = tmp.used + 1 THEN op.t ELSE heap[tmp.arr][m + 0]
    <3>1. m \in 1..tmp.size
      BY <1>4, <1>5, <1>6, <1>10 DEF j
    <3>2. heap'[tmp.arr][m + 0] = IF m = j THEN op.t ELSE heap[tmp.arr][m + 0]
      BY <1>8, <3>1, Zenon DEF TmpRewritten
    <3> QED BY <1>10, <3>2 DEF j
  <2> QED BY <1>4, <1>10, <2>1, Zenon DEF Followed, Elt
<1>12. ~(tmp.used + 1 <= vec[op.from].used)
  BY <1>6 DEF j
<1>13. Keeps(heap', vec', tmp', 0, {op.from}, Emptied) /\ UNCHANGED AnyContents
  BY <1>1, <1>2, <1>3, <1>9, <1>11, <1>12, BufferFilled
<1>14. op'.pc = "swap" /\ op'.name = op.name /\ op'.v = op.v /\ op'.from = op.from /\ op'.t = op.t
  <2>1. op'.pc = "swap" /\ op'.name = op.name /\ op'.v = op.v /\ op'.from = op.from
    BY <1>1, GotoFacts DEF BufferSound
  <2>2. op \in Pushing /\ op' = [op EXCEPT !.pc = "swap"]
    BY <1>1, OpFacts DEF BufferSound, Goto
  <2> QED BY <2>1, <2>2 DEF Pushing
<1>15. Feeding' = {op.from} /\ Emptied' = Emptied
  BY <1>1, <1>14 DEF Feeding, Emptied, Moves
<1>16. Elt(heap', tmp', 0, tmp.used + 1) = op.t
  <2>1. tmp.used + 1 \in 1..tmp'.used
    BY <1>4, <1>10
  <2> QED BY <1>11, <2>1 DEF Followed
<1>17. Completed'
  BY <1>1, <1>10, <1>14, <1>16 DEF Completed
<1> QED BY <1>13, <1>15, <1>17 DEF BufferKeeps

LEMMA BufferFillCopied ==
  ASSUME Buffered, BufferSound, BufferSound', BufferKeeps, FillCopied
  PROVE  BufferKeeps' /\ UNCHANGED AnyContents
<1>1. /\ op.pc = "fill" /\ op.name = "copy" /\ tmp.used = vec[op.from].used /\ Goto("swap")
      /\ UNCHANGED <<version, vec, heap, tmp>>
  BY DEF FillCopied, At
<1>2. op'.pc = "swap" /\ op'.name = op.name /\ op'.v = op.v /\ op'.from = op.from
  BY <1>1, GotoFacts DEF BufferSound
<1>3. Feeding' = Feeding /\ Emptied' = Emptied /\ Completed'
  BY <1>1, <1>2 DEF Feeding, Emptied, Moves, Completed
<1>4. Buffered' /\ Memory(0) /\ Memory(0)'
  BY <1>1 DEF Buffered, BufferSound
<1>5. AnyContents' = AnyContents
  <2>1. Holds(AnyContents, heap, vec, tmp, 0) /\ Holds(AnyContents', heap', vec', tmp', 0)
    BY <1>4, BufferContents, BufferNextContents
  <2>2. \A v \in Vectors : SameVals(heap, vec[v], tmp, heap', vec'[v], tmp', 0) /\ vec'[v].used = vec[v].used
    BY <1>1 DEF SameVals
  <2> QED BY <2>1, <2>2, HoldsSame
<1> QED BY <1>1, <1>3, <1>5 DEF BufferKeeps

\* The swap is where a push that reallocates, or a copy, takes effect.
LEMMA BufferSwap ==
  ASSUME Buffered, BufferSound, BufferSound', BufferKeeps, Swap
  PROVE  /\ BufferKeeps'
         /\ op.v \in Vectors /\ op.from \in Vectors
         /\ \/ op.t \in Values /\ Promise!push(op.v, op.t)
            \/ Promise!copy(op.v, op.from)
<1>1. /\ op.pc = "swap" /\ Goto("drop") /\ heap' = heap /\ vec' = [vec EXCEPT ![op.v] = tmp]
      /\ tmp' = vec[op.v] /\ version' = version
  BY DEF Swap, At
<1>2. Memory(0) /\ Memory(0)' /\ Buffered'
  BY <1>1 DEF BufferSound, Buffered
<1>3. /\ op.from \in Vectors /\ op.v \in Vectors /\ Keeps(heap, vec, tmp, 0, {op.from}, Emptied)
      /\ Emptied \subseteq {op.v}
      /\ op.name = "push" => op.from = op.v /\ op.t \in Values
  BY <1>1, FeedFacts
<1>14. Replaced(vec, vec', op.v, tmp)
  BY <1>1, <1>2, <1>3 DEF Memory, VecTypeOK, Replaced
<1>4. vec'[op.v] = tmp /\ \A w \in Vectors : w # op.v => vec'[w] = vec[w]
  BY <1>14 DEF Replaced
<1>5. Counts(vec) /\ tmp.used \in Nat /\ (tmp.used > 0 => tmp.arr # nullptr)
  BY <1>2, CountsFacts
<1>6. op'.pc = "drop"
  BY <1>1, GotoFacts DEF BufferSound
<1>7. Feeding' = {} /\ Emptied' = {} /\ Completed'
  BY <1>6 DEF Feeding, Emptied, Completed
<1>8. /\ Keeps(heap, vec', tmp', 0, {}, {})
      /\ \A i \in 1..tmp.used : Val(heap, vec'[op.v], tmp', 0, i) = Elt(heap, tmp, 0, i)
      /\ \A w \in Vectors : w # op.v => SameVals(heap, vec[w], tmp, heap, vec'[w], tmp', 0)
  BY <1>3, <1>14, KeepsExchanged
<1>9. BufferKeeps'
  BY <1>1, <1>7, <1>8 DEF BufferKeeps
<1>10. Holds(AnyContents, heap, vec, tmp, 0) /\ Holds(AnyContents', heap', vec', tmp', 0)
  BY <1>2, BufferContents, BufferNextContents
<1>11. ASSUME NEW i \in 1..tmp.used, i <= vec[op.from].used
       PROVE  Val(heap', vec'[op.v], tmp', 0, i) = Val(heap, vec[op.from], tmp, 0, i)
  <2>1. op.from \in {op.from} /\ vec[op.from].used \in Nat
    BY <1>3, <1>5 DEF Counts
  <2>2. Val(heap, vec[op.from], tmp, 0, i) = Elt(heap, tmp, 0, i)
    BY <1>3, <1>5, <1>11, <2>1, ValCopied
  <2> QED BY <1>1, <1>8, <2>2
<1>12. CASE op.name = "push"
  <2>1. /\ tmp.used = vec[op.v].used + 1 /\ Elt(heap, tmp, 0, vec[op.v].used + 1) = op.t
        /\ op.from = op.v /\ op.t \in Values /\ vec[op.v].used \in Nat
    BY <1>1, <1>3, <1>5, <1>12 DEF BufferKeeps, Completed, Counts
  <2>2. vec'[op.v].used = vec[op.v].used + 1 /\ \A w \in Vectors : w # op.v => vec'[w].used = vec[w].used
    BY <1>4, <2>1
  <2>3. vec[op.v].used + 1 \in 1..tmp.used
    BY <2>1
  <2>4. Val(heap', vec'[op.v], tmp', 0, vec[op.v].used + 1) = op.t
    BY <1>1, <1>8, <2>1, <2>3
  <2>5. SameVals(heap, vec[op.v], tmp, heap', vec'[op.v], tmp', 0)
    <3>1. ASSUME NEW i \in 1..vec[op.v].used
          PROVE  Val(heap', vec'[op.v], tmp', 0, i) = Val(heap, vec[op.v], tmp, 0, i)
      <4>1. i \in 1..tmp.used /\ i <= vec[op.from].used
        BY <2>1
      <4> QED BY <1>11, <2>1, <4>1
    <3> QED BY <3>1 DEF SameVals
  <2>6. \A w \in Vectors : SameVals(heap, vec[w], tmp, heap', vec'[w], tmp', 0)
    BY <1>1, <1>8, <2>5
  <2>7. AnyContents' = [AnyContents EXCEPT ![op.v] = Append(AnyContents[op.v], op.t)]
    BY <1>3, <1>10, <2>1, <2>2, <2>4, <2>6, HoldsPushed
  <2> QED BY <1>3, <1>9, <2>1, <2>7 DEF Promise!push
<1>13. CASE op.name # "push"
  <2>1. tmp.used = vec[op.from].used /\ vec[op.from].used \in Nat
    BY <1>1, <1>3, <1>5, <1>13 DEF BufferKeeps, Completed, Counts
  <2>2. vec'[op.v].used = vec[op.from].used /\ \A w \in Vectors : w # op.v => vec'[w].used = vec[w].used
    BY <1>4, <2>1
  <2>3. SameVals(heap, vec[op.from], tmp, heap', vec'[op.v], tmp', 0)
    BY <1>11, <2>1 DEF SameVals
  <2>4. AnyContents' = [AnyContents EXCEPT ![op.v] = AnyContents[op.from]]
    <3>1. \A w \in Vectors : w # op.v => SameVals(heap, vec[w], tmp, heap', vec'[w], tmp', 0)
      BY <1>1, <1>8
    <3> QED BY <1>3, <1>10, <2>2, <2>3, <3>1, HoldsCopied
  <2> QED BY <1>3, <1>9, <2>4 DEF Promise!copy
<1> QED BY <1>12, <1>13

\* push in place.
LEMMA BufferHere ==
  ASSUME Buffered, BufferSound, BufferSound', BufferKeeps, Here
  PROVE  /\ BufferKeeps'
         /\ op.v \in Vectors /\ op.t \in Values /\ Promise!push(op.v, op.t)
<1>1. /\ op.pc = "here" /\ op' = Idle /\ tmp' = tmp /\ version' = version
      /\ heap' = [heap EXCEPT ![vec[op.v].arr][vec[op.v].used + 1] = op.t]
      /\ vec' = [vec EXCEPT ![op.v].used = vec[op.v].used + 1]
  BY DEF Here, At
<1>2. Memory(0) /\ Memory(0)' /\ Buffered' /\ VecTypeOK
  BY <1>1 DEF BufferSound, Buffered, Memory
<1>3. op.v \in Vectors /\ op.t \in Values /\ vec[op.v].used < vec[op.v].size
  BY <1>1, OpFacts DEF BufferSound, TmpSound
<1>4. Counts(vec) /\ vec[op.v].used \in Nat /\ vec[op.v].size \in Nat
  BY <1>2, <1>3, CountsFacts DEF Counts
<1> DEFINE j == vec[op.v].used + 1
<1>5. j \in 1..vec[op.v].size /\ j + 0 = j /\ j \in Nat
  BY <1>3, <1>4
<1>6. /\ vec'[op.v].arr = vec[op.v].arr /\ vec'[op.v].used = j
      /\ \A w \in Vectors : w # op.v => vec'[w] = vec[w]
  BY <1>1, <1>2, <1>3, <1>5, VecRecounted
<1>7. Poked(heap, vec[op.v].arr, j + 0, op.t, heap') /\ op.t \in Slots
  BY <1>1, <1>3, <1>5 DEF Poked, Slots
<1> HIDE DEF j
<1>8. VecRewritten(0, heap, op.v, j, op.t, heap')
  BY <1>2, <1>3, <1>5, <1>7, VecPoked
<1>9. Appended(heap, vec, heap', vec', 0, op.v, op.t)
  <2>1. ASSUME NEW w \in Vectors, NEW i \in 1..vec'[w].used
        PROVE  heap'[vec'[w].arr][i + 0] = IF w = op.v /\ i = vec[op.v].used + 1 THEN op.t ELSE heap[vec[w].arr][i + 0]
    <3>1. vec'[w].arr = vec[w].arr
      BY <1>6
    <3>2. i \in 1..vec[w].size
      <4>1. CASE w = op.v
        BY <1>3, <1>4, <1>6, <4>1 DEF j
      <4>2. CASE w # op.v
        BY <1>2, <1>6, <4>2, CountsFacts DEF Counts
      <4> QED BY <4>1, <4>2
    <3>3. heap'[vec[w].arr][i + 0] = IF w = op.v /\ i = j THEN op.t ELSE heap[vec[w].arr][i + 0]
      BY <1>8, <3>2, Zenon DEF VecRewritten
    <3> QED BY <3>1, <3>3 DEF j
  <2>2. vec'[op.v].used = vec[op.v].used + 1 /\ \A w \in Vectors : w # op.v => vec'[w].used = vec[w].used
    BY <1>6 DEF j
  <2> QED BY <2>1, <2>2, Zenon DEF Appended, Elt
<1>10. Keeps(heap, vec, tmp, 0, Feeding, {})
  BY <1>1 DEF BufferKeeps, Emptied
<1>11. /\ Keeps(heap', vec', tmp', 0, {}, {})
       /\ Val(heap', vec'[op.v], tmp', 0, vec[op.v].used + 1) = op.t
       /\ \A w \in Vectors : SameVals(heap, vec[w], tmp, heap', vec'[w], tmp', 0)
  BY <1>3, <1>4, <1>9, <1>10, KeepsGrown
<1>12. BufferKeeps'
  BY <1>1, <1>11 DEF BufferKeeps, Feeding, Emptied, Completed, Idle
<1>13. Holds(AnyContents, heap, vec, tmp, 0) /\ Holds(AnyContents', heap', vec', tmp', 0)
  BY <1>2, BufferContents, BufferNextContents
<1>14. vec'[op.v].used = vec[op.v].used + 1 /\ \A w \in Vectors : w # op.v => vec'[w].used = vec[w].used
  BY <1>6 DEF j
<1>15. AnyContents' = [AnyContents EXCEPT ![op.v] = Append(AnyContents[op.v], op.t)]
  BY <1>3, <1>4, <1>11, <1>13, <1>14, HoldsPushed
<1> QED BY <1>3, <1>12, <1>15 DEF Promise!push

LEMMA BufferPop ==
  ASSUME Buffered, BufferSound, BufferSound', BufferKeeps, NEW v \in Vectors, pop(v)
  PROVE  BufferKeeps' /\ Promise!pop(v)
<1>1. /\ op.pc = "idle" /\ vec[v].used >= 1 /\ op' = op /\ tmp' = tmp /\ version' = version
      /\ vec' = [vec EXCEPT ![v].used = vec[v].used - 1]
      /\ heap' = [heap EXCEPT ![vec[v].arr][vec[v].used] = "raw"]
  BY DEF pop, At
<1>2. Memory(0) /\ Memory(0)' /\ Buffered' /\ VecTypeOK
  BY <1>1 DEF BufferSound, Buffered, Memory
<1>3. Counts(vec) /\ vec[v].used \in Nat /\ vec[v].size \in Nat /\ vec[v].used <= vec[v].size
  BY <1>2, CountsFacts DEF Counts
<1> DEFINE j == vec[v].used
<1>4. j \in 1..vec[v].size /\ j + 0 = j /\ j - 1 \in Nat
  BY <1>1, <1>3
<1>5. /\ vec'[v].arr = vec[v].arr /\ vec'[v].used = j - 1
      /\ \A w \in Vectors : w # v => vec'[w] = vec[w]
  BY <1>1, <1>2, <1>4, VecRecounted
<1>6. Poked(heap, vec[v].arr, j + 0, "raw", heap') /\ "raw" \in Slots
  BY <1>1, <1>4 DEF Poked, Slots
<1>7. VecRewritten(0, heap, v, j, "raw", heap')
  BY <1>2, <1>4, <1>6, VecPoked
<1>8. Counts(vec')
  BY <1>3, <1>4, <1>5 DEF Counts
<1>9. vec[v].used = vec'[v].used + 1 /\ \A w \in Vectors : w # v => vec'[w].used = vec[w].used
  BY <1>3, <1>5
<1>10. Shortened(heap, vec, heap', vec', 0, v)
  <2>1. ASSUME NEW w \in Vectors, NEW i \in 1..vec'[w].used
        PROVE  heap'[vec'[w].arr][i + 0] = heap[vec[w].arr][i + 0]
    <3>1. vec'[w].arr = vec[w].arr
      BY <1>5
    <3>2. i \in 1..vec[w].size /\ ~(w = v /\ i = j)
      <4>1. CASE w = v
        BY <1>3, <1>5, <4>1
      <4>2. CASE w # v
        BY <1>2, <1>5, <4>2, CountsFacts DEF Counts
      <4> QED BY <4>1, <4>2
    <3>3. heap'[vec[w].arr][i + 0] = IF w = v /\ i = j THEN "raw" ELSE heap[vec[w].arr][i + 0]
      BY <1>7, <3>2, Zenon DEF VecRewritten
    <3> QED BY <3>1, <3>2, <3>3
  <2> QED BY <1>9, <2>1, Zenon DEF Shortened, Elt
<1>11. Keeps(heap, vec, tmp, 0, Feeding, {})
  BY <1>1 DEF BufferKeeps, Emptied
<1>12. /\ Keeps(heap', vec', tmp', 0, {}, {})
       /\ \A w \in Vectors : SameVals(heap', vec'[w], tmp', heap, vec[w], tmp, 0)
  BY <1>3, <1>8, <1>10, <1>11, KeepsShrunk
<1>13. BufferKeeps'
  BY <1>1, <1>12 DEF BufferKeeps, Feeding, Emptied, Completed
<1>14. Holds(AnyContents, heap, vec, tmp, 0) /\ Holds(AnyContents', heap', vec', tmp', 0)
  BY <1>2, BufferContents, BufferNextContents
<1>15. vec'[v].used \in Nat
  BY <1>8 DEF Counts
<1>16. /\ AnyContents[v] # << >>
       /\ AnyContents' = [AnyContents EXCEPT ![v] = SubSeq(AnyContents[v], 1, Len(AnyContents[v]) - 1)]
  BY <1>9, <1>12, <1>14, <1>15, HoldsPopped
<1> QED BY <1>13, <1>16 DEF Promise!pop

LEMMA BufferMove ==
  ASSUME Buffered, BufferSound, BufferSound', BufferKeeps, NEW v \in Vectors, NEW w \in Vectors, move(v, w)
  PROVE  BufferKeeps' /\ Promise!move(v, w)
<1>1. /\ op.pc = "idle" /\ heap' = heap /\ op' = op /\ tmp' = tmp /\ version' = version
      /\ vec' = [vec EXCEPT ![v] = vec[w], ![w] = vec[v]]
  BY DEF move, At
<1>2. Memory(0) /\ Memory(0)' /\ Buffered'
  BY <1>1 DEF BufferSound, Buffered
<1>3. Exchanged(vec, vec', v, w)
  BY <1>1, <1>2 DEF Exchanged, Memory, VecTypeOK
<1>4. Keeps(heap, vec, tmp, 0, Feeding, {})
  BY <1>1 DEF BufferKeeps, Emptied
<1>5. /\ Keeps(heap, vec', tmp', 0, {}, {})
      /\ SameVals(heap, vec[w], tmp, heap, vec'[v], tmp', 0) /\ SameVals(heap, vec[v], tmp, heap, vec'[w], tmp', 0)
      /\ \A u \in Vectors : u # v /\ u # w => SameVals(heap, vec[u], tmp, heap, vec'[u], tmp', 0)
  BY <1>3, <1>4, KeepsMoved
<1>6. BufferKeeps'
  BY <1>1, <1>5 DEF BufferKeeps, Feeding, Emptied, Completed
<1>7. Holds(AnyContents, heap, vec, tmp, 0) /\ Holds(AnyContents', heap', vec', tmp', 0)
  BY <1>2, BufferContents, BufferNextContents
<1>8. AnyContents' = [AnyContents EXCEPT ![v] = AnyContents[w], ![w] = AnyContents[v]]
  <2>1. /\ SameVals(heap, vec[w], tmp, heap', vec'[v], tmp', 0)
        /\ SameVals(heap, vec[v], tmp, heap', vec'[w], tmp', 0)
        /\ \A u \in Vectors : u # v /\ u # w => SameVals(heap, vec[u], tmp, heap', vec'[u], tmp', 0)
    BY <1>1, <1>5
  <2> QED BY <1>3, <1>7, <2>1, HoldsMoved
<1> QED BY <1>6, <1>8 DEF Promise!move

\* Each step of versions 3 and 4 is one of VecSpec or changes no contents.
LEMMA BufferRefines ==
  ASSUME Buffered, BufferSound, BufferSound', BufferKeeps, Next
  PROVE  BufferKeeps' /\ (Promise!Next \/ UNCHANGED AnyContents)
<1>0. Memory(0) /\ OpSound
  BY DEF BufferSound
<1>1. CASE \E v \in Vectors : (\E x \in Values : push(v, x)) \/ (\E w \in Vectors : copy(v, w))
  <2>1. UNCHANGED <<version, vec, heap, tmp>> /\ op.pc = "idle" /\ op'.pc \in {"copy", "alloc", "here"}
    BY <1>1 DEF push, copy, At, BeginPush
  <2> QED BY <1>0, <2>1, BufferStarts
<1>2. CASE CopyArgument
  <2>1. UNCHANGED <<version, vec, heap, tmp>> /\ op.pc = "copy" /\ Goto(BeginPush(op.v))
    BY <1>2 DEF CopyArgument, At
  <2>2. op.name = "push" /\ BeginPush(op.v) \in {"alloc", "here"}
    BY <1>0, <2>1, OpFacts DEF BeginPush
  <2>3. op'.pc \in {"alloc", "here"}
    BY <1>0, <2>1, <2>2, GotoFacts
  <2> QED BY <1>0, <2>1, <2>3, BufferStarts
<1>3. CASE (\E b \in Buffers : Allocate(b)) \/ AllocateNone \/ Fill \/ FillLast \/ FillCopied
  BY <1>3, BufferAllocate, BufferAllocateNone, BufferFill, BufferFillLast, BufferFillCopied
<1>4. CASE Drop
  BY <1>4, BufferDestroy DEF Drop, At, Emptied
<1>5. CASE Throw
  BY <1>5, BufferDestroy, ThrowQuiet DEF Throw
<1>6. CASE Swap
  BY <1>6, BufferSwap DEF Promise!Next
<1>7. CASE Here
  BY <1>7, BufferHere DEF Promise!Next
<1>8. CASE \E v \in Vectors : pop(v) \/ \E w \in Vectors : move(v, w)
  BY <1>8, BufferPop, BufferMove DEF Promise!Next
<1> QED BY <1>1, <1>2, <1>3, <1>4, <1>5, <1>6, <1>7, <1>8 DEF Next, Step

-----------------------------------------------------------------------------
(* The vector with iterators.                                              *)

IterFeeding == IF op.pc = "fill" THEN {op.from} ELSE {}
IterEmptied == IF op.pc = "fill" /\ Iter!moveOrCopyT THEN {op.v} ELSE {}

\* A vector under construction is empty, and tmp gets what it was given.
Constructing ==
  op.pc \in {"alloc", "fill"} /\ op.name = "construct" =>
    /\ vec[op.v].used = 0 /\ op.from = op.v /\ op.list \in Given
    /\ op.pc = "fill" => \A i \in 1..tmp.used : Elt(heap, tmp, 1, i) = op.list[i]

\* The invariant of versions 5 and 6 that the refinement needs.
IterKeeps == Keeps(heap, vec, tmp, 1, IterFeeding, IterEmptied) /\ Constructing

LEMMA IterHolds ==
  ASSUME NEW h, NEW V, NEW tm, NEW F, NEW M, Keeps(h, V, tm, 1, F, M), Counts(V),
         tm.used \in Nat, tm.used > 0 => tm.arr # nullptr, NEW C,
         C = [v \in Vectors |-> [i \in 1..V[v].used |->
                IF h[V[v].arr][i + 1] = "moved" THEN h[tm.arr][i + 1] ELSE h[V[v].arr][i + 1]]]
  PROVE  Holds(C, h, V, tm, 1)
<1>1. ASSUME NEW v \in Vectors, NEW i \in 1..V[v].used, Elt(h, V[v], 1, i) = "moved"
      PROVE  tm.arr # nullptr
  <2>1. i \in Nat /\ i >= 1
    BY DEF Counts
  <2>2. i <= tm.used
    BY <1>1, NotMoved DEF Keeps
  <2> QED BY <2>1, <2>2
<1>2. \A v \in Vectors : C[v] = [i \in 1..V[v].used |->
        IF h[V[v].arr][i + 1] = "moved" THEN h[tm.arr][i + 1] ELSE h[V[v].arr][i + 1]]
  BY Zenon
<1>3. ASSUME NEW v \in Vectors, NEW i \in 1..V[v].used
      PROVE  C[v][i] = Val(h, V[v], tm, 1, i)
  <2>1. C[v][i] = IF h[V[v].arr][i + 1] = "moved" THEN h[tm.arr][i + 1] ELSE h[V[v].arr][i + 1]
    BY <1>2
  <2>2. h[V[v].arr][i + 1] = "moved" => tm.arr # nullptr
    BY <1>1 DEF Elt
  <2> QED BY <2>1, <2>2, Zenon DEF Val, Elt
<1>4. Rows(C, V)
  <2>1. \A v \in Vectors : C[v] = [i \in 1..V[v].used |-> C[v][i]]
    BY <1>2
  <2>2. C = [v \in Vectors |-> C[v]]
    OBVIOUS
  <2> QED BY <2>1, <2>2, Zenon DEF Rows
<1> QED BY <1>3, <1>4 DEF Holds

LEMMA IterContents ==
  ASSUME Iterated, Memory(1), IterKeeps
  PROVE  Holds(AnyContents, heap, vec, tmp, 1)
<1>1. Counts(vec) /\ tmp.used \in Nat /\ (tmp.used > 0 => tmp.arr # nullptr)
  BY CountsFacts
<1>2. AnyContents = [v \in Vectors |-> [i \in 1..vec[v].used |->
        IF heap[vec[v].arr][i + 1] = "moved" THEN heap[tmp.arr][i + 1] ELSE heap[vec[v].arr][i + 1]]]
  BY WhoseContents DEF Iter!Contents, Iter!Slot
<1>3. Keeps(heap, vec, tmp, 1, IterFeeding, IterEmptied)
  BY DEF IterKeeps
<1> QED BY <1>1, <1>2, <1>3, IterHolds

LEMMA IterNextContents ==
  ASSUME Iterated, version' = version, Memory(1)', NEW F, NEW M, Keeps(heap', vec', tmp', 1, F, M)
  PROVE  Holds(AnyContents', heap', vec', tmp', 1)
<1>0. Iterated'
  BY DEF Iterated
<1>1. Counts(vec') /\ tmp'.used \in Nat /\ (tmp'.used > 0 => tmp'.arr # nullptr)
  <2>1. vec' \in [Vectors -> Storages] /\ tmp' \in Storages
    BY DEF Memory, VecTypeOK
  <2>2. tmp'.used \in Nat /\ tmp'.size \in Nat
    BY <2>1 DEF Storages
  <2>3. Owners'["tmp"] = tmp' /\ "tmp" \in Names
    BY NextOwners, TmpAssumption DEF Names
  <2>4. Filled(tmp', heap', 1)
    BY <2>3 DEF Memory, Sound
  <2>5. tmp'.used <= tmp'.size /\ (tmp'.arr = nullptr => tmp'.size = 0)
    BY <2>4 DEF Filled
  <2> QED BY <2>1, <2>2, <2>5 DEF Counts, Storages
<1>2. AnyContents' = [v \in Vectors |-> [i \in 1..vec'[v].used |->
        IF heap'[vec'[v].arr][i + 1] = "moved" THEN heap'[tmp'.arr][i + 1] ELSE heap'[vec'[v].arr][i + 1]]]
  BY <1>0, WhoseNextContents DEF Iter!Contents, Iter!Slot
<1> QED BY <1>1, <1>2, IterHolds

\* A step that leaves all elements where they are; the temporary, if it is to be
\* filled, is empty yet.
LEMMA IterStays ==
  ASSUME Iterated, version' = version, Memory(1), Memory(1)', IterKeeps, IterEmptied = {},
         SameElts(heap, vec, heap', vec', 1), op'.pc = "fill" => tmp'.used = 0
  PROVE  /\ Keeps(heap', vec', tmp', 1, IterFeeding', IterEmptied')
         /\ UNCHANGED AnyContents
<1>1. Holds(AnyContents, heap, vec, tmp, 1)
  BY IterContents
<1>3. Counts(vec) /\ tmp'.used \in Nat
  BY CountsFacts DEF Memory, VecTypeOK, Storages
<1>4. Keeps(heap, vec, tmp, 1, IterFeeding, {})
  BY DEF IterKeeps
<1>5. IterFeeding' # {} => tmp'.used = 0
  BY DEF IterFeeding
<1>6. /\ Keeps(heap', vec', tmp', 1, IterFeeding', IterEmptied')
      /\ \A v \in Vectors : SameVals(heap, vec[v], tmp, heap', vec'[v], tmp', 1)
  BY <1>3, <1>4, <1>5, KeepsSame
<1>2. Holds(AnyContents', heap', vec', tmp', 1)
  BY <1>6, IterNextContents
<1>7. AnyContents' = AnyContents
  <2>1. \A v \in Vectors : vec'[v].used = vec[v].used
    BY DEF SameElts
  <2> QED BY <1>1, <1>2, <1>6, <2>1, HoldsSame
<1> QED BY <1>6, <1>7

\* Nothing happens to the memory: operations that start, and those that read.
LEMMA IterReads ==
  ASSUME Iterated, version' = version, Memory(1), IterKeeps, UNCHANGED <<vec, heap, tmp>>,
         op.pc # "fill", op'.pc # "fill"
  PROVE  /\ Keeps(heap', vec', tmp', 1, IterFeeding', IterEmptied')
         /\ UNCHANGED AnyContents
<1>1. Memory(1)' /\ IterEmptied = {}
  BY MemoryKept DEF IterEmptied
<1>2. SameElts(heap, vec, heap', vec', 1)
  BY DEF SameElts
<1> QED BY <1>1, <1>2, IterStays

LEMMA IterBegins ==
  ASSUME Iterated, IterSound, IterKeeps, NEW v \in Vectors,
         \/ \E list \in Given : Iter!construct(v, list)
         \/ \E arg : Iter!push(v, arg)
         \/ \E back : Iter!walk(v, back)
         \/ \E w \in Vectors : Iter!assign(v, w)
  PROVE  IterKeeps' /\ UNCHANGED AnyContents
<1>0. Memory(1)
  BY DEF IterSound
<1>1. op.pc = "idle" /\ UNCHANGED <<version, vec, heap, tmp>>
  BY DEF Iter!construct, Iter!push, Iter!walk, Iter!assign, Iter!At
<1>2. op'.pc # "fill" /\ Constructing'
  <2>1. CASE \E list \in Given : Iter!construct(v, list)
    <3>1. PICK list \in Given : Iter!construct(v, list)
      BY <2>1
    <3>2. /\ op' = [pc |-> "alloc", name |-> "construct", v |-> v, from |-> v, alloc |-> Len(list),
                    list |-> list, arg |-> "none"]
          /\ vec[v] = Iter!NoStorage
      BY <3>1 DEF Iter!construct, Iter!Build
    <3> QED BY <1>1, <3>2 DEF Constructing, Iter!NoStorage, Iter!VectorStorage
  <2>2. CASE \E arg : Iter!push(v, arg)
    BY <2>2 DEF Iter!push, Iter!Build, Constructing
  <2>3. CASE \E back : Iter!walk(v, back)
    BY <2>3 DEF Iter!walk, Constructing
  <2>4. CASE \E w \in Vectors : Iter!assign(v, w)
    BY <2>4 DEF Iter!assign, Iter!Build, Constructing
  <2> QED BY <2>1, <2>2, <2>3, <2>4
<1> QED BY <1>0, <1>1, <1>2, IterReads DEF IterKeeps

LEMMA IterWalks ==
  ASSUME Iterated, IterSound, IterKeeps, Iter!Iterate \/ Iter!IterateEnds
  PROVE  IterKeeps' /\ UNCHANGED AnyContents
<1>0. Memory(1) /\ IterOpSound
  BY DEF IterSound
<1>1. op.pc = "walk" /\ UNCHANGED <<version, vec, heap, tmp>>
  BY DEF Iter!Iterate, Iter!IterateEnds, Iter!At
<1>2. op'.pc \in {"walk", "idle"}
  <2>1. CASE Iter!IterateEnds
    BY <2>1 DEF Iter!IterateEnds, Iter!Idle
  <2>2. CASE Iter!Iterate
    <3>1. op \in Walking
      BY <1>0, <1>1, IterOpFacts
    <3> QED BY <1>1, <2>2, <3>1 DEF Iter!Iterate, Walking
  <2> QED BY <2>1, <2>2
<1>3. Constructing'
  BY <1>2 DEF Constructing
<1> QED BY <1>0, <1>1, <1>2, <1>3, IterReads DEF IterKeeps

LEMMA IterAllocates ==
  ASSUME Iterated, IterSound, IterSound', IterKeeps, NEW b \in Buffers, Iter!Allocate(b)
  PROVE  IterKeeps' /\ UNCHANGED AnyContents
<1>0. Memory(1) /\ Memory(1)' /\ IterOpSound /\ Sound(Owners, heap, 1)
  BY DEF IterSound, Memory
<1> DEFINE s == Iter!Block(op.alloc)
<1>1. /\ op.pc = "alloc" /\ heap[b] = << >> /\ vec' = vec /\ version' = version
      /\ heap' = [heap EXCEPT ![b] = s] /\ tmp'.used = 0 /\ Iter!Goto("fill")
  BY DEF Iter!Allocate, Iter!At, Iter!Allocated, Iter!VectorStorage
<1> HIDE DEF s
<1>2. /\ op'.pc = "fill" /\ op'.name = op.name /\ op'.v = op.v /\ op'.from = op.from /\ op'.list = op.list
  BY <1>0, <1>1, BuildGoto, IterOpFacts
<1>3. ASSUME NEW v \in Vectors, NEW i \in 1..vec[v].used
      PROVE  Elt(heap', vec'[v], 1, i) = Elt(heap, vec[v], 1, i)
  <2>1. \A w \in Names : \A m \in 1..Owners[w].size : heap'[Owners[w].arr][m + 1] = heap[Owners[w].arr][m + 1]
    BY <1>0, <1>1, SlotsAllocated
  <2>2. v \in Names /\ Owners[v] = vec[v]
    BY OwnersAre
  <2>3. i \in 1..vec[v].size
    BY <1>0, CountsFacts DEF Counts
  <2> QED BY <1>1, <2>1, <2>2, <2>3 DEF Elt
<1>4. SameElts(heap, vec, heap', vec', 1) /\ IterEmptied = {}
  BY <1>1, <1>3 DEF SameElts, IterEmptied
<1>5. Keeps(heap', vec', tmp', 1, IterFeeding', IterEmptied') /\ UNCHANGED AnyContents
  BY <1>0, <1>1, <1>4, IterStays
<1>6. Constructing'
  <2>1. 1..tmp'.used = {}
    BY <1>1
  <2>2. op.name = "construct" => vec[op.v].used = 0 /\ op.from = op.v /\ op.list \in Given
    BY <1>1 DEF IterKeeps, Constructing
  <2> QED BY <1>1, <1>2, <2>1, <2>2 DEF Constructing
<1> QED BY <1>5, <1>6 DEF IterKeeps

\* What is under construction, or the old storage, is destroyed.
LEMMA IterDestroys ==
  ASSUME Iterated, version' = version, IterSound, IterSound', IterKeeps, Iter!Destroy, vec' = vec,
         op'.pc \in {"idle", "here"}, IterEmptied = {}
  PROVE  IterKeeps' /\ UNCHANGED AnyContents
<1>1. heap' = IF tmp.arr = nullptr THEN heap ELSE [heap EXCEPT ![tmp.arr] = << >>]
  BY DEF Iter!Destroy
<1>2. Memory(1) /\ Memory(1)' /\ Sound(Owners, heap, 1)
  BY DEF IterSound, Memory
<1>4. ASSUME NEW v \in Vectors, NEW i \in 1..vec[v].used
      PROVE  Elt(heap', vec'[v], 1, i) = Elt(heap, vec[v], 1, i)
  <2>0. "tmp" \in Names /\ Owners["tmp"] = tmp /\ v \in Names /\ v # "tmp" /\ Owners[v] = vec[v]
    BY OwnersAre
  <2>1. \A w \in Names \ {"tmp"} : \A m \in 1..Owners[w].size :
          heap'[Owners[w].arr][m + 1] = heap[Owners[w].arr][m + 1]
    BY <1>1, <1>2, <2>0, SlotsFreed
  <2>3. i \in 1..vec[v].size
    BY <1>2, CountsFacts DEF Counts
  <2> QED BY <2>0, <2>1, <2>3 DEF Elt
<1>5. SameElts(heap, vec, heap', vec', 1)
  BY <1>4 DEF SameElts
<1>6. Keeps(heap', vec', tmp', 1, IterFeeding', IterEmptied') /\ UNCHANGED AnyContents
  BY <1>2, <1>5, IterStays
<1>7. Constructing'
  BY DEF Constructing
<1> QED BY <1>6, <1>7 DEF IterKeeps

LEMMA IterDrops ==
  ASSUME Iterated, IterSound, IterSound', IterKeeps, Iter!Drop \/ Iter!Throw
  PROVE  IterKeeps' /\ UNCHANGED AnyContents
<1>1. Iter!Destroy /\ vec' = vec /\ version' = version
  BY DEF Iter!Drop, Iter!Throw
<1>2. IterEmptied = {}
  BY DEF Iter!Drop, Iter!Throw, Iter!At, IterEmptied
<1>3. op'.pc \in {"idle", "here"}
  <2>1. CASE Iter!Throw
    BY <2>1 DEF Iter!Throw, Iter!Idle
  <2>2. CASE Iter!Drop
    <3>1. op.pc = "drop" /\ IF op.name = "push" THEN Iter!Goto("here") ELSE op' = Iter!Idle
      BY <2>2 DEF Iter!Drop, Iter!At
    <3>2. op \in Building
      BY <3>1, IterOpFacts DEF IterSound
    <3>3. CASE op.name = "push"
      BY <3>1, <3>2, <3>3, BuildGoto
    <3>4. CASE op.name # "push"
      BY <3>1, <3>4 DEF Iter!Idle
    <3> QED BY <3>3, <3>4
  <2> QED BY <2>1, <2>2
<1> QED BY <1>1, <1>2, <1>3, IterDestroys

LEMMA IterFills ==
  ASSUME Iterated, IterSound, IterSound', IterKeeps, Iter!Fill
  PROVE  IterKeeps' /\ UNCHANGED AnyContents
<1> DEFINE j == tmp.used + 1
           s == op.from
           x == IF op.name = "construct" THEN op.list[j] ELSE heap[vec[s].arr][j + 1]
           left == IF Iter!moveOrCopyT THEN [heap EXCEPT ![vec[s].arr][j + 1] = "moved"] ELSE heap
<1>0. Memory(1) /\ Memory(1)' /\ IterOpSound /\ RoomSound /\ PushSound
  BY DEF IterSound
<1>1. /\ op.pc = "fill" /\ tmp.used < Iter!FillCount /\ vec' = vec /\ op' = op /\ version' = version
      /\ heap' = [left EXCEPT ![tmp.arr][j + 1] = x] /\ tmp' = [tmp EXCEPT !.used = j]
  BY DEF Iter!Fill, Iter!At, Iter!Slot
<1>2. s \in Vectors /\ op.v \in Vectors /\ op.list \in Seq(Values) /\ op.alloc \in Nat
  BY <1>0, <1>1, IterOpFacts DEF Building
<1>3. /\ tmp.used \in Nat /\ tmp.size \in Nat /\ Counts(vec) /\ vec[s].used \in Nat /\ vec[s].size \in Nat
      /\ vec[s].used <= vec[s].size /\ Len(op.list) \in Nat
  BY <1>0, <1>2, CountsFacts DEF Counts
<1>4. tmp.size = op.alloc /\ Iter!FillCount <= op.alloc /\ tmp.arr # nullptr /\ Iter!FillCount \in Nat
  BY <1>0, <1>1, <1>3 DEF RoomSound, Iter!FillCount
<1>5. /\ j \in 1..tmp.size /\ j \in 1..Iter!FillCount /\ ~(j <= tmp.used) /\ j \in Nat
      /\ \A m \in 1..j : m = j \/ m \in 1..tmp.used
  BY <1>1, <1>2, <1>3, <1>4
<1>6. op.name # "construct" => j \in 1..vec[s].used /\ j \in 1..vec[s].size
  BY <1>3, <1>5 DEF Iter!FillCount
<1>7. /\ IterFeeding = {s} /\ Keeps(heap, vec, tmp, 1, {s}, IterEmptied)
      /\ IterEmptied = (IF Iter!moveOrCopyT THEN {op.v} ELSE {})
      /\ Iter!moveOrCopyT => op.v = s /\ op.name # "construct"
  BY <1>0, <1>1 DEF IterFeeding, IterEmptied, IterKeeps, Iter!moveOrCopyT, PushSound
<1>8. IterEmptied \subseteq {s} /\ (Iter!moveOrCopyT => IterEmptied = {s})
  BY <1>7
<1>9. op.name # "construct" => x = Elt(heap, vec[s], 1, j)
  BY DEF Elt
<1>10. op.name = "construct" => j \in 1..Len(op.list) /\ x = op.list[j] /\ ~(j <= vec[s].used)
  <2>1. op.name = "construct" => vec[s].used = 0
    BY <1>1 DEF IterKeeps, Constructing
  <2> QED BY <1>3, <1>5, <2>1 DEF Iter!FillCount
<1> HIDE DEF x, j
<1>11. x \in Values
  <2>1. CASE op.name = "construct"
    BY <1>2, <1>10, <2>1, ElementOfSeq
  <2>2. CASE op.name # "construct"
    BY <1>2, <1>5, <1>6, <1>7, <1>9, <2>2 DEF Keeps
  <2> QED BY <2>1, <2>2
<1>12. j <= vec[s].used => x = Elt(heap, vec[s], 1, j)
  BY <1>9, <1>10
<1>13. /\ Sound(Owners, left, 1)
       /\ \A w \in Vectors : \A m \in 1..vec[w].size :
            left[vec[w].arr][m + 1] = IF w \in IterEmptied /\ m = j THEN "moved" ELSE heap[vec[w].arr][m + 1]
       /\ TmpSame(1, heap, left)
  <2>1. CASE Iter!moveOrCopyT
    <3>1. left = [heap EXCEPT ![vec[s].arr][j + 1] = "moved"] /\ j \in 1..vec[s].used /\ j \in 1..vec[s].size
      BY <1>6, <1>7, <2>1
    <3> HIDE DEF left, s
    <3>2. Sound(Owners, left, 1)
      BY <1>0, <1>2, <3>1, VecTaken
    <3>3. "moved" \in Slots /\ Poked(heap, vec[s].arr, j + 1, "moved", left)
      BY <3>1 DEF Slots, Poked
    <3>4. VecRewritten(1, heap, s, j, "moved", left) /\ TmpSame(1, heap, left)
      BY <1>0, <1>2, <3>1, <3>3, VecPoked
    <3>5. \A w \in Vectors : w \in IterEmptied <=> w = s
      BY <1>8, <2>1
    <3>6. ASSUME NEW w \in Vectors, NEW m \in 1..vec[w].size
          PROVE  left[vec[w].arr][m + 1] = IF w \in IterEmptied /\ m = j THEN "moved" ELSE heap[vec[w].arr][m + 1]
      <4>1. left[vec[w].arr][m + 1] = IF w = s /\ m = j THEN "moved" ELSE heap[vec[w].arr][m + 1]
        BY <3>4, Zenon DEF VecRewritten
      <4> QED BY <3>5, <4>1
    <3> QED BY <3>2, <3>4, <3>6
  <2>2. CASE ~Iter!moveOrCopyT
    <3>1. left = heap /\ IterEmptied = {}
      BY <1>7, <2>2
    <3> HIDE DEF left
    <3> QED BY <1>0, <3>1 DEF Memory, TmpSame
  <2> QED BY <2>1, <2>2
<1>14. Poked(left, tmp.arr, j + 1, x, heap') /\ x \in Slots
  BY <1>1, <1>11 DEF Poked, Slots
<1> HIDE DEF left
<1>15. VecSame(1, left, heap') /\ TmpRewritten(1, left, j, x, heap')
  BY <1>5, <1>13, <1>14, TmpPoked
<1>16. Taken(heap, vec, heap', 1, IterEmptied, j)
  <2>1. ASSUME NEW w \in Vectors, NEW m \in 1..vec[w].used
        PROVE  heap'[vec[w].arr][m + 1] = IF w \in IterEmptied /\ m = j THEN "moved" ELSE heap[vec[w].arr][m + 1]
    <3>1. m \in 1..vec[w].size
      BY <1>0, CountsFacts DEF Counts
    <3>2. heap'[vec[w].arr][m + 1] = left[vec[w].arr][m + 1]
      BY <1>15, <3>1, Zenon DEF VecSame
    <3> QED BY <1>13, <3>1, <3>2, Zenon
  <2> QED BY <2>1, Zenon DEF Taken, Elt
<1>17. tmp'.arr = tmp.arr /\ tmp'.used = j
  BY <1>0, <1>1 DEF Memory, VecTypeOK, Storages
<1>18. ASSUME NEW m \in 1..j
       PROVE  heap'[tmp.arr][m + 1] = IF m = j THEN x ELSE heap[tmp.arr][m + 1]
  <2>1. m \in 1..tmp.size
    BY <1>3, <1>5
  <2>2. heap'[tmp.arr][m + 1] = IF m = j THEN x ELSE left[tmp.arr][m + 1]
    BY <1>15, <2>1, Zenon DEF TmpRewritten
  <2>3. left[tmp.arr][m + 1] = heap[tmp.arr][m + 1]
    BY <1>13, <2>1, Zenon DEF TmpSame
  <2> QED BY <2>2, <2>3
<1>19. j = tmp.used + 1
  BY DEF j
<1>20. Followed(heap, tmp, heap', tmp', 1, x)
  BY <1>4, <1>17, <1>18, <1>19 DEF Followed, Elt
<1>21. /\ Keeps(heap', vec, tmp', 1, {s}, IterEmptied)
       /\ \A v \in Vectors : SameVals(heap, vec[v], tmp, heap', vec[v], tmp', 1)
  BY <1>2, <1>3, <1>7, <1>8, <1>11, <1>12, <1>16, <1>19, <1>20, KeepsFilled
<1>22. IterFeeding' = {s} /\ IterEmptied' = IterEmptied
  BY <1>1 DEF IterFeeding, IterEmptied, Iter!moveOrCopyT
<1>23. Constructing'
  <2>1. ASSUME op.name = "construct"
        PROVE  /\ vec[op.v].used = 0 /\ op.from = op.v /\ op.list \in Given
               /\ \A i \in 1..j : Elt(heap', tmp', 1, i) = op.list[i]
    <3>1. /\ vec[op.v].used = 0 /\ op.from = op.v /\ op.list \in Given
          /\ \A i \in 1..tmp.used : Elt(heap, tmp, 1, i) = op.list[i]
      BY <1>1, <2>1 DEF IterKeeps, Constructing
    <3>2. ASSUME NEW i \in 1..j PROVE Elt(heap', tmp', 1, i) = op.list[i]
      <4>1. Elt(heap', tmp', 1, i) = IF i = j THEN x ELSE Elt(heap, tmp, 1, i)
        BY <1>17, <1>18 DEF Elt
      <4>2. i = j \/ i \in 1..tmp.used
        BY <1>5
      <4> QED BY <1>10, <2>1, <3>1, <4>1, <4>2
    <3> QED BY <3>1, <3>2
  <2> QED BY <1>1, <1>17, <2>1 DEF Constructing
<1>24. AnyContents' = AnyContents
  <2>1. /\ \A v \in Vectors : vec'[v].used = vec[v].used
        /\ \A v \in Vectors : SameVals(heap, vec[v], tmp, heap', vec'[v], tmp', 1)
        /\ Keeps(heap', vec', tmp', 1, {s}, IterEmptied)
    BY <1>1, <1>21
  <2>2. Holds(AnyContents', heap', vec', tmp', 1)
    BY <1>0, <1>1, <2>1, IterNextContents
  <2>3. Holds(AnyContents, heap, vec, tmp, 1)
    BY <1>0, IterContents
  <2> QED BY <2>1, <2>2, <2>3, HoldsSame
<1> QED BY <1>1, <1>21, <1>22, <1>23, <1>24 DEF IterKeeps

\* The exchange is where a construction or a copy takes effect; that of realloc copies
\* the vector to itself.
LEMMA IterExchanges ==
  ASSUME Iterated, IterSound, IterSound', IterKeeps, Iter!Exchange
  PROVE  /\ IterKeeps'
         /\ op.v \in Vectors /\ op.from \in Vectors
         /\ \/ op.list \in Given /\ Promise!construct(op.v, op.list)
            \/ Promise!copy(op.v, op.from)
<1> DEFINE v == op.v
           s == op.from
<1>0. Memory(1) /\ Memory(1)' /\ IterOpSound /\ PushSound /\ vec \in [Vectors -> Storages]
  BY DEF IterSound, Memory, VecTypeOK
<1>1. /\ op.pc = "fill" /\ tmp.used = Iter!FillCount /\ Iter!Goto("drop") /\ heap' = heap
      /\ vec' = [vec EXCEPT ![v] = tmp] /\ version' = version
  BY DEF Iter!Exchange, Iter!At
<1>2. s \in Vectors /\ v \in Vectors /\ op.list \in Seq(Values)
  BY <1>0, <1>1, IterOpFacts DEF Building
<1>3. op'.pc = "drop"
  BY <1>0, <1>1, BuildGoto, IterOpFacts
<1>4. Counts(vec) /\ vec[v].used \in Nat /\ vec[s].used \in Nat /\ tmp.used \in Nat /\ (tmp.used > 0 => tmp.arr # nullptr)
  BY <1>0, <1>2, CountsFacts DEF Counts
<1>5. /\ Keeps(heap, vec, tmp, 1, {s}, IterEmptied) /\ IterEmptied \subseteq {v}
  BY <1>1 DEF IterFeeding, IterEmptied, IterKeeps
<1>6. Replaced(vec, vec', v, tmp)
  BY <1>0, <1>1, <1>2 DEF Replaced
<1>7. vec'[v] = tmp /\ \A w \in Vectors : w # v => vec'[w] = vec[w]
  BY <1>6 DEF Replaced
<1> HIDE DEF v, s
<1>8. /\ Keeps(heap, vec', tmp', 1, {}, {})
      /\ \A i \in 1..tmp.used : Val(heap, vec'[v], tmp', 1, i) = Elt(heap, tmp, 1, i)
      /\ \A w \in Vectors : w # v => SameVals(heap, vec[w], tmp, heap, vec'[w], tmp', 1)
  BY <1>2, <1>5, <1>6, KeepsExchanged
<1>9. IterKeeps'
  BY <1>1, <1>3, <1>8 DEF IterKeeps, IterFeeding, IterEmptied, Constructing
<1>10. Holds(AnyContents, heap, vec, tmp, 1) /\ Holds(AnyContents', heap, vec', tmp', 1)
  <2>1. Keeps(heap', vec', tmp', 1, {}, {})
    BY <1>1, <1>8
  <2>2. Holds(AnyContents', heap', vec', tmp', 1)
    BY <1>0, <1>1, <2>1, IterNextContents
  <2> QED BY <1>0, <1>1, <2>2, IterContents
<1>11. ASSUME NEW i \in 1..tmp.used, i <= vec[s].used
       PROVE  Val(heap, vec'[v], tmp', 1, i) = Val(heap, vec[s], tmp, 1, i)
  <2>1. Val(heap, vec[s], tmp, 1, i) = Elt(heap, tmp, 1, i)
    BY <1>4, <1>5, <1>11, ValCopied
  <2> QED BY <1>8, <2>1
<1>12. CASE op.name = "construct"
  <2>1. /\ vec[v].used = 0 /\ op.list \in Given /\ \A i \in 1..tmp.used : Elt(heap, tmp, 1, i) = op.list[i]
    BY <1>1, <1>12 DEF IterKeeps, Constructing, v
  <2>2. tmp.used = Len(op.list)
    BY <1>1, <1>12 DEF Iter!FillCount
  <2> DEFINE D == AnyContents'
             C == AnyContents
             n == Len(op.list)
  <2>3. Rows(C, vec) /\ Rows(D, vec')
    BY <1>10 DEF Holds
  <2>4. D[v] = op.list
    <3>1. D[v] = [i \in 1..n |-> D[v][i]]
      BY <1>2, <1>7, <2>2, <2>3 DEF Rows
    <3>2. ASSUME NEW i \in 1..n PROVE D[v][i] = op.list[i]
      <4>1. D[v][i] = Val(heap, vec'[v], tmp', 1, i)
        BY <1>2, <1>7, <1>10, <2>2 DEF Holds
      <4> QED BY <1>8, <2>1, <2>2, <4>1
    <3>3. op.list = [i \in 1..n |-> op.list[i]]
      BY <1>2
    <3> HIDE DEF D, n
    <3>4. [i \in 1..n |-> D[v][i]] = [i \in 1..n |-> op.list[i]]
      BY <3>2
    <3> QED BY <3>1, <3>3, <3>4
  <2>5. C[v] = << >>
    <3>1. C[v] = [i \in 1..0 |-> C[v][i]]
      BY <1>2, <2>1, <2>3 DEF Rows
    <3> QED BY <3>1
  <2>6. OtherRows(D, vec', C, vec, v)
    <3>1. ASSUME NEW w \in Vectors, w # v PROVE SameRow(D, vec', w, C, vec, w)
      BY <1>7, <1>8, <1>10, <3>1 DEF Holds, SameRow, SameVals
    <3> QED BY <3>1 DEF OtherRows
  <2> HIDE DEF D, C
  <2>7. D = [C EXCEPT ![v] = op.list]
    BY <1>2, <2>3, <2>4, <2>6, RowsUpdated
  <2> QED BY <1>2, <1>9, <2>1, <2>5, <2>7 DEF Promise!construct, D, C, v, s
<1>13. CASE op.name # "construct"
  <2>1. tmp.used = vec[s].used
    BY <1>1, <1>13 DEF Iter!FillCount, s
  <2>2. SameVals(heap, vec[s], tmp, heap, vec'[v], tmp', 1)
    BY <1>4, <1>11, <2>1 DEF SameVals
  <2>3. /\ vec'[v].used = vec[s].used /\ \A w \in Vectors : w # v => vec'[w].used = vec[w].used
    BY <1>7, <2>1
  <2>4. AnyContents' = [AnyContents EXCEPT ![v] = AnyContents[s]]
    BY <1>2, <1>8, <1>10, <2>2, <2>3, HoldsCopied
  <2> QED BY <1>2, <1>9, <2>4 DEF Promise!copy, v, s
<1> QED BY <1>12, <1>13

\* push into a vector with room.
LEMMA IterInserts ==
  ASSUME Iterated, IterSound, IterSound', IterKeeps, Iter!Here
  PROVE  /\ IterKeeps'
         /\ \/ UNCHANGED AnyContents
            \/ op.v \in Vectors /\ \E x \in Values : Promise!push(op.v, x)
<1> DEFINE v == op.v
           x == IF Iter!IsElement(op.arg) THEN heap[op.arg.block][op.arg.place + 1] ELSE op.arg
           j == vec[v].used + 1
<1>0. Memory(1) /\ Memory(1)' /\ VecTypeOK /\ IterOpSound /\ RoomSound /\ PushSound
  BY DEF IterSound, Memory
<1>1. op.pc = "here" /\ version' = version /\ tmp' = tmp
  BY DEF Iter!Here, Iter!At
<1>2. /\ v \in Vectors
      /\ vec[v].used < MaxUsed - 1 /\ vec[v].used < vec[v].size
      /\ op.arg \in Values \/ op.arg \in [block : Buffers, place : 1..vec[v].used]
  BY <1>0, <1>1, IterOpFacts DEF PushSound, Argued
<1>3. vec[v].used \in Nat /\ vec[v].size \in Nat /\ MaxUsed - 1 \in Int /\ Counts(vec)
  BY <1>0, <1>2, CountsFacts, BoundAssumption DEF Counts
<1>4. IterEmptied = {} /\ Keeps(heap, vec, tmp, 1, IterFeeding, {})
  BY <1>1 DEF IterEmptied, IterKeeps
<1>5. CASE Iter!Dangles(op.arg)
  <2>1. Iter!Goto("dangling") /\ UNCHANGED <<vec, heap, tmp>>
    BY <1>1, <1>5 DEF Iter!Here
  <2>2. op'.pc = "dangling"
    BY <1>0, <1>1, <2>1, IterOpFacts DEF Iter!Goto, Building, Inserting
  <2>3. Constructing'
    BY <2>2 DEF Constructing
  <2> QED BY <1>0, <1>1, <2>1, <2>2, <2>3, IterReads DEF IterKeeps
<1>6. CASE ~Iter!Dangles(op.arg)
  <2>1. /\ op'.pc = "idle" /\ vec' = [vec EXCEPT ![v].used = vec[v].used + 1]
        /\ heap' = [heap EXCEPT ![vec[v].arr][vec[v].used + 2] = x]
    BY <1>6 DEF Iter!Here, Iter!Idle
  <2>2. x \in Values
    <3>1. CASE op.arg \in Values
      <4>1. op.arg \notin [block : Buffers, place : 1..MaxUsed - 1]
        <5>1. 1..MaxUsed - 1 \subseteq Nat
          BY <1>3
        <5>2. op.arg \notin [block : Buffers, place : Nat]
          BY <3>1, ElementAssumption
        <5> QED BY <5>1, <5>2
      <4> QED BY <3>1, <4>1 DEF Iter!IsElement
    <3>2. CASE op.arg \in [block : Buffers, place : 1..vec[v].used]
      <4>1. Iter!IsElement(op.arg)
        <5>1. 1..vec[v].used \subseteq 1..(MaxUsed - 1)
          BY <1>2, <1>3
        <5> QED BY <3>2, <5>1 DEF Iter!IsElement
      <4>2. op.arg.block = vec[v].arr /\ op.arg.place \in 1..vec[v].used
        BY <1>6, <3>2, <4>1 DEF Iter!Dangles
      <4>3. x = Elt(heap, vec[v], 1, op.arg.place)
        BY <4>1, <4>2 DEF Elt
      <4>4. Elt(heap, vec[v], 1, op.arg.place) \in Values
        BY <1>2, <1>4, <4>2 DEF Keeps
      <4> QED BY <4>3, <4>4
    <3> QED BY <1>2, <3>1, <3>2
  <2> HIDE DEF x
  <2>3. j \in 1..vec[v].size /\ j \in Nat /\ j + 1 = vec[v].used + 2
    BY <1>2, <1>3
  <2>4. Poked(heap, vec[v].arr, j + 1, x, heap') /\ x \in Slots
    BY <2>1, <2>2, <2>3 DEF Poked, Slots
  <2>5. vec'[v].arr = vec[v].arr /\ vec'[v].used = j /\ \A w \in Vectors : w # v => vec'[w] = vec[w]
    <3>1. vec' = [vec EXCEPT ![v].used = j]
      BY <2>1
    <3> HIDE DEF j, v
    <3> QED BY <1>0, <1>1, <1>2, <2>3, <3>1, VecRecounted
  <2> HIDE DEF j, v
  <2>6. VecRewritten(1, heap, v, j, x, heap')
    BY <1>0, <1>2, <2>3, <2>4, VecPoked
  <2>7. vec'[v].used = vec[v].used + 1 /\ \A w \in Vectors : w # v => vec'[w].used = vec[w].used
    BY <2>5 DEF j
  <2>8. Appended(heap, vec, heap', vec', 1, v, x)
    <3>1. ASSUME NEW w \in Vectors, NEW i \in 1..vec'[w].used
          PROVE  heap'[vec'[w].arr][i + 1] = IF w = v /\ i = vec[v].used + 1 THEN x ELSE heap[vec[w].arr][i + 1]
      <4>1. vec'[w].arr = vec[w].arr
        BY <2>5
      <4>2. i \in 1..vec[w].size
        <5>1. CASE w = v
          BY <1>2, <1>3, <2>7, <5>1
        <5>2. CASE w # v
          BY <1>0, <2>5, <5>2, CountsFacts DEF Counts
        <5> QED BY <5>1, <5>2
      <4>3. heap'[vec[w].arr][i + 1] = IF w = v /\ i = j THEN x ELSE heap[vec[w].arr][i + 1]
        BY <2>6, <4>2, Zenon DEF VecRewritten
      <4> QED BY <4>1, <4>3 DEF j
    <3> QED BY <2>7, <3>1, Zenon DEF Appended, Elt
  <2>9. /\ Keeps(heap', vec', tmp', 1, {}, {})
        /\ Val(heap', vec'[v], tmp', 1, vec[v].used + 1) = x
        /\ \A w \in Vectors : SameVals(heap, vec[w], tmp, heap', vec'[w], tmp', 1)
    BY <1>2, <1>3, <1>4, <2>2, <2>8, KeepsGrown
  <2>10. IterKeeps'
    BY <2>1, <2>9 DEF IterKeeps, IterFeeding, IterEmptied, Constructing
  <2>11. Holds(AnyContents', heap', vec', tmp', 1) /\ Holds(AnyContents, heap, vec, tmp, 1)
    BY <1>0, <1>1, <2>9, IterNextContents, IterContents
  <2>12. AnyContents' = [AnyContents EXCEPT ![v] = Append(AnyContents[v], x)]
    BY <1>2, <1>3, <2>7, <2>9, <2>11, HoldsPushed
  <2> QED BY <1>2, <2>2, <2>10, <2>12 DEF Promise!push, v
<1> QED BY <1>5, <1>6

LEMMA IterPops ==
  ASSUME Iterated, IterSound, IterSound', IterKeeps, NEW v \in Vectors, Iter!pop(v)
  PROVE  IterKeeps' /\ Promise!pop(v)
<1>0. Memory(1) /\ Memory(1)' /\ VecTypeOK
  BY DEF IterSound, Memory
<1>1. /\ op.pc = "idle" /\ vec[v].used # 0 /\ op' = op /\ tmp' = tmp /\ version' = version
      /\ vec' = [vec EXCEPT ![v].used = vec[v].used - 1]
      /\ heap' = [heap EXCEPT ![vec[v].arr][vec[v].used + 1] = "raw"]
  BY DEF Iter!pop, Iter!At
<1>2. Counts(vec) /\ vec[v].used \in Nat /\ vec[v].size \in Nat /\ vec[v].used <= vec[v].size
  BY <1>0, CountsFacts DEF Counts
<1> DEFINE j == vec[v].used
<1>3. j \in 1..vec[v].size /\ j - 1 \in Nat
  BY <1>1, <1>2
<1>4. /\ vec'[v].arr = vec[v].arr /\ vec'[v].used = j - 1
      /\ \A w \in Vectors : w # v => vec'[w] = vec[w]
  BY <1>0, <1>1, <1>3, VecRecounted
<1>5. Poked(heap, vec[v].arr, j + 1, "raw", heap') /\ "raw" \in Slots
  BY <1>1 DEF Poked, Slots
<1>6. VecRewritten(1, heap, v, j, "raw", heap')
  BY <1>0, <1>3, <1>5, VecPoked
<1>7. Counts(vec') /\ vec'[v].used \in Nat
  BY <1>2, <1>3, <1>4 DEF Counts
<1>8. vec[v].used = vec'[v].used + 1 /\ \A w \in Vectors : w # v => vec'[w].used = vec[w].used
  BY <1>2, <1>4
<1>9. Shortened(heap, vec, heap', vec', 1, v)
  <2>1. ASSUME NEW w \in Vectors, NEW i \in 1..vec'[w].used
        PROVE  heap'[vec'[w].arr][i + 1] = heap[vec[w].arr][i + 1]
    <3>1. vec'[w].arr = vec[w].arr
      BY <1>4
    <3>2. i \in 1..vec[w].size /\ ~(w = v /\ i = j)
      <4>1. CASE w = v
        BY <1>2, <1>4, <4>1
      <4>2. CASE w # v
        BY <1>0, <1>4, <4>2, CountsFacts DEF Counts
      <4> QED BY <4>1, <4>2
    <3>3. heap'[vec[w].arr][i + 1] = IF w = v /\ i = j THEN "raw" ELSE heap[vec[w].arr][i + 1]
      BY <1>6, <3>2, Zenon DEF VecRewritten
    <3> QED BY <3>1, <3>2, <3>3
  <2> QED BY <1>8, <2>1, Zenon DEF Shortened, Elt
<1>10. Keeps(heap, vec, tmp, 1, IterFeeding, {})
  BY <1>1 DEF IterKeeps, IterEmptied
<1>11. /\ Keeps(heap', vec', tmp', 1, {}, {})
       /\ \A w \in Vectors : SameVals(heap', vec'[w], tmp', heap, vec[w], tmp, 1)
  BY <1>2, <1>7, <1>9, <1>10, KeepsShrunk
<1>12. IterKeeps'
  BY <1>1, <1>11 DEF IterKeeps, IterFeeding, IterEmptied, Constructing
<1>13. Holds(AnyContents', heap', vec', tmp', 1) /\ Holds(AnyContents, heap, vec, tmp, 1)
  BY <1>0, <1>1, <1>11, IterNextContents, IterContents
<1>14. /\ AnyContents[v] # << >>
       /\ AnyContents' = [AnyContents EXCEPT ![v] = SubSeq(AnyContents[v], 1, Len(AnyContents[v]) - 1)]
  BY <1>7, <1>8, <1>11, <1>13, HoldsPopped
<1> QED BY <1>12, <1>14 DEF Promise!pop

LEMMA IterMoves ==
  ASSUME Iterated, IterSound, IterSound', IterKeeps, NEW v \in Vectors, NEW w \in Vectors, Iter!move(v, w)
  PROVE  IterKeeps' /\ Promise!move(v, w)
<1>1. /\ op.pc = "idle" /\ heap' = heap /\ op' = op /\ tmp' = tmp /\ version' = version
      /\ vec' = [vec EXCEPT ![v] = vec[w], ![w] = vec[v]]
  BY DEF Iter!move, Iter!At
<1>2. Memory(1) /\ Memory(1)'
  BY DEF IterSound
<1>3. Exchanged(vec, vec', v, w)
  BY <1>1, <1>2 DEF Exchanged, Memory, VecTypeOK
<1>4. Keeps(heap, vec, tmp, 1, IterFeeding, {})
  BY <1>1 DEF IterKeeps, IterEmptied
<1>5. /\ Keeps(heap, vec', tmp', 1, {}, {})
      /\ SameVals(heap, vec[w], tmp, heap, vec'[v], tmp', 1) /\ SameVals(heap, vec[v], tmp, heap, vec'[w], tmp', 1)
      /\ \A u \in Vectors : u # v /\ u # w => SameVals(heap, vec[u], tmp, heap, vec'[u], tmp', 1)
  BY <1>3, <1>4, KeepsMoved
<1>6. IterKeeps'
  BY <1>1, <1>5 DEF IterKeeps, IterFeeding, IterEmptied, Constructing
<1>7. Holds(AnyContents, heap, vec, tmp, 1) /\ Holds(AnyContents', heap, vec', tmp', 1)
  <2>1. Keeps(heap', vec', tmp', 1, {}, {})
    BY <1>1, <1>5
  <2>2. Holds(AnyContents', heap', vec', tmp', 1)
    BY <1>1, <1>2, <2>1, IterNextContents
  <2> QED BY <1>1, <1>2, <2>2, IterContents
<1>8. AnyContents' = [AnyContents EXCEPT ![v] = AnyContents[w], ![w] = AnyContents[v]]
  BY <1>3, <1>5, <1>7, HoldsMoved
<1> QED BY <1>6, <1>8 DEF Promise!move

\* Each step of versions 5 and 6 is one of VecSpec or changes no contents.
LEMMA IterRefines ==
  ASSUME Iterated, IterSound, IterSound', IterKeeps, Iter!Next
  PROVE  IterKeeps' /\ (Promise!Next \/ UNCHANGED AnyContents)
<1>1. CASE \E v \in Vectors : \/ \E list \in Given : Iter!construct(v, list)
                              \/ \E arg : Iter!push(v, arg)
                              \/ \E back : Iter!walk(v, back)
                              \/ \E w \in Vectors : Iter!assign(v, w)
  BY <1>1, IterBegins
<1>2. CASE Iter!Iterate \/ Iter!IterateEnds \/ Iter!Drop \/ Iter!Throw \/ Iter!Fill
  BY <1>2, IterWalks, IterDrops, IterFills
<1>3. CASE \E b \in Buffers : Iter!Allocate(b)
  BY <1>3, IterAllocates
<1>4. CASE Iter!Exchange
  BY <1>4, IterExchanges DEF Promise!Next
<1>5. CASE Iter!Here
  BY <1>5, IterInserts DEF Promise!Next
<1>6. CASE \E v \in Vectors : Iter!pop(v) \/ \E w \in Vectors : Iter!move(v, w)
  BY <1>6, IterPops, IterMoves DEF Promise!Next
<1> QED BY <1>1, <1>2, <1>3, <1>4, <1>5, <1>6 DEF Iter!Next, Iter!Step

-----------------------------------------------------------------------------
(* Versions 1 and 2.                                                       *)

RowOf(h, o) == [i \in 1..o.used |-> Elt(h, o, 1, i)]
Plain(h, V) == [v \in Vectors |-> RowOf(h, V[v])]

\* An assignment of version 1 is under way.
Assigning == op.pc \in {"alloc", "fill"} /\ op.name = "assign"

\* What the new array has so far.
Repeats == op.pc = "fill" => \A i \in 1..tmp.used : Elt(heap, tmp, 1, i) = Elt(heap, vec[op.from], 1, i)

\* The contents that an assignment of version 1 found are those of the others still.
OldKept == Assigning => op.old = [v \in Vectors |-> IF v = op.v THEN op.old[v] ELSE RowOf(heap, vec[v])]

\* The invariant of versions 1 and 2 that the refinement needs, up to an exception
\* of version 1.
ArrKeeps == /\ op.pc # "idle" /\ op.name = "push" => op.t \in Values
            /\ Repeats /\ OldKept

LEMMA PlainHolds ==
  ASSUME NEW h, NEW V PROVE Holds(Plain(h, V), h, V, NoVector, 1)
<1> DEFINE C == Plain(h, V)
<1>1. NoVector.arr = nullptr
  BY DEF NoVector, Vector
<1>2. \A v \in Vectors : C[v] = [i \in 1..V[v].used |-> Elt(h, V[v], 1, i)]
  BY DEF Plain, RowOf
<1>3. C = [v \in Vectors |-> C[v]]
  BY DEF Plain
<1> HIDE DEF C
<1>4. \A v \in Vectors : \A i \in 1..V[v].used : C[v][i] = Elt(h, V[v], 1, i)
  BY <1>2
<1>5. \A v \in Vectors : C[v] = [i \in 1..V[v].used |-> C[v][i]]
  BY <1>2
<1>6. Rows(C, V)
  BY <1>3, <1>5, Zenon DEF Rows
<1>7. \A v \in Vectors : \A i \in 1..V[v].used : C[v][i] = Val(h, V[v], NoVector, 1, i)
  BY <1>1, <1>4 DEF Val
<1>8. Holds(C, h, V, NoVector, 1)
  BY <1>6, <1>7 DEF Holds
<1> QED BY <1>8 DEF C

\* Nothing is taken from elsewhere.
LEMMA PlainVal ==
  ASSUME NEW h, NEW o, NEW i PROVE Val(h, o, NoVector, 1, i) = Elt(h, o, 1, i)
BY DEF Val, NoVector, Vector

LEMMA PlainSame ==
  ASSUME NEW h, NEW V, NEW g, NEW W, SameElts(h, V, g, W, 1)
  PROVE  Plain(g, W) = Plain(h, V)
<1>1. ASSUME NEW v \in Vectors PROVE RowOf(g, W[v]) = RowOf(h, V[v])
  BY DEF SameElts, RowOf
<1> QED BY <1>1 DEF Plain

LEMMA ArrContents ==
  ASSUME InArrays
  PROVE  AnyContents = IF op.pc = "idle" \/ op.name # "assign" THEN Plain(heap, vec) ELSE op.old
<1>1. AnyContents = Arrays!Contents
  BY WhoseContents
<1> QED BY <1>1 DEF Arrays!Contents, Arrays!At, Arrays!Stored, Plain, RowOf, Elt

LEMMA ArrNextContents ==
  ASSUME InArrays, version' = version
  PROVE  AnyContents' = IF op'.pc = "idle" \/ op'.name # "assign" THEN Plain(heap', vec') ELSE op'.old
<1>1. InArrays'
  BY DEF InArrays, Buffered, Iterated
<1>2. AnyContents' = Arrays!Contents'
  BY <1>1, WhoseNextContents
<1> QED BY <1>2 DEF Arrays!Contents, Arrays!At, Arrays!Stored, Plain, RowOf, Elt

\* Where no assignment is under way the elements tell.
LEMMA ArrPlain ==
  ASSUME InArrays, version' = version, op.pc = "idle" \/ op.name # "assign",
         op'.pc = "idle" \/ op'.name # "assign"
  PROVE  AnyContents = Plain(heap, vec) /\ AnyContents' = Plain(heap', vec')
BY ArrContents, ArrNextContents

\* A vector does not notice what happens to the array a of another holder.
LEMMA RowKept ==
  ASSUME ArrInvariant, ArrKeeps, NEW v \in Vectors, ~Arrays!Bereft(v), NEW a,
         Hold[v] # nullptr => Hold[v] # a, NEW g, \A b \in Buffers : b # a => g[b] = heap[b]
  PROVE  \A i \in 1..vec[v].used : Elt(g, vec[v], 1, i) = Elt(heap, vec[v], 1, i)
<1>1. Hold[v] = vec[v].arr /\ (Hold[v] = nullptr \/ Hold[v] \in Buffers)
  BY ArrFacts
<1>2. CASE vec[v].arr = nullptr
  <2>1. vec[v].used = 0
    BY <1>2, ArrFacts
  <2>2. 1..vec[v].used = {}
    BY <2>1
  <2> QED BY <2>2
<1>3. CASE vec[v].arr # nullptr
  <2>1. g[vec[v].arr] = heap[vec[v].arr]
    BY <1>1, <1>3
  <2> QED BY <2>1 DEF Elt
<1> QED BY <1>2, <1>3

LEMMA OtherHolders ==
  ASSUME ArrInvariant, NEW v \in Vectors, NEW n \in Names, v # n
  PROVE  Hold[v] # nullptr => Hold[v] # Hold[n]
<1>1. v \in Names
  BY DEF Names
<1> QED BY <1>1 DEF ArrInvariant, Held

\* The operation keeps what it found as it goes on.
LEMMA ArrOld ==
  ASSUME Shaped, NEW label, op' = [op EXCEPT !.pc = label]
  PROVE  op'.old = op.old
<1>1. PICK p, n, v, w, x, o : op = [pc |-> p, name |-> n, v |-> v, from |-> w, t |-> x, old |-> o]
  BY DEF Shaped
<1> QED BY <1>1

\* A step that leaves the vectors alone, and the arrays of all that have one.
LEMMA RowsKept ==
  ASSUME ArrInvariant, ArrKeeps, vec' = vec, NEW a, \A b \in Buffers : b # a => heap'[b] = heap[b],
         \A v \in Vectors : ~Arrays!Bereft(v) /\ Hold[v] # nullptr => Hold[v] # a
  PROVE  /\ \A v \in Vectors : ~Arrays!Bereft(v) =>
              \A i \in 1..vec[v].used : Elt(heap', vec'[v], 1, i) = Elt(heap, vec[v], 1, i)
         /\ \A v \in Vectors : ~Arrays!Bereft(v) => RowOf(heap', vec'[v]) = RowOf(heap, vec[v])
<1> DEFINE g == heap'
<1>0. \A b \in Buffers : b # a => g[b] = heap[b]
  OBVIOUS
<1> HIDE DEF g
<1>1. ASSUME NEW v \in Vectors, ~Arrays!Bereft(v)
      PROVE  \A i \in 1..vec[v].used : Elt(g, vec[v], 1, i) = Elt(heap, vec[v], 1, i)
  BY <1>0, <1>1, RowKept
<1>2. ASSUME NEW v \in Vectors, ~Arrays!Bereft(v)
      PROVE  RowOf(g, vec[v]) = RowOf(heap, vec[v])
  BY <1>1, <1>2 DEF RowOf
<1> QED BY <1>1, <1>2 DEF g

\* Without an assignment nothing changes then, in one all is kept as it was found.
LEMMA ArrStays ==
  ASSUME InArrays, version' = version, ArrInvariant, ArrKeeps, vec' = vec,
         NEW a, \A b \in Buffers : b # a => heap'[b] = heap[b],
         \A v \in Vectors : ~Arrays!Bereft(v) /\ Hold[v] # nullptr => Hold[v] # a,
         \/ /\ op.pc = "idle" \/ op.name # "assign"
            /\ op'.pc = "idle" \/ op'.name # "assign"
         \/ Assigning /\ Assigning' /\ op'.old = op.old /\ op'.v = op.v
  PROVE  OldKept' /\ UNCHANGED AnyContents
<1>1. CASE /\ op.pc = "idle" \/ op.name # "assign"
           /\ op'.pc = "idle" \/ op'.name # "assign"
  <2>1. \A v \in Vectors : ~Arrays!Bereft(v)
    BY <1>1 DEF Arrays!Bereft
  <2>2. SameElts(heap, vec, heap', vec', 1)
    BY <2>1, RowsKept DEF SameElts
  <2>3. Plain(heap', vec') = Plain(heap, vec)
    BY <2>2, PlainSame
  <2>4. AnyContents = Plain(heap, vec) /\ AnyContents' = Plain(heap', vec')
    BY <1>1, ArrPlain
  <2> QED BY <1>1, <2>3, <2>4 DEF OldKept, Assigning
<1>2. CASE Assigning /\ Assigning' /\ op'.old = op.old /\ op'.v = op.v
  <2>1. AnyContents = op.old /\ AnyContents' = op'.old
    BY <1>2, ArrContents, ArrNextContents DEF Assigning
  <2>2. \A v \in Vectors : v # op.v => RowOf(heap', vec'[v]) = RowOf(heap, vec[v])
    BY RowsKept DEF Arrays!Bereft
  <2>3. op.old = [v \in Vectors |-> IF v = op.v THEN op.old[v] ELSE RowOf(heap, vec[v])]
    BY <1>2 DEF ArrKeeps, OldKept
  <2>4. op.old = [v \in Vectors |-> IF v = op.v THEN op.old[v] ELSE RowOf(heap', vec'[v])]
    BY <2>2, <2>3
  <2> QED BY <1>2, <2>1, <2>4 DEF OldKept
<1> QED BY <1>1, <1>2

LEMMA ArrPushRefines ==
  ASSUME InArrays, ArrInvariant, ArrKeeps, NEW v \in Vectors, NEW x \in Values, Arrays!push(v, x)
  PROVE  ArrKeeps' /\ UNCHANGED AnyContents
<1> DEFINE p == IF vec[v].used = vec[v].size THEN "alloc" ELSE "store"
<1>1. /\ op.pc = "idle" /\ UNCHANGED <<version, vec, heap, tmp>>
      /\ op' = [pc |-> p, name |-> "push", v |-> v, from |-> v, t |-> x, old |-> Arrays!Contents]
  BY DEF Arrays!push, Arrays!At, Arrays!Start
<1>2. op'.pc \in {"alloc", "store"} /\ op'.name = "push" /\ op'.t = x
  BY <1>1
<1>3. AnyContents = Plain(heap, vec) /\ AnyContents' = Plain(heap, vec)
  BY <1>1, <1>2, ArrPlain
<1>4. ArrKeeps'
  BY <1>1, <1>2 DEF ArrKeeps, Repeats, OldKept, Assigning
<1> QED BY <1>3, <1>4

LEMMA ArrConstructRefines ==
  ASSUME InArrays, ArrInvariant, ArrKeeps, NEW v \in Vectors, NEW w \in Vectors, Arrays!construct(v, w)
  PROVE  ArrKeeps' /\ UNCHANGED AnyContents
<1>1. /\ op.pc = "idle" /\ UNCHANGED <<version, vec, heap, tmp>>
      /\ op' = [pc |-> "alloc", name |-> "construct", v |-> v, from |-> w, t |-> "default", old |-> Arrays!Contents]
  BY DEF Arrays!construct, Arrays!At, Arrays!Start
<1>2. op'.pc = "alloc" /\ op'.name = "construct"
  BY <1>1
<1>3. AnyContents = Plain(heap, vec) /\ AnyContents' = Plain(heap, vec)
  BY <1>1, <1>2, ArrPlain
<1>4. ArrKeeps'
  BY <1>1, <1>2 DEF ArrKeeps, Repeats, OldKept, Assigning
<1> QED BY <1>3, <1>4

\* Version 1 shortens the vector before the copy that it returns can throw.
LEMMA ArrPopRefines ==
  ASSUME InArrays, ArrInvariant, ArrKeeps, NEW v \in Vectors, Arrays!pop(v)
  PROVE  (op'.pc = "thrown" \/ ArrKeeps') /\ Promise!pop(v)
<1>1. /\ op.pc = "idle" /\ vec[v].used >= 1 /\ UNCHANGED <<version, heap, tmp>>
      /\ vec' = [vec EXCEPT ![v].used = vec[v].used - 1]
      /\ \/ op' = op
         \/ op' = [Arrays!Start("thrown", "pop", v, v) EXCEPT !.pc = "thrown"]
  BY DEF Arrays!pop, Arrays!At
<1>2. op'.pc = "idle" \/ (op'.pc = "thrown" /\ op'.name = "pop")
  BY <1>1 DEF Arrays!Start
<1>3. vec \in [Vectors -> Storages] /\ vec[v] \in Storages /\ vec[v].used \in Nat
  BY ArrFacts DEF ArrInvariant, ArrTypeOK
<1>4. /\ vec'[v].arr = vec[v].arr /\ vec'[v].used = vec[v].used - 1
      /\ \A w \in Vectors : w # v => vec'[w] = vec[w]
  BY <1>1, <1>3 DEF Storages
<1>5. vec'[v].used \in Nat /\ vec[v].used = vec'[v].used + 1
  BY <1>1, <1>3, <1>4
<1>6. ASSUME NEW w \in Vectors PROVE SameVals(heap, vec'[w], NoVector, heap, vec[w], NoVector, 1)
  <2>1. vec'[w].arr = vec[w].arr
    BY <1>4
  <2>2. \A i : Elt(heap, vec'[w], 1, i) = Elt(heap, vec[w], 1, i)
    BY <2>1 DEF Elt
  <2> QED BY <2>2, PlainVal DEF SameVals
<1>7. AnyContents = Plain(heap, vec) /\ AnyContents' = Plain(heap, vec')
  BY <1>1, <1>2, ArrPlain
<1>8. Holds(AnyContents, heap, vec, NoVector, 1) /\ Holds(AnyContents', heap, vec', NoVector, 1)
  BY <1>7, PlainHolds
<1>9. /\ AnyContents[v] # << >>
      /\ AnyContents' = [AnyContents EXCEPT ![v] = SubSeq(AnyContents[v], 1, Len(AnyContents[v]) - 1)]
  <2>1. \A w \in Vectors : w # v => vec'[w].used = vec[w].used
    BY <1>4
  <2> QED BY <1>5, <1>6, <1>8, <2>1, HoldsPopped
<1>10. op'.pc = "idle" => ArrKeeps'
  BY <1>1, <1>4 DEF ArrKeeps, Repeats, OldKept, Assigning
<1> QED BY <1>2, <1>9, <1>10 DEF Promise!pop

\* The vector that is built had nothing to give.
LEMMA ArrStealRefines ==
  ASSUME InArrays, ArrInvariant, ArrKeeps, NEW v \in Vectors, NEW w \in Vectors, Arrays!steal(v, w)
  PROVE  ArrKeeps' /\ Promise!move(v, w)
<1>1. /\ op.pc = "idle" /\ vec[v].arr = nullptr /\ vec[w].arr # nullptr /\ UNCHANGED <<version, heap, op, tmp>>
      /\ vec' = [vec EXCEPT ![v] = vec[w], ![w] = NoVector]
  BY DEF Arrays!steal, Arrays!At, Arrays!HasArray, Arrays!NoVector, NoVector, Arrays!Vector, Vector
<1>2. vec \in [Vectors -> Storages] /\ v # w /\ vec[v] = NoVector
  BY <1>1 DEF ArrInvariant, ArrTypeOK, Bare, Arrays!Bereft
<1>3. Exchanged(vec, vec', v, w)
  BY <1>1, <1>2 DEF Exchanged
<1>4. AnyContents = Plain(heap, vec) /\ AnyContents' = Plain(heap, vec')
  BY <1>1, ArrPlain
<1>5. Holds(AnyContents, heap, vec, NoVector, 1) /\ Holds(AnyContents', heap, vec', NoVector, 1)
  BY <1>4, PlainHolds
<1>6. /\ SameVals(heap, vec[w], NoVector, heap, vec'[v], NoVector, 1)
      /\ SameVals(heap, vec[v], NoVector, heap, vec'[w], NoVector, 1)
      /\ \A u \in Vectors : u # v /\ u # w => SameVals(heap, vec[u], NoVector, heap, vec'[u], NoVector, 1)
  BY <1>3 DEF Exchanged, SameVals
<1>7. AnyContents' = [AnyContents EXCEPT ![v] = AnyContents[w], ![w] = AnyContents[v]]
  BY <1>3, <1>5, <1>6, HoldsMoved
<1>8. ArrKeeps'
  BY <1>1, <1>2 DEF ArrKeeps, Repeats, OldKept, Assigning
<1> QED BY <1>7, <1>8 DEF Promise!move

\* The contents are set aside as the old array goes.
LEMMA ArrAssignRefines ==
  ASSUME InArrays, ArrInvariant, ArrKeeps, NEW v \in Vectors, NEW w \in Vectors, Arrays!assign(v, w)
  PROVE  ArrKeeps' /\ UNCHANGED AnyContents
<1>1. /\ op.pc = "idle" /\ version' = version /\ tmp' = tmp
      /\ vec' = [vec EXCEPT ![v].size = vec[w].size, ![v].used = vec[w].used]
      /\ heap' = Freed(heap, vec[v].arr)
      /\ op' = [pc |-> "alloc", name |-> "assign", v |-> v, from |-> w, t |-> "default", old |-> Arrays!Contents]
  BY DEF Arrays!assign, Arrays!Without, Freed, Arrays!At, Arrays!Start
<1>2. op'.pc = "alloc" /\ op'.name = "assign" /\ op'.v = v /\ op'.old = Arrays!Contents
  BY <1>1
<1>3. AnyContents = Plain(heap, vec) /\ AnyContents = Arrays!Contents /\ AnyContents' = op'.old
  BY <1>1, <1>2, ArrContents, ArrNextContents, WhoseContents
<1>4. vec \in [Vectors -> Storages] /\ heap \in [Buffers -> Seq(Cells)]
  BY DEF ArrInvariant, ArrTypeOK
<1>5. vec'[v].arr = vec[v].arr /\ \A u \in Vectors : u # v => vec'[u] = vec[u]
  BY <1>1, <1>4 DEF Storages
<1>6. \A u \in Vectors : ~Arrays!Bereft(u)
  BY <1>1 DEF Arrays!Bereft
<1>7. v \in Names /\ Hold[v] = vec[v].arr
  BY <1>6, ArrFacts
<1>8. \A b \in Buffers : b # Hold[v] => heap'[b] = heap[b]
  BY <1>1, <1>4, <1>7 DEF Freed
<1>9. ASSUME NEW u \in Vectors, u # v PROVE RowOf(heap', vec'[u]) = RowOf(heap, vec[u])
  <2> DEFINE g == heap'
  <2>0. \A b \in Buffers : b # Hold[v] => g[b] = heap[b]
    BY <1>8
  <2> HIDE DEF g
  <2>1. Hold[u] # nullptr => Hold[u] # Hold[v]
    BY <1>7, <1>9, OtherHolders
  <2>2. \A i \in 1..vec[u].used : Elt(g, vec[u], 1, i) = Elt(heap, vec[u], 1, i)
    BY <1>6, <2>0, <2>1, RowKept
  <2>3. RowOf(g, vec[u]) = RowOf(heap, vec[u])
    BY <2>2 DEF RowOf
  <2> QED BY <1>5, <1>9, <2>3 DEF g
<1>10. op'.old = [u \in Vectors |-> IF u = v THEN op'.old[u] ELSE RowOf(heap', vec'[u])]
  <2> DEFINE d == op'.old
  <2>1. d = Plain(heap, vec)
    BY <1>2, <1>3
  <2>2. \A u \in Vectors : u # v => d[u] = RowOf(heap', vec'[u])
    BY <1>9, <2>1 DEF Plain
  <2>3. d = [u \in Vectors |-> d[u]]
    BY <2>1 DEF Plain
  <2> HIDE DEF d
  <2>4. d = [u \in Vectors |-> IF u = v THEN d[u] ELSE RowOf(heap', vec'[u])]
    BY <2>2, <2>3
  <2> QED BY <2>4 DEF d
<1>11. OldKept' /\ Repeats'
  BY <1>2, <1>10 DEF Repeats, OldKept
<1>12. ArrKeeps'
  BY <1>2, <1>11 DEF ArrKeeps
<1> QED BY <1>2, <1>3, <1>12

LEMMA ArrAllocateRefines ==
  ASSUME InArrays, ArrInvariant, ArrKeeps, NEW b \in Buffers, Arrays!Allocate(b)
  PROVE  ArrKeeps' /\ UNCHANGED AnyContents
<1> DEFINE s == Arrays!NewArray(Arrays!NewSize)
<1>1. /\ op.pc = "alloc" /\ heap[b] = << >> /\ version' = version /\ vec' = vec
      /\ heap' = [heap EXCEPT ![b] = s] /\ op' = [op EXCEPT !.pc = "fill"] /\ tmp'.used = 0
  BY DEF Arrays!Allocate, Arrays!At, Arrays!Allocated, Arrays!Vector
<1> HIDE DEF s
<1>2. /\ Shaped /\ op'.pc = "fill" /\ op'.name = op.name /\ op'.v = op.v /\ op'.t = op.t /\ op'.old = op.old
  BY <1>1, ArrOpFacts, ArrGoto, ArrOld
<1>3. \A c \in Buffers : c # b => heap'[c] = heap[c]
  BY <1>1 DEF ArrInvariant, ArrTypeOK
<1>4. \A v \in Vectors : Hold[v] # nullptr => Hold[v] # b
  BY <1>1, HoldIs DEF ArrInvariant, Held
<1>5. OldKept' /\ UNCHANGED AnyContents
  <2>1. \/ /\ op.pc = "idle" \/ op.name # "assign"
           /\ op'.pc = "idle" \/ op'.name # "assign"
        \/ Assigning /\ Assigning' /\ op'.old = op.old /\ op'.v = op.v
    BY <1>1, <1>2 DEF Assigning
  <2> QED BY <1>1, <1>3, <1>4, <2>1, ArrStays
<1>6. Repeats'
  <2>1. 1..tmp'.used = {}
    BY <1>1
  <2> QED BY <2>1 DEF Repeats
<1> QED BY <1>1, <1>2, <1>5, <1>6 DEF ArrKeeps

LEMMA ArrOverrunRefines ==
  ASSUME InArrays, ArrInvariant, ArraysSound', ArrKeeps, op.pc \in {"fill", "store"}, Arrays!Overrun
  PROVE  ArrKeeps' /\ UNCHANGED AnyContents
<1>1. op' = [op EXCEPT !.pc = "overrun"] /\ UNCHANGED <<version, vec, heap, tmp>>
  BY DEF Arrays!Overrun
<1>2. op'.pc = "overrun" /\ op'.name = op.name /\ op'.t = op.t
  BY <1>1, ArrOpFacts, ArrGoto
<1>3. op'.name = "push"
  BY <1>2 DEF ArraysSound, ArrInvariant, ArrPhases
<1>4. AnyContents = Plain(heap, vec) /\ AnyContents' = Plain(heap, vec)
  BY <1>1, <1>2, <1>3, ArrPlain
<1>5. ArrKeeps'
  BY <1>1, <1>2, <1>3 DEF ArrKeeps, Repeats, OldKept, Assigning
<1> QED BY <1>4, <1>5

LEMMA ArrFillRefines ==
  ASSUME InArrays, ArrInvariant, ArraysSound', ArrKeeps, Arrays!Fill
  PROVE  ArrKeeps' /\ UNCHANGED AnyContents
<1> DEFINE src == vec[op.from].arr
           a == tmp.arr
           i == tmp.used + 1
<1>1. op.pc = "fill" /\ tmp.used < Arrays!CopyCount
  BY DEF Arrays!Fill, Arrays!At
<1>2. CASE Arrays!Overrun
  BY <1>1, <1>2, ArrOverrunRefines
<1>3. CASE /\ heap' = [heap EXCEPT ![a][i + 1] = heap[src][i + 1]]
           /\ tmp' = [tmp EXCEPT !.used = i] /\ UNCHANGED <<version, vec, op>>
  <2>1. op.v \in Vectors /\ op.from \in Vectors /\ "tmp" \in Names /\ Hold["tmp"] = a
    BY <1>1, ArrOpFacts, HoldIs
  <2>2. /\ Hold[op.from] = src /\ Hold[op.from] # nullptr /\ Arrays!NewSize \in Nat /\ Arrays!CopyCount \in Nat
        /\ Arrays!CopyCount <= Arrays!NewSize
    <3>1. tmp.used \in Nat
      BY DEF ArrInvariant, ArrTypeOK, Storages
    <3> QED BY <1>1, <3>1, CopyFacts
  <2>3. tmp \in Storages /\ heap \in [Buffers -> Seq(Cells)]
    BY DEF ArrInvariant, ArrTypeOK
  <2>4. a \in Buffers /\ tmp.used \in Nat /\ Len(heap[a]) = Arrays!NewSize + 1
    BY <1>1, <2>3 DEF ArrInvariant, ArrPhases, Storages
  <2>5. \A v \in Vectors : Hold[v] # nullptr => Hold[v] # a
    BY <2>1, HoldIs, OtherHolders
  <2>6. \A b \in Buffers : b # a => heap'[b] = heap[b]
    BY <1>3, <2>3
  <2>7. tmp'.arr = a /\ tmp'.used = i
    BY <1>3, <2>3 DEF Storages
  <2>8. heap'[src] = heap[src]
    <3>1. src \in Buffers /\ src # a
      BY <2>1, <2>2, <2>5, ArrFacts
    <3> QED BY <2>6, <3>1
  <2>9. heap'[a] = [heap[a] EXCEPT ![i + 1] = heap[src][i + 1]]
    BY <1>3, <2>3, <2>4
  <2>10. i + 1 \in 1..Len(heap[a]) /\ DOMAIN heap[a] = 1..Len(heap[a])
    <3> DEFINE n == Arrays!NewSize
               c == Arrays!CopyCount
    <3>1. n \in Nat /\ c \in Nat /\ c <= n /\ tmp.used < c /\ Len(heap[a]) = n + 1 /\ heap[a] \in Seq(Cells)
      BY <1>1, <2>2, <2>3, <2>4
    <3> HIDE DEF n, c, a
    <3> QED BY <2>4, <3>1
  <2>11. heap'[a][i + 1] = heap[src][i + 1] /\ \A m \in 1..tmp.used : heap'[a][m + 1] = heap[a][m + 1]
    <3> DEFINE s == heap[a]
               x == heap[src][i + 1]
    <3>1. i + 1 \in DOMAIN s /\ heap'[a] = [s EXCEPT ![i + 1] = x]
      BY <2>9, <2>10
    <3>2. \A m \in 1..tmp.used : m + 1 # i + 1
      BY <2>4
    <3> HIDE DEF s, x
    <3>3. heap'[a][i + 1] = x /\ \A m \in 1..tmp.used : heap'[a][m + 1] = s[m + 1]
      BY <3>1, <3>2
    <3> QED BY <3>3 DEF s, x
  <2>12. ASSUME NEW m \in 1..tmp'.used PROVE Elt(heap', tmp', 1, m) = Elt(heap', vec'[op'.from], 1, m)
    <3>1. m \in 1..tmp.used \/ m = i
      BY <2>4, <2>7
    <3>2. Elt(heap', vec'[op'.from], 1, m) = heap[src][m + 1] /\ Elt(heap', tmp', 1, m) = heap'[a][m + 1]
      BY <1>3, <2>7, <2>8 DEF Elt
    <3>3. m \in 1..tmp.used => heap[a][m + 1] = heap[src][m + 1]
      BY <1>1 DEF ArrKeeps, Repeats, Elt
    <3> QED BY <2>11, <3>1, <3>2, <3>3
  <2>13. Repeats'
    BY <2>12 DEF Repeats
  <2>14. OldKept' /\ UNCHANGED AnyContents
    <3>1. \/ /\ op.pc = "idle" \/ op.name # "assign"
             /\ op'.pc = "idle" \/ op'.name # "assign"
          \/ Assigning /\ Assigning' /\ op'.old = op.old /\ op'.v = op.v
      BY <1>1, <1>3 DEF Assigning
    <3> HIDE DEF a
    <3> QED BY <1>3, <2>5, <2>6, <3>1, ArrStays
  <2> QED BY <1>3, <2>13, <2>14 DEF ArrKeeps
<1> QED BY <1>2, <1>3 DEF Arrays!Fill

\* The vector under the operation has what was copied, the others what they had.
LEMMA FilledRows ==
  ASSUME ArrInvariant, ArrKeeps, Arrays!Filled
  PROVE  /\ op.v \in Vectors /\ op.from \in Vectors
         /\ RowOf(heap', vec'[op.v]) = RowOf(heap, vec[op.from])
         /\ \A u \in Vectors : u # op.v => RowOf(heap', vec'[u]) = RowOf(heap, vec[u])
<1> DEFINE v == op.v
           w == op.from
           a == tmp.arr
<1>1. /\ op.pc = "fill" /\ tmp.used = Arrays!CopyCount
      /\ heap' = IF op.name = "push" THEN Freed(heap, vec[v].arr) ELSE heap
  BY DEF Arrays!Filled, Arrays!Without, Freed, Arrays!At
<1>2. v \in Vectors /\ w \in Vectors /\ op.name \in {"push", "construct", "assign"} /\ v \in Names
  BY <1>1, ArrOpFacts, HoldIs
<1>3. /\ Hold[w] = vec[w].arr /\ ~Arrays!Bereft(w) /\ Arrays!CopyCount \in Nat
      /\ op.name = "push" => w = v /\ vec[v].used = vec[v].size
      /\ op.name = "assign" => vec[v].size = vec[w].size /\ vec[v].used = vec[w].used
  BY <1>1, CopyFacts
<1>4. /\ vec[w] \in Storages /\ vec[w].size \in Nat /\ vec[w].used \in Nat /\ vec[w].used <= vec[w].size
      /\ vec[v] \in Storages
  BY <1>2, <1>3, ArrFacts
<1>5. vec[w].used <= tmp.used
  <2>1. Arrays!CopyCount \in {vec[w].size, vec[w].used}
    BY <1>2, <1>3 DEF Arrays!CopyCount, Arrays!NewSize
  <2> QED BY <1>1, <1>4, <2>1
<1>6. vec \in [Vectors -> Storages] /\ heap \in [Buffers -> Seq(Cells)]
  BY DEF ArrInvariant, ArrTypeOK
<1>7. vec'[v].arr = a /\ vec'[v].used = vec[w].used
  <2>1. vec'[v] = CASE op.name = "push" -> [arr |-> a, size |-> Arrays!NewSize, used |-> vec[v].used]
                    [] op.name = "construct" -> [vec[w] EXCEPT !.arr = a]
                    [] op.name = "assign" -> [vec[v] EXCEPT !.arr = a]
    BY <1>2, <1>6 DEF Arrays!Filled, Arrays!Vector
  <2>2. CASE op.name = "push"
    BY <1>3, <2>1, <2>2
  <2>3. CASE op.name = "construct"
    <3>1. vec'[v] = [vec[w] EXCEPT !.arr = a]
      BY <2>1, <2>3
    <3> QED BY <1>4, <3>1 DEF Storages
  <2>4. CASE op.name = "assign"
    <3>1. vec'[v] = [vec[v] EXCEPT !.arr = a]
      BY <2>1, <2>4
    <3> QED BY <1>3, <1>4, <2>4, <3>1 DEF Storages
  <2> QED BY <1>2, <2>2, <2>3, <2>4
<1>8. op.name = "push" => Hold[v] = vec[v].arr
  BY <1>3
<1>9. heap'[a] = heap[a]
  <2>1. a \in Buffers /\ a # nullptr
    BY <1>1 DEF ArrInvariant, ArrPhases, ArrTypeOK, Storages
  <2>2. Hold["tmp"] = a /\ "tmp" \in Names /\ v # "tmp"
    BY <1>2, HoldIs
  <2>3. op.name = "push" /\ vec[v].arr # nullptr => vec[v].arr # a
    BY <1>2, <1>8, <2>2, OtherHolders
  <2> QED BY <1>1, <1>6, <2>1, <2>3 DEF Freed
<1>10. RowOf(heap', vec'[v]) = RowOf(heap, vec[w])
  <2>1. ASSUME NEW i \in 1..vec[w].used PROVE Elt(heap', vec'[v], 1, i) = Elt(heap, vec[w], 1, i)
    <3>1. i \in 1..tmp.used
      <4>1. tmp.used \in Nat
        BY <1>1, <1>3
      <4> QED BY <1>4, <1>5, <4>1
    <3>2. Elt(heap, tmp, 1, i) = Elt(heap, vec[w], 1, i)
      BY <1>1, <3>1 DEF ArrKeeps, Repeats
    <3> QED BY <1>7, <1>9, <3>2 DEF Elt
  <2> QED BY <1>7, <2>1 DEF RowOf
<1>11. ASSUME NEW u \in Vectors, u # v PROVE RowOf(heap', vec'[u]) = RowOf(heap, vec[u])
  <2>1. vec'[u] = vec[u] /\ ~Arrays!Bereft(u)
    BY <1>11, FilledVector DEF Arrays!Bereft
  <2>2. CASE op.name # "push"
    BY <1>1, <2>1, <2>2
  <2>3. CASE op.name = "push"
    <3> DEFINE g == heap'
    <3>1. \A b \in Buffers : b # Hold[v] => g[b] = heap[b]
      BY <1>1, <1>6, <1>8, <2>3 DEF Freed
    <3>2. Hold[u] # nullptr => Hold[u] # Hold[v]
      BY <1>2, <1>11, OtherHolders
    <3> HIDE DEF g
    <3>3. \A i \in 1..vec[u].used : Elt(g, vec[u], 1, i) = Elt(heap, vec[u], 1, i)
      BY <2>1, <3>1, <3>2, RowKept
    <3>4. RowOf(g, vec[u]) = RowOf(heap, vec[u])
      BY <3>3 DEF RowOf
    <3> QED BY <2>1, <3>4 DEF g
  <2> QED BY <2>2, <2>3
<1> QED BY <1>2, <1>10, <1>11

\* A copy is complete when the new array takes its place, a push has come no further.
LEMMA ArrFilledRefines ==
  ASSUME InArrays, ArrInvariant, ArrKeeps, Arrays!Filled
  PROVE  ArrKeeps' /\ (Promise!copy(op.v, op.from) \/ UNCHANGED AnyContents)
<1> DEFINE v == op.v
           w == op.from
           C == Plain(heap, vec)
           D == Plain(heap', vec')
<1>1. /\ op.pc = "fill" /\ version' = version /\ tmp' = NoVector
      /\ op' = IF op.name = "push" THEN [op EXCEPT !.pc = "store"] ELSE Idle
  BY DEF Arrays!Filled, Arrays!At, Arrays!Idle, Idle, Arrays!NoVector, NoVector, Arrays!Vector, Vector
<1>2. /\ Shaped /\ op.name \in {"push", "construct", "assign"}
      /\ op.name = "push" => w = v
      /\ op.name = "assign" => v # w
  BY <1>1, ArrOpFacts, CopyFacts
<1>3. /\ op.name = "push" => op'.pc = "store" /\ op'.name = "push" /\ op'.t = op.t
      /\ op.name # "push" => op'.pc = "idle"
  BY <1>1, <1>2, ArrGoto DEF Idle
<1>4. /\ v \in Vectors /\ w \in Vectors /\ RowOf(heap', vec'[v]) = RowOf(heap, vec[w])
      /\ \A u \in Vectors : u # v => RowOf(heap', vec'[u]) = RowOf(heap, vec[u])
  BY FilledRows
<1>5. D = [u \in Vectors |-> IF u = v THEN RowOf(heap, vec[w]) ELSE RowOf(heap, vec[u])]
  <2>1. \A u \in Vectors : RowOf(heap', vec'[u]) = IF u = v THEN RowOf(heap, vec[w]) ELSE RowOf(heap, vec[u])
    BY <1>4
  <2> QED BY <2>1 DEF Plain
<1>6. C = [u \in Vectors |-> RowOf(heap, vec[u])]
  BY DEF Plain
<1>7. AnyContents' = D
  BY <1>1, <1>3, ArrNextContents
<1> HIDE DEF C, D
<1>8. ASSUME op.name = "push" PROVE UNCHANGED AnyContents
  <2>1. D = C
    BY <1>2, <1>5, <1>6, <1>8
  <2>2. AnyContents = C
    BY <1>8, ArrContents DEF C
  <2> QED BY <1>7, <2>1, <2>2
<1>9. ASSUME op.name = "construct" PROVE Promise!copy(v, w)
  <2>1. D = [C EXCEPT ![v] = C[w]]
    BY <1>4, <1>5, <1>6
  <2>2. AnyContents = C
    BY <1>9, ArrContents DEF C
  <2> QED BY <1>7, <2>1, <2>2 DEF Promise!copy
<1>10. ASSUME op.name = "assign" PROVE Promise!copy(v, w)
  <2> DEFINE d == op.old
  <2>1. AnyContents = d
    BY <1>1, <1>10, ArrContents
  <2>2. d = [u \in Vectors |-> IF u = v THEN d[u] ELSE RowOf(heap, vec[u])]
    BY <1>1, <1>10 DEF ArrKeeps, OldKept, Assigning
  <2> HIDE DEF d
  <2>3. d[w] = RowOf(heap, vec[w])
    BY <1>2, <1>4, <1>10, <2>2
  <2>4. D = [d EXCEPT ![v] = d[w]]
    BY <1>4, <1>5, <2>2, <2>3
  <2> QED BY <1>7, <2>1, <2>4 DEF Promise!copy
<1>11. ArrKeeps'
  <2>1. Repeats' /\ OldKept'
    BY <1>2, <1>3 DEF Repeats, OldKept, Assigning
  <2>2. op.name = "push" => op.t \in Values
    BY <1>1 DEF ArrKeeps
  <2> QED BY <1>3, <2>1, <2>2 DEF ArrKeeps
<1> QED BY <1>2, <1>8, <1>9, <1>10, <1>11

LEMMA ArrStoreRefines ==
  ASSUME InArrays, ArrInvariant, ArraysSound', ArrKeeps, Arrays!Store
  PROVE  ArrKeeps' /\ (Promise!Next \/ UNCHANGED AnyContents)
<1> DEFINE v == op.v
           a == vec[v].arr
           i == vec[v].used + 1
<1>1. op.pc = "store"
  BY DEF Arrays!Store, Arrays!At
<1>2. CASE Arrays!Overrun
  BY <1>1, <1>2, ArrOverrunRefines
<1>3. CASE /\ Arrays!Within(a, i) /\ heap' = [heap EXCEPT ![a][i + 1] = op.t]
           /\ vec' = [vec EXCEPT ![v].used = i] /\ op' = Idle /\ UNCHANGED <<version, tmp>>
  <2>1. v \in Vectors /\ v \in Names /\ op.name = "push" /\ op.t \in Values /\ a # nullptr
    BY <1>1, ArrOpFacts, HoldIs DEF ArrKeeps, ArrInvariant, ArrPhases
  <2>2. \A u \in Vectors : ~Arrays!Bereft(u)
    BY <1>1 DEF Arrays!Bereft
  <2>3. Hold[v] = a /\ a \in Buffers /\ vec[v].used \in Nat /\ vec[v] \in Storages
    BY <2>1, <2>2, ArrFacts
  <2>4. vec \in [Vectors -> Storages] /\ heap \in [Buffers -> Seq(Cells)]
    BY DEF ArrInvariant, ArrTypeOK
  <2>5. /\ vec'[v].arr = a /\ vec'[v].used = i /\ \A u \in Vectors : u # v => vec'[u] = vec[u]
    BY <1>3, <2>1, <2>3, <2>4 DEF Storages
  <2>6. i + 1 \in 1..Len(heap[a]) /\ DOMAIN heap[a] = 1..Len(heap[a])
    BY <1>3, <2>3, <2>4 DEF Arrays!Within, Arrays!Length
  <2>7. heap'[a][i + 1] = op.t /\ \A m \in 1..vec[v].used : heap'[a][m + 1] = heap[a][m + 1]
    <3> DEFINE s == heap[a]
    <3>1. i + 1 \in DOMAIN s /\ heap'[a] = [s EXCEPT ![i + 1] = op.t]
      BY <1>3, <2>3, <2>4, <2>6
    <3>2. \A m \in 1..vec[v].used : m + 1 # i + 1
      BY <2>3
    <3> HIDE DEF s
    <3>3. heap'[a][i + 1] = op.t /\ \A m \in 1..vec[v].used : heap'[a][m + 1] = s[m + 1]
      BY <3>1, <3>2
    <3> QED BY <3>3 DEF s
  <2>8. \A b \in Buffers : b # a => heap'[b] = heap[b]
    BY <1>3, <2>4
  <2> DEFINE g == heap'
             W == vec'
  <2>9. ASSUME NEW u \in Vectors PROVE \A m \in 1..vec[u].used : Elt(g, W[u], 1, m) = Elt(heap, vec[u], 1, m)
    <3>1. CASE u = v
      BY <2>5, <2>7, <3>1 DEF Elt
    <3>2. CASE u # v
      <4>1. Hold[u] # nullptr => Hold[u] # a
        BY <2>1, <2>3, <3>2, OtherHolders
      <4>2. \A b \in Buffers : b # a => g[b] = heap[b]
        BY <2>8
      <4>3. W[u] = vec[u]
        BY <2>5, <3>2
      <4> HIDE DEF g, a, W
      <4>4. \A m \in 1..vec[u].used : Elt(g, vec[u], 1, m) = Elt(heap, vec[u], 1, m)
        BY <2>2, <4>1, <4>2, RowKept
      <4> QED BY <4>3, <4>4
    <3> QED BY <3>1, <3>2
  <2>10. Elt(g, W[v], 1, vec[v].used + 1) = op.t
    BY <2>5, <2>7 DEF Elt
  <2> DEFINE C == AnyContents
             D == AnyContents'
  <2>11. C = Plain(heap, vec) /\ D = Plain(g, W)
    BY <1>1, <1>3, <2>1, ArrPlain DEF Idle
  <2>12. W[v].used = vec[v].used + 1 /\ \A u \in Vectors : u # v => W[u].used = vec[u].used
    BY <2>5
  <2> HIDE DEF g, W, C, D, v
  <2>13. Holds(C, heap, vec, NoVector, 1) /\ Holds(D, g, W, NoVector, 1)
    BY <2>11, PlainHolds
  <2>14. Val(g, W[v], NoVector, 1, vec[v].used + 1) = op.t
    BY <2>10, PlainVal
  <2>15. \A u \in Vectors : SameVals(heap, vec[u], NoVector, g, W[u], NoVector, 1)
    BY <2>9, PlainVal DEF SameVals
  <2>16. D = [C EXCEPT ![v] = Append(C[v], op.t)]
    BY <2>1, <2>3, <2>12, <2>13, <2>14, <2>15, HoldsPushed
  <2>17. Promise!push(v, op.t)
    BY <2>16 DEF Promise!push, C, D
  <2>18. ArrKeeps'
    BY <1>3 DEF ArrKeeps, Repeats, OldKept, Assigning, Idle
  <2> QED BY <2>1, <2>17, <2>18 DEF Promise!Next
<1> QED BY <1>2, <1>3 DEF Arrays!Store, Arrays!Idle, Idle

\* What the handler gives back no vector had.
LEMMA ArrSafeCopyRefines ==
  ASSUME InArrays, ArrInvariant, ArrKeeps, Arrays!safe_copy
  PROVE  ArrKeeps' /\ UNCHANGED AnyContents
<1>1. /\ version = 2 /\ op.pc \in {"alloc", "store", "fill"} /\ op'.pc = "idle"
      /\ heap' = (IF tmp.arr = nullptr THEN heap ELSE [heap EXCEPT ![tmp.arr] = << >>])
      /\ UNCHANGED <<version, vec>>
  BY DEF Arrays!safe_copy, Arrays!Without, Arrays!Throws, Arrays!At, Arrays!Idle
<1>2. op.name # "assign"
  <2>1. op.pc \in {"alloc", "fill"} => op.name # "assign"
    BY <1>1, CopyFacts
  <2>2. op.pc = "store" => op.name = "push"
    BY DEF ArrInvariant, ArrPhases
  <2> QED BY <1>1, <2>1, <2>2
<1>3. "tmp" \in Names /\ Hold["tmp"] = tmp.arr /\ \A v \in Vectors : v # "tmp"
  BY HoldIs
<1>4. \A v \in Vectors : Hold[v] # nullptr => Hold[v] # tmp.arr
  BY <1>3, OtherHolders
<1>5. \A b \in Buffers : b # tmp.arr => heap'[b] = heap[b]
  BY <1>1 DEF ArrInvariant, ArrTypeOK
<1>6. OldKept' /\ UNCHANGED AnyContents
  BY <1>1, <1>2, <1>4, <1>5, ArrStays
<1>7. ArrKeeps'
  BY <1>1, <1>6 DEF ArrKeeps, Repeats
<1> QED BY <1>6, <1>7

\* Version 1 leaves everything as it is.
LEMMA ArrUnprotectedRefines ==
  ASSUME InArrays, ArrInvariant, Arrays!Unprotected
  PROVE  op'.pc = "thrown" /\ UNCHANGED AnyContents
<1>1. /\ op.pc \in {"alloc", "store", "fill"} /\ op' = [op EXCEPT !.pc = "thrown"]
      /\ UNCHANGED <<version, vec, heap, tmp>>
  BY DEF Arrays!Unprotected, Arrays!Throws, Arrays!At
<1>2. op'.pc = "thrown" /\ op'.name = op.name /\ op'.old = op.old
  BY <1>1, ArrOpFacts, ArrGoto, ArrOld
<1> QED BY <1>1, <1>2, ArrContents, ArrNextContents

LEMMA ArraysRefine ==
  ASSUME InArrays, ArraysSound, ArraysSound', op.pc = "thrown" \/ ArrKeeps, Arrays!Next
  PROVE  /\ op'.pc = "thrown" \/ ArrKeeps'
         /\ Promise!Next \/ UNCHANGED AnyContents
<1>1. op.pc \in {"idle", "alloc", "fill", "store"}
  BY DEF Arrays!Next, Arrays!Step, Arrays!Allocate, Arrays!Fill, Arrays!Filled, Arrays!Store, Arrays!safe_copy,
         Arrays!Unprotected, Arrays!Throws, Arrays!At, Arrays!push, Arrays!pop, Arrays!construct, Arrays!steal,
         Arrays!assign
<1>2. ArrInvariant /\ ArrKeeps
  BY <1>1 DEF ArraysSound
<1>3. CASE (\E b \in Buffers : Arrays!Allocate(b)) \/ Arrays!Fill \/ Arrays!safe_copy
  BY <1>2, <1>3, ArrAllocateRefines, ArrFillRefines, ArrSafeCopyRefines
<1>4. CASE Arrays!Filled
  <2>1. op.v \in Vectors /\ op.from \in Vectors
    BY <1>2, <1>4, FilledRows
  <2> QED BY <1>2, <1>4, <2>1, ArrFilledRefines DEF Promise!Next
<1>5. CASE Arrays!Store
  BY <1>2, <1>5, ArrStoreRefines
<1>6. CASE Arrays!Unprotected
  BY <1>2, <1>6, ArrUnprotectedRefines
<1>7. CASE \E v \in Vectors : \/ \E x \in Values : Arrays!push(v, x)
                              \/ \E w \in Vectors : Arrays!construct(v, w) \/ Arrays!assign(v, w)
  BY <1>2, <1>7, ArrPushRefines, ArrConstructRefines, ArrAssignRefines
<1>8. CASE \E v \in Vectors : Arrays!pop(v) \/ \E w \in Vectors : Arrays!steal(v, w)
  BY <1>2, <1>8, ArrPopRefines, ArrStealRefines DEF Promise!Next
<1> QED BY <1>3, <1>4, <1>5, <1>6, <1>7, <1>8 DEF Arrays!Next, Arrays!Step

-----------------------------------------------------------------------------
(* All five.                                                               *)

\* The inductive invariant under which the five programs refine VecSpec.
AnyKeeps ==
  /\ AnySound
  /\ Buffered => BufferKeeps
  /\ InArrays => op.pc = "thrown" \/ ArrKeeps
  /\ Iterated => IterKeeps

LEMMA RowsEmpty ==
  ASSUME NEW C, NEW V, Rows(C, V), \A v \in Vectors : V[v].used = 0
  PROVE  C = [v \in Vectors |-> << >>]
<1>1. ASSUME NEW v \in Vectors PROVE C[v] = << >>
  <2> DEFINE c == C[v]
  <2>1. c = [i \in 1..V[v].used |-> c[i]]
    BY Zenon DEF Rows
  <2>2. V[v].used = 0
    OBVIOUS
  <2> HIDE DEF c
  <2>3. c = [i \in 1..0 |-> c[i]]
    BY <2>1, <2>2
  <2>4. c \in Seq({})
    BY <2>3
  <2>5. Len(c) = 0
    BY <2>3, <2>4
  <2>6. c = << >>
    BY <2>4, <2>5, EmptySeq
  <2> QED BY <2>6 DEF c
<1>2. C = [v \in Vectors |-> C[v]]
  BY DEF Rows
<1> QED BY <1>1, <1>2

\* Empty vectors, and no operation under way.
LEMMA InitKeeps ==
  ASSUME NEW hd, op.pc = "idle", \A v \in Vectors : vec[v].used = 0
  PROVE  Keeps(heap, vec, tmp, hd, {}, {})
<1>1. \A v \in Vectors : 1..vec[v].used = {}
  OBVIOUS
<1> QED BY <1>1 DEF Keeps

LEMMA BufferBegins ==
  ASSUME Buffered, Init
  PROVE  BufferKeeps /\ Promise!Init
<1>1. op.pc = "idle" /\ \A v \in Vectors : vec[v].used = 0
  BY DEF Init, Idle, Vector
<1>2. BufferKeeps
  BY <1>1, InitKeeps DEF BufferKeeps, Completed, Feeding, Emptied
<1>3. Rows(AnyContents, vec)
  BY InitBuffer, BufferContents DEF BufferSound, Holds
<1> QED BY <1>1, <1>2, <1>3, RowsEmpty DEF Promise!Init

LEMMA ArraysBegin ==
  ASSUME InArrays, Arrays!Init
  PROVE  ArrKeeps /\ Promise!Init
<1>1. PICK u \in Vectors, b \in Buffers, sz \in {0, 1} :
        vec = [v \in Vectors |-> IF v = u THEN Arrays!Vector(b, sz, 0) ELSE Arrays!NoVector]
  BY DEF Arrays!Init
<1>2. op.pc = "idle" /\ \A v \in Vectors : vec[v].used = 0
  BY <1>1 DEF Arrays!Init, Arrays!Idle, Arrays!Vector, Arrays!NoVector
<1>3. ArrKeeps
  BY <1>2 DEF ArrKeeps, Repeats, OldKept, Assigning
<1>4. AnyContents = Plain(heap, vec)
  BY <1>2, ArrContents
<1>5. Rows(AnyContents, vec)
  BY <1>4, PlainHolds DEF Holds
<1> QED BY <1>2, <1>3, <1>5, RowsEmpty DEF Promise!Init

LEMMA IterStarts ==
  ASSUME Iterated, Iter!Init
  PROVE  IterKeeps /\ Promise!Init
<1>1. op.pc = "idle" /\ \A v \in Vectors : vec[v].used = 0
  BY DEF Iter!Init, Iter!Idle, Iter!NoStorage, Iter!VectorStorage
<1>2. IterKeeps
  BY <1>1, InitKeeps DEF IterKeeps, Constructing, IterFeeding, IterEmptied
<1>3. Rows(AnyContents, vec)
  BY <1>2, InitIter, IterContents DEF IterSound, Holds
<1> QED BY <1>1, <1>2, <1>3, RowsEmpty DEF Promise!Init

LEMMA AnyBegins == AnyInit => AnyKeeps /\ Promise!Init
<1> SUFFICES ASSUME AnyInit PROVE AnyKeeps /\ Promise!Init
  OBVIOUS
<1>1. AnySound
  BY InitAny
<1>2. CASE Init
  <2>1. Buffered /\ ~InArrays /\ ~Iterated
    BY <1>2, VersionAssumption DEF Init, Buffered, InArrays, Iterated
  <2> QED BY <1>1, <1>2, <2>1, BufferBegins DEF AnyKeeps
<1>3. CASE Arrays!Init
  <2>1. ~Buffered /\ InArrays /\ ~Iterated
    BY <1>3, VersionAssumption DEF Arrays!Init, Buffered, InArrays, Iterated
  <2> QED BY <1>1, <1>3, <2>1, ArraysBegin DEF AnyKeeps
<1>4. CASE Iter!Init
  <2>1. ~Buffered /\ ~InArrays /\ Iterated
    BY <1>4, VersionAssumption DEF Iter!Init, Buffered, InArrays, Iterated
  <2> QED BY <1>1, <1>4, <2>1, IterStarts DEF AnyKeeps
<1> QED BY <1>2, <1>3, <1>4 DEF AnyInit

LEMMA AnyRefines == AnyKeeps /\ AnyNext => AnyKeeps' /\ (Promise!Next \/ UNCHANGED AnyContents)
<1> SUFFICES ASSUME AnyKeeps, AnyNext
             PROVE  AnyKeeps' /\ (Promise!Next \/ UNCHANGED AnyContents)
  OBVIOUS
<1>1. version' = version /\ AnySound /\ AnySound'
  BY VersionKept, AnyStep DEF AnyKeeps
<1>2. (Buffered' <=> Buffered) /\ (InArrays' <=> InArrays) /\ (Iterated' <=> Iterated)
  BY <1>1 DEF Buffered, InArrays, Iterated
<1>3. ~(Buffered /\ Iterated) /\ ~(Buffered /\ InArrays) /\ ~(Iterated /\ InArrays)
  BY VersionAssumption DEF Buffered, InArrays, Iterated
<1>4. CASE Buffered /\ Next
  <2>1. BufferSound /\ BufferSound' /\ BufferKeeps
    BY <1>1, <1>2, <1>4 DEF AnySound, AnyKeeps
  <2>2. BufferKeeps' /\ (Promise!Next \/ UNCHANGED AnyContents)
    BY <1>4, <2>1, BufferRefines
  <2> QED BY <1>1, <1>2, <1>3, <1>4, <2>2 DEF AnyKeeps
<1>5. CASE InArrays /\ Arrays!Next
  <2>1. ArraysSound /\ ArraysSound' /\ (op.pc = "thrown" \/ ArrKeeps)
    BY <1>1, <1>2, <1>5 DEF AnySound, AnyKeeps
  <2>2. (op'.pc = "thrown" \/ ArrKeeps') /\ (Promise!Next \/ UNCHANGED AnyContents)
    BY <1>5, <2>1, ArraysRefine
  <2> QED BY <1>1, <1>2, <1>3, <1>5, <2>2 DEF AnyKeeps
<1>6. CASE Iterated /\ Iter!Next
  <2>1. IterSound /\ IterSound' /\ IterKeeps
    BY <1>1, <1>2, <1>6 DEF AnySound, AnyKeeps
  <2>2. IterKeeps' /\ (Promise!Next \/ UNCHANGED AnyContents)
    BY <1>6, <2>1, IterRefines
  <2> QED BY <1>1, <1>2, <1>3, <1>6, <2>2 DEF AnyKeeps
<1> QED BY <1>4, <1>5, <1>6 DEF AnyNext

LEMMA AnyRests == AnyKeeps /\ UNCHANGED vars => AnyKeeps' /\ UNCHANGED AnyContents
<1> SUFFICES ASSUME AnyKeeps, UNCHANGED vars PROVE AnyKeeps' /\ UNCHANGED AnyContents
  OBVIOUS
<1>1. UNCHANGED <<version, vec, heap, op, tmp>>
  BY DEF vars
<1>2. AnySound'
  BY AnyStutter DEF AnyKeeps
<1>3. (Buffered' <=> Buffered) /\ (InArrays' <=> InArrays) /\ (Iterated' <=> Iterated)
  BY <1>1 DEF Buffered, InArrays, Iterated
<1>4. BufferKeeps' <=> BufferKeeps
  BY <1>1 DEF BufferKeeps, Completed, Feeding, Emptied, Moves
<1>5. ArrKeeps' <=> ArrKeeps
  BY <1>1 DEF ArrKeeps, Repeats, OldKept, Assigning
<1>6. IterKeeps' <=> IterKeeps
  BY <1>1 DEF IterKeeps, Constructing, IterFeeding, IterEmptied, Iter!moveOrCopyT
<1>7. AnyKeeps'
  BY <1>1, <1>2, <1>3, <1>4, <1>5, <1>6 DEF AnyKeeps
<1>8. \A v \in Vectors : ContentsOf(v)' = ContentsOf(v)
  BY <1>1 DEF ContentsOf
<1>9. Arrays!Contents' = Arrays!Contents /\ Iter!Contents' = Iter!Contents
  BY <1>1 DEF Arrays!Contents, Arrays!At, Arrays!Stored, Iter!Contents, Iter!Slot
<1>10. UNCHANGED AnyContents
  <2>1. [v \in Vectors |-> ContentsOf(v)]' = [v \in Vectors |-> ContentsOf(v)]
    BY <1>8
  <2>2. Buffered \/ InArrays \/ Iterated
    BY DEF InArrays
  <2> QED BY <1>3, <1>9, <2>1, <2>2, WhoseContents, WhoseNextContents
<1> QED BY <1>7, <1>10

\* The strong exception guarantee of all five vectors: to a caller each operation
\* takes effect in one step, wholly, in its vector alone, or, where an element or
\* an allocation throws, not at all; version 1 up to an exception.
THEOREM StrongGuarantee == AnySpec => AllImplementVec
<1>1. AnyInit => AnyKeeps /\ Promise!Init
  BY AnyBegins
<1>2. AnyKeeps /\ [AnyNext]_vars => AnyKeeps' /\ [Promise!Next]_AnyContents
  BY AnyRefines, AnyRests
<1> QED BY <1>1, <1>2, PTL DEF AnySpec, AllImplementVec, Promise!Spec
=============================================================================
