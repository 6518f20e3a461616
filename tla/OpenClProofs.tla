---------------------------- MODULE OpenClProofs ----------------------------
(***************************************************************************)
(* Proofs about MCOpenCl.  The kernels that the OpenCL programs run, for   *)
(* any sizes, any number of data, of work-items and of groups, and every   *)
(* interleaving: the histogram kernels first, then gemm_localmem.cl.  Then *)
(* the host programs: their scripts, the invariant they keep, their steps. *)
(* The theorems about all of them are at the end.  The histogram has its   *)
(* variables under the names that MCOpenCl gives them: A are the data, B   *)
(* local_hist, C the histogram, CPtr Hist, k the index i and acc what was  *)
(* loaded.  For a host program they are its arrays (A), the stage of       *)
(* cl_platform (B), the queue (C), what is held (CPtr), the platforms      *)
(* (APtr), the one selected (BPtr), what it waits for (k), the devices yet *)
(* to describe (t) and those described (acc).                              *)
(***************************************************************************)
EXTENDS MCOpenCl, Integers, FiniteSetTheorems, SequenceTheorems, TLAPS

-----------------------------------------------------------------------------
(* The arithmetic of work-item and group numbers, and counting.            *)

\* Division with remainder.
LEMMA DivMod ==
  ASSUME NEW a \in Nat, NEW n \in Nat \ {0}
  PROVE  a = n * (a \div n) + (a % n) /\ a % n \in 0..(n - 1) /\ a \div n \in Nat
OBVIOUS

\* Quotient and remainder are determined by the number.
LEMMA DivModUnique ==
  ASSUME NEW n \in Nat \ {0}, NEW q \in Nat, NEW p \in Nat,
         NEW r \in 0..(n - 1), NEW s \in 0..(n - 1), n * q + r = n * p + s
  PROVE  q = p /\ r = s
<1>1. ASSUME q < p PROVE FALSE
  <2>1. n * p = n * q + n * (p - q)
    OBVIOUS
  <2>2. n * (p - q) >= n
    BY <1>1
  <2> QED BY <2>1, <2>2
<1>2. ASSUME p < q PROVE FALSE
  <2>1. n * q = n * p + n * (q - p)
    OBVIOUS
  <2>2. n * (q - p) >= n
    BY <1>2
  <2> QED BY <2>1, <2>2
<1> QED BY <1>1, <1>2

\* The item with local number r of group q.
LEMMA DivModOf ==
  ASSUME NEW n \in Nat \ {0}, NEW q \in Nat, NEW r \in 0..(n - 1)
  PROVE  n * q + r \in Nat /\ (n * q + r) \div n = q /\ (n * q + r) % n = r
<1>1. n * q + r \in Nat
  OBVIOUS
<1> QED BY <1>1, DivMod, DivModUnique

\* An item is determined by its group and its local number.
LEMMA SameItem ==
  ASSUME NEW n \in Nat \ {0}, NEW a \in Nat, NEW b \in Nat, a \div n = b \div n, a % n = b % n
  PROVE  a = b
BY DivMod

\* A stride of n keeps the remainder.
LEMMA Stride ==
  ASSUME NEW n \in Nat \ {0}, NEW a \in Nat
  PROVE  (a + n) % n = a % n
<1>1. a = n * (a \div n) + (a % n) /\ a % n \in 0..(n - 1) /\ a \div n \in Nat
  BY DivMod
<1>2. a + n = n * ((a \div n) + 1) + (a % n)
  BY <1>1
<1>3. (a \div n) + 1 \in Nat
  BY <1>1
<1>4. (n * ((a \div n) + 1) + (a % n)) % n = a % n
  BY <1>1, <1>3, DivModOf
<1> QED BY <1>2, <1>4

\* Between two strides nothing has the same remainder.
LEMMA WithinStride ==
  ASSUME NEW n \in Nat \ {0}, NEW a \in Nat, NEW b \in Nat, a % n = b % n, a <= b, b < a + n
  PROVE  a = b
<1>1. a = n * (a \div n) + (a % n) /\ a % n \in 0..(n - 1) /\ a \div n \in Nat
  BY DivMod
<1>2. b = n * (b \div n) + (b % n) /\ b \div n \in Nat
  BY DivMod
<1>3. ASSUME a \div n < b \div n PROVE FALSE
  <2>1. n * (b \div n) = n * (a \div n) + n * ((b \div n) - (a \div n))
    BY <1>1, <1>2
  <2>2. n * ((b \div n) - (a \div n)) >= n
    BY <1>1, <1>2, <1>3
  <2> QED BY <1>1, <1>2, <2>1, <2>2
<1>4. ASSUME b \div n < a \div n PROVE FALSE
  <2>1. n * (a \div n) = n * (b \div n) + n * ((a \div n) - (b \div n))
    BY <1>1, <1>2
  <2>2. n * ((a \div n) - (b \div n)) >= n
    BY <1>1, <1>2, <1>4
  <2> QED BY <1>1, <1>2, <2>1, <2>2
<1> QED BY <1>1, <1>2, <1>3, <1>4

\* A number below n is its own remainder, and no number is below its remainder.
LEMMA Remainder ==
  ASSUME NEW n \in Nat \ {0}, NEW a \in Nat
  PROVE  a % n \in 0..(n - 1) /\ a % n <= a /\ (a < n => a % n = a)
OBVIOUS

\* The quotient of a number below a multiple of n.
LEMMA GroupBound ==
  ASSUME NEW n \in Nat \ {0}, NEW m \in Nat, m % n = 0, NEW a \in 0..(m - 1)
  PROVE  a \div n \in 0..((m \div n) - 1)
<1>0. m = n * (m \div n) /\ m \div n \in Nat
  BY DivMod
<1>1. a = n * (a \div n) + (a % n) /\ a % n \in 0..(n - 1) /\ a \div n \in Nat
  <2>1. a \in Nat
    OBVIOUS
  <2> QED BY <2>1, DivMod
<1>2. ASSUME a \div n >= m \div n PROVE FALSE
  <2>1. n * (a \div n) = n * (m \div n) + n * ((a \div n) - (m \div n))
    BY <1>0, <1>1
  <2>2. n * ((a \div n) - (m \div n)) >= 0
    BY <1>0, <1>1, <1>2
  <2> QED BY <1>0, <1>1, <2>1, <2>2
<1> QED BY <1>0, <1>1, <1>2

\* The items of a group below a multiple of n are below it too.
LEMMA ItemBound ==
  ASSUME NEW n \in Nat \ {0}, NEW m \in Nat, m % n = 0,
         NEW q \in 0..((m \div n) - 1), NEW r \in 0..(n - 1)
  PROVE  n * q + r \in 0..(m - 1)
<1>1. m = n * (m \div n) /\ m \div n \in Nat
  BY DivMod
<1>2. n * (m \div n) = n * q + n * ((m \div n) - q)
  BY <1>1
<1>3. n * ((m \div n) - q) >= n
  BY <1>1
<1>4. n * q \in Nat
  OBVIOUS
<1> QED BY <1>1, <1>2, <1>3, <1>4

\* ClHist counts as this module does.
LEMMA SameCardinality == \A S : Histogram!Cardinality(S) = Cardinality(S)
BY DEF Histogram!Cardinality, Cardinality

\* Finitely many data, counted one by one.
LEMMA OneMore ==
  ASSUME NEW S, IsFiniteSet(S), NEW x, x \notin S
  PROVE  /\ IsFiniteSet(S \cup {x}) /\ Cardinality(S) \in Nat
         /\ Cardinality(S \cup {x}) = Cardinality(S) + 1
BY FS_AddElement, FS_CardinalityType

\* Two disjoint portions are counted one after the other.
LEMMA Portions ==
  ASSUME NEW S, IsFiniteSet(S), NEW T, IsFiniteSet(T), S \cap T = {}
  PROVE  /\ Cardinality(S) \in Nat /\ Cardinality(T) \in Nat
         /\ Cardinality(S \cup T) = Cardinality(S) + Cardinality(T)
<1>1. Cardinality(S \cup T) = Cardinality(S) + Cardinality(T) - Cardinality(S \cap T)
  BY FS_Union
<1>2. Cardinality(S) \in Nat /\ Cardinality(T) \in Nat
  BY FS_CardinalityType
<1>3. Cardinality(S \cap T) = 0
  BY FS_EmptySet
<1> QED BY <1>1, <1>2, <1>3

\* A part counts no more than the whole.
LEMMA PartOf ==
  ASSUME NEW S, IsFiniteSet(S), NEW T, T \subseteq S
  PROVE  /\ IsFiniteSet(T) /\ Cardinality(T) \in Nat /\ Cardinality(S) \in Nat
         /\ Cardinality(T) <= Cardinality(S)
<1>1. IsFiniteSet(T) /\ Cardinality(T) <= Cardinality(S)
  BY FS_Subset
<1> QED BY <1>1, FS_CardinalityType

-----------------------------------------------------------------------------
(* The invariants.                                                         *)

Indices == 0..(DataSize - 1)
HistLabels == {"zero", "count", "flush", "done"}
OtherLabels == [e \in {"onlyg-corr", "onlyg"} |->
                  IF e = "onlyg" THEN {"load", "store", "done"} ELSE {"add", "done"}]

TypeOK ==
  /\ kernel \in {"hist", "onlyg-corr", "onlyg"}
  /\ A \in [Indices -> Histogram!Bins]
  /\ APtr \in [Histogram!Bins -> Nat] /\ C \in [Histogram!Bins -> Nat]
  /\ B \in [Histogram!Groups -> [Histogram!Bins -> Nat]]
  /\ pc \in [Histogram!Items -> IF kernel = "hist" THEN HistLabels ELSE OtherLabels[kernel]]
  /\ k \in [Histogram!Items -> Nat]
  /\ acc \in [Histogram!Items -> Nat]

\* A work-item strides through the data and through the bins.
Strides ==
  \A w \in Histogram!Items :
    /\ pc[w] \in {"count", "add", "load", "store"} => k[w] % GlobalSize = w
    /\ pc[w] \in {"zero", "flush"} => k[w] % HistLSZ = Histogram!get_local_id(w)
    /\ pc[w] = "store" => k[w] < DataSize
    /\ pc[w] = "done" /\ kernel # "hist" => k[w] >= DataSize

\* An item is past a barrier only when its whole group has come to it.
Barriers ==
  \A w \in Histogram!Items : \A v \in Histogram!GroupOf(w) :
    /\ pc[w] \in {"count", "flush", "done"} /\ kernel = "hist" => Histogram!ZeroDone(v)
    /\ pc[w] \in {"flush", "done"} /\ kernel = "hist" => Histogram!CountDone(v)

\* The item that datum e falls to, and whether it has dealt with it.
ItemOf(e) == e % GlobalSize
Served(e) ==
  IF kernel = "hist"
  THEN Histogram!CountDone(ItemOf(e)) \/ (pc[ItemOf(e)] = "count" /\ e < k[ItemOf(e)])
  ELSE e < k[ItemOf(e)]

\* The data of bin b that group g has counted in its local memory.
CountedBy(g, b) ==
  {e \in Indices : A[e] = b /\ Histogram!get_group_id(ItemOf(e)) = g /\ Served(e)}

\* Bin b falls to item w of its group.
Tends(w, b) == b % HistLSZ = Histogram!get_local_id(w)

\* Some item of group g has yet to clear bin b.
Dirty(g, b) ==
  \E w \in Histogram!Items : Histogram!get_group_id(w) = g /\ Tends(w, b) /\ pc[w] = "zero" /\ k[w] <= b

\* Local memory is what the group has counted, once it is cleared.
LocalExact ==
  kernel = "hist" =>
    \A g \in Histogram!Groups : \A b \in Histogram!Bins :
      Dirty(g, b) \/ B[g][b] = Cardinality(CountedBy(g, b))

\* The inductive invariant of the local memory.
Counting == TypeOK /\ Strides /\ Barriers /\ LocalExact

\* Bin b of group g is part of the result.
Flushed(g, b) ==
  \E w \in Histogram!Items : /\ Histogram!get_group_id(w) = g /\ Tends(w, b)
                             /\ pc[w] = "done" \/ (pc[w] = "flush" /\ b < k[w])

\* The data of bin b that have reached the buffer H.
StoredIn(b) ==
  {e \in Indices : /\ A[e] = b
                   /\ IF kernel = "hist" THEN Flushed(Histogram!get_group_id(ItemOf(e)), b)
                                         ELSE Served(e)}

\* The buffer counts what has reached it, on top of what it held at first; the racy
\* kernel counts at most that, and something if there is anything.
BufferExact ==
  \A b \in Histogram!Bins :
    /\ kernel # "onlyg" => C[b] = APtr[b] + Cardinality(StoredIn(b))
    /\ APtr[b] <= C[b] /\ C[b] <= APtr[b] + Cardinality(StoredIn(b))
    /\ StoredIn(b) # {} => C[b] > APtr[b]

\* What an item of the racy kernel has loaded is no less than what the bin held at
\* first, and no more than what has been stored since.
LoadedBounded ==
  \A w \in Histogram!Items : pc[w] = "store" =>
    /\ APtr[A[k[w]]] <= acc[w]
    /\ acc[w] <= APtr[A[k[w]]] + Cardinality(StoredIn(A[k[w]]))

\* The host reads the buffer when all items are done.
ReadWhenDone == host = "done" => CPtr = C /\ \A w \in Histogram!Items : pc[w] = "done"

\* The inductive invariant of the result.
Summing == BufferExact /\ LoadedBounded /\ ReadWhenDone

-----------------------------------------------------------------------------
(* Numbers of items, groups and data.                                      *)

LEMMA ItemFacts ==
  ASSUME Histogram!ConstantsRight, NEW w \in Histogram!Items
  PROVE  /\ w \in Nat /\ w \in Histogram!GroupOf(w) /\ w % GlobalSize = w
         /\ Histogram!get_group_id(w) \in Histogram!Groups /\ Histogram!get_local_id(w) \in 0..(HistLSZ - 1)
<1>1. /\ GlobalSize \in Nat \ {0} /\ HistLSZ \in Nat \ {0} /\ GlobalSize % HistLSZ = 0
      /\ w \in Nat /\ w \in 0..(GlobalSize - 1)
  BY DEF Histogram!ConstantsRight, Histogram!Items
<1>2. w \div HistLSZ \in 0..((GlobalSize \div HistLSZ) - 1)
  BY <1>1, GroupBound
<1>3. w % HistLSZ \in 0..(HistLSZ - 1)
  BY <1>1, Remainder
<1>4. w % GlobalSize = w
  <2>1. w < GlobalSize
    BY <1>1
  <2> QED BY <1>1, <2>1, Remainder
<1> QED BY <1>1, <1>2, <1>3, <1>4 DEF Histogram!GroupOf, Histogram!get_group_id,
                 Histogram!get_local_id, Histogram!Groups

LEMMA DatumFacts ==
  ASSUME Histogram!ConstantsRight, NEW e \in Nat
  PROVE  ItemOf(e) \in Histogram!Items /\ ItemOf(e) <= e /\ Histogram!get_group_id(ItemOf(e)) \in Histogram!Groups
<1>1. e % GlobalSize \in 0..(GlobalSize - 1) /\ e % GlobalSize <= e
  BY Remainder DEF Histogram!ConstantsRight
<1>2. ItemOf(e) \in Histogram!Items
  BY <1>1 DEF ItemOf, Histogram!Items
<1> QED BY <1>1, <1>2, ItemFacts DEF ItemOf

\* Every bin of a group falls to one item of it.
LEMMA Tender ==
  ASSUME Histogram!ConstantsRight, NEW g \in Histogram!Groups, NEW b \in Histogram!Bins
  PROVE  \E w \in Histogram!Items : Histogram!get_group_id(w) = g /\ Tends(w, b) /\ Histogram!get_local_id(w) <= b
<1>1. /\ GlobalSize \in Nat \ {0} /\ HistLSZ \in Nat \ {0} /\ GlobalSize % HistLSZ = 0
      /\ g \in 0..((GlobalSize \div HistLSZ) - 1) /\ b \in Nat
  BY DEF Histogram!ConstantsRight, Histogram!Groups, Histogram!Bins
<1> DEFINE r == b % HistLSZ
<1>2. r \in 0..(HistLSZ - 1) /\ r <= b
  BY <1>1, Remainder
<1>3. g \in Nat
  BY <1>1, DivMod
<1> HIDE DEF r
<1>4. HistLSZ * g + r \in 0..(GlobalSize - 1)
  BY <1>1, <1>2, ItemBound
<1>5. (HistLSZ * g + r) \div HistLSZ = g /\ (HistLSZ * g + r) % HistLSZ = r
  BY <1>1, <1>2, <1>3, DivModOf
<1>6. r = b % HistLSZ
  BY DEF r
<1>7. HistLSZ * g + r \in Histogram!Items
  BY <1>4 DEF Histogram!Items
<1> QED BY <1>2, <1>5, <1>6, <1>7 DEF Histogram!get_group_id, Histogram!get_local_id, Tends

LEMMA OneTender ==
  ASSUME Histogram!ConstantsRight, NEW v \in Histogram!Items, NEW w \in Histogram!Items, NEW b,
         Histogram!get_group_id(v) = Histogram!get_group_id(w), Tends(v, b), Tends(w, b)
  PROVE  v = w
<1>1. v \div HistLSZ = w \div HistLSZ /\ v % HistLSZ = w % HistLSZ
  BY DEF Histogram!get_group_id, Histogram!get_local_id, Tends
<1>2. HistLSZ \in Nat \ {0} /\ v \in Nat /\ w \in Nat
  BY ItemFacts DEF Histogram!ConstantsRight
<1> QED BY <1>1, <1>2, SameItem

\* A stride leads from one datum, or bin, of an item to its next.
LEMMA NextOfItem ==
  ASSUME NEW n \in Nat \ {0}, NEW j \in Nat
  PROVE  /\ j + n \in Nat /\ (j + n) % n = j % n
         /\ \A m \in Nat : m % n = j % n => (m < j + n <=> m < j \/ m = j)
<1>1. (j + n) % n = j % n
  BY Stride
<1>2. ASSUME NEW m \in Nat, m % n = j % n, m < j + n, ~(m < j) PROVE m = j
  <2>1. j <= m
    BY <1>2
  <2> QED BY <1>2, <2>1, WithinStride
<1>3. ASSUME NEW m \in Nat, m % n = j % n PROVE m < j + n <=> m < j \/ m = j
  <2>1. m < j \/ m = j => m < j + n
    OBVIOUS
  <2> QED BY <1>2, <1>3, <2>1, Zenon
<1> QED BY <1>1, <1>3

-----------------------------------------------------------------------------
(* The local memory: Counting is inductive.                                *)

LEMMA InitCounting ==
  ASSUME Histogram!ConstantsRight, Histogram!Init
  PROVE  Counting
<1>1. TypeOK
  <2>1. A \in [Indices -> Histogram!Bins]
    <3>1. PICK d \in [Indices -> Histogram!Bins] : A = [e \in Indices |-> d[e] % UCHAR]
      BY DEF Histogram!Init, Histogram!RandomData, Indices
    <3>2. ASSUME NEW e \in Indices PROVE d[e] % UCHAR \in Histogram!Bins
      <4>1. d[e] \in Nat /\ d[e] < HistSize
        BY DEF Histogram!Bins, Histogram!ConstantsRight
      <4>0. UCHAR \in Nat \ {0}
        BY DEF Histogram!ConstantsRight
      <4>2. d[e] % UCHAR \in Nat /\ d[e] % UCHAR <= d[e]
        <5>1. d[e] % UCHAR \in 0..(UCHAR - 1) /\ d[e] % UCHAR <= d[e]
          BY <4>0, <4>1, Remainder
        <5> QED BY <4>0, <5>1
      <4>3. \A m, n \in Nat : m <= n /\ n < HistSize => m \in Histogram!Bins
        BY DEF Histogram!Bins, Histogram!ConstantsRight
      <4> QED BY <4>1, <4>2, <4>3, Zenon
    <3> QED BY <3>1, <3>2
  <2>2. k \in [Histogram!Items -> Nat]
    BY ItemFacts DEF Histogram!Init, Histogram!FirstIndex
  <2>3. APtr \in [Histogram!Bins -> Nat] /\ C = APtr /\ B \in [Histogram!Groups -> [Histogram!Bins -> Nat]]
    BY DEF Histogram!Init, Histogram!ConstantsRight
  <2>4. kernel \in {"hist", "onlyg-corr", "onlyg"} /\ acc \in [Histogram!Items -> Nat]
    BY DEF Histogram!Init, Histogram!ConstantsRight
  <2>5. pc \in [Histogram!Items -> IF kernel = "hist" THEN HistLabels ELSE OtherLabels[kernel]]
    BY <2>4 DEF Histogram!Init, Histogram!FirstLoop, HistLabels, OtherLabels
  <2> QED BY <2>1, <2>2, <2>3, <2>4, <2>5 DEF TypeOK
<1>2. ASSUME NEW w \in Histogram!Items
      PROVE  /\ pc[w] \in {"zero", "add", "load"} /\ (kernel = "hist" <=> pc[w] = "zero")
             /\ k[w] = IF kernel = "hist" THEN Histogram!get_local_id(w) ELSE w
  BY <1>1 DEF Histogram!Init, Histogram!FirstLoop, Histogram!FirstIndex, TypeOK
<1>3. Strides
  <2>1. SUFFICES ASSUME NEW w \in Histogram!Items
                 PROVE  /\ pc[w] \in {"add", "load"} => k[w] % GlobalSize = w
                        /\ pc[w] = "zero" => k[w] % HistLSZ = Histogram!get_local_id(w)
    BY <1>2 DEF Strides
  <2>2. w % HistLSZ \in 0..(HistLSZ - 1) /\ HistLSZ \in Nat \ {0}
    BY ItemFacts DEF Histogram!get_local_id, Histogram!ConstantsRight
  <2>3. (w % HistLSZ) % HistLSZ = w % HistLSZ
    <3>1. w % HistLSZ \in Nat /\ w % HistLSZ < HistLSZ
      BY <2>2
    <3> QED BY <2>2, <3>1, Remainder
  <2> QED BY <1>2, <2>3, ItemFacts DEF Histogram!get_local_id
<1>4. Barriers
  BY <1>2 DEF Barriers
<1>5. LocalExact
  <2>1. SUFFICES ASSUME kernel = "hist", NEW g \in Histogram!Groups, NEW b \in Histogram!Bins
                 PROVE  Dirty(g, b)
    BY DEF LocalExact
  <2> QED BY <1>2, <2>1, Tender DEF Dirty
<1> QED BY <1>1, <1>3, <1>4, <1>5 DEF Counting

\* What the label of an item says of its kernel and its index.
LEMMA Labels ==
  ASSUME Histogram!ConstantsRight, TypeOK, Strides, NEW w \in Histogram!Items
  PROVE  /\ pc[w] \in {"zero", "count", "flush"} => kernel = "hist"
         /\ pc[w] = "add" => kernel = "onlyg-corr"
         /\ pc[w] \in {"load", "store"} => kernel = "onlyg"
         /\ k[w] \in Nat /\ acc[w] \in Nat
         /\ k[w] < HistSize => k[w] \in Histogram!Bins
         /\ k[w] < DataSize => k[w] \in Indices /\ A[k[w]] \in Histogram!Bins
         /\ pc[w] = "store" => k[w] < DataSize
<1>1. k[w] \in Nat /\ acc[w] \in Nat
  BY DEF TypeOK
<1>2. k[w] < HistSize => k[w] \in Histogram!Bins
  BY <1>1 DEF Histogram!Bins, Histogram!ConstantsRight
<1>3. k[w] < DataSize => k[w] \in Indices
  BY <1>1 DEF Indices, Histogram!ConstantsRight
<1>4. A \in [Indices -> Histogram!Bins]
  BY DEF TypeOK
<1>5. /\ pc[w] \in {"zero", "count", "flush"} => kernel = "hist"
      /\ pc[w] = "add" => kernel = "onlyg-corr"
      /\ pc[w] \in {"load", "store"} => kernel = "onlyg"
  BY DEF TypeOK, HistLabels, OtherLabels
<1>6. pc[w] = "store" => k[w] < DataSize
  BY DEF Strides
<1> QED BY <1>1, <1>2, <1>3, <1>4, <1>5, <1>6

LEMMA TypeStep ==
  ASSUME Histogram!ConstantsRight, TypeOK, Strides, [Histogram!Next]_(Histogram!vars)
  PROVE  TypeOK'
<1> DEFINE labels == IF kernel = "hist" THEN HistLabels ELSE OtherLabels[kernel]
<1>0. /\ GlobalSize \in Nat /\ HistLSZ \in Nat
  BY DEF Histogram!ConstantsRight
<1>1. ASSUME NEW w \in Histogram!Items, Histogram!WorkItem(w) PROVE TypeOK'
  <2>1. w \in Nat /\ Histogram!get_group_id(w) \in Histogram!Groups /\ Histogram!get_local_id(w) \in Nat
    BY ItemFacts
  <2> USE <1>0, <2>1, Labels DEF TypeOK
  <2>2. CASE Histogram!Zero(w)
    BY <2>2 DEF Histogram!Zero, Histogram!Advance
  <2>3. CASE Histogram!BarrierZero(w)
    BY <2>3 DEF Histogram!BarrierZero, Histogram!Goto, Histogram!memory, HistLabels
  <2>4. CASE Histogram!Count(w)
    BY <2>4 DEF Histogram!Count, Histogram!Advance
  <2>5. CASE Histogram!BarrierCount(w)
    BY <2>5 DEF Histogram!BarrierCount, Histogram!Goto, Histogram!memory, HistLabels
  <2>6. CASE Histogram!Flush(w)
    BY <2>6 DEF Histogram!Flush, Histogram!Advance
  <2>7. CASE Histogram!AtomicAdd(w)
    BY <2>7 DEF Histogram!AtomicAdd, Histogram!Advance
  <2>8. CASE Histogram!Load(w)
    BY <2>8 DEF Histogram!Load, Histogram!Goto, Histogram!memory, OtherLabels
  <2>9. CASE Histogram!Store(w)
    BY <2>9 DEF Histogram!Store, Histogram!Advance, Histogram!Goto, OtherLabels
  <2>10. CASE Histogram!Return(w)
    BY <2>10 DEF Histogram!Return, Histogram!Goto, Histogram!memory, OtherLabels, HistLabels
  <2> QED BY <1>1, <2>2, <2>3, <2>4, <2>5, <2>6, <2>7, <2>8, <2>9, <2>10 DEF Histogram!WorkItem
<1>2. CASE Histogram!ReadBack
  BY <1>2 DEF Histogram!ReadBack, Histogram!memory, TypeOK
<1>3. CASE UNCHANGED Histogram!vars
  BY <1>3 DEF Histogram!vars, Histogram!memory, TypeOK
<1> QED BY <1>1, <1>2, <1>3 DEF Histogram!Next, Histogram!Finished

LEMMA StridesStep ==
  ASSUME Histogram!ConstantsRight, TypeOK, Strides, [Histogram!Next]_(Histogram!vars)
  PROVE  Strides'
<1>0. GlobalSize \in Nat \ {0} /\ HistLSZ \in Nat \ {0} /\ DataSize \in Nat
  BY DEF Histogram!ConstantsRight
<1>1. ASSUME NEW w \in Histogram!Items, Histogram!WorkItem(w) PROVE Strides'
  <2>1. /\ k[w] \in Nat /\ w % GlobalSize = w
        /\ (k[w] + GlobalSize) % GlobalSize = k[w] % GlobalSize
        /\ (k[w] + HistLSZ) % HistLSZ = k[w] % HistLSZ
        /\ Histogram!get_local_id(w) % HistLSZ = Histogram!get_local_id(w)
    <3>1. k[w] \in Nat /\ w % GlobalSize = w
      BY Labels, ItemFacts
    <3>2. Histogram!get_local_id(w) \in Nat /\ Histogram!get_local_id(w) < HistLSZ
      BY <1>0, ItemFacts
    <3>3. Histogram!get_local_id(w) % HistLSZ = Histogram!get_local_id(w)
      BY <1>0, <3>2, Remainder
    <3>4. (k[w] + HistLSZ) % HistLSZ = k[w] % HistLSZ
      BY <1>0, <3>1, Stride
    <3>5. (k[w] + GlobalSize) % GlobalSize = k[w] % GlobalSize
      BY <1>0, <3>1, Stride
    <3> QED BY <3>1, <3>3, <3>4, <3>5
  <2>2. ASSUME NEW v \in Histogram!Items, v # w
        PROVE  pc'[v] = pc[v] /\ k'[v] = k[v] /\ kernel' = kernel
    BY <1>1, <2>2 DEF Histogram!WorkItem, Histogram!Zero, Histogram!BarrierZero,
             Histogram!Count, Histogram!BarrierCount, Histogram!Flush, Histogram!AtomicAdd,
                      Histogram!Load, Histogram!Store, Histogram!Return, Histogram!Goto,
                      Histogram!Advance, TypeOK
  <2>3. SUFFICES /\ pc'[w] \in {"count", "add", "load", "store"} => k'[w] % GlobalSize = w
                 /\ pc'[w] \in {"zero", "flush"} => k'[w] % HistLSZ = Histogram!get_local_id(w)
                 /\ pc'[w] = "store" => k'[w] < DataSize
                 /\ pc'[w] = "done" /\ kernel' # "hist" => k'[w] >= DataSize
    BY <2>2 DEF Strides
  <2>4. /\ pc[w] \in {"count", "add", "load", "store"} => k[w] % GlobalSize = w
        /\ pc[w] \in {"zero", "flush"} => k[w] % HistLSZ = Histogram!get_local_id(w)
    BY DEF Strides
  <2>5. CASE Histogram!Zero(w)
    BY <2>1, <2>4, <2>5, Zenon DEF Histogram!Zero, Histogram!Advance, TypeOK
  <2>6. CASE Histogram!BarrierZero(w)
    BY <2>1, <2>6 DEF Histogram!BarrierZero, Histogram!Goto, TypeOK
  <2>7. CASE Histogram!Count(w)
    BY <2>1, <2>4, <2>7 DEF Histogram!Count, Histogram!Advance, TypeOK
  <2>8. CASE Histogram!BarrierCount(w)
    BY <2>1, <2>8 DEF Histogram!BarrierCount, Histogram!Goto, TypeOK
  <2>9. CASE Histogram!Flush(w)
    BY <2>1, <2>4, <2>9 DEF Histogram!Flush, Histogram!Advance, TypeOK
  <2>10. CASE Histogram!AtomicAdd(w)
    BY <2>1, <2>4, <2>10 DEF Histogram!AtomicAdd, Histogram!Advance, TypeOK
  <2>11. CASE Histogram!Load(w)
    BY <2>4, <2>11 DEF Histogram!Load, Histogram!Goto, TypeOK
  <2>12. CASE Histogram!Store(w)
    BY <2>1, <2>4, <2>12 DEF Histogram!Store, Histogram!Advance, Histogram!Goto, TypeOK
  <2>13. CASE Histogram!Return(w)
    BY <2>13, Labels DEF Histogram!Return, Histogram!Goto, TypeOK
  <2> QED BY <1>1, <2>5, <2>6, <2>7, <2>8, <2>9, <2>10, <2>11, <2>12, <2>13 DEF
                   Histogram!WorkItem
<1>2. CASE Histogram!ReadBack
  BY <1>2 DEF Histogram!ReadBack, Strides
<1>3. CASE UNCHANGED Histogram!vars
  BY <1>3 DEF Histogram!vars, Strides
<1> QED BY <1>1, <1>2, <1>3 DEF Histogram!Next, Histogram!Finished

LEMMA BarriersStep ==
  ASSUME Histogram!ConstantsRight, TypeOK, Strides, Barriers, [Histogram!Next]_(Histogram!vars)
  PROVE  Barriers'
<1>0. HistLSZ \in Nat /\ GlobalSize \in Nat /\ HistSize \in Nat /\ DataSize \in Nat
  BY DEF Histogram!ConstantsRight
<1>1. ASSUME NEW w \in Histogram!Items, Histogram!WorkItem(w) PROVE Barriers'
  <2>1. k[w] \in Nat /\ (pc[w] \in {"zero", "count", "flush"} => kernel = "hist")
    BY Labels
  <2>2. ASSUME NEW v \in Histogram!Items, v # w
        PROVE  pc'[v] = pc[v] /\ k'[v] = k[v]
    BY <1>1, <2>2 DEF Histogram!WorkItem, Histogram!Zero, Histogram!BarrierZero,
             Histogram!Count, Histogram!BarrierCount, Histogram!Flush, Histogram!AtomicAdd,
                      Histogram!Load, Histogram!Store, Histogram!Return, Histogram!Goto,
                      Histogram!Advance, TypeOK
  <2>3. kernel' = kernel
    BY <1>1 DEF Histogram!WorkItem, Histogram!Zero, Histogram!BarrierZero, Histogram!Count,
             Histogram!BarrierCount, Histogram!Flush, Histogram!AtomicAdd,
                Histogram!Load, Histogram!Store, Histogram!Return
  \* No item goes back behind a barrier it has come to.
  <2>4. kernel = "hist" /\ Histogram!ZeroDone(w) => Histogram!ZeroDone(w)'
    BY <1>0, <1>1, <2>1, <2>3, Labels
       DEF Histogram!WorkItem, Histogram!Zero, Histogram!BarrierZero, Histogram!Count,
           Histogram!BarrierCount, Histogram!Flush, Histogram!AtomicAdd,
           Histogram!Load, Histogram!Store, Histogram!Return, Histogram!Goto, Histogram!Advance,
           Histogram!ZeroDone, TypeOK
  <2>5. kernel = "hist" /\ Histogram!CountDone(w) => Histogram!CountDone(w)'
    BY <1>0, <1>1, <2>1, <2>3, Labels
       DEF Histogram!WorkItem, Histogram!Zero, Histogram!BarrierZero, Histogram!Count,
           Histogram!BarrierCount, Histogram!Flush, Histogram!AtomicAdd,
           Histogram!Load, Histogram!Store, Histogram!Return, Histogram!Goto, Histogram!Advance,
           Histogram!CountDone, TypeOK
  <2>6. ASSUME NEW v \in Histogram!Items
        PROVE  kernel = "hist" => /\ Histogram!ZeroDone(v) => Histogram!ZeroDone(v)'
                                  /\ Histogram!CountDone(v) => Histogram!CountDone(v)'
    BY <2>2, <2>4, <2>5 DEF Histogram!ZeroDone, Histogram!CountDone
  <2>7. ASSUME NEW v \in Histogram!GroupOf(w), kernel = "hist"
        PROVE  /\ pc'[w] \in {"count", "flush", "done"} => Histogram!ZeroDone(v)
               /\ pc'[w] \in {"flush", "done"} => Histogram!CountDone(v)
    BY <1>1, <2>3, <2>7, Labels
       DEF Histogram!WorkItem, Histogram!Zero, Histogram!BarrierZero, Histogram!Count,
           Histogram!BarrierCount, Histogram!Flush, Histogram!AtomicAdd,
           Histogram!Load, Histogram!Store, Histogram!Return, Histogram!Goto, Barriers, TypeOK
  <2> SUFFICES ASSUME NEW u \in Histogram!Items, NEW v \in Histogram!GroupOf(u), kernel' = "hist"
               PROVE  /\ pc'[u] \in {"count", "flush", "done"} => Histogram!ZeroDone(v)'
                      /\ pc'[u] \in {"flush", "done"} => Histogram!CountDone(v)'
    BY DEF Barriers
  <2>8. v \in Histogram!Items /\ kernel = "hist"
    BY <2>3 DEF Histogram!GroupOf
  <2>9. /\ pc'[u] \in {"count", "flush", "done"} => Histogram!ZeroDone(v)
        /\ pc'[u] \in {"flush", "done"} => Histogram!CountDone(v)
    BY <2>2, <2>7, <2>8 DEF Barriers
  <2> QED BY <2>6, <2>8, <2>9
<1>2. CASE Histogram!ReadBack
  BY <1>2 DEF Histogram!ReadBack, Barriers, Histogram!ZeroDone, Histogram!CountDone
<1>3. CASE UNCHANGED Histogram!vars
  BY <1>3 DEF Histogram!vars, Barriers, Histogram!ZeroDone, Histogram!CountDone
<1> QED BY <1>1, <1>2, <1>3 DEF Histogram!Next, Histogram!Finished

\* An action of item w leaves the other items where they are.
LEMMA OthersStay ==
  ASSUME TypeOK, NEW w \in Histogram!Items, Histogram!WorkItem(w)
  PROVE  /\ kernel' = kernel /\ A' = A /\ APtr' = APtr
         /\ \A v \in Histogram!Items : v # w => pc'[v] = pc[v] /\ k'[v] = k[v]
BY DEF Histogram!WorkItem, Histogram!Zero, Histogram!BarrierZero, Histogram!Count,
       Histogram!BarrierCount, Histogram!Flush, Histogram!AtomicAdd,
       Histogram!Load, Histogram!Store, Histogram!Return, Histogram!Goto, Histogram!Advance,
       TypeOK

\* A step that adds the datum at i[w] serves that datum and no other.
LEMMA ServesOne ==
  ASSUME Histogram!ConstantsRight, TypeOK, Strides, NEW w \in Histogram!Items,
         Histogram!Count(w) \/ Histogram!AtomicAdd(w) \/ Histogram!Store(w)
  PROVE  /\ k[w] \in Indices /\ ItemOf(k[w]) = w /\ ~Served(k[w])
         /\ \A e \in Indices : Served(e)' <=> Served(e) \/ e = k[w]
<1>0. GlobalSize \in Nat \ {0} /\ DataSize \in Nat /\ k[w] \in Nat
  BY Labels DEF Histogram!ConstantsRight
<1>1. /\ pc[w] \in {"count", "add", "store"} /\ k[w] < DataSize
      /\ k'[w] = k[w] + GlobalSize /\ kernel' = kernel
      /\ kernel = "hist" => pc[w] = "count" /\ pc'[w] = "count"
      /\ \A v \in Histogram!Items : v # w => pc'[v] = pc[v] /\ k'[v] = k[v]
  BY Labels DEF Histogram!Count, Histogram!AtomicAdd, Histogram!Store, Histogram!Advance,
           Histogram!Goto, TypeOK
<1>2. k[w] \in Indices /\ ItemOf(k[w]) = w
  BY <1>0, <1>1, Labels DEF Strides, ItemOf
<1>3. ~Served(k[w])
  BY <1>0, <1>1, <1>2 DEF Served, Histogram!CountDone
<1>4. ASSUME NEW e \in Indices PROVE Served(e)' <=> Served(e) \/ e = k[w]
  <2>1. e \in Nat /\ e < DataSize
    BY <1>0 DEF Indices
  <2>2. ItemOf(e) \in Histogram!Items
    BY <2>1, DatumFacts
  <2>3. CASE ItemOf(e) = w
    <3>1. e % GlobalSize = k[w] % GlobalSize
      BY <1>2, <2>3 DEF ItemOf
    <3>2. e < k[w] + GlobalSize <=> e < k[w] \/ e = k[w]
      BY <1>0, <2>1, <3>1, NextOfItem
    <3>3. Served(e) <=> e < k[w]
      BY <1>0, <1>1, <2>3 DEF Served, Histogram!CountDone
    <3>4. Served(e)' <=> e < k[w] + GlobalSize
      BY <1>0, <1>1, <2>1, <2>3 DEF Served, Histogram!CountDone, ItemOf
    <3> QED BY <3>2, <3>3, <3>4
  <2>4. CASE ItemOf(e) # w
    <3>1. e # k[w]
      BY <1>2, <2>4
    <3>2. Served(e)' <=> Served(e)
      BY <1>1, <2>2, <2>4 DEF Served, Histogram!CountDone, ItemOf
    <3> QED BY <3>1, <3>2
  <2> QED BY <2>3, <2>4
<1> QED BY <1>2, <1>3, <1>4

\* The other steps of hist.cl serve no datum.
LEMMA ServesNone ==
  ASSUME Histogram!ConstantsRight, TypeOK, Strides, NEW w \in Histogram!Items, Histogram!WorkItem(w), kernel = "hist",
         ~Histogram!Count(w), NEW e \in Indices
  PROVE  Served(e)' <=> Served(e)
<1>0. GlobalSize \in Nat \ {0} /\ DataSize \in Nat /\ k[w] \in Nat
  BY Labels DEF Histogram!ConstantsRight
<1>1. e \in Nat /\ e < DataSize /\ ItemOf(e) \in Histogram!Items /\ ItemOf(e) <= e /\ ItemOf(e) \in Nat
  <2>1. e \in Nat /\ e < DataSize
    BY <1>0 DEF Indices
  <2> QED BY <2>1, DatumFacts, ItemFacts
<1>2. CASE ItemOf(e) # w
  BY <1>1, <1>2, OthersStay DEF Served, Histogram!CountDone, ItemOf
<1>3. CASE ItemOf(e) = w
  <2>0. kernel' = kernel
    BY OthersStay
  <2>1. CASE Histogram!Zero(w)
    <3>1. pc[w] = "zero" /\ pc'[w] = "zero"
      BY <2>1 DEF Histogram!Zero
    <3> QED BY <1>3, <2>0, <3>1 DEF Served, Histogram!CountDone, ItemOf
  <2>2. CASE Histogram!BarrierZero(w)
    <3>1. pc[w] = "zero" /\ pc'[w] = "count" /\ k'[w] = w
      BY <2>2 DEF Histogram!BarrierZero, Histogram!Goto, TypeOK
    <3>2. ~(w >= DataSize) /\ ~(e < w)
      BY <1>0, <1>1, <1>3
    <3> QED BY <1>3, <2>0, <3>1, <3>2 DEF Served, Histogram!CountDone, ItemOf
  <2>3. CASE Histogram!BarrierCount(w)
    <3>1. Histogram!CountDone(w) /\ pc'[w] = "flush"
      BY <2>3, ItemFacts DEF Histogram!BarrierCount, Histogram!Goto, TypeOK
    <3> QED BY <1>3, <2>0, <3>1 DEF Served, Histogram!CountDone, ItemOf
  <2>4. CASE Histogram!Flush(w) \/ Histogram!Return(w)
    <3>1. pc[w] = "flush" /\ pc'[w] \in {"flush", "done"}
      BY <2>4, Labels DEF Histogram!Flush, Histogram!Return, Histogram!Goto, TypeOK
    <3> QED BY <1>3, <2>0, <3>1 DEF Served, Histogram!CountDone, ItemOf
  <2>5. ~Histogram!AtomicAdd(w) /\ ~Histogram!Load(w) /\ ~Histogram!Store(w)
    BY Labels DEF Histogram!AtomicAdd, Histogram!Load, Histogram!Store
  <2> QED BY <2>1, <2>2, <2>3, <2>4, <2>5 DEF Histogram!WorkItem
<1> QED BY <1>2, <1>3

LEMMA DataFinite ==
  ASSUME Histogram!ConstantsRight, NEW S \in SUBSET Indices
  PROVE  IsFiniteSet(S) /\ Cardinality(S) \in Nat /\ (S # {} => Cardinality(S) > 0)
<1>1. IsFiniteSet(Indices)
  BY FS_Interval DEF Indices, Histogram!ConstantsRight
<1>2. IsFiniteSet(S) /\ Cardinality(S) \in Nat
  BY <1>1, FS_Subset, FS_CardinalityType
<1> QED BY <1>2, FS_EmptySet

\* Clearing a bin: no item of the group has counted, as one is still clearing.
LEMMA ZeroExact ==
  ASSUME Histogram!ConstantsRight, Counting, NEW w \in Histogram!Items, Histogram!Zero(w)
  PROVE  LocalExact'
<1>0. /\ TypeOK /\ Strides /\ Barriers /\ LocalExact /\ Histogram!WorkItem(w)
      /\ pc[w] = "zero" /\ k[w] < HistSize /\ kernel = "hist" /\ ~Histogram!Count(w)
      /\ k[w] \in Histogram!Bins /\ Histogram!get_group_id(w) \in Histogram!Groups /\ k[w] \in Nat
      /\ HistLSZ \in Nat \ {0} /\ HistSize \in Nat
  <2>1. TypeOK /\ Strides /\ Barriers /\ LocalExact
    BY DEF Counting
  <2>2. pc[w] = "zero" /\ k[w] < HistSize /\ Histogram!WorkItem(w) /\ ~Histogram!Count(w)
    BY DEF Histogram!Zero, Histogram!WorkItem, Histogram!Count
  <2> QED BY <2>1, <2>2, Labels, ItemFacts DEF Histogram!ConstantsRight
<1>1. ASSUME NEW g, NEW b PROVE CountedBy(g, b)' = CountedBy(g, b)
  BY <1>0, ServesNone, OthersStay DEF CountedBy, ItemOf
<1>2. SUFFICES ASSUME NEW g \in Histogram!Groups, NEW b \in Histogram!Bins
               PROVE  Dirty(g, b)' \/ B'[g][b] = Cardinality(CountedBy(g, b))
  BY <1>1 DEF LocalExact
<1>3. CASE g = Histogram!get_group_id(w) /\ b = k[w]
  <2>1. B'[g][b] = 0
    BY <1>0, <1>3 DEF Histogram!Zero, TypeOK
  <2>2. ASSUME NEW e \in Indices, Histogram!get_group_id(ItemOf(e)) = g, Served(e) PROVE FALSE
    <3>1. ItemOf(e) \in Histogram!Items
      BY DatumFacts DEF Indices, Histogram!ConstantsRight
    <3>2. w \in Histogram!GroupOf(ItemOf(e))
      BY <1>3, <2>2 DEF Histogram!GroupOf
    <3>3. pc[ItemOf(e)] \in {"count", "flush", "done"}
      BY <1>0, <2>2 DEF Served, Histogram!CountDone
    <3>4. Histogram!ZeroDone(w)
      BY <1>0, <3>1, <3>2, <3>3 DEF Barriers
    <3> QED BY <1>0, <3>4 DEF Histogram!ZeroDone
  <2>3. CountedBy(g, b) = {}
    BY <2>2 DEF CountedBy
  <2> QED BY <2>1, <2>3, FS_EmptySet
<1>4. CASE ~(g = Histogram!get_group_id(w) /\ b = k[w])
  <2>1. B'[g][b] = B[g][b]
    BY <1>0, <1>4 DEF Histogram!Zero, TypeOK
  <2>2. ASSUME Dirty(g, b) PROVE Dirty(g, b)'
    <3>1. PICK v \in Histogram!Items : Histogram!get_group_id(v) = g /\ Tends(v, b) /\ pc[v] = "zero" /\ k[v] <= b
      BY <2>2 DEF Dirty
    <3>2. CASE v # w
      BY <1>0, <3>1, <3>2, OthersStay DEF Dirty
    <3>3. CASE v = w
      <4>1. b % HistLSZ = k[w] % HistLSZ /\ b \in Nat
        BY <1>0, <3>1, <3>3 DEF Tends, Strides, Histogram!Bins
      <4>2. ~(b < k[w]) /\ b # k[w]
        BY <1>0, <1>4, <3>1, <3>3, <4>1
      <4>3. ~(b < k[w] + HistLSZ)
        BY <1>0, <4>1, <4>2, NextOfItem
      <4>4. k'[w] = k[w] + HistLSZ /\ pc'[w] = "zero"
        BY <1>0 DEF Histogram!Zero, Histogram!Advance, TypeOK
      <4>5. k'[w] <= b
        BY <1>0, <4>1, <4>3, <4>4
      <4> QED BY <3>1, <3>3, <4>4, <4>5 DEF Dirty
    <3> QED BY <3>2, <3>3
  <2> QED BY <1>0, <2>1, <2>2 DEF LocalExact
<1> QED BY <1>3, <1>4

LEMMA CountExact ==
  ASSUME Histogram!ConstantsRight, Counting, NEW w \in Histogram!Items, Histogram!Count(w)
  PROVE  LocalExact'
<1>0. /\ TypeOK /\ Strides /\ Barriers /\ LocalExact
      /\ pc[w] = "count" /\ pc' = pc /\ kernel = "hist" /\ kernel' = kernel /\ A' = A
      /\ k[w] < DataSize /\ A[k[w]] \in Histogram!Bins /\ Histogram!get_group_id(w) \in Histogram!Groups
      /\ \A v \in Histogram!Items : v # w => k'[v] = k[v]
  <2>1. TypeOK /\ Strides /\ Barriers /\ LocalExact
    BY DEF Counting
  <2>2. pc[w] = "count" /\ k[w] < DataSize /\ pc' = pc /\ Histogram!WorkItem(w)
    BY DEF Histogram!Count, Histogram!WorkItem
  <2> QED BY <2>1, <2>2, Labels, ItemFacts, OthersStay
<1>1. ASSUME NEW g, NEW b PROVE Dirty(g, b) => Dirty(g, b)'
  BY <1>0 DEF Dirty
<1>2. SUFFICES ASSUME NEW g \in Histogram!Groups, NEW b \in Histogram!Bins,
                      B[g][b] = Cardinality(CountedBy(g, b))
               PROVE  B'[g][b] = Cardinality(CountedBy(g, b)')
  BY <1>0, <1>1 DEF LocalExact
<1>3. IsFiniteSet(CountedBy(g, b))
  BY DataFinite DEF CountedBy
<1>4. CASE g = Histogram!get_group_id(w) /\ b = A[k[w]]
  <2>1. CountedBy(g, b)' = CountedBy(g, b) \cup {k[w]}
    BY <1>0, <1>4, ServesOne DEF CountedBy, ItemOf
  <2>2. k[w] \notin CountedBy(g, b)
    BY <1>0, ServesOne DEF CountedBy
  <2>3. Cardinality(CountedBy(g, b)') = Cardinality(CountedBy(g, b)) + 1
    BY <1>3, <2>1, <2>2, OneMore
  <2>4. B'[g][b] = B[g][b] + 1
    BY <1>0, <1>4 DEF Histogram!Count, TypeOK
  <2> QED BY <1>2, <2>3, <2>4
<1>5. CASE ~(g = Histogram!get_group_id(w) /\ b = A[k[w]])
  <2>1. CountedBy(g, b)' = CountedBy(g, b)
    <3>1. /\ ItemOf(k[w]) = w
          /\ \A e \in Indices : Served(e)' <=> Served(e) \/ e = k[w]
      BY <1>0, ServesOne
    <3> QED BY <1>0, <1>5, <3>1 DEF CountedBy, ItemOf
  <2>2. B'[g][b] = B[g][b]
    BY <1>0, <1>5 DEF Histogram!Count, TypeOK
  <2> QED BY <1>2, <2>1, <2>2
<1> QED BY <1>4, <1>5

LEMMA LocalStep ==
  ASSUME Histogram!ConstantsRight, Counting, [Histogram!Next]_(Histogram!vars)
  PROVE  LocalExact'
<1>0. TypeOK /\ Strides /\ Barriers /\ LocalExact
  BY DEF Counting
<1>1. ASSUME NEW w \in Histogram!Items, Histogram!WorkItem(w) PROVE LocalExact'
  <2>1. CASE Histogram!Zero(w)
    BY <2>1, ZeroExact
  <2>2. CASE Histogram!Count(w)
    BY <2>2, CountExact
  <2>3. CASE ~Histogram!Zero(w) /\ ~Histogram!Count(w)
    <3>1. SUFFICES ASSUME kernel = "hist", NEW g \in Histogram!Groups, NEW b \in Histogram!Bins
                   PROVE  Dirty(g, b)' \/ B'[g][b] = Cardinality(CountedBy(g, b)')
      BY <1>0, <1>1, OthersStay DEF LocalExact
    <3>2. CountedBy(g, b)' = CountedBy(g, b)
      BY <1>0, <1>1, <2>3, <3>1, ServesNone, OthersStay DEF CountedBy, ItemOf
    <3>3. B' = B
      BY <1>1, <2>3 DEF Histogram!WorkItem, Histogram!BarrierZero, Histogram!BarrierCount,
               Histogram!Flush, Histogram!AtomicAdd,
                        Histogram!Load, Histogram!Store, Histogram!Return, Histogram!memory
    <3>4. ASSUME Dirty(g, b) PROVE Dirty(g, b)'
      <4>1. PICK v \in Histogram!Items : Histogram!get_group_id(v) = g /\ Tends(v, b) /\ pc[v] = "zero" /\ k[v] <= b
        BY <3>4 DEF Dirty
      <4>2. v # w
        <5>1. b < HistSize /\ b \in Nat /\ HistSize \in Nat /\ k[v] \in Nat
          BY <1>0, Labels DEF Histogram!Bins, Histogram!ConstantsRight
        <5>2. ~Histogram!ZeroDone(v)
          BY <4>1, <5>1 DEF Histogram!ZeroDone
        <5> QED BY <1>1, <2>3, <4>1, <5>2, ItemFacts
                DEF Histogram!WorkItem, Histogram!BarrierZero, Histogram!BarrierCount,
                    Histogram!Flush, Histogram!AtomicAdd, Histogram!Load, Histogram!Store,
                    Histogram!Return
      <4> QED BY <1>0, <1>1, <4>1, <4>2, OthersStay DEF Dirty
    <3> QED BY <1>0, <3>1, <3>2, <3>3, <3>4 DEF LocalExact
  <2> QED BY <2>1, <2>2, <2>3
<1>2. CASE Histogram!ReadBack
  BY <1>0, <1>2 DEF Histogram!ReadBack, Histogram!memory, LocalExact, Dirty, CountedBy, Served,
           Histogram!CountDone, ItemOf
<1>3. CASE UNCHANGED Histogram!vars
  BY <1>0, <1>3 DEF Histogram!vars, Histogram!memory, LocalExact, Dirty, CountedBy, Served,
           Histogram!CountDone, ItemOf
<1> QED BY <1>1, <1>2, <1>3 DEF Histogram!Next, Histogram!Finished

LEMMA CountingStep ==
  ASSUME Histogram!ConstantsRight, Counting, [Histogram!Next]_(Histogram!vars)
  PROVE  Counting'
BY TypeStep, StridesStep, BarriersStep, LocalStep DEF Counting

\* When an item of a group starts to add up its bins, or has done so, the group
\* has counted all its data.
LEMMA GroupComplete ==
  ASSUME Histogram!ConstantsRight, Counting, kernel = "hist", NEW w \in Histogram!Items,
         pc[w] \in {"flush", "done"}, NEW b \in Histogram!Bins
  PROVE  /\ B[Histogram!get_group_id(w)][b] = Cardinality(CountedBy(Histogram!get_group_id(w), b))
         /\ CountedBy(Histogram!get_group_id(w), b) =
              {e \in Indices : A[e] = b /\ Histogram!get_group_id(ItemOf(e)) = Histogram!get_group_id(w)}
<1>0. TypeOK /\ Strides /\ Barriers /\ LocalExact
  BY DEF Counting
<1>1. ASSUME NEW v \in Histogram!Items, Histogram!get_group_id(v) = Histogram!get_group_id(w)
      PROVE  Histogram!ZeroDone(v) /\ Histogram!CountDone(v)
  BY <1>0, <1>1 DEF Barriers, Histogram!GroupOf
<1>2. ~Dirty(Histogram!get_group_id(w), b)
  <2>1. b < HistSize /\ b \in Nat /\ HistSize \in Nat
    BY DEF Histogram!Bins, Histogram!ConstantsRight
  <2>2. \A v \in Histogram!Items : k[v] \in Nat
    BY <1>0, Labels
  <2> QED BY <1>1, <2>1, <2>2 DEF Dirty, Histogram!ZeroDone
<1>3. ASSUME NEW e \in Indices, Histogram!get_group_id(ItemOf(e)) = Histogram!get_group_id(w) PROVE Served(e)
  <2>1. ItemOf(e) \in Histogram!Items
    BY DatumFacts DEF Indices, Histogram!ConstantsRight
  <2> QED BY <1>1, <1>3, <2>1 DEF Served
<1>4. CountedBy(Histogram!get_group_id(w), b) =
        {e \in Indices : A[e] = b /\ Histogram!get_group_id(ItemOf(e)) = Histogram!get_group_id(w)}
  BY <1>3 DEF CountedBy
<1> QED BY <1>0, <1>2, <1>4, ItemFacts DEF LocalExact

LEMMA CountingGroup ==
  ASSUME Histogram!ConstantsRight, Counting
  PROVE  Histogram!GroupCounted
<1>1. SUFFICES ASSUME NEW w \in Histogram!Items, pc[w] \in {"flush", "done"}, kernel = "hist",
                      NEW b \in Histogram!Bins
               PROVE  B[Histogram!get_group_id(w)][b] =
                        Cardinality({e \in DOMAIN A : A[e] = b /\ (e % GlobalSize) \in Histogram!GroupOf(w)})
  BY SameCardinality DEF Histogram!GroupCounted
<1>2. DOMAIN A = Indices
  BY DEF Counting, TypeOK
<1>3. ASSUME NEW e \in Indices
      PROVE  (e % GlobalSize) \in Histogram!GroupOf(w) <=> Histogram!get_group_id(ItemOf(e)) = Histogram!get_group_id(w)
  <2>1. ItemOf(e) \in Histogram!Items
    BY DatumFacts DEF Indices, Histogram!ConstantsRight
  <2> QED BY <2>1 DEF Histogram!GroupOf, ItemOf
<1>4. {e \in DOMAIN A : A[e] = b /\ (e % GlobalSize) \in Histogram!GroupOf(w)} =
        {e \in Indices : A[e] = b /\ Histogram!get_group_id(ItemOf(e)) = Histogram!get_group_id(w)}
  BY <1>2, <1>3
<1> QED BY <1>1, <1>4, GroupComplete

-----------------------------------------------------------------------------
(* The buffer H, whatever it holds at first: Summing is inductive.         *)

LEMMA InitSumming ==
  ASSUME Histogram!ConstantsRight, Histogram!Init, Counting
  PROVE  Summing
<1>1. ASSUME NEW b \in Histogram!Bins PROVE C[b] = APtr[b] /\ APtr[b] \in Nat /\ StoredIn(b) = {}
  <2>1. C[b] = APtr[b] /\ APtr[b] \in Nat
    BY DEF Histogram!Init, Counting, TypeOK
  <2>2. ASSUME NEW w \in Histogram!Items
        PROVE  /\ pc[w] \in {"zero", "add", "load"}
               /\ kernel # "hist" => k[w] = w
    BY DEF Histogram!Init, Histogram!FirstLoop, Histogram!FirstIndex, Counting, TypeOK
  <2>3. ASSUME NEW g PROVE ~Flushed(g, b)
    BY <2>2 DEF Flushed
  <2>4. ASSUME NEW e \in Indices, kernel # "hist" PROVE ~Served(e)
    <3>1. e \in Nat
      BY DEF Indices, Histogram!ConstantsRight
    <3>2. ItemOf(e) \in Histogram!Items /\ ItemOf(e) <= e /\ ItemOf(e) \in Nat
      BY <3>1, DatumFacts, ItemFacts
    <3> QED BY <2>2, <2>4, <3>1, <3>2 DEF Served
  <2> QED BY <2>1, <2>3, <2>4 DEF StoredIn
<1>2. BufferExact
  BY <1>1, FS_EmptySet DEF BufferExact
<1>3. LoadedBounded
  BY DEF Histogram!Init, Histogram!FirstLoop, LoadedBounded, Counting, TypeOK
<1>4. ReadWhenDone
  BY DEF Histogram!Init, ReadWhenDone
<1> QED BY <1>2, <1>3, <1>4 DEF Summing

\* Until an item flushes, its group adds nothing to the result.
LEMMA FlushesNone ==
  ASSUME Histogram!ConstantsRight, TypeOK, Strides, NEW w \in Histogram!Items, Histogram!WorkItem(w), kernel = "hist",
         ~Histogram!Flush(w), NEW g, NEW b \in Histogram!Bins
  PROVE  Flushed(g, b)' <=> Flushed(g, b)
<1>0. HistSize \in Nat /\ HistLSZ \in Nat \ {0} /\ b \in Nat /\ b < HistSize /\ k[w] \in Nat
  BY Labels DEF Histogram!Bins, Histogram!ConstantsRight
<1>1. b % HistLSZ <= b
  BY <1>0, Remainder
<1>2. Tends(w, b) => ~(b < Histogram!get_local_id(w))
  <2>1. Histogram!get_local_id(w) \in Nat
    BY ItemFacts
  <2>2. Tends(w, b) => Histogram!get_local_id(w) <= b
    BY <1>1 DEF Tends
  <2> QED BY <1>0, <2>1, <2>2
<1> DEFINE Out(v) == pc[v] = "done" \/ (pc[v] = "flush" /\ b < k[v])
<1>3. Tends(w, b) => (Out(w)' <=> Out(w))
  <2>1. CASE Histogram!Zero(w) \/ Histogram!Count(w) \/ Histogram!BarrierZero(w)
    <3>1. pc[w] \notin {"flush", "done"} /\ pc'[w] \notin {"flush", "done"}
      BY <2>1 DEF Histogram!Zero, Histogram!Count, Histogram!BarrierZero, Histogram!Goto, TypeOK
    <3> QED BY <3>1
  <2>2. CASE Histogram!BarrierCount(w)
    <3>1. pc[w] = "count" /\ pc'[w] = "flush" /\ k'[w] = Histogram!get_local_id(w)
      BY <2>2 DEF Histogram!BarrierCount, Histogram!Goto, TypeOK
    <3> QED BY <1>2, <3>1
  <2>3. CASE Histogram!Return(w)
    <3>1. pc[w] = "flush" /\ k[w] >= HistSize /\ pc'[w] = "done"
      BY <2>3, Labels DEF Histogram!Return, Histogram!Goto, TypeOK
    <3>2. b < k[w]
      BY <1>0, <3>1
    <3> QED BY <3>1, <3>2
  <2>4. ~Histogram!AtomicAdd(w) /\ ~Histogram!Load(w) /\ ~Histogram!Store(w)
    BY Labels DEF Histogram!AtomicAdd, Histogram!Load, Histogram!Store
  <2> QED BY <2>1, <2>2, <2>3, <2>4 DEF Histogram!WorkItem
<1>4. ASSUME NEW v \in Histogram!Items PROVE Tends(v, b) => (Out(v)' <=> Out(v))
  BY <1>3, OthersStay
<1> QED BY <1>4 DEF Flushed, Tends

\* A step of an item's last loop adds its bin to the result, which had not been
\* added before.
LEMMA FlushesOne ==
  ASSUME Histogram!ConstantsRight, TypeOK, Strides, NEW w \in Histogram!Items, Histogram!Flush(w)
  PROVE  /\ ~Flushed(Histogram!get_group_id(w), k[w])
         /\ \A g : \A b \in Histogram!Bins :
              Flushed(g, b)' <=> Flushed(g, b) \/ (g = Histogram!get_group_id(w) /\ b = k[w])
<1>0. /\ pc[w] = "flush" /\ pc'[w] = "flush" /\ k'[w] = k[w] + HistLSZ /\ Histogram!WorkItem(w)
      /\ k[w] \in Nat /\ k[w] \in Histogram!Bins /\ HistLSZ \in Nat \ {0} /\ Tends(w, k[w])
  <2>1. pc[w] = "flush" /\ pc'[w] = "flush" /\ k'[w] = k[w] + HistLSZ /\ Histogram!WorkItem(w) /\ k[w] < HistSize
    BY DEF Histogram!Flush, Histogram!Advance, TypeOK, Histogram!WorkItem
  <2> QED BY <2>1, Labels DEF Strides, Tends, Histogram!ConstantsRight
<1> DEFINE Out(v, b) == pc[v] = "done" \/ (pc[v] = "flush" /\ b < k[v])
<1>1. ~Flushed(Histogram!get_group_id(w), k[w])
  <2>1. ASSUME NEW v \in Histogram!Items, Histogram!get_group_id(v) = Histogram!get_group_id(w), Tends(v, k[w]), Out(v, k[w])
        PROVE  FALSE
    <3>1. v = w
      BY <1>0, <2>1, OneTender
    <3> QED BY <1>0, <2>1, <3>1
  <2> QED BY <2>1 DEF Flushed
<1>2. ASSUME NEW b \in Histogram!Bins, Tends(w, b) PROVE Out(w, b)' <=> Out(w, b) \/ b = k[w]
  <2>1. b % HistLSZ = k[w] % HistLSZ /\ b \in Nat
    BY <1>0, <1>2 DEF Tends, Histogram!Bins
  <2>2. b < k[w] + HistLSZ <=> b < k[w] \/ b = k[w]
    BY <1>0, <2>1, NextOfItem
  <2> QED BY <1>0, <2>2
<1>3. ASSUME NEW g, NEW b \in Histogram!Bins
      PROVE  Flushed(g, b)' <=> Flushed(g, b) \/ (g = Histogram!get_group_id(w) /\ b = k[w])
  <2>1. ASSUME NEW v \in Histogram!Items, v # w PROVE Out(v, b)' <=> Out(v, b)
    BY <1>0, <2>1, OthersStay
  <2>2. ASSUME NEW v \in Histogram!Items, Histogram!get_group_id(v) = g, Tends(v, b)
        PROVE  Out(v, b)' <=> Out(v, b) \/ (v = w /\ b = k[w])
    BY <1>2, <2>1, <2>2
  <2> QED BY <1>0, <2>2 DEF Flushed, Tends
<1> QED BY <1>1, <1>3

LEMMA FlushExact ==
  ASSUME Histogram!ConstantsRight, Counting, Summing, NEW w \in Histogram!Items, Histogram!Flush(w)
  PROVE  BufferExact'
<1>0. /\ TypeOK /\ Strides /\ BufferExact /\ kernel = "hist" /\ kernel' = kernel /\ A' = A
      /\ APtr' = APtr /\ APtr \in [Histogram!Bins -> Nat] /\ C \in [Histogram!Bins -> Nat]
      /\ pc[w] = "flush" /\ k[w] \in Histogram!Bins /\ Histogram!get_group_id(w) \in Histogram!Groups
  <2>1. TypeOK /\ Strides /\ BufferExact /\ Histogram!WorkItem(w) /\ pc[w] = "flush" /\ k[w] < HistSize
    BY DEF Counting, Summing, Histogram!Flush, Histogram!WorkItem
  <2> QED BY <2>1, Labels, ItemFacts, OthersStay DEF TypeOK
<1>1. SUFFICES ASSUME NEW b \in Histogram!Bins
               PROVE  C'[b] = APtr[b] + Cardinality(StoredIn(b)')
  <2>1. ASSUME NEW b \in Histogram!Bins
        PROVE  /\ Cardinality(StoredIn(b)') \in Nat /\ APtr[b] \in Nat
               /\ StoredIn(b)' # {} => Cardinality(StoredIn(b)') > 0
    BY <1>0, DataFinite DEF StoredIn
  <2> QED BY <1>0, <2>1 DEF BufferExact
<1>2. /\ C[b] = APtr[b] + Cardinality(StoredIn(b)) /\ APtr[b] \in Nat
      /\ Cardinality(StoredIn(b)) \in Nat
  BY <1>0, DataFinite DEF BufferExact, StoredIn
<1>3. CASE b = k[w]
  <2> DEFINE P == {e \in Indices : A[e] = b /\ Histogram!get_group_id(ItemOf(e)) = Histogram!get_group_id(w)}
  <2>1. StoredIn(b)' = StoredIn(b) \cup P
    BY <1>0, <1>3, FlushesOne DEF StoredIn, ItemOf
  <2>2. StoredIn(b) \cap P = {}
    BY <1>0, <1>3, FlushesOne DEF StoredIn
  <2>3. B[Histogram!get_group_id(w)][b] = Cardinality(P)
    BY <1>0, GroupComplete
  <2>4. IsFiniteSet(StoredIn(b)) /\ IsFiniteSet(P)
    BY DataFinite DEF StoredIn
  <2>5. /\ Cardinality(StoredIn(b)') = Cardinality(StoredIn(b)) + Cardinality(P)
        /\ Cardinality(P) \in Nat
    <3>1. Cardinality(P) \in Nat
      BY DataFinite
    <3> HIDE DEF P
    <3> QED BY <2>1, <2>2, <2>4, <3>1, Portions
  <2>6. C'[b] = C[b] + B[Histogram!get_group_id(w)][b]
    BY <1>0, <1>3 DEF Histogram!Flush, TypeOK
  <2> HIDE DEF P
  <2> QED BY <1>2, <2>3, <2>5, <2>6
<1>4. CASE b # k[w]
  <2>1. StoredIn(b)' = StoredIn(b)
    BY <1>0, <1>4, FlushesOne DEF StoredIn, ItemOf
  <2>2. C'[b] = C[b]
    BY <1>0, <1>4 DEF Histogram!Flush, TypeOK
  <2> QED BY <1>2, <2>1, <2>2
<1> QED BY <1>3, <1>4

\* The kernels without local memory store one datum at a time.
LEMMA StoresOne ==
  ASSUME Histogram!ConstantsRight, TypeOK, Strides, NEW w \in Histogram!Items, Histogram!AtomicAdd(w) \/ Histogram!Store(w),
         NEW b \in Histogram!Bins
  PROVE  /\ IsFiniteSet(StoredIn(b)) /\ Cardinality(StoredIn(b)) \in Nat
         /\ StoredIn(b)' = IF b = A[k[w]] THEN StoredIn(b) \cup {k[w]} ELSE StoredIn(b)
         /\ Cardinality(StoredIn(b)') =
              IF b = A[k[w]] THEN Cardinality(StoredIn(b)) + 1 ELSE Cardinality(StoredIn(b))
<1>0. kernel # "hist" /\ kernel' = kernel /\ A' = A
  BY Labels DEF Histogram!AtomicAdd, Histogram!Store
<1>1. IsFiniteSet(StoredIn(b)) /\ Cardinality(StoredIn(b)) \in Nat
  BY DataFinite DEF StoredIn
<1>2. /\ k[w] \in Indices /\ ~Served(k[w])
      /\ \A e \in Indices : Served(e)' <=> Served(e) \/ e = k[w]
  BY ServesOne
<1>3. StoredIn(b)' = IF b = A[k[w]] THEN StoredIn(b) \cup {k[w]} ELSE StoredIn(b)
  BY <1>0, <1>2 DEF StoredIn
<1>4. k[w] \notin StoredIn(b)
  BY <1>0, <1>2 DEF StoredIn
<1>5. Cardinality(StoredIn(b) \cup {k[w]}) = Cardinality(StoredIn(b)) + 1
  BY <1>1, <1>4, OneMore
<1> QED BY <1>1, <1>3, <1>5

LEMMA AtomicExact ==
  ASSUME Histogram!ConstantsRight, Counting, Summing, NEW w \in Histogram!Items, Histogram!AtomicAdd(w)
  PROVE  BufferExact'
<1>0. /\ TypeOK /\ Strides /\ BufferExact /\ kernel = "onlyg-corr" /\ kernel' = kernel
      /\ APtr' = APtr /\ APtr \in [Histogram!Bins -> Nat] /\ C \in [Histogram!Bins -> Nat]
      /\ A[k[w]] \in Histogram!Bins
  <2>1. /\ TypeOK /\ Strides /\ BufferExact /\ pc[w] = "add" /\ k[w] < DataSize
        /\ kernel' = kernel /\ APtr' = APtr
    BY DEF Counting, Summing, Histogram!AtomicAdd
  <2> QED BY <2>1, Labels DEF TypeOK
<1>1. SUFFICES ASSUME NEW b \in Histogram!Bins
               PROVE  C'[b] = APtr[b] + Cardinality(StoredIn(b)')
  <2>1. ASSUME NEW b \in Histogram!Bins
        PROVE  /\ Cardinality(StoredIn(b)') \in Nat /\ APtr[b] \in Nat
               /\ StoredIn(b)' # {} => Cardinality(StoredIn(b)') > 0
    BY <1>0, DataFinite DEF StoredIn
  <2> QED BY <1>0, <2>1 DEF BufferExact
<1>2. /\ C[b] = APtr[b] + Cardinality(StoredIn(b)) /\ APtr[b] \in Nat
      /\ Cardinality(StoredIn(b)) \in Nat
  BY <1>0, DataFinite DEF BufferExact, StoredIn
<1>3. C'[b] = IF b = A[k[w]] THEN C[b] + 1 ELSE C[b]
  BY <1>0 DEF Histogram!AtomicAdd, TypeOK
<1> QED BY <1>0, <1>2, <1>3, StoresOne

LEMMA StoreExact ==
  ASSUME Histogram!ConstantsRight, Counting, Summing, NEW w \in Histogram!Items, Histogram!Store(w)
  PROVE  BufferExact' /\ LoadedBounded'
<1>0. /\ TypeOK /\ Strides /\ BufferExact /\ LoadedBounded
      /\ kernel = "onlyg" /\ kernel' = kernel /\ A' = A /\ acc' = acc
      /\ APtr' = APtr /\ APtr \in [Histogram!Bins -> Nat] /\ C \in [Histogram!Bins -> Nat]
      /\ pc[w] = "store" /\ pc'[w] = "load" /\ A[k[w]] \in Histogram!Bins /\ acc[w] \in Nat
      /\ \A v \in Histogram!Items : v # w => pc'[v] = pc[v] /\ k'[v] = k[v]
  <2>1. /\ TypeOK /\ Strides /\ BufferExact /\ LoadedBounded /\ pc[w] = "store" /\ Histogram!WorkItem(w)
        /\ acc' = acc
    BY DEF Counting, Summing, Histogram!Store, Histogram!WorkItem
  <2>2. pc'[w] = "load"
    BY <2>1 DEF Histogram!Store, Histogram!Goto, TypeOK
  <2> QED BY <2>1, <2>2, Labels, OthersStay DEF TypeOK
<1>1. ASSUME NEW b \in Histogram!Bins
      PROVE  /\ APtr[b] <= C'[b] /\ C'[b] <= APtr[b] + Cardinality(StoredIn(b)')
             /\ StoredIn(b)' # {} => C'[b] > APtr[b]
  <2>0. APtr[b] \in Nat /\ C[b] \in Nat
    BY <1>0
  <2>1. /\ APtr[b] <= C[b] /\ C[b] <= APtr[b] + Cardinality(StoredIn(b))
        /\ StoredIn(b) # {} => C[b] > APtr[b]
    BY <1>0 DEF BufferExact
  <2>2. C'[b] = IF b = A[k[w]] THEN acc[w] + 1 ELSE C[b]
    BY <1>0 DEF Histogram!Store, TypeOK
  <2>3. b = A[k[w]] => APtr[b] <= acc[w] /\ acc[w] <= APtr[b] + Cardinality(StoredIn(b))
    BY <1>0 DEF LoadedBounded
  <2> QED BY <1>0, <2>0, <2>1, <2>2, <2>3, StoresOne
<1>2. ASSUME NEW v \in Histogram!Items, pc'[v] = "store"
      PROVE  /\ APtr[A[k[v]]] <= acc'[v] /\ k'[v] = k[v]
             /\ acc'[v] <= APtr[A[k[v]]] + Cardinality(StoredIn(A[k[v]])')
  <2>1. v # w /\ pc[v] = "store" /\ k'[v] = k[v]
    BY <1>0, <1>2
  <2>2. A[k[v]] \in Histogram!Bins /\ acc[v] \in Nat
    BY <1>0, <2>1, Labels
  <2>3. APtr[A[k[v]]] <= acc[v] /\ acc[v] <= APtr[A[k[v]]] + Cardinality(StoredIn(A[k[v]]))
    BY <1>0, <2>1 DEF LoadedBounded
  <2>4. ASSUME NEW c \in Histogram!Bins, c = A[k[v]]
        PROVE  acc[v] <= APtr[c] + Cardinality(StoredIn(c)')
    <3>1. APtr[c] \in Nat /\ acc[v] <= APtr[c] + Cardinality(StoredIn(c))
      BY <1>0, <2>3, <2>4
    <3>2. /\ Cardinality(StoredIn(c)) \in Nat
          /\ \/ Cardinality(StoredIn(c)') = Cardinality(StoredIn(c))
             \/ Cardinality(StoredIn(c)') = Cardinality(StoredIn(c)) + 1
      BY <1>0, StoresOne
    <3> QED BY <2>2, <3>1, <3>2
  <2>5. A'[k'[v]] = A[k[v]]
    BY <1>0, <2>1
  <2> QED BY <1>0, <2>1, <2>2, <2>3, <2>4, <2>5 DEF StoredIn
<1>3. LoadedBounded'
  BY <1>0, <1>2 DEF LoadedBounded
<1> QED BY <1>0, <1>1, <1>3 DEF BufferExact

LEMMA SummingStep ==
  ASSUME Histogram!ConstantsRight, Counting, Summing, [Histogram!Next]_(Histogram!vars)
  PROVE  Summing'
<1>0. TypeOK /\ Strides /\ BufferExact /\ LoadedBounded /\ ReadWhenDone
  BY DEF Counting, Summing
<1>1. ASSUME NEW w \in Histogram!Items, Histogram!WorkItem(w) PROVE Summing'
  <2>1. ReadWhenDone'
    <3>1. pc[w] # "done" /\ host' = host
      BY <1>1 DEF Histogram!WorkItem, Histogram!Zero, Histogram!BarrierZero, Histogram!Count,
               Histogram!BarrierCount, Histogram!Flush, Histogram!AtomicAdd,
                  Histogram!Load, Histogram!Store, Histogram!Return
    <3> QED BY <1>0, <3>1 DEF ReadWhenDone
  <2>2. CASE Histogram!Flush(w)
    <3>1. LoadedBounded'
      <4>1. kernel = "hist" /\ kernel' = kernel /\ pc' = pc
        BY <1>0, <2>2, Labels DEF Histogram!Flush
      <4> QED BY <1>0, <4>1, Labels DEF LoadedBounded
    <3> QED BY <2>1, <2>2, <3>1, FlushExact DEF Summing
  <2>3. CASE Histogram!AtomicAdd(w)
    <3>1. LoadedBounded'
      <4>1. kernel = "onlyg-corr" /\ pc' = pc
        BY <1>0, <2>3, Labels DEF Histogram!AtomicAdd
      <4> QED BY <1>0, <4>1, Labels DEF LoadedBounded
    <3> QED BY <2>1, <2>3, <3>1, AtomicExact DEF Summing
  <2>4. CASE Histogram!Store(w)
    BY <2>1, <2>4, StoreExact DEF Summing
  <2>5. CASE ~Histogram!Flush(w) /\ ~Histogram!AtomicAdd(w) /\ ~Histogram!Store(w)
    <3>0. kernel' = kernel /\ A' = A /\ APtr' = APtr
      BY <1>0, <1>1, OthersStay
    <3>1. C' = C
      BY <1>1, <2>5 DEF Histogram!WorkItem, Histogram!Zero, Histogram!BarrierZero,
               Histogram!Count, Histogram!BarrierCount, Histogram!Load, Histogram!Return,
               Histogram!memory
    <3>2. ASSUME NEW b \in Histogram!Bins PROVE StoredIn(b)' = StoredIn(b)
      <4>1. CASE kernel = "hist"
        BY <1>0, <1>1, <2>5, <3>0, <4>1, FlushesNone DEF StoredIn, ItemOf
      <4>2. CASE kernel # "hist"
        <5>1. k' = k
          BY <1>0, <1>1, <2>5, <4>2, Labels
             DEF Histogram!WorkItem, Histogram!Zero, Histogram!BarrierZero, Histogram!Count,
                 Histogram!BarrierCount, Histogram!Load, Histogram!Return
        <5> QED BY <3>0, <4>2, <5>1 DEF StoredIn, Served, ItemOf
      <4> QED BY <4>1, <4>2
    <3>3. BufferExact'
      BY <1>0, <3>0, <3>1, <3>2 DEF BufferExact
    <3>4. ASSUME NEW v \in Histogram!Items, pc'[v] = "store"
          PROVE  /\ APtr[A[k[v]]] <= acc'[v] /\ A'[k'[v]] = A[k[v]]
                 /\ acc'[v] <= APtr[A[k[v]]] + Cardinality(StoredIn(A[k[v]])')
      <4>1. /\ k'[v] = k[v]
            /\ (pc[v] = "store" /\ acc'[v] = acc[v]) \/ (v = w /\ Histogram!Load(w))
        BY <1>0, <1>1, <2>5, <3>4
           DEF Histogram!WorkItem, Histogram!Zero, Histogram!BarrierZero, Histogram!Count,
               Histogram!BarrierCount, Histogram!Load, Histogram!Return, Histogram!Goto,
               Histogram!Advance, TypeOK
      <4>2. A'[k'[v]] = A[k[v]] /\ A[k[v]] \in Histogram!Bins
        BY <1>0, <3>0, <4>1, Labels DEF Histogram!Load
      <4>3. APtr[A[k[v]]] <= acc'[v] /\ acc'[v] <= APtr[A[k[v]]] + Cardinality(StoredIn(A[k[v]]))
        <5>1. CASE pc[v] = "store" /\ acc'[v] = acc[v]
          BY <1>0, <5>1 DEF LoadedBounded
        <5>2. CASE v = w /\ Histogram!Load(w)
          BY <1>0, <4>2, <5>2 DEF Histogram!Load, TypeOK, BufferExact
        <5> QED BY <4>1, <5>1, <5>2
      <4>4. \A c \in Histogram!Bins :
              c = A[k[v]] => acc'[v] <= APtr[c] + Cardinality(StoredIn(c)')
        BY <3>2, <4>3
      <4> QED BY <4>2, <4>3, <4>4 DEF StoredIn
    <3>5. LoadedBounded'
      BY <3>0, <3>4 DEF LoadedBounded
    <3> QED BY <2>1, <3>3, <3>5 DEF Summing
  <2> QED BY <2>2, <2>3, <2>4, <2>5
<1>2. CASE Histogram!ReadBack
  <2>0. UNCHANGED <<kernel, A, APtr, C, pc, k, acc>>
    BY <1>2 DEF Histogram!ReadBack, Histogram!memory
  <2>3. ASSUME NEW b PROVE StoredIn(b)' = StoredIn(b)
    BY <2>0 DEF StoredIn, Flushed, Served, Histogram!CountDone, ItemOf
  <2>1. BufferExact' /\ LoadedBounded'
    BY <1>0, <2>0, <2>3 DEF BufferExact, LoadedBounded
  <2>2. ReadWhenDone'
    BY <1>2 DEF Histogram!ReadBack, Histogram!memory, ReadWhenDone
  <2> QED BY <2>1, <2>2 DEF Summing
<1>3. CASE UNCHANGED Histogram!vars
  <2>1. BufferExact' /\ LoadedBounded'
    BY <1>0, <1>3 DEF Histogram!vars, Histogram!memory, BufferExact, LoadedBounded, StoredIn,
             Flushed,
                      Served, Histogram!CountDone, ItemOf
  <2>2. ReadWhenDone'
    BY <1>0, <1>3 DEF Histogram!vars, Histogram!memory, ReadWhenDone
  <2> QED BY <2>1, <2>2 DEF Summing
<1> QED BY <1>1, <1>2, <1>3 DEF Histogram!Next, Histogram!Finished

\* When all items are done, all data have reached the buffer.
LEMMA AllStored ==
  ASSUME Histogram!ConstantsRight, Counting, \A w \in Histogram!Items : pc[w] = "done", NEW b \in Histogram!Bins
  PROVE  StoredIn(b) = {e \in DOMAIN A : A[e] = b}
<1>1. DOMAIN A = Indices
  BY DEF Counting, TypeOK
<1>2. ASSUME NEW e \in Indices
      PROVE  IF kernel = "hist" THEN Flushed(Histogram!get_group_id(ItemOf(e)), b) ELSE Served(e)
  <2>1. e \in Nat /\ e < DataSize /\ DataSize \in Nat
    BY DEF Indices, Histogram!ConstantsRight
  <2>2. ItemOf(e) \in Histogram!Items /\ Histogram!get_group_id(ItemOf(e)) \in Histogram!Groups
    BY <2>1, DatumFacts
  <2>3. CASE kernel = "hist"
    BY <2>2, <2>3, Tender DEF Flushed
  <2>4. CASE kernel # "hist"
    <3>1. k[ItemOf(e)] >= DataSize /\ k[ItemOf(e)] \in Nat
      BY <2>2, <2>4 DEF Counting, Strides, TypeOK
    <3> QED BY <2>1, <2>4, <3>1 DEF Served
  <2> QED BY <2>3, <2>4
<1> QED BY <1>1, <1>2 DEF StoredIn

LEMMA SummingAdds ==
  ASSUME Histogram!ConstantsRight, Counting, Summing
  PROVE  Histogram!AddsReference
<1>1. SUFFICES ASSUME host = "done", kernel # "onlyg"
               PROVE  CPtr = [b \in Histogram!Bins |-> APtr[b] + Histogram!hist_ref(A)[b]]
  BY DEF Histogram!AddsReference
<1>2. CPtr = C /\ \A w \in Histogram!Items : pc[w] = "done"
  BY <1>1 DEF Summing, ReadWhenDone
<1>3. ASSUME NEW b \in Histogram!Bins
      PROVE  C[b] = APtr[b] + Cardinality({e \in DOMAIN A : A[e] = b})
  BY <1>1, <1>2, AllStored DEF Summing, BufferExact
<1>4. C \in [Histogram!Bins -> Nat]
  BY DEF Counting, TypeOK
<1> QED BY <1>2, <1>3, <1>4, SameCardinality DEF Histogram!hist_ref

LEMMA SummingLoses ==
  ASSUME Histogram!ConstantsRight, Counting, Summing
  PROVE  Histogram!LosesOnly
<1>1. SUFFICES ASSUME NEW b \in Histogram!Bins
               PROVE  /\ APtr[b] <= C[b] /\ C[b] <= APtr[b] + Histogram!hist_ref(A)[b]
                      /\ (host = "done" /\ Histogram!hist_ref(A)[b] > 0) => C[b] > APtr[b]
  BY DEF Histogram!LosesOnly
<1> DEFINE D == {e \in DOMAIN A : A[e] = b}
<1>2. Histogram!hist_ref(A)[b] = Cardinality(D)
  BY SameCardinality DEF Histogram!hist_ref
<1>3. IsFiniteSet(D) /\ StoredIn(b) \subseteq D
  <2>1. DOMAIN A = Indices
    BY DEF Counting, TypeOK
  <2> QED BY <2>1, DataFinite DEF StoredIn
<1>4. C[b] \in Nat /\ APtr[b] \in Nat
  BY DEF Counting, TypeOK
<1>5. host = "done" => StoredIn(b) = D
  BY AllStored DEF Summing, ReadWhenDone
<1> HIDE DEF D
<1>6. /\ Cardinality(StoredIn(b)) \in Nat /\ Cardinality(D) \in Nat
      /\ Cardinality(StoredIn(b)) <= Cardinality(D)
  BY <1>3, PartOf
<1>7. /\ APtr[b] <= C[b] /\ C[b] <= APtr[b] + Cardinality(StoredIn(b))
      /\ StoredIn(b) # {} => C[b] > APtr[b]
  BY DEF Summing, BufferExact
<1>8. D = {} => Cardinality(D) = 0
  BY FS_EmptySet
<1> QED BY <1>2, <1>4, <1>5, <1>6, <1>7, <1>8

-----------------------------------------------------------------------------
(* gemm_localmem.cl                                                        *)

\* The labels that each kernel goes through, and what a tile may hold.
GemmTypeOK ==
  /\ kernel \in {"simple", "localmem"}
  /\ pc \in [Items -> IF kernel = "simple" THEN {"sum", "done"}
                      ELSE {"load", "loaded", "multiply", "used", "done"}]
  /\ t \in [Items -> Nat]
  /\ Asub \in [Groups -> [Tile -> {A[j] : j \in Nat} \cup {Garbage}]]
  /\ Bsub \in [Groups -> [Tile -> {B[j] : j \in Nat} \cup {Garbage}]]

InRound(v) == pc[v] \in {"loaded", "multiply", "used"}

\* An item works on a tile while there is one.
RoundsBounded ==
  kernel = "localmem" =>
    \A v \in Items : (InRound(v) => t[v] < numTiles) /\ (pc[v] = "done" => t[v] >= numTiles)

\* An item is past a barrier only when its whole group has come to it.
RoundsTogether ==
  \A w \in Items : \A v \in GroupOf(w) :
    /\ pc[w] \in {"multiply", "used"} => AtLoaded(v, t[w])
    /\ t[w] > 0 => AtUsed(v, t[w] - 1)

\* Each item's own place of the tiles, from when it has loaded it to the end of
\* the round.
PlacesCurrent ==
  \A v \in Items : InRound(v) =>
    /\ Asub[get_group_id(v)][<<col(v), row(v)>>] = A[v[1] * AY + (TS * t[v] + col(v))]
    /\ Bsub[get_group_id(v)][<<col(v), row(v)>>] = B[(TS * t[v] + row(v)) * BY_ + v[2]]

\* The inductive invariant of the tiles.
Tiling == GemmTypeOK /\ RoundsBounded /\ RoundsTogether /\ PlacesCurrent

LEMMA Sizes ==
  /\ AX \in Nat \ {0} /\ AY \in Nat \ {0} /\ BY_ \in Nat \ {0} /\ TS \in Nat \ {0}
  /\ AX % TS = 0 /\ BY_ % TS = 0 /\ numTiles \in Nat
<1>1. AX \in Nat \ {0} /\ AY \in Nat \ {0} /\ BY_ \in Nat \ {0} /\ TS \in Nat \ {0}
  BY SizeAssumption DEF TS
<1>2. AY \div TS \in Nat
  BY <1>1, DivMod
<1> QED BY <1>1, <1>2, RangeAssumption DEF TS, numTiles

LEMMA PlaceFacts ==
  ASSUME NEW w \in Items
  PROVE  /\ w[1] \in Nat /\ w[2] \in Nat /\ w = <<w[1], w[2]>>
         /\ row(w) \in 0..(TS - 1) /\ col(w) \in 0..(TS - 1) /\ <<col(w), row(w)>> \in Tile
         /\ get_group_id(w) \in Groups
<1>1. w[1] \in 0..(AX - 1) /\ w[2] \in 0..(BY_ - 1) /\ w = <<w[1], w[2]>>
  BY DEF Items
<1>2. w[1] \in Nat /\ w[2] \in Nat
  BY <1>1, Sizes
<1>3. row(w) \in 0..(TS - 1) /\ col(w) \in 0..(TS - 1)
  BY <1>2, Sizes, Remainder DEF row, col
<1>4. w[1] \div TS \in 0..((AX \div TS) - 1)
  BY <1>1, Sizes, GroupBound
<1>5. w[2] \div TS \in 0..((BY_ \div TS) - 1)
  BY <1>1, Sizes, GroupBound
<1> QED BY <1>1, <1>2, <1>3, <1>4, <1>5 DEF Tile, Groups, get_group_id

\* Every place of a group's tiles belongs to one item of the group.
LEMMA PlaceOwner ==
  ASSUME NEW g \in Groups, NEW c \in Tile
  PROVE  \E v \in Items : /\ get_group_id(v) = g /\ col(v) = c[1] /\ row(v) = c[2]
                          /\ c = <<col(v), row(v)>>
                          /\ v[1] = TS * g[1] + c[2] /\ v[2] = TS * g[2] + c[1]
<1>1. /\ g[1] \in 0..((AX \div TS) - 1) /\ g[2] \in 0..((BY_ \div TS) - 1) /\ g = <<g[1], g[2]>>
      /\ c[1] \in 0..(TS - 1) /\ c[2] \in 0..(TS - 1) /\ c = <<c[1], c[2]>>
  BY DEF Groups, Tile
<1>2. g[1] \in Nat /\ g[2] \in Nat
  BY <1>1
<1> DEFINE x == TS * g[1] + c[2]
           y == TS * g[2] + c[1]
<1>3. x \in 0..(AX - 1)
  BY <1>1, Sizes, ItemBound
<1>4. y \in 0..(BY_ - 1)
  BY <1>1, Sizes, ItemBound
<1>5. x \div TS = g[1] /\ x % TS = c[2]
  BY <1>1, <1>2, Sizes, DivModOf
<1>6. y \div TS = g[2] /\ y % TS = c[1]
  BY <1>1, <1>2, Sizes, DivModOf
<1>7. x = TS * g[1] + c[2] /\ y = TS * g[2] + c[1]
  OBVIOUS
<1> HIDE DEF x, y
<1>8. <<x, y>> \in Items
  BY <1>3, <1>4 DEF Items
<1>9. /\ get_group_id(<<x, y>>) = g /\ col(<<x, y>>) = c[1] /\ row(<<x, y>>) = c[2]
  BY <1>1, <1>5, <1>6 DEF get_group_id, col, row
<1> QED BY <1>1, <1>7, <1>8, <1>9

LEMMA OneOwner ==
  ASSUME NEW v \in Items, NEW w \in Items, get_group_id(v) = get_group_id(w),
         <<col(v), row(v)>> = <<col(w), row(w)>>
  PROVE  v = w
<1>1. /\ v[1] \div TS = w[1] \div TS /\ v[1] % TS = w[1] % TS
      /\ v[2] \div TS = w[2] \div TS /\ v[2] % TS = w[2] % TS
  BY DEF get_group_id, col, row
<1>2. v[1] = w[1]
  BY <1>1, Sizes, PlaceFacts, SameItem
<1>3. v[2] = w[2]
  BY <1>1, Sizes, PlaceFacts, SameItem
<1> QED BY <1>2, <1>3, PlaceFacts

LEMMA InitTiling ==
  ASSUME Init
  PROVE  Tiling
<1>1. GemmTypeOK
  <2>1. kernel \in {"simple", "localmem"}
    BY KernelAssumption DEF Init
  <2>2. t \in [Items -> Nat]
    BY DEF Init
  <2>3. /\ Asub \in [Groups -> [Tile -> {A[j] : j \in Nat} \cup {Garbage}]]
        /\ Bsub \in [Groups -> [Tile -> {B[j] : j \in Nat} \cup {Garbage}]]
    BY DEF Init
  <2>4. pc \in [Items -> IF kernel = "simple" THEN {"sum", "done"}
                         ELSE {"load", "loaded", "multiply", "used", "done"}]
    BY <2>1 DEF Init
  <2> QED BY <2>1, <2>2, <2>3, <2>4 DEF GemmTypeOK
<1>2. \A w \in Items : pc[w] \in {"sum", "load"} /\ t[w] = 0
  BY DEF Init
<1> QED BY <1>1, <1>2 DEF Tiling, RoundsBounded, RoundsTogether, PlacesCurrent, InRound

\* An action of item w leaves the other items and the inputs alone.
LEMMA GemmOthersStay ==
  ASSUME GemmTypeOK, NEW w \in Items, WorkItem(w)
  PROVE  /\ kernel' = kernel /\ A' = A /\ B' = B
         /\ \A v \in Items : v # w => pc'[v] = pc[v] /\ t'[v] = t[v]
BY DEF WorkItem, Load, BarrierLoaded, Multiply, BarrierUsed, Sum, Store, Goto, GemmTypeOK,
       hostVars, buffers

LEMMA GemmTypeStep ==
  ASSUME GemmTypeOK, NEW w \in Items, WorkItem(w)
  PROVE  GemmTypeOK'
<1>0. /\ w[1] \in Nat /\ w[2] \in Nat /\ t[w] \in Nat /\ row(w) \in Nat /\ col(w) \in Nat
      /\ get_group_id(w) \in Groups /\ <<col(w), row(w)>> \in Tile
  BY Sizes, PlaceFacts DEF GemmTypeOK
<1>1. CASE Load(w)
  <2>1. TS * t[w] + row(w) \in Nat /\ TS * t[w] + col(w) \in Nat
    BY <1>0, Sizes
  <2>2. w[1] * AY + (TS * t[w] + col(w)) \in Nat
    BY <1>0, <2>1, Sizes
  <2>3. (TS * t[w] + row(w)) * BY_ + w[2] \in Nat
    BY <1>0, <2>1, Sizes
  <2>4. Asub' \in [Groups -> [Tile -> {A[j] : j \in Nat} \cup {Garbage}]]
    BY <1>0, <1>1, <2>2 DEF Load, GemmTypeOK
  <2>5. Bsub' \in [Groups -> [Tile -> {B[j] : j \in Nat} \cup {Garbage}]]
    BY <1>0, <1>1, <2>3 DEF Load, GemmTypeOK
  <2> QED BY <1>1, <2>4, <2>5 DEF Load, Goto, GemmTypeOK, hostVars, buffers
<1>2. CASE BarrierLoaded(w) \/ Multiply(w) \/ BarrierUsed(w) \/ Sum(w) \/ Store(w)
  <2>1. UNCHANGED <<kernel, A, B, Asub, Bsub>>
    BY <1>2 DEF BarrierLoaded, Multiply, BarrierUsed, Sum, Store, hostVars, buffers, tiles
  <2>2. t' \in [Items -> Nat]
    BY <1>2 DEF BarrierLoaded, Multiply, BarrierUsed, Sum, Store, GemmTypeOK
  <2>3. pc' \in [Items -> IF kernel = "simple" THEN {"sum", "done"}
                          ELSE {"load", "loaded", "multiply", "used", "done"}]
    <3>1. \E label \in IF pc[w] = "sum" THEN {"sum", "done"} ELSE {"load", "multiply", "used", "done"} :
            pc' = [pc EXCEPT ![w] = label] \/ pc' = pc
      BY <1>2 DEF BarrierLoaded, Multiply, BarrierUsed, Sum, Store, Goto
    <3>2. pc[w] # "done"
      BY <1>2 DEF BarrierLoaded, Multiply, BarrierUsed, Sum, Store
    <3> QED BY <3>1, <3>2 DEF GemmTypeOK
  <2> QED BY <2>1, <2>2, <2>3 DEF GemmTypeOK
<1> QED BY <1>1, <1>2 DEF WorkItem

LEMMA RoundsStep ==
  ASSUME Tiling, NEW w \in Items, WorkItem(w)
  PROVE  RoundsBounded' /\ RoundsTogether'
<1>0. GemmTypeOK /\ RoundsBounded /\ RoundsTogether /\ t[w] \in Nat /\ numTiles \in Nat
  BY Sizes DEF Tiling, GemmTypeOK
<1>1. /\ kernel' = kernel
      /\ \A v \in Items : v # w => pc'[v] = pc[v] /\ t'[v] = t[v]
  BY <1>0, GemmOthersStay
\* The step of w itself.
<1>2. \/ pc[w] = "load" /\ t[w] < numTiles /\ pc'[w] = "loaded" /\ t'[w] = t[w]
      \/ pc[w] = "loaded" /\ pc'[w] = "multiply" /\ t'[w] = t[w] /\ BarrierLoaded(w)
      \/ pc[w] = "multiply" /\ pc'[w] \in {"multiply", "used"} /\ t'[w] = t[w]
      \/ pc[w] = "used" /\ pc'[w] = "load" /\ t'[w] = t[w] + 1 /\ BarrierUsed(w)
      \/ pc[w] = "sum" /\ pc'[w] \in {"sum", "done"} /\ t'[w] = t[w]
      \/ pc[w] = "load" /\ t[w] >= numTiles /\ pc'[w] = "done" /\ t'[w] = t[w]
  BY <1>0 DEF WorkItem, Load, BarrierLoaded, Multiply, BarrierUsed, Sum, Store, Goto, GemmTypeOK
<1>3. kernel = "localmem" <=> pc[w] # "sum" /\ kernel = "localmem"
  BY <1>0 DEF GemmTypeOK
<1>4. RoundsBounded'
  BY <1>0, <1>1, <1>2, <1>3 DEF RoundsBounded, InRound
<1>5. ASSUME NEW v \in Items, NEW r \in Nat
      PROVE  (AtLoaded(v, r) => AtLoaded(v, r)') /\ (AtUsed(v, r) => AtUsed(v, r)')
  <2>1. t[v] \in Nat
    BY <1>0 DEF GemmTypeOK
  <2>2. CASE v # w
    BY <1>1, <2>2 DEF AtLoaded, AtUsed
  <2>3. CASE v = w
    BY <1>0, <1>2, <2>1, <2>3 DEF AtLoaded, AtUsed
  <2> QED BY <2>2, <2>3
<1>6. ASSUME NEW u \in Items, NEW v \in GroupOf(u)
      PROVE  /\ pc'[u] \in {"multiply", "used"} => AtLoaded(v, t'[u])
             /\ t'[u] > 0 => AtUsed(v, t'[u] - 1)
  <2>1. t[u] \in Nat
    BY <1>0 DEF GemmTypeOK
  <2>2. CASE u # w
    BY <1>0, <1>1, <2>2 DEF RoundsTogether
  <2>3. CASE u = w
    <3>1. CASE BarrierLoaded(w)
      <4>1. AtLoaded(v, t[w]) /\ t'[w] = t[w]
        BY <2>3, <3>1 DEF BarrierLoaded
      <4> QED BY <1>0, <2>3, <4>1 DEF RoundsTogether
    <3>2. CASE BarrierUsed(w)
      <4>1. AtUsed(v, t[w]) /\ t'[w] = t[w] + 1 /\ pc'[w] = "load"
        BY <1>0, <2>3, <3>2 DEF BarrierUsed, Goto, GemmTypeOK
      <4>2. t'[w] - 1 = t[w]
        BY <1>0, <4>1
      <4> QED BY <2>3, <4>1, <4>2
    <3>3. CASE ~BarrierLoaded(w) /\ ~BarrierUsed(w)
      <4>1. t'[w] = t[w] /\ (pc'[w] \in {"multiply", "used"} => pc[w] = "multiply")
        BY <1>2, <3>3
      <4> QED BY <1>0, <2>3, <4>1 DEF RoundsTogether
    <3> QED BY <3>1, <3>2, <3>3
  <2> QED BY <2>2, <2>3
<1>7. RoundsTogether'
  <2> SUFFICES ASSUME NEW u \in Items, NEW v \in GroupOf(u)
               PROVE  /\ pc'[u] \in {"multiply", "used"} => AtLoaded(v, t[u])'
                      /\ t'[u] > 0 => AtUsed(v, t[u] - 1)'
    BY DEF RoundsTogether
  <2>1. v \in Items /\ t'[u] \in Nat /\ t[v] \in Nat /\ t'[v] \in Nat
    BY <1>0, GemmTypeStep DEF GroupOf, GemmTypeOK
  <2>2. ASSUME NEW r \in Nat, r = t'[u] PROVE AtLoaded(v, r) => AtLoaded(v, t[u])'
    BY <1>5, <2>1, <2>2 DEF AtLoaded
  <2>3. ASSUME NEW r \in Nat, r = t'[u] - 1 PROVE AtUsed(v, r) => AtUsed(v, t[u] - 1)'
    BY <1>5, <2>1, <2>3 DEF AtUsed
  <2>4. t'[u] > 0 => t'[u] - 1 \in Nat
    BY <2>1
  <2> QED BY <1>6, <2>1, <2>2, <2>3, <2>4
<1> QED BY <1>4, <1>7

LEMMA PlacesStep ==
  ASSUME Tiling, NEW w \in Items, WorkItem(w)
  PROVE  PlacesCurrent'
<1>0. GemmTypeOK /\ PlacesCurrent
  BY DEF Tiling
<1>1. /\ A' = A /\ B' = B
      /\ \A v \in Items : v # w => pc'[v] = pc[v] /\ t'[v] = t[v]
  BY <1>0, GemmOthersStay
<1>2. CASE Load(w)
  <2>1. /\ get_group_id(w) \in Groups /\ <<col(w), row(w)>> \in Tile /\ t' = t
        /\ pc'[w] = "loaded"
    BY <1>0, <1>2, PlaceFacts DEF Load, Goto, GemmTypeOK
  <2>2. /\ Asub'[get_group_id(w)][<<col(w), row(w)>>] = A[w[1] * AY + (TS * t[w] + col(w))]
        /\ Bsub'[get_group_id(w)][<<col(w), row(w)>>] = B[(TS * t[w] + row(w)) * BY_ + w[2]]
    BY <1>0, <1>2, <2>1 DEF Load, GemmTypeOK
  <2>3. ASSUME NEW v \in Items, v # w
        PROVE  /\ Asub'[get_group_id(v)][<<col(v), row(v)>>] = Asub[get_group_id(v)][<<col(v), row(v)>>]
               /\ Bsub'[get_group_id(v)][<<col(v), row(v)>>] = Bsub[get_group_id(v)][<<col(v), row(v)>>]
    <3>1. get_group_id(v) # get_group_id(w) \/ <<col(v), row(v)>> # <<col(w), row(w)>>
      BY <2>3, OneOwner
    <3>2. get_group_id(v) \in Groups /\ <<col(v), row(v)>> \in Tile
      BY PlaceFacts
    <3> DEFINE gv == get_group_id(v)
               gw == get_group_id(w)
               cv == <<col(v), row(v)>>
               cw == <<col(w), row(w)>>
    <3>3. /\ \E x : Asub' = [Asub EXCEPT ![gw][cw] = x]
          /\ \E x : Bsub' = [Bsub EXCEPT ![gw][cw] = x]
      BY <1>2 DEF Load
    <3>4. /\ gv \in Groups /\ gw \in Groups /\ cv \in Tile /\ cw \in Tile /\ (gv # gw \/ cv # cw)
      BY <2>1, <3>1, <3>2
    <3> HIDE DEF gv, gw, cv, cw
    <3>5. Asub'[gv][cv] = Asub[gv][cv] /\ Bsub'[gv][cv] = Bsub[gv][cv]
      BY <1>0, <3>3, <3>4 DEF GemmTypeOK
    <3> QED BY <3>5 DEF gv, cv
  <2> QED BY <1>0, <1>1, <2>1, <2>2, <2>3 DEF PlacesCurrent, InRound
<1>3. CASE BarrierLoaded(w) \/ Multiply(w) \/ BarrierUsed(w) \/ Sum(w) \/ Store(w)
  <2>1. Asub' = Asub /\ Bsub' = Bsub
    BY <1>3 DEF BarrierLoaded, Multiply, BarrierUsed, Sum, Store, tiles
  <2>2. InRound(w)' => InRound(w) /\ t'[w] = t[w]
    BY <1>0, <1>3 DEF BarrierLoaded, Multiply, BarrierUsed, Sum, Store, Goto, InRound,
             GemmTypeOK
  <2>3. ASSUME NEW v \in Items, InRound(v)' PROVE InRound(v) /\ t'[v] = t[v]
    BY <1>1, <2>2, <2>3 DEF InRound
  <2> QED BY <1>0, <1>1, <2>1, <2>3 DEF PlacesCurrent
<1> QED BY <1>2, <1>3 DEF WorkItem

LEMMA TilingStep ==
  ASSUME Tiling, [Next]_vars
  PROVE  Tiling'
<1>1. ASSUME NEW w \in Items, WorkItem(w) PROVE Tiling'
  BY <1>1, GemmTypeStep, RoundsStep, PlacesStep DEF Tiling
<1>2. CASE ReadBack \/ UNCHANGED vars
  <2>1. UNCHANGED <<kernel, A, B, Asub, Bsub, pc, t>>
    BY <1>2 DEF ReadBack, vars, hostVars, buffers, tiles
  <2> QED BY <2>1 DEF Tiling, GemmTypeOK, RoundsBounded, RoundsTogether, PlacesCurrent,
                      InRound, AtLoaded, AtUsed
<1> QED BY <1>1, <1>2 DEF Next, Finished

LEMMA TilingCurrent ==
  ASSUME Tiling
  PROVE  TileCurrent
<1>0. GemmTypeOK /\ RoundsBounded /\ RoundsTogether /\ PlacesCurrent
  BY DEF Tiling
<1>1. SUFFICES ASSUME NEW w \in Items, pc[w] = "multiply", NEW c \in Tile
               PROVE  LET g == get_group_id(w)
                      IN /\ Asub[g][c] = A[(TS * g[1] + c[2]) * AY + TS * t[w] + c[1]]
                         /\ Bsub[g][c] = B[(TS * t[w] + c[2]) * BY_ + TS * g[2] + c[1]]
  BY DEF TileCurrent
<1> DEFINE g == get_group_id(w)
<1>2. g \in Groups
  BY PlaceFacts
<1>3. PICK v \in Items : /\ get_group_id(v) = g /\ col(v) = c[1] /\ row(v) = c[2]
                         /\ c = <<col(v), row(v)>>
                         /\ v[1] = TS * g[1] + c[2] /\ v[2] = TS * g[2] + c[1]
  BY <1>2, PlaceOwner
<1>4. v \in GroupOf(w) /\ w \in GroupOf(v)
  BY <1>3 DEF GroupOf
<1>5. t[v] \in Nat /\ t[w] \in Nat /\ kernel = "localmem"
  BY <1>0, <1>1 DEF GemmTypeOK
<1>6. t[v] = t[w] /\ pc[v] # "load"
  <2>1. AtLoaded(v, t[w])
    BY <1>0, <1>1, <1>4 DEF RoundsTogether
  <2>2. t[v] > 0 => AtUsed(w, t[v] - 1)
    BY <1>0, <1>4 DEF RoundsTogether
  <2> QED BY <1>1, <1>5, <2>1, <2>2 DEF AtLoaded, AtUsed
<1>7. InRound(v)
  <2>1. t[w] < numTiles /\ (pc[v] = "done" => t[v] >= numTiles)
    BY <1>0, <1>1, <1>5 DEF RoundsBounded, InRound
  <2>2. pc[v] # "done"
    BY <1>5, <1>6, <2>1, Sizes
  <2> QED BY <1>0, <1>5, <1>6, <2>2 DEF InRound, GemmTypeOK
<1>8. /\ Asub[g][c] = A[v[1] * AY + (TS * t[w] + c[1])]
      /\ Bsub[g][c] = B[(TS * t[w] + c[2]) * BY_ + v[2]]
  BY <1>0, <1>3, <1>6, <1>7 DEF PlacesCurrent
<1>9. /\ v[1] \in Nat /\ v[2] \in Nat /\ c[1] \in Nat /\ c[2] \in Nat
      /\ g[1] \in Nat /\ g[2] \in Nat
  BY <1>2, <1>3, PlaceFacts, Sizes DEF Groups, Tile
<1>10. /\ (TS * g[1] + c[2]) * AY + TS * t[w] + c[1] = v[1] * AY + (TS * t[w] + c[1])
       /\ (TS * t[w] + c[2]) * BY_ + TS * g[2] + c[1] = (TS * t[w] + c[2]) * BY_ + v[2]
  <2>1. ASSUME NEW x \in Nat, NEW y \in Nat, NEW z \in Nat PROVE (x + y) + z = x + (y + z)
    OBVIOUS
  <2>2. TS * t[w] \in Nat /\ v[1] * AY \in Nat /\ (TS * t[w] + c[2]) * BY_ \in Nat /\ TS * g[2] \in Nat
    BY <1>5, <1>9, Sizes
  <2> QED BY <1>3, <1>9, <2>1, <2>2
<1> QED BY <1>8, <1>10

-----------------------------------------------------------------------------
(* The matrix product: what is in the accumulators.                        *)

Loops == INSTANCE LruLemmas

\* f holds the sums of the first terms, from none of them to n.
IsSums(f, term, n) ==
  /\ f \in [0..n -> Int] /\ f[0] = 0
  /\ \A j \in 0..(n - 1) : f[j + 1] = f[j] + term[j]

\* Any terms can be summed.
LEMMA SumsExist ==
  ASSUME NEW n \in Nat, NEW term, \A j \in 0..(n - 1) : term[j] \in Int
  PROVE  \E f : IsSums(f, term, n)
<1> DEFINE D == [j \in 0..n |-> Int]
           F == [j \in 1..n |-> [x \in Int |-> x + term[j - 1]]]
<1>1. 0 \in D[0] /\ \A j \in 0..n : D[j] = Int
  OBVIOUS
<1>2. ASSUME NEW j \in 1..n
      PROVE  F[j] \in [D[j - 1] -> D[j]] /\ \A x \in Int : F[j][x] = x + term[j - 1]
  <2>1. j - 1 \in 0..(n - 1) /\ j - 1 \in 0..n /\ j \in 0..n
    OBVIOUS
  <2>2. \A x \in Int : x + term[j - 1] \in Int
    BY <2>1
  <2> QED BY <2>1, <2>2
<1> HIDE DEF D, F
<1>3. PICK f : f = [j \in 0..n |-> f[j]] /\ Loops!Staged(f, 0, F, D, n)
  BY <1>1, <1>2, Loops!StagedIteration
<1>4. \A j \in 0..n : f[j] \in Int
  BY <1>1, <1>2, <1>3, Loops!Stages
<1>5. ASSUME NEW j \in 0..(n - 1) PROVE f[j + 1] = f[j] + term[j]
  <2>1. j + 1 \in 1..n /\ (j + 1) - 1 = j /\ j \in 0..n
    OBVIOUS
  <2>2. f[j + 1] = F[j + 1][f[j]]
    BY <1>1, <1>3, <1>4, <2>1 DEF Loops!Staged
  <2> QED BY <1>2, <1>4, <2>1, <2>2
<1> QED BY <1>3, <1>4, <1>5 DEF IsSums, Loops!Staged

\* There is one way to sum them, and a loop finds it.
LEMMA LoopSumIs ==
  ASSUME NEW n \in Nat, NEW term, NEW f, IsSums(f, term, n)
  PROVE  LoopSum(term, n) = f[n]
<1> DEFINE Body(h) == [j \in 0..n |-> IF j = 0 THEN 0 ELSE h[j - 1] + term[j - 1]]
           g == CHOOSE h : h = Body(h)
<1>1. f = Body(f)
  <2>1. ASSUME NEW j \in 0..n PROVE f[j] = IF j = 0 THEN 0 ELSE f[j - 1] + term[j - 1]
    <3>1. CASE j = 0
      BY <3>1 DEF IsSums
    <3>2. CASE j # 0
      <4>1. j - 1 \in 0..(n - 1) /\ (j - 1) + 1 = j
        BY <3>2
      <4> QED BY <3>2, <4>1 DEF IsSums
    <3> QED BY <3>1, <3>2
  <2> QED BY <2>1 DEF IsSums
<1>2. g = Body(g)
  BY <1>1
<1>3. LoopSum(term, n) = g[n]
  BY DEF LoopSum
<1>4. g[0] = 0 /\ \A j \in 1..n : g[j] = g[j - 1] + term[j - 1]
  <2> HIDE DEF g
  <2> QED BY <1>2
<1> HIDE DEF g
<1> DEFINE S == {j \in Nat : j <= n => g[j] = f[j]}
<1>5. 0 \in S
  BY <1>4 DEF IsSums
<1>6. ASSUME NEW j \in Nat, j \in S PROVE j + 1 \in S
  <2>1. CASE j + 1 <= n
    <3>1. j + 1 \in 1..n /\ (j + 1) - 1 = j /\ j \in 0..(n - 1) /\ g[j] = f[j]
      BY <1>6, <2>1
    <3>2. g[j + 1] = g[j] + term[j]
      BY <1>4, <3>1
    <3>3. f[j + 1] = f[j] + term[j]
      BY <3>1 DEF IsSums
    <3> QED BY <3>1, <3>2, <3>3
  <2>2. CASE ~(j + 1 <= n)
    BY <2>2
  <2> QED BY <2>1, <2>2
<1>7. Nat \subseteq S
  <2> HIDE DEF S
  <2> QED BY <1>5, <1>6, Loops!SetInduction
<1> QED BY <1>3, <1>7

\* What item w adds up, product by product, for matrices a and b.
Products(a, b, w) == [j \in 0..(AY - 1) |-> a[w[1] * AY + j] * b[j * BY_ + w[2]]]
Sums(a, b, w) == CHOOSE f : IsSums(f, Products(a, b, w), AY)

\* Where the element of item w is.
Place(w) == w[1] * BY_ + w[2]

\* An accumulator holds the sum of the products of the tiles passed and, in the
\* present one, of the elements passed.
SummedUp(w) ==
  /\ pc[w] = "sum" => k[w] \in 0..AY /\ acc[w] = Sums(A, B, w)[k[w]]
  /\ pc[w] \in {"load", "loaded"} =>
       k[w] = 0 /\ t[w] <= numTiles /\ acc[w] = Sums(A, B, w)[TS * t[w]]
  /\ pc[w] = "multiply" =>
       k[w] \in 0..(TS - 1) /\ acc[w] = Sums(A, B, w)[TS * t[w] + k[w]]
  /\ pc[w] = "used" => k[w] = 0 /\ acc[w] = Sums(A, B, w)[TS * t[w] + TS]
  /\ pc[w] = "done" =>
       C[Place(w)] = Sums(A, B, w)[IF kernel = "simple" THEN AY ELSE TS * numTiles]

\* The buffers hold the host's matrices, as far as they were copied, and the host reads
\* the result when all is done.
ProductTypeOK ==
  /\ A \in [0..(ASz - 1) -> Int] /\ B \in [0..(BSz - 1) -> Int]
  /\ A = APtr /\ (ASz = BSz => B = BPtr) /\ (CopyRefused => host = "error")
  /\ acc \in [Items -> Int] /\ k \in [Items -> Nat]
  /\ C = [j \in 0..(CSz - 1) |-> C[j]]
  /\ host = "done" => CPtr = C /\ \A w \in Items : pc[w] = "done"

\* The inductive invariant of the product.
Product == Tiling /\ ProductTypeOK /\ \A w \in Items : SummedUp(w)

\* Rows of m elements: no place of another row, and no place past the last row.
LEMMA RowBound ==
  ASSUME NEW n \in Nat \ {0}, NEW m \in Nat \ {0}, NEW q \in 0..(n - 1), NEW r \in 0..(m - 1)
  PROVE  q * m + r \in 0..(n * m - 1)
<1>1. n * m = q * m + (n - q) * m
  OBVIOUS
<1>2. (n - q) * m >= m
  OBVIOUS
<1>3. q * m \in Nat
  OBVIOUS
<1> QED BY <1>1, <1>2, <1>3

LEMMA Indexes ==
  ASSUME NEW w \in Items
  PROVE  /\ \A j \in 0..(AY - 1) : /\ w[1] * AY + j \in 0..(ASz - 1)
                                   /\ j * BY_ + w[2] \in 0..(BSz - 1)
         /\ Place(w) \in 0..(CSz - 1)
<1>1. w[1] \in 0..(AX - 1) /\ w[2] \in 0..(BY_ - 1)
  BY DEF Items
<1>2. ASSUME NEW j \in 0..(AY - 1)
      PROVE  w[1] * AY + j \in 0..(ASz - 1) /\ j * BY_ + w[2] \in 0..(BSz - 1)
  <2>1. w[1] * AY + j \in 0..(AX * AY - 1)
    BY <1>1, Sizes, RowBound
  <2>2. j * BY_ + w[2] \in 0..(AY * BY_ - 1)
    BY <1>1, Sizes, RowBound
  <2> QED BY <2>1, <2>2 DEF ASz, BSz
<1>3. w[1] * BY_ + w[2] \in 0..(AX * BY_ - 1)
  BY <1>1, Sizes, RowBound
<1> QED BY <1>2, <1>3 DEF Place, CSz

\* Each item stores an element of its own.
LEMMA OwnPlace ==
  ASSUME NEW v \in Items, NEW w \in Items, Place(v) = Place(w)
  PROVE  v = w
<1>1. /\ v[1] \in Nat /\ w[1] \in Nat /\ v[2] \in 0..(BY_ - 1) /\ w[2] \in 0..(BY_ - 1)
      /\ v = <<v[1], v[2]>> /\ w = <<w[1], w[2]>>
  BY PlaceFacts DEF Items
<1>2. BY_ * v[1] + v[2] = BY_ * w[1] + w[2]
  <2>1. v[1] * BY_ = BY_ * v[1] /\ w[1] * BY_ = BY_ * w[1]
    BY <1>1, Sizes
  <2> QED BY <2>1 DEF Place
<1>3. v[1] = w[1] /\ v[2] = w[2]
  BY <1>1, <1>2, Sizes, DivModUnique
<1> QED BY <1>1, <1>3

\* The sums of an item.
LEMMA SumsAre ==
  ASSUME NEW a \in [0..(ASz - 1) -> Int], NEW b \in [0..(BSz - 1) -> Int], NEW w \in Items
  PROVE  /\ Sums(a, b, w) \in [0..AY -> Int] /\ Sums(a, b, w)[0] = 0
         /\ \A j \in 0..(AY - 1) :
              Sums(a, b, w)[j + 1] = Sums(a, b, w)[j] + a[w[1] * AY + j] * b[j * BY_ + w[2]]
         /\ LoopSum(Products(a, b, w), AY) = Sums(a, b, w)[AY]
<1>1. AY \in Nat
  BY Sizes
<1>2. \A j \in 0..(AY - 1) : /\ Products(a, b, w)[j] = a[w[1] * AY + j] * b[j * BY_ + w[2]]
                             /\ Products(a, b, w)[j] \in Int
  BY Indexes DEF Products
<1>3. \E f : IsSums(f, Products(a, b, w), AY)
  BY <1>1, <1>2, SumsExist
<1>4. IsSums(Sums(a, b, w), Products(a, b, w), AY)
  BY <1>3 DEF Sums
<1>5. LoopSum(Products(a, b, w), AY) = Sums(a, b, w)[AY]
  BY <1>1, <1>4, LoopSumIs
<1> QED BY <1>2, <1>4, <1>5 DEF IsSums

\* The elements of a tile that there is are in the matrix.
LEMMA TileBound ==
  ASSUME NEW r \in Nat, r < numTiles, NEW j \in 0..(TS - 1)
  PROVE  TS * r + j \in 0..(AY - 1)
<1>1. AY = TS * numTiles + (AY % TS) /\ AY % TS \in 0..(TS - 1) /\ numTiles \in Nat
  BY Sizes, DivMod DEF numTiles, TS
<1>2. TS * numTiles = TS * r + TS * (numTiles - r)
  BY <1>1, Sizes
<1>3. TS * (numTiles - r) >= TS
  BY <1>1, Sizes
<1>4. TS * r \in Nat
  BY Sizes
<1> QED BY <1>1, <1>2, <1>3, <1>4, Sizes

LEMMA InitProduct ==
  ASSUME Init
  PROVE  Product
<1>1. Tiling
  BY InitTiling
<1>2. ASz \in Nat /\ BSz \in Nat
  BY Sizes DEF ASz, BSz
<1>3. /\ APtr \in [0..(ASz - 1) -> Int] /\ BPtr \in [0..(BSz - 1) -> Int] /\ Garbage \in Int
      /\ A = Copied(APtr, ASz, ASz) /\ B = Copied(BPtr, ASz, BSz)
  BY ElementAssumption DEF Init, CopiedB
<1>4. /\ A = APtr /\ B \in [0..(BSz - 1) -> Int] /\ (ASz = BSz => B = BPtr)
  BY <1>2, <1>3 DEF Copied
<1>5. /\ acc = [w \in Items |-> 0] /\ k = [w \in Items |-> 0] /\ t = [w \in Items |-> 0]
      /\ pc = [w \in Items |-> IF kernel = "simple" THEN "sum" ELSE "load"]
      /\ C = [j \in 0..(CSz - 1) |-> Garbage] /\ host # "done" /\ (CopyRefused => host = "error")
  BY DEF Init
<1>6. ProductTypeOK
  BY <1>3, <1>4, <1>5 DEF ProductTypeOK
<1>7. ASSUME NEW w \in Items PROVE SummedUp(w)
  <2>1. Sums(A, B, w)[0] = 0
    BY <1>3, <1>4, SumsAre
  <2>2. TS * 0 = 0 /\ 0 \in 0..AY /\ 0 <= numTiles
    BY Sizes
  <2> QED BY <1>5, <2>1, <2>2 DEF SummedUp
<1> QED BY <1>1, <1>6, <1>7 DEF Product

\* An action of item w leaves the numbers of the others alone, and the host.
LEMMA ProductOthersStay ==
  ASSUME Product, NEW w \in Items, WorkItem(w)
  PROVE  /\ UNCHANGED <<kernel, A, B, APtr, BPtr, CPtr, host>> /\ host = "wait"
         /\ \A v \in Items : v # w => /\ pc'[v] = pc[v] /\ t'[v] = t[v]
                                      /\ k'[v] = k[v] /\ acc'[v] = acc[v]
                                      /\ C'[Place(v)] = C[Place(v)]
<1>1. GemmTypeOK /\ ProductTypeOK
  BY DEF Product, Tiling
<1>2. /\ UNCHANGED <<kernel, A, B, APtr, BPtr, CPtr, host>> /\ host = "wait"
      /\ \A v \in Items : v # w => pc'[v] = pc[v] /\ t'[v] = t[v]
  BY <1>1, GemmOthersStay DEF WorkItem, Load, BarrierLoaded, Multiply, BarrierUsed, Sum, Store,
        hostVars, buffers
<1>3. ASSUME NEW v \in Items, v # w PROVE k'[v] = k[v] /\ acc'[v] = acc[v]
  BY <1>1, <1>3 DEF WorkItem, Load, BarrierLoaded, Multiply, BarrierUsed, Sum, Store, ProductTypeOK
<1>4. ASSUME NEW v \in Items, v # w PROVE C'[Place(v)] = C[Place(v)]
  <2>1. CASE Store(w)
    <3>1. C' = [C EXCEPT ![Place(w)] = acc[w]]
      BY <2>1 DEF Store, Place
    <3>2. Place(v) # Place(w) /\ Place(v) \in 0..(CSz - 1)
      BY <1>4, OwnPlace, Indexes
    <3> QED BY <1>1, <3>1, <3>2 DEF ProductTypeOK
  <2>2. CASE ~Store(w)
    BY <2>2 DEF WorkItem, Load, BarrierLoaded, Multiply, BarrierUsed, Sum, buffers
  <2> QED BY <2>1, <2>2
<1> QED BY <1>2, <1>3, <1>4

\* A multiplication adds the product that is due.
LEMMA MultiplySums ==
  ASSUME Product, NEW w \in Items, Multiply(w)
  PROVE  /\ TS * t[w] + k[w] \in 0..(AY - 1) /\ k[w] \in 0..(TS - 1) /\ t[w] \in Nat
         /\ acc'[w] = Sums(A, B, w)[TS * t[w] + k[w] + 1]
<1> DEFINE n == TS * t[w] + k[w]
           g == get_group_id(w)
<1>1. /\ pc[w] = "multiply" /\ k[w] \in 0..(TS - 1) /\ acc[w] = Sums(A, B, w)[n]
      /\ t[w] \in Nat /\ t[w] < numTiles
  <2>1. pc[w] = "multiply" /\ SummedUp(w) /\ GemmTypeOK /\ RoundsBounded
    BY DEF Multiply, Product, Tiling
  <2>2. kernel = "localmem"
    BY <2>1 DEF GemmTypeOK
  <2> QED BY <2>1, <2>2 DEF SummedUp, GemmTypeOK, RoundsBounded, InRound
<1>2. n \in 0..(AY - 1)
  BY <1>1, TileBound
<1>3. /\ row(w) \in 0..(TS - 1) /\ col(w) \in 0..(TS - 1)
      /\ TS * g[1] + row(w) = w[1] /\ TS * g[2] + col(w) = w[2]
  <2>1. row(w) \in 0..(TS - 1) /\ col(w) \in 0..(TS - 1) /\ w[1] \in Nat /\ w[2] \in Nat
    BY PlaceFacts
  <2>2. \A m \in Nat \ {0} : \A x \in Nat : x = m * (x \div m) + (x % m)
    BY DivMod
  <2>3. TS \in Nat \ {0}
    BY Sizes
  <2>4. g[1] = w[1] \div TS /\ row(w) = w[1] % TS /\ g[2] = w[2] \div TS /\ col(w) = w[2] % TS
    BY DEF get_group_id, row, col
  <2> HIDE DEF g
  <2>5. w[1] = TS * (w[1] \div TS) + (w[1] % TS) /\ w[2] = TS * (w[2] \div TS) + (w[2] % TS)
    BY <2>1, <2>2, <2>3, Zenon
  <2> QED BY <2>1, <2>4, <2>5, Zenon
<1>4. Asub[g][<<k[w], row(w)>>] = A[w[1] * AY + n]
  <2> DEFINE c == <<k[w], row(w)>>
  <2>1. c \in Tile /\ c[1] = k[w] /\ c[2] = row(w)
    BY <1>1, <1>3 DEF Tile
  <2>2. Asub[g][c] = A[(TS * g[1] + c[2]) * AY + TS * t[w] + c[1]]
    BY <1>1, <2>1, TilingCurrent DEF Product, TileCurrent
  <2>3. w[1] * AY + TS * t[w] + k[w] = w[1] * AY + n
    <3>1. ASSUME NEW x \in Nat, NEW y \in Nat, NEW z \in Nat PROVE (x + y) + z = x + (y + z)
      OBVIOUS
    <3>2. ASSUME NEW x \in Nat, NEW y \in Nat PROVE x * y \in Nat
      OBVIOUS
    <3>3. w[1] * AY \in Nat /\ TS * t[w] \in Nat /\ k[w] \in Nat
      <4>1. w[1] \in Nat /\ AY \in Nat /\ TS \in Nat
        BY PlaceFacts, Sizes
      <4>2. t[w] \in Nat /\ k[w] \in Nat
        BY <1>1, Sizes
      <4> QED BY <3>2, <4>1, <4>2
    <3> QED BY <3>1, <3>3
  <2> QED BY <1>3, <2>1, <2>2, <2>3
<1>5. Bsub[g][<<col(w), k[w]>>] = B[n * BY_ + w[2]]
  <2> DEFINE c == <<col(w), k[w]>>
  <2>1. c \in Tile /\ c[1] = col(w) /\ c[2] = k[w]
    BY <1>1, <1>3 DEF Tile
  <2>2. Bsub[g][c] = B[(TS * t[w] + c[2]) * BY_ + TS * g[2] + c[1]]
    BY <1>1, <2>1, TilingCurrent DEF Product, TileCurrent
  <2>3. n * BY_ + TS * g[2] + col(w) = n * BY_ + w[2]
    <3>1. ASSUME NEW x \in Nat, NEW y \in Nat, NEW z \in Nat PROVE (x + y) + z = x + (y + z)
      OBVIOUS
    <3>2. n * BY_ \in Nat /\ TS * g[2] \in Nat /\ col(w) \in Nat
      <4>0. g \in Groups
        BY PlaceFacts
      <4>1. n \in Nat
        BY <1>2
      <4> HIDE DEF n, g
      <4>2. g[2] \in Nat
        BY <4>0 DEF Groups
      <4> QED BY <1>3, <4>1, <4>2, Sizes
    <3> HIDE DEF n, g
    <3> QED BY <1>3, <3>1, <3>2
  <2> QED BY <2>1, <2>2, <2>3
<1>6. acc'[w] = acc[w] + A[w[1] * AY + n] * B[n * BY_ + w[2]]
  <2>1. acc'[w] = acc[w] + Asub[g][<<k[w], row(w)>>] * Bsub[g][<<col(w), k[w]>>]
    BY DEF Multiply, Product, ProductTypeOK
  <2> HIDE DEF n, g
  <2> QED BY <1>4, <1>5, <2>1
<1>7. Sums(A, B, w)[n + 1] = Sums(A, B, w)[n] + A[w[1] * AY + n] * B[n * BY_ + w[2]]
  <2> HIDE DEF n
  <2> QED BY <1>2, SumsAre DEF Product, ProductTypeOK
<1> QED BY <1>1, <1>2, <1>6, <1>7

\* So does a turn of the loop of gemm_simple.cl.
LEMMA SumSums ==
  ASSUME Product, NEW w \in Items, Sum(w)
  PROVE  k[w] \in 0..(AY - 1) /\ acc'[w] = Sums(A, B, w)[k[w] + 1]
<1>1. /\ A \in [0..(ASz - 1) -> Int] /\ B \in [0..(BSz - 1) -> Int] /\ acc \in [Items -> Int]
      /\ SummedUp(w)
  BY DEF Product, ProductTypeOK
<1>2. k[w] \in 0..(AY - 1) /\ acc[w] = Sums(A, B, w)[k[w]]
  BY <1>1, Sizes DEF Sum, SummedUp
<1>3. acc'[w] = acc[w] + A[w[1] * AY + k[w]] * B[k[w] * BY_ + w[2]]
  BY <1>1 DEF Sum
<1>4. \A j \in 0..(AY - 1) :
        Sums(A, B, w)[j + 1] = Sums(A, B, w)[j] + A[w[1] * AY + j] * B[j * BY_ + w[2]]
  BY <1>1, SumsAre
<1>5. Sums(A, B, w)[k[w] + 1] = acc[w] + A[w[1] * AY + k[w]] * B[k[w] * BY_ + w[2]]
  BY <1>2, <1>4, Zenon
<1> QED BY <1>2, <1>3, <1>5, Zenon

\* The item of an action is at the sum it should be at.
LEMMA SummedStep ==
  ASSUME Product, NEW w \in Items, WorkItem(w)
  PROVE  SummedUp(w)'
<1>1. /\ GemmTypeOK /\ RoundsBounded /\ ProductTypeOK /\ SummedUp(w) /\ t[w] \in Nat
      /\ numTiles \in Nat
  BY Sizes DEF Product, Tiling, GemmTypeOK
<1>2. /\ A' = A /\ B' = B /\ kernel' = kernel
  BY ProductOthersStay
<1>3. CASE Load(w)
  <2>1. /\ pc[w] = "load" /\ pc'[w] = "loaded" /\ k' = k /\ t' = t /\ acc' = acc
    BY <1>1, <1>3 DEF Load, Goto, GemmTypeOK
  <2> QED BY <1>1, <1>2, <2>1 DEF SummedUp
<1>4. CASE BarrierLoaded(w)
  <2>1. /\ pc[w] = "loaded" /\ pc'[w] = "multiply" /\ k' = k /\ t' = t /\ acc' = acc
    BY <1>1, <1>4 DEF BarrierLoaded, Goto, GemmTypeOK
  <2>2. k[w] = 0 /\ acc[w] = Sums(A, B, w)[TS * t[w]]
    BY <1>1, <2>1 DEF SummedUp
  <2>3. 0 \in 0..(TS - 1) /\ TS * t[w] + 0 = TS * t[w]
    BY <1>1, Sizes
  <2> QED BY <1>2, <2>1, <2>2, <2>3 DEF SummedUp
<1>5. CASE Multiply(w)
  <2>1. /\ TS * t[w] + k[w] \in 0..(AY - 1) /\ k[w] \in 0..(TS - 1)
        /\ acc'[w] = Sums(A, B, w)[TS * t[w] + k[w] + 1]
    BY <1>5, MultiplySums
  <2>2. /\ t' = t /\ k'[w] = (k[w] + 1) % TS
        /\ pc'[w] = IF k[w] + 1 = TS THEN "used" ELSE "multiply"
    BY <1>1, <1>5 DEF Multiply, Goto, GemmTypeOK, ProductTypeOK
  <2>3. TS * t[w] \in Nat /\ TS \in Nat \ {0} /\ k[w] + 1 \in Nat
    BY <1>1, <2>1, Sizes
  <2>4. TS * t[w] + k[w] + 1 = TS * t[w] + (k[w] + 1)
    BY <2>1, <2>3
  <2>5. CASE k[w] + 1 = TS
    <3>1. k'[w] = 0
      BY <2>2, <2>3, <2>5
    <3> QED BY <1>2, <2>1, <2>2, <2>4, <2>5, <3>1 DEF SummedUp
  <2>6. CASE k[w] + 1 # TS
    <3>1. k[w] + 1 \in 0..(TS - 1)
      BY <2>1, <2>3, <2>6
    <3>2. (k[w] + 1) % TS = k[w] + 1
      <4>1. \A n \in Nat \ {0} : \A x \in Nat : x < n => x % n = x
        BY Remainder
      <4>2. k[w] + 1 < TS
        BY <2>3, <3>1
      <4> QED BY <2>3, <4>1, <4>2, Zenon
    <3>3. k'[w] = k[w] + 1
      BY <2>2, <3>2
    <3> QED BY <1>2, <2>1, <2>2, <2>4, <2>6, <3>1, <3>3 DEF SummedUp
  <2> QED BY <2>5, <2>6
<1>6. CASE BarrierUsed(w)
  <2>1. /\ pc[w] = "used" /\ pc'[w] = "load" /\ k' = k /\ t'[w] = t[w] + 1 /\ acc' = acc
    BY <1>1, <1>6 DEF BarrierUsed, Goto, GemmTypeOK
  <2>2. t[w] < numTiles
    BY <1>1, <2>1 DEF RoundsBounded, InRound, GemmTypeOK
  <2>3. TS * (t[w] + 1) = TS * t[w] + TS /\ t[w] + 1 <= numTiles
    BY <1>1, <2>2, Sizes
  <2>4. k[w] = 0 /\ acc[w] = Sums(A, B, w)[TS * t[w] + TS]
    BY <1>1, <2>1 DEF SummedUp
  <2> QED BY <1>2, <2>1, <2>3, <2>4 DEF SummedUp
<1>7. CASE Sum(w)
  <2>1. /\ k[w] \in 0..(AY - 1) /\ acc'[w] = Sums(A, B, w)[k[w] + 1]
    BY <1>7, SumSums
  <2>2. pc' = pc /\ pc[w] = "sum" /\ k'[w] = k[w] + 1
    BY <1>1, <1>7 DEF Sum, ProductTypeOK
  <2>3. k[w] + 1 \in 0..AY
    BY <2>1, Sizes
  <2> QED BY <1>2, <2>1, <2>2, <2>3 DEF SummedUp
<1>8. CASE Store(w)
  <2>1. pc'[w] = "done" /\ C'[Place(w)] = acc[w]
    <3>1. Place(w) \in 0..(CSz - 1)
      BY Indexes
    <3>2. C' = [C EXCEPT ![Place(w)] = acc[w]] /\ pc' = [pc EXCEPT ![w] = "done"]
      BY <1>8 DEF Store, Place, Goto
    <3> QED BY <1>1, <3>1, <3>2 DEF GemmTypeOK, ProductTypeOK
  <2>2. acc[w] = Sums(A, B, w)[IF kernel = "simple" THEN AY ELSE TS * numTiles]
    <3>1. CASE pc[w] = "load" /\ t[w] >= numTiles
      <4>1. t[w] = numTiles /\ acc[w] = Sums(A, B, w)[TS * t[w]]
        BY <1>1, <3>1 DEF SummedUp
      <4>2. kernel # "simple"
        BY <1>1, <3>1 DEF GemmTypeOK
      <4> QED BY <4>1, <4>2
    <3>2. CASE pc[w] = "sum" /\ k[w] >= AY
      <4>1. k[w] = AY /\ acc[w] = Sums(A, B, w)[k[w]]
        BY <1>1, <3>2, Sizes DEF SummedUp
      <4>2. kernel = "simple"
        BY <1>1, <3>2 DEF GemmTypeOK
      <4> QED BY <4>1, <4>2
    <3> QED BY <1>8, <3>1, <3>2 DEF Store
  <2>3. numTiles' = numTiles /\ Place(w)' = Place(w)
    BY DEF numTiles, Place
  <2> QED BY <1>2, <2>1, <2>2, <2>3 DEF SummedUp
<1> QED BY <1>3, <1>4, <1>5, <1>6, <1>7, <1>8 DEF WorkItem

LEMMA ProductTypeStep ==
  ASSUME Product, NEW w \in Items, WorkItem(w)
  PROVE  ProductTypeOK'
<1>1. ProductTypeOK /\ GemmTypeOK
  BY DEF Product, Tiling
<1>2. UNCHANGED <<kernel, A, B, APtr, BPtr, CPtr, host>> /\ host = "wait"
  BY ProductOthersStay
<1>3. acc' \in [Items -> Int]
  <2>1. CASE Multiply(w)
    <3>1. acc'[w] = Sums(A, B, w)[TS * t[w] + k[w] + 1] /\ TS * t[w] + k[w] \in 0..(AY - 1)
      BY <2>1, MultiplySums
    <3>2. acc'[w] \in Int
      <4>1. Sums(A, B, w) \in [0..AY -> Int]
        BY <1>1, SumsAre DEF ProductTypeOK
      <4>2. ASSUME NEW n \in 0..(AY - 1) PROVE n + 1 \in 0..AY
        BY Sizes
      <4>3. Sums(A, B, w)[TS * t[w] + k[w] + 1] \in Int
        BY <3>1, <4>1, <4>2
      <4> QED BY <3>1, <4>3
    <3>3. \E x : acc' = [acc EXCEPT ![w] = x]
      BY <2>1 DEF Multiply
    <3> QED BY <1>1, <3>2, <3>3 DEF ProductTypeOK
  <2>2. CASE Sum(w)
    <3>1. acc'[w] = Sums(A, B, w)[k[w] + 1] /\ k[w] + 1 \in 0..AY
      BY <2>2, SumSums, Sizes
    <3>2. acc'[w] \in Int
      <4>1. Sums(A, B, w) \in [0..AY -> Int]
        BY <1>1, SumsAre DEF ProductTypeOK
      <4> QED BY <3>1, <4>1
    <3>3. \E x : acc' = [acc EXCEPT ![w] = x]
      BY <2>2 DEF Sum
    <3> QED BY <1>1, <3>2, <3>3 DEF ProductTypeOK
  <2>3. CASE Load(w) \/ BarrierLoaded(w) \/ BarrierUsed(w) \/ Store(w)
    BY <1>1, <2>3 DEF Load, BarrierLoaded, BarrierUsed, Store, ProductTypeOK
  <2> QED BY <2>1, <2>2, <2>3 DEF WorkItem
<1>4. k' \in [Items -> Nat]
  <2>1. k[w] + 1 \in Nat /\ (k[w] + 1) % TS \in Nat
    <3>1. k[w] + 1 \in Nat
      BY <1>1 DEF ProductTypeOK
    <3> QED BY <3>1, Sizes, Remainder
  <2> QED BY <1>1, <2>1 DEF WorkItem, Load, BarrierLoaded, Multiply, BarrierUsed, Sum, Store,
             ProductTypeOK
<1>5. C' = [j \in 0..(CSz - 1) |-> C'[j]]
  <2>1. CASE Store(w)
    BY <1>1, <2>1 DEF Store, ProductTypeOK
  <2>2. CASE ~Store(w)
    <3>1. C' = C
      BY <2>2 DEF WorkItem, Load, BarrierLoaded, Multiply, BarrierUsed, Sum, buffers
    <3> QED BY <1>1, <3>1 DEF ProductTypeOK
  <2> QED BY <2>1, <2>2
<1> QED BY <1>1, <1>2, <1>3, <1>4, <1>5 DEF ProductTypeOK

LEMMA ProductStep ==
  ASSUME Product, [Next]_vars
  PROVE  Product'
<1>0. Tiling /\ ProductTypeOK
  BY DEF Product
<1>1. Tiling'
  BY <1>0, TilingStep
<1>2. ASSUME NEW w \in Items, WorkItem(w) PROVE Product'
  <2>1. ProductTypeOK'
    BY <1>2, ProductTypeStep
  <2>2. ASSUME NEW v \in Items PROVE SummedUp(v)'
    <3>1. CASE v = w
      BY <1>2, <3>1, SummedStep
    <3>2. CASE v # w
      <4>1. /\ kernel' = kernel /\ A' = A /\ B' = B
            /\ pc'[v] = pc[v] /\ t'[v] = t[v] /\ k'[v] = k[v] /\ acc'[v] = acc[v]
            /\ C'[Place(v)] = C[Place(v)]
        BY <1>2, <3>2, ProductOthersStay
      <4>2. SummedUp(v)
        BY DEF Product
      <4> QED BY <4>1, <4>2 DEF SummedUp
    <3> QED BY <3>1, <3>2
  <2> QED BY <1>1, <2>1, <2>2 DEF Product
<1>3. CASE ReadBack \/ UNCHANGED vars
  <2>1. /\ UNCHANGED <<kernel, A, B, APtr, BPtr, C, pc, t, k, acc>>
        /\ host' = "done" => CPtr' = C /\ \A w \in Items : pc[w] = "done"
        /\ CopyRefused => host' = "error"
    BY <1>0, <1>3 DEF ReadBack, vars, hostVars, buffers, tiles, ProductTypeOK
  <2>2. ProductTypeOK'
    BY <1>0, <2>1 DEF ProductTypeOK
  <2>3. \A w \in Items : SummedUp(w)'
    BY <2>1 DEF SummedUp, Product
  <2> QED BY <1>1, <2>2, <2>3 DEF Product
<1> QED BY <1>2, <1>3 DEF Next, Finished

\* The item that an element belongs to.
LEMMA PlaceParts ==
  ASSUME NEW w \in Items
  PROVE  Place(w) \div BY_ = w[1] /\ Place(w) % BY_ = w[2]
<1>1. /\ w[1] \in Nat /\ w[2] \in 0..(BY_ - 1) /\ BY_ \in Nat \ {0}
  BY PlaceFacts, Sizes DEF Items
<1>2. \A n \in Nat \ {0} : \A q \in Nat : \A y \in 0..(n - 1) :
        (n * q + y) % n = y /\ (n * q + y) \div n = q
  BY DivModOf
<1>3. Place(w) = BY_ * w[1] + w[2]
  BY <1>1, Sizes DEF Place
<1>4. (BY_ * w[1] + w[2]) \div BY_ = w[1] /\ (BY_ * w[1] + w[2]) % BY_ = w[2]
  BY <1>1, <1>2, Zenon
<1> QED BY <1>3, <1>4

\* The reference multiplies the same elements.
LEMMA ReferenceProducts ==
  ASSUME NEW a, NEW b, NEW w \in Items
  PROVE  transpose_mult_ref(a, b)[Place(w)] = LoopSum(Products(a, b, w), AY)
<1>1. /\ w[1] \in Nat /\ w[2] \in 0..(BY_ - 1) /\ Place(w) \in 0..(CSz - 1)
  BY PlaceFacts, Indexes DEF Items
<1>0. \A n \in Nat \ {0} : \A q \in Nat : \A y \in 0..(n - 1) :
        (n * q + y) % n = y /\ (n * q + y) \div n = q
  BY DivModOf
<1>2. Place(w) \div BY_ = w[1] /\ Place(w) % BY_ = w[2]
  BY PlaceParts
<1> DEFINE tmp == transposed(b)
<1>3. ASSUME NEW j \in 0..(AY - 1) PROVE tmp[w[2] * AY + j] = b[j * BY_ + w[2]]
  <2> DEFINE x == w[2] * AY + j
  <2>1. x \in 0..(BSz - 1)
    <3>1. x \in 0..(BY_ * AY - 1)
      BY <1>1, Sizes, RowBound
    <3>2. BY_ * AY = BSz
      BY Sizes DEF BSz
    <3> QED BY <3>1, <3>2
  <2>2. x % AY = j /\ x \div AY = w[2]
    <3>1. x = AY * w[2] + j /\ w[2] \in Nat
      BY <1>1, Sizes
    <3>2. (AY * w[2] + j) % AY = j /\ (AY * w[2] + j) \div AY = w[2]
      <4>1. AY \in Nat \ {0}
        BY Sizes
      <4> QED BY <1>0, <3>1, <4>1, Zenon
    <3> HIDE DEF x
    <3> QED BY <3>1, <3>2
  <2> HIDE DEF x
  <2>3. tmp[x] = b[(x % AY) * BY_ + x \div AY]
    BY <2>1 DEF transposed
  <2>4. tmp[x] = b[j * BY_ + w[2]]
    BY <2>2, <2>3
  <2> QED BY <2>4 DEF x
<1> HIDE DEF tmp
<1>4. [j \in 0..(AY - 1) |-> a[w[1] * AY + j] * tmp[w[2] * AY + j]] = Products(a, b, w)
  BY <1>3 DEF Products
<1> DEFINE T(c) == [j \in 0..(AY - 1) |-> a[(c \div BY_) * AY + j] * tmp[(c % BY_) * AY + j]]
<1>5. transpose_mult_ref(a, b) = [c \in 0..(CSz - 1) |-> LoopSum(T(c), AY)]
  BY DEF transpose_mult_ref, tmp
<1>6. transpose_mult_ref(a, b)[Place(w)] = LoopSum(T(Place(w)), AY)
  <2> HIDE DEF T
  <2> QED BY <1>1, <1>5
<1>7. T(Place(w)) = Products(a, b, w)
  BY <1>2, <1>4
<1> QED BY <1>6, <1>7

\* Every place of the result belongs to an item.
LEMMA PlaceHasItem ==
  ASSUME NEW c \in 0..(CSz - 1)
  PROVE  \E w \in Items : Place(w) = c
<1> DEFINE w == <<c \div BY_, c % BY_>>
<1>1. /\ c = BY_ * (c \div BY_) + (c % BY_) /\ c % BY_ \in 0..(BY_ - 1) /\ c \div BY_ \in Nat
      /\ c \in Nat /\ c < AX * BY_
  <2>1. c \in Nat /\ c < AX * BY_
    BY Sizes DEF CSz
  <2> QED BY <2>1, Sizes, DivMod
<1>2. c \div BY_ < AX
  <2>1. SUFFICES ASSUME c \div BY_ >= AX PROVE FALSE
    BY <1>1, Sizes
  <2>2. BY_ * (c \div BY_) = AX * BY_ + BY_ * ((c \div BY_) - AX)
    BY <1>1, Sizes
  <2>3. BY_ * ((c \div BY_) - AX) >= 0
    BY <1>1, <2>1, Sizes
  <2>4. AX * BY_ \in Nat /\ c % BY_ \in Nat
    BY <1>1, Sizes
  <2> DEFINE p == BY_ * (c \div BY_)
             q == AX * BY_
             r == c % BY_
             s == BY_ * ((c \div BY_) - AX)
  <2>5. c = p + r /\ c < q /\ p = q + s /\ s >= 0 /\ q \in Nat /\ r \in Nat
    BY <1>1, <2>2, <2>3, <2>4
  <2>6. s \in Int /\ c \in Nat
    BY <1>1, Sizes
  <2> HIDE DEF p, q, r, s
  <2> QED BY <2>5, <2>6
<1>3. w \in Items
  BY <1>1, <1>2, Sizes DEF Items
<1>4. Place(w) = c
  <2>1. (c \div BY_) * BY_ = BY_ * (c \div BY_)
    BY <1>1, Sizes
  <2> QED BY <1>1, <2>1 DEF Place
<1> QED BY <1>3, <1>4

\* The first sums of an item.
LEMMA FirstSums ==
  ASSUME NEW a \in [0..(ASz - 1) -> Int], NEW b \in [0..(BSz - 1) -> Int], NEW w \in Items,
         NEW n \in 0..AY
  PROVE  LoopSum([j \in 0..(n - 1) |-> a[w[1] * AY + j] * b[j * BY_ + w[2]]], n) = Sums(a, b, w)[n]
<1> DEFINE term == [j \in 0..(n - 1) |-> a[w[1] * AY + j] * b[j * BY_ + w[2]]]
           f == [j \in 0..n |-> Sums(a, b, w)[j]]
<1>1. n \in Nat /\ 0 \in 0..n /\ 0..n \subseteq 0..AY /\ 0..(n - 1) \subseteq 0..(AY - 1)
      /\ \A j \in 0..(n - 1) : j \in 0..n /\ j + 1 \in 0..n
  BY Sizes
<1>2. f \in [0..n -> Int] /\ f[0] = 0 /\ f[n] = Sums(a, b, w)[n]
  <2>1. Sums(a, b, w) \in [0..AY -> Int] /\ Sums(a, b, w)[0] = 0
    BY SumsAre
  <2>2. n \in 0..n
    BY <1>1
  <2>3. ASSUME NEW j \in 0..n PROVE Sums(a, b, w)[j] \in Int
    BY <1>1, <2>1
  <2> QED BY <1>1, <2>1, <2>2, <2>3
<1>3. ASSUME NEW j \in 0..(n - 1) PROVE f[j + 1] = f[j] + term[j]
  <2>1. Sums(a, b, w)[j + 1] = Sums(a, b, w)[j] + a[w[1] * AY + j] * b[j * BY_ + w[2]]
    BY <1>1, SumsAre
  <2>2. f[j + 1] = Sums(a, b, w)[j + 1] /\ f[j] = Sums(a, b, w)[j]
    BY <1>1
  <2>3. term[j] = a[w[1] * AY + j] * b[j * BY_ + w[2]]
    OBVIOUS
  <2> HIDE DEF f, term
  <2> QED BY <2>1, <2>2, <2>3
<1> HIDE DEF f, term
<1>4. IsSums(f, term, n)
  BY <1>2, <1>3 DEF IsSums
<1>5. LoopSum(term, n) = f[n]
  BY <1>1, <1>4, LoopSumIs
<1> QED BY <1>2, <1>5 DEF term

\* What is read back is the product of the buffers, over the columns that count.
LEMMA ProductOfBuffers ==
  ASSUME Product, host = "done"
  PROVE  CPtr = [c \in 0..(CSz - 1) |->
                   LoopSum([j \in 0..(Depth - 1) |->
                              A[(c \div BY_) * AY + j] * B[j * BY_ + (c % BY_)]], Depth)]
<1> DEFINE L(c) == LoopSum([j \in 0..(Depth - 1) |->
                              A[(c \div BY_) * AY + j] * B[j * BY_ + (c % BY_)]], Depth)
<1>1. /\ A \in [0..(ASz - 1) -> Int] /\ B \in [0..(BSz - 1) -> Int]
      /\ CPtr = C /\ C = [j \in 0..(CSz - 1) |-> C[j]] /\ \A w \in Items : pc[w] = "done"
  BY DEF Product, ProductTypeOK
<1>2. Depth \in 0..AY
  <2>1. AY = TS * numTiles + (AY % TS) /\ AY % TS \in Nat /\ TS * numTiles \in Nat
    BY Sizes, DivMod DEF numTiles, TS
  <2> QED BY <2>1, Sizes DEF Depth
<1>3. ASSUME NEW c \in 0..(CSz - 1) PROVE C[c] = L(c)
  <2>1. PICK w \in Items : Place(w) = c
    BY PlaceHasItem
  <2>2. c \div BY_ = w[1] /\ c % BY_ = w[2]
    BY <2>1, PlaceParts
  <2>3. C[c] = Sums(A, B, w)[Depth]
    BY <1>1, <2>1 DEF Product, SummedUp, Depth
  <2>4. LoopSum([j \in 0..(Depth - 1) |-> A[w[1] * AY + j] * B[j * BY_ + w[2]]], Depth) =
          Sums(A, B, w)[Depth]
    BY <1>1, <1>2, FirstSums
  <2> QED BY <2>2, <2>3, <2>4
<1> HIDE DEF L
<1>4. CPtr = [c \in 0..(CSz - 1) |-> L(c)]
  BY <1>1, <1>3
<1> QED BY <1>4 DEF L

\* Where that is all of both matrices, it is the product of the CPU.
LEMMA ProductChecks ==
  ASSUME Product, BSz <= ASz, Depth = AY
  PROVE  ChecksPass
<1>0. ASz \in Nat /\ BSz \in Nat
  BY Sizes DEF ASz, BSz
<1>1. SUFFICES ASSUME host = "done" PROVE CPtr = transpose_mult_ref(APtr, BPtr)
  BY DEF ChecksPass
<1>2. /\ A \in [0..(ASz - 1) -> Int] /\ B \in [0..(BSz - 1) -> Int] /\ A = APtr /\ B = BPtr
      /\ CPtr = C /\ C = [j \in 0..(CSz - 1) |-> C[j]] /\ \A w \in Items : pc[w] = "done"
  BY <1>0, <1>1 DEF Product, ProductTypeOK, CopyRefused
<1>3. kernel # "simple" => TS * numTiles = AY
  BY DEF Depth
<1>4. ASSUME NEW c \in 0..(CSz - 1) PROVE C[c] = transpose_mult_ref(A, B)[c]
  <2>1. PICK w \in Items : Place(w) = c
    BY PlaceHasItem
  <2>2. C[c] = Sums(A, B, w)[AY]
    BY <1>2, <1>3, <2>1 DEF Product, SummedUp
  <2>3. LoopSum(Products(A, B, w), AY) = Sums(A, B, w)[AY]
    BY <1>2, SumsAre
  <2> QED BY <2>1, <2>2, <2>3, ReferenceProducts
<1>5. transpose_mult_ref(A, B) = [c \in 0..(CSz - 1) |-> transpose_mult_ref(A, B)[c]]
  BY DEF transpose_mult_ref
<1> QED BY <1>2, <1>4, <1>5

LEMMA ProductIsRight ==
  ASSUME Product
  PROVE  ProductRight
BY ProductOfBuffers, ProductChecks DEF ProductRight

-----------------------------------------------------------------------------
(* The scripts of the host programs.                                       *)

Objects == {"ids", "ctx", "devs", "que", "DA", "DB", "DC", "program", "foreign"}
Memory == {"a", "b", "c"}
Rules == {"full", "gpu", "gemm", "hist", "vendor", "type", "default"}

\* What arrays may hold: the results of kernels on inputs are all that matters.
Plain == {Programs!A, Programs!B, << >>}
Values == Plain \cup {Programs!Result(s) : s \in Seq(Plain)}
Contents == [Programs!Arrays -> Values]

\* What is known before a call: what is held, what the arrays hold once the queue
\* has run, whether it may still have to, and what became of the platforms.
Views == [held : SUBSET Objects, data : Contents, busy : BOOLEAN,
          phase : {"start", "found", "listed"}]
View(h, d, b, p) == [held |-> h, data |-> d, busy |-> b, phase |-> p]

\* The call c is in order in view v and leads to view w.
Follows(c, v, w) ==
  \/ /\ c.op = "new" /\ ~v.busy
     /\ c.obj \in Objects \ v.held
     /\ w = View(v.held \cup {c.obj}, v.data, FALSE, v.phase)
  \/ /\ c.op = "del" /\ ~v.busy
     /\ c.obj \in v.held
     /\ w = View(v.held \ {c.obj}, v.data, FALSE, v.phase)
  \/ c.op = "ask" /\ w = v
  \/ /\ c.op = "select" /\ ~v.busy
     /\ c.obj \in Rules
     /\ v.phase = "start" /\ w = View(v.held, v.data, FALSE, "found")
  \/ /\ c.op = "list" /\ ~v.busy
     /\ v.phase = "start" /\ w = View(v.held, v.data, FALSE, "listed")
  \/ /\ c.op = "copy" /\ ~v.busy
     /\ c.obj \in (Programs!Arrays \X Programs!Arrays)
     /\ {c.obj[1], c.obj[2]} \subseteq v.held \cup Memory
     /\ w = View(v.held, [v.data EXCEPT ![c.obj[2]] = v.data[c.obj[1]]], FALSE, v.phase)
  \/ /\ c.op = "kernel" /\ ~v.busy
     /\ c.obj \in (Seq(Programs!Arrays) \X Programs!Arrays)
     /\ \A i \in DOMAIN c.obj[1] : c.obj[1][i] \in v.held /\ v.data[c.obj[1][i]] \in Plain
     /\ c.obj[2] \in v.held
     /\ w = View(v.held,
                 [v.data EXCEPT ![c.obj[2]] =
                    Programs!Result([i \in DOMAIN c.obj[1] |-> v.data[c.obj[1][i]]])],
                 c.on \subseteq v.held, v.phase)
  \/ c.op = "wait" /\ w = View(v.held, v.data, FALSE, v.phase)
  \/ /\ c.op = "check" /\ ~v.busy
     /\ v.data[c.obj[1]] = c.obj[2] /\ w = v

\* The calls s are in order from view v on, and lead to view w.
IsRun(g, s, v, w) ==
  /\ g \in [0..Len(s) -> Views]
  /\ g[0] = v /\ g[Len(s)] = w
  /\ \A i \in 1..Len(s) : Follows(s[i], g[i - 1], g[i])

Runs(s, v, w) == (\E S : s \in Seq(S)) /\ \E g : IsRun(g, s, v, w)

\* Views lead to views.
LEMMA ViewType ==
  ASSUME NEW h \in SUBSET Objects, NEW d \in Contents, NEW b \in BOOLEAN,
         NEW p \in {"start", "found", "listed"}
  PROVE  /\ View(h, d, b, p) \in Views
         /\ View(h, d, b, p).held = h /\ View(h, d, b, p).data = d
         /\ View(h, d, b, p).busy = b /\ View(h, d, b, p).phase = p
BY DEF Views, View

\* So do calls.
LEMMA FollowsType ==
  ASSUME NEW c, NEW v \in Views, NEW w, Follows(c, v, w)
  PROVE  w \in Views
<1>1. /\ v.held \subseteq Objects /\ v.data \in Contents /\ v.busy \in BOOLEAN
      /\ v.phase \in {"start", "found", "listed"}
  BY DEF Views
<1>2. CASE c.op \in {"new", "del", "ask", "select", "list", "wait", "check"}
  <2>1. v.held \ {c.obj} \subseteq Objects
    BY <1>1
  <2>2. c.op = "new" => v.held \cup {c.obj} \subseteq Objects
    BY <1>1 DEF Follows
  <2>3. CASE c.op \in {"ask", "check"}
    BY <2>3 DEF Follows
  <2>4. \A h \in SUBSET Objects : \A p \in {"start", "found", "listed"} :
          View(h, v.data, FALSE, p) \in Views
    BY <1>1 DEF Views, View
  <2>5. CASE c.op \in {"new", "del"}
    BY <1>1, <2>1, <2>2, <2>4, <2>5 DEF Follows
  <2>6. CASE c.op \in {"select", "list", "wait"}
    BY <1>1, <2>4, <2>6 DEF Follows
  <2> QED BY <1>2, <2>3, <2>5, <2>6
<1>3. CASE c.op = "copy"
  <2>1. c.obj[1] \in Programs!Arrays /\ v.data[c.obj[1]] \in Values
    BY <1>1, <1>3 DEF Follows, Contents
  <2>2. [v.data EXCEPT ![c.obj[2]] = v.data[c.obj[1]]] \in Contents
    BY <1>1, <2>1 DEF Contents
  <2> DEFINE d == [v.data EXCEPT ![c.obj[2]] = v.data[c.obj[1]]]
  <2>3. w = View(v.held, d, FALSE, v.phase)
    BY <1>3 DEF Follows
  <2> HIDE DEF d
  <2>4. d \in Contents /\ FALSE \in BOOLEAN
    BY <2>2 DEF d
  <2> QED BY <1>1, <2>3, <2>4, ViewType, Zenon
<1>4. CASE c.op = "kernel"
  <2> DEFINE s == [i \in DOMAIN c.obj[1] |-> v.data[c.obj[1][i]]]
  <2>1. c.obj[1] \in Seq(Programs!Arrays) /\ \A i \in DOMAIN c.obj[1] : v.data[c.obj[1][i]] \in Plain
    BY <1>4 DEF Follows
  <2>2. s \in Seq(Plain)
    BY <2>1
  <2> HIDE DEF s
  <2>3. Programs!Result(s) \in Values
    BY <2>2 DEF Values
  <2>4. [v.data EXCEPT ![c.obj[2]] = Programs!Result(s)] \in Contents
    BY <1>1, <2>3 DEF Contents
  <2> DEFINE d == [v.data EXCEPT ![c.obj[2]] = Programs!Result(s)]
           b == c.on \subseteq v.held
  <2>5. w = View(v.held, d, b, v.phase)
    BY <1>4 DEF Follows, s
  <2>6. d \in Contents /\ b \in BOOLEAN
    BY <2>4
  <2> HIDE DEF d, b
  <2> QED BY <1>1, <2>5, <2>6, ViewType
<1> QED BY <1>2, <1>3, <1>4 DEF Follows

\* No calls at all are in order.
LEMMA RunsNothing ==
  ASSUME NEW v \in Views
  PROVE  Runs(<< >>, v, v)
<1>1. IsRun([i \in 0..0 |-> v], << >>, v, v)
  BY DEF IsRun
<1>2. << >> \in Seq({})
  OBVIOUS
<1> QED BY <1>1, <1>2 DEF Runs

\* A call that follows continues a run.
LEMMA RunsAppend ==
  ASSUME NEW s, NEW u, NEW v, NEW c, NEW w, Runs(s, u, v), Follows(c, v, w)
  PROVE  Runs(Append(s, c), u, w)
<1>1. PICK S : s \in Seq(S)
  BY DEF Runs
<1>2. PICK g : IsRun(g, s, u, v)
  BY DEF Runs
<1> DEFINE N == Len(s)
           r == Append(s, c)
           f == [i \in 0..(N + 1) |-> IF i <= N THEN g[i] ELSE w]
<1>3. s \in Seq(S \cup {c}) /\ c \in S \cup {c}
  BY <1>1
<1>4. /\ N \in Nat /\ r \in Seq(S \cup {c}) /\ Len(r) = N + 1
      /\ \A i \in 1..N : r[i] = s[i]
      /\ r[N + 1] = c
  BY <1>3
<1>5. v \in Views /\ w \in Views
  BY <1>2, <1>4, FollowsType DEF IsRun
<1>6. f \in [0..(N + 1) -> Views] /\ f[0] = u /\ f[N + 1] = w
  BY <1>2, <1>4, <1>5 DEF IsRun
<1> HIDE DEF r
<1>7. ASSUME NEW i \in 1..(N + 1) PROVE Follows(r[i], f[i - 1], f[i])
  <2>1. CASE i = N + 1
    BY <2>1, <1>2, <1>4 DEF IsRun
  <2>2. CASE i \in 1..N
    BY <2>2, <1>2, <1>4 DEF IsRun
  <2> QED BY <2>1, <2>2, <1>4
<1>8. IsRun(f, r, u, w)
  BY <1>4, <1>6, <1>7 DEF IsRun
<1> QED BY <1>4, <1>8 DEF Runs, r

\* So does a run from where the first one ends.
LEMMA RunsJoined ==
  ASSUME NEW s, NEW t_, NEW u, NEW v, NEW w, Runs(s, u, v), Runs(t_, v, w)
  PROVE  Runs(s \o t_, u, w)
<1>1. PICK S : s \in Seq(S)
  BY DEF Runs
<1>2. PICK T : t_ \in Seq(T)
  BY DEF Runs
<1>3. PICK g : IsRun(g, s, u, v)
  BY DEF Runs
<1>4. PICK h : IsRun(h, t_, v, w)
  BY DEF Runs
<1> DEFINE N == Len(s)
           M == Len(t_)
           r == s \o t_
           f == [i \in 0..(N + M) |-> IF i <= N THEN g[i] ELSE h[i - N]]
<1>5. s \in Seq(S \cup T) /\ t_ \in Seq(S \cup T)
  BY <1>1, <1>2
<1>6. /\ N \in Nat /\ M \in Nat /\ r \in Seq(S \cup T) /\ Len(r) = N + M
      /\ \A i \in 1..N : r[i] = s[i]
      /\ \A i \in 1..M : r[N + i] = t_[i]
  BY <1>5
<1> HIDE DEF r
<1>7. f \in [0..(N + M) -> Views] /\ f[0] = u
  BY <1>3, <1>4, <1>6 DEF IsRun
<1>8. ASSUME NEW i \in 0..M PROVE f[N + i] = h[i]
  <2>1. CASE i = 0
    BY <2>1, <1>3, <1>4, <1>6 DEF IsRun
  <2>2. CASE i > 0
    <3>1. N + i \in 0..(N + M) /\ ~(N + i <= N) /\ (N + i) - N = i
      BY <2>2, <1>6
    <3> QED BY <3>1
  <2> QED BY <2>1, <2>2
<1>9. f[N + M] = w
  <2>1. M \in 0..M
    BY <1>6
  <2> QED BY <2>1, <1>8, <1>4 DEF IsRun
<1>10. ASSUME NEW i \in 1..(N + M) PROVE Follows(r[i], f[i - 1], f[i])
  <2>1. CASE i \in 1..N
    BY <2>1, <1>3, <1>6 DEF IsRun
  <2>2. CASE i > N
    <3> DEFINE j == i - N
    <3>1. j \in 1..M /\ j - 1 \in 0..M /\ N + j = i /\ N + (j - 1) = i - 1
      BY <2>2, <1>6
    <3>2. f[i] = h[j] /\ f[i - 1] = h[j - 1] /\ r[i] = t_[j]
      <4>1. f[N + j] = h[j] /\ f[N + (j - 1)] = h[j - 1] /\ r[N + j] = t_[j]
        <5> HIDE DEF f, j
        <5>1. j \in 0..M
          BY <3>1
        <5> QED BY <5>1, <3>1, <1>6, <1>8
      <4> QED BY <3>1, <4>1
    <3> QED BY <3>1, <3>2, <1>4 DEF IsRun
  <2> QED BY <2>1, <2>2, <1>6
<1>11. IsRun(f, r, u, w)
  BY <1>6, <1>7, <1>9, <1>10 DEF IsRun
<1> QED BY <1>6, <1>11 DEF Runs, r

\* Two calls, up to five.
LEMMA RunsTwo ==
  ASSUME NEW v0 \in Views, NEW v1, NEW v2, NEW c1, NEW c2,
         Follows(c1, v0, v1), Follows(c2, v1, v2)
  PROVE  Runs(<<c1, c2>>, v0, v2)
<1>1. <<c1>> = Append(<< >>, c1) /\ <<c1, c2>> = Append(<<c1>>, c2)
  OBVIOUS
<1>2. Runs(<< >>, v0, v0)
  BY RunsNothing
<1>3. Runs(<<c1>>, v0, v1)
  BY <1>1, <1>2, RunsAppend, Zenon
<1> QED BY <1>1, <1>3, RunsAppend, Zenon

LEMMA RunsThree ==
  ASSUME NEW v0 \in Views, NEW v1, NEW v2, NEW v3, NEW c1, NEW c2, NEW c3,
         Follows(c1, v0, v1), Follows(c2, v1, v2), Follows(c3, v2, v3)
  PROVE  Runs(<<c1, c2, c3>>, v0, v3)
<1>1. Runs(<<c1, c2>>, v0, v2) /\ <<c1, c2, c3>> = Append(<<c1, c2>>, c3)
  BY RunsTwo
<1> QED BY <1>1, RunsAppend, Zenon

LEMMA RunsFour ==
  ASSUME NEW v0 \in Views, NEW v1, NEW v2, NEW v3, NEW v4, NEW c1, NEW c2, NEW c3, NEW c4,
         Follows(c1, v0, v1), Follows(c2, v1, v2), Follows(c3, v2, v3), Follows(c4, v3, v4)
  PROVE  Runs(<<c1, c2, c3, c4>>, v0, v4)
<1>1. Runs(<<c1, c2, c3>>, v0, v3)
  BY RunsThree
<1>2. <<c1, c2, c3, c4>> = Append(<<c1, c2, c3>>, c4)
  OBVIOUS
<1> QED BY <1>1, <1>2, RunsAppend, Zenon

LEMMA RunsFive ==
  ASSUME NEW v0 \in Views, NEW v1, NEW v2, NEW v3, NEW v4, NEW v5,
         NEW c1, NEW c2, NEW c3, NEW c4, NEW c5,
         Follows(c1, v0, v1), Follows(c2, v1, v2), Follows(c3, v2, v3), Follows(c4, v3, v4),
         Follows(c5, v4, v5)
  PROVE  Runs(<<c1, c2, c3, c4, c5>>, v0, v5)
<1>1. Runs(<<c1, c2, c3, c4>>, v0, v4)
  BY RunsFour
<1>2. <<c1, c2, c3, c4, c5>> = Append(<<c1, c2, c3, c4>>, c5)
  OBVIOUS
<1> QED BY <1>1, <1>2, RunsAppend, Zenon

-----------------------------------------------------------------------------
(* Each call, in a view that has what it needs.                            *)

Phases == {"start", "found", "listed"}

LEMMA CallNew ==
  ASSUME NEW h \in SUBSET Objects, NEW d \in Contents, NEW p \in Phases,
         NEW o \in Objects, o \notin h, NEW on
  PROVE  Follows(Programs!New(o, on), View(h, d, FALSE, p), View(h \cup {o}, d, FALSE, p))
BY DEF Follows, View, Programs!New

LEMMA CallDel ==
  ASSUME NEW h \in SUBSET Objects, NEW d \in Contents, NEW p \in Phases, NEW o \in h
  PROVE  Follows(Programs!Del(o), View(h, d, FALSE, p), View(h \ {o}, d, FALSE, p))
BY DEF Follows, View, Programs!Del

LEMMA CallAsk ==
  ASSUME NEW v \in Views, NEW on
  PROVE  Follows(Programs!Ask(on), v, v)
BY DEF Follows, Programs!Ask

LEMMA CallSelect ==
  ASSUME NEW h \in SUBSET Objects, NEW d \in Contents, NEW r \in Rules
  PROVE  Follows(Programs!Select(r), View(h, d, FALSE, "start"), View(h, d, FALSE, "found"))
BY DEF Follows, View, Programs!Select

LEMMA CallList ==
  ASSUME NEW h \in SUBSET Objects, NEW d \in Contents, NEW r
  PROVE  Follows(Programs!List(r), View(h, d, FALSE, "start"), View(h, d, FALSE, "listed"))
BY DEF Follows, View, Programs!List

LEMMA CallCopy ==
  ASSUME NEW h \in SUBSET Objects, NEW d \in Contents, NEW p \in Phases,
         NEW x \in Programs!Arrays, NEW y \in Programs!Arrays, {x, y} \subseteq h \cup Memory,
         NEW e, e = [d EXCEPT ![y] = d[x]]
  PROVE  Follows(Programs!Copy(x, y), View(h, d, FALSE, p), View(h, e, FALSE, p))
BY DEF Follows, View, Programs!Copy

LEMMA CallKernel ==
  ASSUME NEW h \in SUBSET Objects, NEW d \in Contents, NEW p \in Phases,
         NEW ins \in Seq(Programs!Arrays), NEW y \in Programs!Arrays,
         \A i \in DOMAIN ins : ins[i] \in h /\ d[ins[i]] \in Plain, y \in h,
         NEW e, e = [d EXCEPT ![y] = Programs!Result([i \in DOMAIN ins |-> d[ins[i]]])],
         NEW b, b = ({"que", "program"} \subseteq h)
  PROVE  Follows(Programs!Kernel(ins, y), View(h, d, FALSE, p), View(h, e, b, p))
<1> DEFINE c == Programs!Kernel(ins, y)
           v == View(h, d, FALSE, p)
           w == View(h, e, b, p)
<1>1. c.op = "kernel" /\ c.obj = <<ins, y>> /\ c.on = {"que", "program"}
  BY DEF Programs!Kernel
<1>2. c.obj \in Seq(Programs!Arrays) \X Programs!Arrays /\ c.obj[1] = ins /\ c.obj[2] = y
  BY <1>1
<1>3. ~v.busy /\ v.held = h /\ v.data = d /\ v.phase = p
  BY DEF View
<1>4. w = View(v.held, [v.data EXCEPT ![c.obj[2]] =
                  Programs!Result([i \in DOMAIN c.obj[1] |-> v.data[c.obj[1][i]]])],
               c.on \subseteq v.held, v.phase)
  BY <1>1, <1>2, <1>3
<1> HIDE DEF c, v, w
<1>5. Follows(c, v, w)
  BY <1>1, <1>2, <1>3, <1>4 DEF Follows
<1> QED BY <1>5 DEF c, v, w

LEMMA CallWait ==
  ASSUME NEW h \in SUBSET Objects, NEW d \in Contents, NEW p \in Phases, NEW b \in BOOLEAN
  PROVE  Follows(Programs!Wait, View(h, d, b, p), View(h, d, FALSE, p))
BY DEF Follows, View, Programs!Wait

LEMMA CallCheck ==
  ASSUME NEW h \in SUBSET Objects, NEW d \in Contents, NEW p \in Phases,
         NEW x \in Programs!Arrays
  PROVE  Follows(Programs!Check(x, d[x]), View(h, d, FALSE, p), View(h, d, FALSE, p))
BY DEF Follows, View, Programs!Check

-----------------------------------------------------------------------------
(* What the scripts are made of.                                           *)

\* A buffer is filled, read back, compared and released.
LEMMA BufferRuns ==
  ASSUME NEW h \in SUBSET Objects, "DA" \notin h, NEW d \in Contents, d["a"] = Programs!A,
         NEW p \in Phases
  PROVE  \E e \in Contents :
           Runs(<<Programs!New("DA", {"ctx"}), Programs!Copy("a", "DA"), Programs!Copy("DA", "b"),
                  Programs!Check("b", Programs!A), Programs!Del("DA")>>,
                View(h, d, FALSE, p), View(h, e, FALSE, p))
<1> DEFINE H == h \cup {"DA"}
           d1 == [d EXCEPT !["DA"] = d["a"]]
           d2 == [d1 EXCEPT !["b"] = d1["DA"]]
<1>1. {"a", "b", "DA"} \subseteq Programs!Arrays
  BY DEF Programs!Arrays
<1>2. d1 \in Contents /\ d2 \in Contents /\ d2["b"] = Programs!A
  BY <1>1 DEF Contents
<1>3. H \in SUBSET Objects /\ H \ {"DA"} = h /\ "DA" \in H
  BY DEF Objects
<1>4. Follows(Programs!New("DA", {"ctx"}), View(h, d, FALSE, p), View(H, d, FALSE, p))
  BY CallNew DEF Objects
<1> HIDE DEF H
<1>5. Follows(Programs!Copy("a", "DA"), View(H, d, FALSE, p), View(H, d1, FALSE, p))
  BY <1>1, <1>3, CallCopy DEF Memory
<1> HIDE DEF d1
<1>6. Follows(Programs!Copy("DA", "b"), View(H, d1, FALSE, p), View(H, d2, FALSE, p))
  BY <1>1, <1>2, <1>3, CallCopy DEF Memory
<1> HIDE DEF d2
<1>7. Follows(Programs!Check("b", Programs!A), View(H, d2, FALSE, p), View(H, d2, FALSE, p))
  BY <1>1, <1>2, <1>3, CallCheck
<1>8. Follows(Programs!Del("DA"), View(H, d2, FALSE, p), View(h, d2, FALSE, p))
  BY <1>2, <1>3, CallDel
<1>9. View(h, d, FALSE, p) \in Views
  BY ViewType DEF Phases
<1> QED BY <1>2, <1>4, <1>5, <1>6, <1>7, <1>8, <1>9, RunsFive

\* The list of platforms is fetched, and c is done with it.
LEMMA PlatformsRun ==
  ASSUME NEW d \in Contents, NEW p \in Phases, NEW c,
         Follows(c, View({"ids"}, d, FALSE, "start"), View({"ids"}, d, FALSE, p))
  PROVE  Runs(<<Programs!Ask({}), Programs!New("ids", {}), Programs!Ask({}), c,
                Programs!Del("ids")>>,
              View({}, d, FALSE, "start"), View({}, d, FALSE, p))
<1>1. "ids" \in Objects /\ {} \cup {"ids"} = {"ids"} /\ {"ids"} \ {"ids"} = {} /\ "start" \in Phases
  BY DEF Objects, Phases
<1>2. View({}, d, FALSE, "start") \in Views /\ View({"ids"}, d, FALSE, "start") \in Views
  <2>1. {} \in SUBSET Objects /\ {"ids"} \in SUBSET Objects /\ FALSE \in BOOLEAN
    BY <1>1
  <2>2. "start" \in {"start", "found", "listed"}
    OBVIOUS
  <2> QED BY <2>1, <2>2, ViewType, Zenon
<1>3. Follows(Programs!New("ids", {}), View({}, d, FALSE, "start"), View({"ids"}, d, FALSE, "start"))
  <2>1. Follows(Programs!New("ids", {}), View({}, d, FALSE, "start"),
                View({} \cup {"ids"}, d, FALSE, "start"))
    BY <1>1, CallNew
  <2> QED BY <1>1, <2>1, Zenon
<1>4. Follows(Programs!Del("ids"), View({"ids"}, d, FALSE, p), View({}, d, FALSE, p))
  <2>1. Follows(Programs!Del("ids"), View({"ids"}, d, FALSE, p),
                View({"ids"} \ {"ids"}, d, FALSE, p))
    BY <1>1, CallDel
  <2> QED BY <1>1, <2>1, Zenon
<1>5. Follows(Programs!Ask({}), View({}, d, FALSE, "start"), View({}, d, FALSE, "start"))
  BY <1>2, CallAsk
<1>6. Follows(Programs!Ask({}), View({"ids"}, d, FALSE, "start"), View({"ids"}, d, FALSE, "start"))
  BY <1>2, CallAsk
<1> QED BY <1>2, <1>3, <1>4, <1>5, <1>6, RunsFive

\* A context and a queue are created from a list of devices.
LEMMA SetupRuns ==
  ASSUME NEW d \in Contents, NEW p \in Phases
  PROVE  Runs(<<Programs!New("ctx", {}), Programs!Ask({"ctx"}), Programs!New("devs", {}),
                Programs!Ask({"ctx"}), Programs!New("que", {"ctx"})>>,
              View({}, d, FALSE, p), View({"ctx", "devs", "que"}, d, FALSE, p))
<1> DEFINE h1 == {} \cup {"ctx"}
           h2 == h1 \cup {"devs"}
           h3 == h2 \cup {"que"}
           v0 == View({}, d, FALSE, p)
           v1 == View(h1, d, FALSE, p)
           v2 == View(h2, d, FALSE, p)
           v3 == View(h3, d, FALSE, p)
<1>1. /\ h1 \in SUBSET Objects /\ h2 \in SUBSET Objects /\ h3 = {"ctx", "devs", "que"}
      /\ "ctx" \in Objects /\ "devs" \in Objects \ h1 /\ "que" \in Objects \ h2
  BY DEF Objects
<1>2. v0 \in Views /\ v1 \in Views /\ v2 \in Views
  <2>1. {} \in SUBSET Objects /\ FALSE \in BOOLEAN /\ p \in {"start", "found", "listed"}
    BY DEF Phases
  <2> HIDE DEF h1, h2, h3
  <2>2. v0 \in Views
    BY <2>1, ViewType, Zenon
  <2>3. v1 \in Views
    BY <1>1, <2>1, ViewType, Zenon
  <2>4. v2 \in Views
    BY <1>1, <2>1, ViewType, Zenon
  <2> QED BY <2>2, <2>3, <2>4
<1>3. Follows(Programs!New("ctx", {}), v0, v1)
  BY <1>1, CallNew
<1> HIDE DEF h1, v0
<1>4. Follows(Programs!New("devs", {}), v1, v2)
  BY <1>1, CallNew
<1> HIDE DEF h2, v1
<1>5. Follows(Programs!New("que", {"ctx"}), v2, v3)
  BY <1>1, CallNew
<1>6. v3 = View({"ctx", "devs", "que"}, d, FALSE, p)
  BY <1>1, Zenon
<1> HIDE DEF h3, v2, v3
<1>7. Follows(Programs!Ask({"ctx"}), v1, v1) /\ Follows(Programs!Ask({"ctx"}), v2, v2)
  BY <1>2, CallAsk
<1>8. Runs(<<Programs!New("ctx", {}), Programs!Ask({"ctx"}), Programs!New("devs", {}),
             Programs!Ask({"ctx"}), Programs!New("que", {"ctx"})>>, v0, v3)
  BY <1>2, <1>3, <1>4, <1>5, <1>7, RunsFive
<1> QED BY <1>6, <1>8 DEF v0

\* Queue, context and devices are released.
LEMMA EndRuns ==
  ASSUME NEW d \in Contents, NEW p \in Phases
  PROVE  Runs(<<Programs!Ask({"que"}), Programs!Wait, Programs!Del("que"), Programs!Del("ctx"),
                Programs!Del("devs")>>,
              View({"ctx", "devs", "que"}, d, FALSE, p), View({}, d, FALSE, p))
<1> DEFINE h0 == {"ctx", "devs", "que"}
           h1 == h0 \ {"que"}
           h2 == h1 \ {"ctx"}
           h3 == h2 \ {"devs"}
           v0 == View(h0, d, FALSE, p)
           v1 == View(h1, d, FALSE, p)
           v2 == View(h2, d, FALSE, p)
           v3 == View(h3, d, FALSE, p)
<1>1. /\ h0 \in SUBSET Objects /\ h1 \in SUBSET Objects /\ h2 \in SUBSET Objects /\ h3 = {}
      /\ "que" \in h0 /\ "ctx" \in h1 /\ "devs" \in h2
  BY DEF Objects
<1>2. v0 \in Views
  <2>1. FALSE \in BOOLEAN /\ p \in {"start", "found", "listed"}
    BY DEF Phases
  <2> QED BY <1>1, <2>1, ViewType, Zenon
<1> HIDE DEF h0
<1>3. Follows(Programs!Ask({"que"}), v0, v0) /\ Follows(Programs!Wait, v0, v0)
  BY <1>1, <1>2, CallAsk, CallWait
<1>4. Follows(Programs!Del("que"), v0, v1)
  BY <1>1, CallDel
<1> HIDE DEF h1, v0
<1>5. Follows(Programs!Del("ctx"), v1, v2)
  BY <1>1, CallDel
<1> HIDE DEF h2, v1
<1>6. Follows(Programs!Del("devs"), v2, v3)
  BY <1>1, CallDel
<1>7. v3 = View({}, d, FALSE, p)
  BY <1>1, Zenon
<1> HIDE DEF v2, v3
<1>8. Runs(<<Programs!Ask({"que"}), Programs!Wait, Programs!Del("que"), Programs!Del("ctx"),
             Programs!Del("devs")>>, v0, v3)
  BY <1>2, <1>3, <1>4, <1>5, <1>6, RunsFive
<1> QED BY <1>7, <1>8 DEF v0, h0

\* A platform is chosen, a context and a queue are created.
LEMMA OpenRuns ==
  ASSUME NEW d \in Contents, NEW r \in Rules
  PROVE  /\ Runs(<<Programs!Select(r), Programs!New("ctx", {}), Programs!New("que", {"ctx"})>>,
                 View({}, d, FALSE, "start"), View({"ctx", "que"}, d, FALSE, "found"))
         /\ Runs(<<Programs!Select(r), Programs!Ask({}), Programs!New("ctx", {}),
                   Programs!New("que", {"ctx"})>>,
                 View({}, d, FALSE, "start"), View({"ctx", "que"}, d, FALSE, "found"))
<1> DEFINE h0 == {}
           h1 == h0 \cup {"ctx"}
           h2 == h1 \cup {"que"}
           v0 == View(h0, d, FALSE, "start")
           v1 == View(h0, d, FALSE, "found")
           v2 == View(h1, d, FALSE, "found")
           v3 == View(h2, d, FALSE, "found")
<1>1. /\ h0 \in SUBSET Objects /\ h1 \in SUBSET Objects /\ h2 = {"ctx", "que"}
      /\ "ctx" \in Objects \ h0 /\ "que" \in Objects \ h1 /\ "found" \in Phases
  BY DEF Objects, Phases
<1> HIDE DEF h0
<1>2. v0 \in Views /\ v1 \in Views
  BY <1>1, ViewType DEF Phases
<1>3. Follows(Programs!Select(r), v0, v1) /\ Follows(Programs!Ask({}), v1, v1)
  BY <1>1, <1>2, CallSelect, CallAsk
<1>4. Follows(Programs!New("ctx", {}), v1, v2)
  BY <1>1, CallNew
<1> HIDE DEF h1, v0, v1
<1>5. Follows(Programs!New("que", {"ctx"}), v2, v3)
  BY <1>1, CallNew
<1> HIDE DEF h2, v2
<1>6. v3 = View({"ctx", "que"}, d, FALSE, "found")
  BY <1>1, Zenon
<1> HIDE DEF v3
<1>7. /\ Runs(<<Programs!Select(r), Programs!New("ctx", {}), Programs!New("que", {"ctx"})>>, v0, v3)
      /\ Runs(<<Programs!Select(r), Programs!Ask({}), Programs!New("ctx", {}),
                Programs!New("que", {"ctx"})>>, v0, v3)
  BY <1>2, <1>3, <1>4, <1>5, RunsThree, RunsFour
<1> QED BY <1>6, <1>7 DEF v0, h0

\* Queue and context are destroyed.
LEMMA CloseRuns ==
  ASSUME NEW d \in Contents, NEW p \in Phases
  PROVE  Runs(<<Programs!Del("que"), Programs!Del("ctx")>>,
              View({"ctx", "que"}, d, FALSE, p), View({}, d, FALSE, p))
<1> DEFINE h0 == {"ctx", "que"}
           h1 == h0 \ {"que"}
           h2 == h1 \ {"ctx"}
<1>1. h0 \in SUBSET Objects /\ h1 \in SUBSET Objects /\ h2 = {} /\ "que" \in h0 /\ "ctx" \in h1
  BY DEF Objects
<1> HIDE DEF h0
<1>2. View(h0, d, FALSE, p) \in Views
  <2>1. FALSE \in BOOLEAN /\ p \in {"start", "found", "listed"}
    BY DEF Phases
  <2> QED BY <1>1, <2>1, ViewType, Zenon
<1>3. Follows(Programs!Del("que"), View(h0, d, FALSE, p), View(h1, d, FALSE, p))
  BY <1>1, CallDel
<1> HIDE DEF h1
<1>4. Follows(Programs!Del("ctx"), View(h1, d, FALSE, p), View(h2, d, FALSE, p))
  BY <1>1, CallDel
<1> HIDE DEF h2
<1>5. Runs(<<Programs!Del("que"), Programs!Del("ctx")>>, View(h0, d, FALSE, p), View(h2, d, FALSE, p))
  BY <1>2, <1>3, <1>4, RunsTwo
<1> QED BY <1>1, <1>5 DEF h0

\* Questions change nothing.
LEMMA AskRuns ==
  ASSUME NEW v \in Views, NEW on
  PROVE  Runs(<<Programs!Ask(on)>>, v, v)
<1>1. Runs(<< >>, v, v) /\ <<Programs!Ask(on)>> = Append(<< >>, Programs!Ask(on))
  BY RunsNothing
<1> QED BY <1>1, CallAsk, RunsAppend, Zenon

Buffers == {"ctx", "que", "DA", "DB", "DC"}

\* Three buffers are created and two filled.
LEMMA LoadRuns ==
  ASSUME NEW d \in Contents, d["a"] = Programs!A, d["b"] = Programs!B, NEW p \in Phases
  PROVE  \E e \in Contents :
           /\ e["DA"] = Programs!A /\ e["DB"] = Programs!B
           /\ Runs(<<Programs!New("DA", {"ctx"}), Programs!New("DB", {"ctx"}),
                     Programs!New("DC", {"ctx"}), Programs!Copy("a", "DA"),
                     Programs!Copy("b", "DB")>>,
                   View({"ctx", "que"}, d, FALSE, p), View(Buffers, e, FALSE, p))
<1> DEFINE h0 == {"ctx", "que"}
           h1 == h0 \cup {"DA"}
           h2 == h1 \cup {"DB"}
           h3 == h2 \cup {"DC"}
           d1 == [d EXCEPT !["DA"] = d["a"]]
           d2 == [d1 EXCEPT !["DB"] = d1["b"]]
           v0 == View(h0, d, FALSE, p)
           v1 == View(h1, d, FALSE, p)
           v2 == View(h2, d, FALSE, p)
           v3 == View(h3, d, FALSE, p)
           v4 == View(h3, d1, FALSE, p)
           v5 == View(h3, d2, FALSE, p)
<1>1. /\ h0 \in SUBSET Objects /\ h1 \in SUBSET Objects /\ h2 \in SUBSET Objects
      /\ h3 = Buffers /\ h3 \in SUBSET Objects
      /\ "DA" \in Objects \ h0 /\ "DB" \in Objects \ h1 /\ "DC" \in Objects \ h2
  BY DEF Objects, Buffers
<1>2. v0 \in Views
  <2>1. FALSE \in BOOLEAN /\ p \in {"start", "found", "listed"}
    BY DEF Phases
  <2> QED BY <1>1, <2>1, ViewType, Zenon
<1>3. {"a", "b", "DA", "DB"} \subseteq Programs!Arrays
  BY DEF Programs!Arrays
<1>4. /\ d1 \in Contents /\ d2 \in Contents
      /\ d2["DA"] = Programs!A /\ d2["DB"] = Programs!B
  BY <1>3 DEF Contents
<1>5. {"a", "DA"} \subseteq h3 \cup Memory /\ {"b", "DB"} \subseteq h3 \cup Memory
  BY DEF Memory
<1> HIDE DEF h0
<1>6. Follows(Programs!New("DA", {"ctx"}), v0, v1)
  BY <1>1, CallNew
<1> HIDE DEF h1, v0
<1>7. Follows(Programs!New("DB", {"ctx"}), v1, v2)
  BY <1>1, CallNew
<1> HIDE DEF h2, v1
<1>8. Follows(Programs!New("DC", {"ctx"}), v2, v3)
  BY <1>1, CallNew
<1> HIDE DEF h3, v2
<1>9. Follows(Programs!Copy("a", "DA"), v3, v4)
  BY <1>1, <1>3, <1>5, CallCopy
<1> HIDE DEF d1, v3
<1>10. Follows(Programs!Copy("b", "DB"), v4, v5)
  BY <1>1, <1>3, <1>4, <1>5, CallCopy
<1> HIDE DEF d2, v4
<1>11. v5 = View(Buffers, d2, FALSE, p)
  BY <1>1, Zenon
<1> HIDE DEF v5
<1>12. Runs(<<Programs!New("DA", {"ctx"}), Programs!New("DB", {"ctx"}),
              Programs!New("DC", {"ctx"}), Programs!Copy("a", "DA"),
              Programs!Copy("b", "DB")>>, v0, v5)
  BY <1>2, <1>6, <1>7, <1>8, <1>9, <1>10, RunsFive
<1> QED BY <1>4, <1>11, <1>12 DEF v0, h0

\* The three are released.
LEMMA ReleaseRuns ==
  ASSUME NEW d \in Contents, NEW p \in Phases
  PROVE  Runs(<<Programs!Del("DC"), Programs!Del("DB"), Programs!Del("DA")>>,
              View(Buffers, d, FALSE, p), View({"ctx", "que"}, d, FALSE, p))
<1> DEFINE h0 == Buffers
           h1 == h0 \ {"DC"}
           h2 == h1 \ {"DB"}
           h3 == h2 \ {"DA"}
           v0 == View(h0, d, FALSE, p)
           v1 == View(h1, d, FALSE, p)
           v2 == View(h2, d, FALSE, p)
           v3 == View(h3, d, FALSE, p)
<1>1. /\ h0 \in SUBSET Objects /\ h1 \in SUBSET Objects /\ h2 \in SUBSET Objects
      /\ h3 = {"ctx", "que"} /\ "DC" \in h0 /\ "DB" \in h1 /\ "DA" \in h2
  BY DEF Objects, Buffers
<1> HIDE DEF h0
<1>2. v0 \in Views
  <2>1. FALSE \in BOOLEAN /\ p \in {"start", "found", "listed"}
    BY DEF Phases
  <2> QED BY <1>1, <2>1, ViewType, Zenon
<1>3. Follows(Programs!Del("DC"), v0, v1)
  BY <1>1, CallDel
<1> HIDE DEF h1, v0
<1>4. Follows(Programs!Del("DB"), v1, v2)
  BY <1>1, CallDel
<1> HIDE DEF h2, v1
<1>5. Follows(Programs!Del("DA"), v2, v3)
  BY <1>1, CallDel
<1>6. v3 = View({"ctx", "que"}, d, FALSE, p)
  BY <1>1, Zenon
<1> HIDE DEF v2, v3
<1>7. Runs(<<Programs!Del("DC"), Programs!Del("DB"), Programs!Del("DA")>>, v0, v3)
  BY <1>2, <1>3, <1>4, <1>5, RunsThree
<1> QED BY <1>6, <1>7 DEF v0, h0

\* A program is built and run on two buffers, and the third is read back.
LEMMA ComputeRuns ==
  ASSUME NEW d \in Contents, d["DA"] = Programs!A, d["DB"] = Programs!B, NEW p \in Phases
  PROVE  \E e \in Contents :
           /\ e["c"] = Programs!Result(<<Programs!A, Programs!B>>)
           /\ Runs(<<Programs!New("program", {"ctx"}), Programs!Kernel(<<"DA", "DB">>, "DC"),
                     Programs!Wait, Programs!Copy("DC", "c"), Programs!Del("program")>>,
                   View(Buffers, d, FALSE, p), View(Buffers, e, FALSE, p))
           /\ Runs(<<Programs!New("foreign", {}),
                     Programs!Kernel(<<"DA", "DB">>, "DC"),
                     Programs!Copy("DC", "c"), Programs!Del("foreign")>>,
                   View(Buffers, d, FALSE, p), View(Buffers, e, FALSE, p))
<1> DEFINE ins == <<"DA", "DB">>
           h == Buffers \cup {"program"}
           g == Buffers \cup {"foreign"}
           d1 == [d EXCEPT !["DC"] = Programs!Result([i \in DOMAIN ins |-> d[ins[i]]])]
           d2 == [d1 EXCEPT !["c"] = d1["DC"]]
<1>1. /\ Buffers \in SUBSET Objects /\ h \in SUBSET Objects /\ g \in SUBSET Objects
      /\ "program" \in Objects \ Buffers /\ "foreign" \in Objects \ Buffers
      /\ h \ {"program"} = Buffers /\ g \ {"foreign"} = Buffers
      /\ "program" \in h /\ "foreign" \in g
      /\ {"que", "program"} \subseteq h /\ ~({"que", "program"} \subseteq g)
      /\ "DA" \in h \cap g /\ "DB" \in h \cap g /\ "DC" \in h \cap g
  BY DEF Objects, Buffers
<1>2. {"DA", "DB", "DC", "c"} \subseteq Programs!Arrays
  BY DEF Programs!Arrays
<1>3. /\ ins \in Seq(Programs!Arrays) /\ DOMAIN ins = 1..2 /\ ins[1] = "DA" /\ ins[2] = "DB"
      /\ {Programs!A, Programs!B} \subseteq Plain
  BY <1>2 DEF Plain
<1>4. \A i \in DOMAIN ins : ins[i] \in h /\ ins[i] \in g /\ d[ins[i]] \in Plain
  <2>1. \A i \in DOMAIN ins : i = 1 \/ i = 2
    BY <1>3
  <2> HIDE DEF ins, h, g
  <2> QED BY <1>1, <1>3, <2>1
<1>5. [i \in DOMAIN ins |-> d[ins[i]]] = <<Programs!A, Programs!B>>
  BY <1>3
<1>6. d1 = [d EXCEPT !["DC"] = Programs!Result(<<Programs!A, Programs!B>>)]
  BY <1>5, Zenon
<1>7. Programs!Result(<<Programs!A, Programs!B>>) \in Values
  <2>1. <<Programs!A, Programs!B>> \in Seq(Plain)
    BY <1>3
  <2> QED BY <2>1 DEF Values
<1>8. d1 \in Contents /\ d1["DC"] = Programs!Result(<<Programs!A, Programs!B>>)
  <2> HIDE DEF d1
  <2> QED BY <1>2, <1>6, <1>7 DEF Contents
<1>9. Follows(Programs!Kernel(ins, "DC"), View(h, d, FALSE, p), View(h, d1, TRUE, p))
  <2> DEFINE b == {"que", "program"} \subseteq h
  <2>1. b = TRUE
    BY <1>1
  <2> HIDE DEF ins, h
  <2>2. Follows(Programs!Kernel(ins, "DC"), View(h, d, FALSE, p), View(h, d1, b, p))
    BY <1>1, <1>2, <1>3, <1>4, CallKernel
  <2> QED BY <2>1, <2>2, Zenon
<1>10. Follows(Programs!Kernel(ins, "DC"), View(g, d, FALSE, p), View(g, d1, FALSE, p))
  <2> DEFINE b == {"que", "program"} \subseteq g
  <2>1. b = FALSE
    BY <1>1
  <2> HIDE DEF ins, g
  <2>2. Follows(Programs!Kernel(ins, "DC"), View(g, d, FALSE, p), View(g, d1, b, p))
    BY <1>1, <1>2, <1>3, <1>4, CallKernel
  <2> QED BY <2>1, <2>2, Zenon
<1>11. /\ Follows(Programs!New("program", {"ctx"}), View(Buffers, d, FALSE, p), View(h, d, FALSE, p))
       /\ Follows(Programs!New("foreign", {}), View(Buffers, d, FALSE, p),
                  View(g, d, FALSE, p))
  BY <1>1, CallNew
<1> HIDE DEF ins, h, g, d1
<1>12. d2 \in Contents /\ d2["c"] = Programs!Result(<<Programs!A, Programs!B>>)
  BY <1>2, <1>8 DEF Contents
<1>13. /\ Follows(Programs!Copy("DC", "c"), View(h, d1, FALSE, p), View(h, d2, FALSE, p))
       /\ Follows(Programs!Copy("DC", "c"), View(g, d1, FALSE, p), View(g, d2, FALSE, p))
  <2>1. {"DC", "c"} \subseteq h \cup Memory /\ {"DC", "c"} \subseteq g \cup Memory
    BY <1>1 DEF Memory
  <2>2. "DC" \in Programs!Arrays /\ "c" \in Programs!Arrays
    BY <1>2
  <2> QED BY <1>1, <1>8, <2>1, <2>2, CallCopy
<1> HIDE DEF d2
<1>14. /\ Follows(Programs!Del("program"), View(h, d2, FALSE, p), View(Buffers, d2, FALSE, p))
       /\ Follows(Programs!Del("foreign"), View(g, d2, FALSE, p), View(Buffers, d2, FALSE, p))
  BY <1>1, <1>12, CallDel
<1>15. Follows(Programs!Wait, View(h, d1, TRUE, p), View(h, d1, FALSE, p))
  <2>1. TRUE \in BOOLEAN
    OBVIOUS
  <2> QED BY <1>1, <1>8, <2>1, CallWait
<1>16. View(Buffers, d, FALSE, p) \in Views
  BY <1>1, ViewType DEF Phases
<1>17. Runs(<<Programs!New("program", {"ctx"}), Programs!Kernel(ins, "DC"),
              Programs!Wait, Programs!Copy("DC", "c"), Programs!Del("program")>>,
            View(Buffers, d, FALSE, p), View(Buffers, d2, FALSE, p))
  BY <1>9, <1>11, <1>13, <1>14, <1>15, <1>16, RunsFive
<1>18. Runs(<<Programs!New("foreign", {}), Programs!Kernel(ins, "DC"),
              Programs!Copy("DC", "c"), Programs!Del("foreign")>>,
            View(Buffers, d, FALSE, p), View(Buffers, d2, FALSE, p))
  BY <1>10, <1>11, <1>13, <1>14, <1>16, RunsFour
<1> QED BY <1>12, <1>17, <1>18 DEF ins

\* The histogram: one buffer is filled, a program is built and run on it, another
\* is read back, and all are released.
LEMMA CountRuns ==
  ASSUME NEW d \in Contents, d["a"] = Programs!A, NEW p \in Phases
  PROVE  \E e \in Contents :
           /\ e["c"] = Programs!Result(<<Programs!A>>)
           /\ Runs(Programs!OclApp_hist,
                   View({"ctx", "que"}, d, FALSE, p), View({"ctx", "que"}, e, FALSE, p))
<1> DEFINE ins == <<"DA">>
           h0 == {"ctx", "que"}
           h1 == h0 \cup {"DA"}
           h2 == h1 \cup {"DC"}
           h3 == h2 \cup {"program"}
           d1 == [d EXCEPT !["DA"] = d["a"]]
           d2 == [d1 EXCEPT !["DC"] = Programs!Result([i \in DOMAIN ins |-> d1[ins[i]]])]
           d3 == [d2 EXCEPT !["c"] = d2["DC"]]
<1>1. /\ h0 \in SUBSET Objects /\ h1 \in SUBSET Objects /\ h2 \in SUBSET Objects
      /\ h3 \in SUBSET Objects
      /\ "DA" \in Objects \ h0 /\ "DC" \in Objects \ h1 /\ "program" \in Objects \ h2
      /\ h3 \ {"program"} = h2 /\ h2 \ {"DC"} = h1 /\ h1 \ {"DA"} = h0
      /\ "program" \in h3 /\ {"que", "program"} \subseteq h3
      /\ "DA" \in h3 /\ "DC" \in h3 /\ "DC" \in h2 /\ "DA" \in h2 /\ "DA" \in h1
  BY DEF Objects
<1>2. "a" \in Programs!Arrays /\ "DA" \in Programs!Arrays /\ "DC" \in Programs!Arrays
      /\ "c" \in Programs!Arrays
  BY DEF Programs!Arrays
<1>3. d1 \in Contents /\ d1["DA"] = Programs!A
  BY <1>2 DEF Contents
<1>4. View(h0, d, FALSE, p) \in Views
  BY <1>1, ViewType DEF Phases
<1> HIDE DEF h0
<1>5. Follows(Programs!New("DA", {"ctx"}), View(h0, d, FALSE, p), View(h1, d, FALSE, p))
  BY <1>1, CallNew
<1> HIDE DEF h1
<1>6. Follows(Programs!New("DC", {"ctx"}), View(h1, d, FALSE, p), View(h2, d, FALSE, p))
  BY <1>1, CallNew
<1> HIDE DEF h2
<1>7. Follows(Programs!Copy("a", "DA"), View(h2, d, FALSE, p), View(h2, d1, FALSE, p))
  <2>1. {"a", "DA"} \subseteq h2 \cup Memory
    BY <1>1 DEF Memory
  <2> QED BY <1>1, <1>2, <2>1, CallCopy
<1> HIDE DEF d1
<1>8. Follows(Programs!New("program", {"ctx"}), View(h2, d1, FALSE, p), View(h3, d1, FALSE, p))
  BY <1>1, <1>3, CallNew
<1> HIDE DEF h3
<1>9. /\ ins \in Seq(Programs!Arrays) /\ DOMAIN ins = 1..1 /\ ins[1] = "DA"
      /\ Programs!A \in Plain
  BY <1>2 DEF Plain
<1>10. \A i \in DOMAIN ins : ins[i] \in h3 /\ d1[ins[i]] \in Plain
  BY <1>1, <1>3, <1>9
<1>11. [i \in DOMAIN ins |-> d1[ins[i]]] = <<Programs!A>>
  BY <1>3, <1>9
<1>12. d2 = [d1 EXCEPT !["DC"] = Programs!Result(<<Programs!A>>)]
  BY <1>11, Zenon
<1>13. Programs!Result(<<Programs!A>>) \in Values
  <2>1. <<Programs!A>> \in Seq(Plain)
    BY <1>9
  <2> QED BY <2>1 DEF Values
<1>14. d2 \in Contents /\ d2["DC"] = Programs!Result(<<Programs!A>>)
  <2> HIDE DEF d2
  <2> QED BY <1>2, <1>3, <1>12, <1>13 DEF Contents
<1>15. Follows(Programs!Kernel(ins, "DC"), View(h3, d1, FALSE, p), View(h3, d2, TRUE, p))
  <2> DEFINE b == {"que", "program"} \subseteq h3
  <2>1. b = TRUE
    BY <1>1
  <2> HIDE DEF ins
  <2>2. Follows(Programs!Kernel(ins, "DC"), View(h3, d1, FALSE, p), View(h3, d2, b, p))
    BY <1>1, <1>2, <1>3, <1>9, <1>10, CallKernel
  <2> QED BY <2>1, <2>2, Zenon
<1> HIDE DEF ins, d2
<1>16. Follows(Programs!Wait, View(h3, d2, TRUE, p), View(h3, d2, FALSE, p))
  <2>1. TRUE \in BOOLEAN
    OBVIOUS
  <2> QED BY <1>1, <1>14, <2>1, CallWait
<1>17. d3 \in Contents /\ d3["c"] = Programs!Result(<<Programs!A>>)
  BY <1>2, <1>14 DEF Contents
<1>18. Follows(Programs!Copy("DC", "c"), View(h3, d2, FALSE, p), View(h3, d3, FALSE, p))
  <2>1. {"DC", "c"} \subseteq h3 \cup Memory
    BY <1>1 DEF Memory
  <2> QED BY <1>1, <1>2, <1>14, <2>1, CallCopy
<1> HIDE DEF d3
<1>19. Follows(Programs!Del("program"), View(h3, d3, FALSE, p), View(h3 \ {"program"}, d3, FALSE, p))
  BY <1>1, <1>17, CallDel
<1>20. Follows(Programs!Del("DC"), View(h2, d3, FALSE, p), View(h2 \ {"DC"}, d3, FALSE, p))
  BY <1>1, <1>17, CallDel
<1>21. Follows(Programs!Del("DA"), View(h1, d3, FALSE, p), View(h1 \ {"DA"}, d3, FALSE, p))
  BY <1>1, <1>17, CallDel
<1>22. Runs(<<Programs!New("DA", {"ctx"}), Programs!New("DC", {"ctx"}), Programs!Copy("a", "DA"),
              Programs!New("program", {"ctx"}), Programs!Kernel(ins, "DC")>>,
            View(h0, d, FALSE, p), View(h3, d2, TRUE, p))
  BY <1>4, <1>5, <1>6, <1>7, <1>8, <1>15, RunsFive
<1>23. Runs(<<Programs!Wait, Programs!Copy("DC", "c"), Programs!Del("program"),
              Programs!Del("DC"), Programs!Del("DA")>>,
            View(h3, d2, TRUE, p), View(h0, d3, FALSE, p))
  <2>1. View(h3, d2, TRUE, p) \in Views
    <3>1. TRUE \in BOOLEAN
      OBVIOUS
    <3> QED BY <3>1, <1>1, <1>14, ViewType DEF Phases
  <2>2. /\ Follows(Programs!Del("program"), View(h3, d3, FALSE, p), View(h2, d3, FALSE, p))
        /\ Follows(Programs!Del("DC"), View(h2, d3, FALSE, p), View(h1, d3, FALSE, p))
        /\ Follows(Programs!Del("DA"), View(h1, d3, FALSE, p), View(h0, d3, FALSE, p))
    BY <1>1, <1>19, <1>20, <1>21, Zenon
  <2> QED BY <1>16, <1>18, <2>1, <2>2, RunsFive
<1>24. Programs!OclApp_hist =
         <<Programs!New("DA", {"ctx"}), Programs!New("DC", {"ctx"}), Programs!Copy("a", "DA"),
           Programs!New("program", {"ctx"}), Programs!Kernel(ins, "DC")>>
         \o <<Programs!Wait, Programs!Copy("DC", "c"), Programs!Del("program"),
              Programs!Del("DC"), Programs!Del("DA")>>
  BY DEF Programs!OclApp_hist, ins
<1>25. Runs(Programs!OclApp_hist, View(h0, d, FALSE, p), View(h0, d3, FALSE, p))
  BY <1>22, <1>23, <1>24, RunsJoined, Zenon
<1> QED BY <1>17, <1>25 DEF h0

-----------------------------------------------------------------------------
(* The scripts as a whole.                                                 *)

Given == [x \in Programs!Arrays |-> IF x = "a" THEN Programs!A
                                   ELSE IF x = "b" THEN Programs!B ELSE << >>]
Start == View({}, Given, FALSE, "start")

InOrder(s, p) == \E d \in Contents : Runs(s, Start, View({}, d, FALSE, p))

\* What the arrays hold at first.
LEMMA GivenContents ==
  /\ Given \in Contents /\ Given["a"] = Programs!A /\ Given["b"] = Programs!B
BY DEF Given, Contents, Values, Plain, Programs!Arrays

\* cl_justbuf.c and its archived version.
LEMMA JustbufsC ==
  InOrder(Programs!justbuf_c, "found") /\ InOrder(Programs!old_justbuf_c, "found")
<1> DEFINE h == {"ctx", "devs", "que"}
           d == Given
           select == View({}, d, FALSE, "found")
           setup == <<Programs!New("ctx", {}), Programs!Ask({"ctx"}), Programs!New("devs", {}),
                      Programs!Ask({"ctx"}), Programs!New("que", {"ctx"})>>
           process == <<Programs!New("DA", {"ctx"}), Programs!Copy("a", "DA"),
                        Programs!Copy("DA", "b"), Programs!Check("b", Programs!A),
                        Programs!Del("DA")>>
           ends == <<Programs!Ask({"que"}), Programs!Wait, Programs!Del("que"),
                     Programs!Del("ctx"), Programs!Del("devs")>>
<1>1. d \in Contents /\ d["a"] = Programs!A
  BY GivenContents
<1>2. h \in SUBSET Objects /\ "DA" \notin h
  BY DEF Objects
<1> HIDE DEF d
<1>3. PICK e \in Contents : Runs(process, View(h, d, FALSE, "found"), View(h, e, FALSE, "found"))
  <2> HIDE DEF h
  <2> QED BY <1>1, <1>2, BufferRuns DEF Phases
<1>4. Runs(setup, select, View(h, d, FALSE, "found"))
  BY <1>1, SetupRuns DEF Phases
<1>5. Runs(ends, View(h, e, FALSE, "found"), View({}, e, FALSE, "found"))
  BY EndRuns DEF Phases
<1>6. Runs(Programs!justbuf_select, Start, select)
  <2>1. Follows(Programs!Select("full"), View({"ids"}, d, FALSE, "start"),
                View({"ids"}, d, FALSE, "found"))
    BY <1>1, CallSelect DEF Objects, Rules
  <2>2. "found" \in Phases
    BY DEF Phases
  <2> QED BY <1>1, <2>1, <2>2, PlatformsRun DEF Programs!justbuf_select, Start, d
<1>7. Runs(<<Programs!Select("default")>>, Start, select)
  <2>1. Follows(Programs!Select("default"), Start, select)
    BY <1>1, CallSelect DEF Objects, Rules, Start, d
  <2>2. Start \in Views
    BY <1>1, ViewType DEF Start, d
  <2>3. Runs(<< >>, Start, Start)
    BY <2>2, RunsNothing
  <2>4. Append(<< >>, Programs!Select("default")) = <<Programs!Select("default")>>
    OBVIOUS
  <2> QED BY <2>1, <2>3, <2>4, RunsAppend, Zenon
<1> HIDE DEF select, h
<1>8. ASSUME NEW s, Runs(s, Start, select) PROVE InOrder(s \o setup \o process \o ends, "found")
  <2> HIDE DEF setup, process, ends
  <2>1. Runs(s \o setup, Start, View(h, d, FALSE, "found"))
    BY <1>4, <1>8, RunsJoined
  <2>2. Runs(s \o setup \o process, Start, View(h, e, FALSE, "found"))
    BY <1>3, <2>1, RunsJoined
  <2>3. Runs(s \o setup \o process \o ends, Start, View({}, e, FALSE, "found"))
    BY <1>5, <2>2, RunsJoined
  <2> QED BY <2>3 DEF InOrder
<1>9. Programs!justbuf_c = Programs!justbuf_select \o setup \o process \o ends
  BY DEF Programs!justbuf_c, Programs!justbuf_process
<1>10. Programs!old_justbuf_c = <<Programs!Select("default")>> \o setup \o process \o ends
  BY DEF Programs!old_justbuf_c, Programs!old_justbuf_process
<1> HIDE DEF setup, process, ends
<1>11. InOrder(Programs!justbuf_select \o setup \o process \o ends, "found")
  BY <1>6, <1>8
<1>12. InOrder(<<Programs!Select("default")>> \o setup \o process \o ends, "found")
  BY <1>7, <1>8
<1> QED BY <1>9, <1>10, <1>11, <1>12, Zenon

Opened(d) == View({"ctx", "que"}, d, FALSE, "found")

\* Contexts with a queue are views.
LEMMA OpenedType ==
  ASSUME NEW d \in Contents
  PROVE  Opened(d) \in Views
<1>1. {"ctx", "que"} \in SUBSET Objects /\ FALSE \in BOOLEAN
  BY DEF Objects
<1>2. "found" \in {"start", "found", "listed"}
  OBVIOUS
<1> QED BY <1>1, <1>2, ViewType, Zenon DEF Opened

\* What begins and what ends the programs in C++.
LEMMA Openings ==
  ASSUME NEW r \in Rules, NEW on
  PROVE  LET open == <<Programs!Select(r), Programs!New("ctx", {}), Programs!New("que", {"ctx"})>>
             first == <<Programs!Select(r), Programs!Ask({}), Programs!New("ctx", {}),
                        Programs!New("que", {"ctx"})>>
         IN  /\ Runs(first, Start, Opened(Given))
             /\ Runs(open, Start, Opened(Given))
             /\ Runs(open \o <<Programs!Ask(on)>>, Start, Opened(Given))
             /\ Runs(<<Programs!Ask({})>> \o (open \o <<Programs!Ask({})>> \o <<Programs!Ask({})>>),
                     Start, Opened(Given))
<1> DEFINE open == <<Programs!Select(r), Programs!New("ctx", {}), Programs!New("que", {"ctx"})>>
           first == <<Programs!Select(r), Programs!Ask({}), Programs!New("ctx", {}),
                      Programs!New("que", {"ctx"})>>
           ask == <<Programs!Ask({})>>
<1>1. Runs(open, Start, Opened(Given)) /\ Runs(first, Start, Opened(Given))
  BY GivenContents, OpenRuns DEF Start, Opened
<1>2. Start \in Views /\ Opened(Given) \in Views
  BY GivenContents, ViewType, OpenedType DEF Start
<1> HIDE DEF open, first
<1>3. /\ Runs(ask, Start, Start) /\ Runs(ask, Opened(Given), Opened(Given))
      /\ Runs(<<Programs!Ask(on)>>, Opened(Given), Opened(Given))
  BY <1>2, AskRuns
<1> HIDE DEF ask
<1>4. Runs(open \o <<Programs!Ask(on)>>, Start, Opened(Given))
  BY <1>1, <1>3, RunsJoined
<1>5. Runs(open \o ask, Start, Opened(Given))
  BY <1>1, <1>3, RunsJoined
<1>6. Runs(open \o ask \o ask, Start, Opened(Given))
  BY <1>3, <1>5, RunsJoined
<1>7. Runs(ask \o (open \o ask \o ask), Start, Opened(Given))
  BY <1>3, <1>6, RunsJoined
<1> QED BY <1>1, <1>4, <1>7 DEF open, first, ask

LEMMA Closings ==
  ASSUME NEW d \in Contents, NEW m, d["c"] = m
  PROVE  /\ Runs(<<Programs!Del("que"), Programs!Del("ctx")>>, Opened(d), View({}, d, FALSE, "found"))
         /\ Runs(<<Programs!Check("c", m), Programs!Del("que"), Programs!Del("ctx")>>,
                 Opened(d), View({}, d, FALSE, "found"))
         /\ Runs(<<Programs!Ask({"que"}), Programs!Check("c", m), Programs!Del("que"),
                   Programs!Del("ctx")>>,
                 Opened(d), View({}, d, FALSE, "found"))
<1> DEFINE close == <<Programs!Del("que"), Programs!Del("ctx")>>
           check == <<Programs!Check("c", m)>>
           ask == <<Programs!Ask({"que"})>>
<1>1. Runs(close, Opened(d), View({}, d, FALSE, "found"))
  BY CloseRuns DEF Opened, Phases
<1>2. Runs(ask, Opened(d), Opened(d))
  BY OpenedType, AskRuns
<1>3. Runs(check, Opened(d), Opened(d))
  <2>1. {"ctx", "que"} \in SUBSET Objects /\ "found" \in Phases /\ "c" \in Programs!Arrays
    BY DEF Objects, Phases, Programs!Arrays
  <2>2. Follows(Programs!Check("c", m), Opened(d), Opened(d))
    BY <2>1, CallCheck DEF Opened
  <2>3. Runs(<< >>, Opened(d), Opened(d)) /\ Append(<< >>, Programs!Check("c", m)) = check
    BY OpenedType, RunsNothing
  <2> QED BY <2>2, <2>3, RunsAppend, Zenon
<1>4. /\ check \o close = <<Programs!Check("c", m), Programs!Del("que"), Programs!Del("ctx")>>
      /\ ask \o (check \o close) = <<Programs!Ask({"que"}), Programs!Check("c", m),
                                     Programs!Del("que"), Programs!Del("ctx")>>
  <2>1. <<Programs!Check("c", m), Programs!Del("que"), Programs!Del("ctx")>> = check \o close
    OBVIOUS
  <2>2. <<Programs!Ask({"que"}), Programs!Check("c", m), Programs!Del("que"), Programs!Del("ctx")>>
          = ask \o <<Programs!Check("c", m), Programs!Del("que"), Programs!Del("ctx")>>
    OBVIOUS
  <2> QED BY <2>1, <2>2, Zenon
<1> DEFINE end == View({}, d, FALSE, "found")
<1> HIDE DEF close, check, ask, end
<1>5. Runs(check \o close, Opened(d), end)
  BY <1>1, <1>3, RunsJoined DEF end
<1>6. Runs(ask \o (check \o close), Opened(d), end)
  BY <1>2, <1>5, RunsJoined
<1>7. Runs(close, Opened(d), end)
  BY <1>1 DEF end
<1> QED BY <1>4, <1>5, <1>6, <1>7, Zenon DEF end, close

\* A program that begins, computes and ends in order is in order.
LEMMA ThreeParts ==
  ASSUME NEW s, NEW r, NEW q, NEW e \in Contents,
         Runs(s, Start, Opened(Given)), Runs(r, Opened(Given), Opened(e)),
         Runs(q, Opened(e), View({}, e, FALSE, "found"))
  PROVE  InOrder(s \o r \o q, "found")
<1>1. Runs(s \o r, Start, Opened(e))
  BY RunsJoined
<1>2. Runs(s \o r \o q, Start, View({}, e, FALSE, "found"))
  BY <1>1, RunsJoined
<1> QED BY <1>2 DEF InOrder

\* cl_justbuf.cc and its archived version.
LEMMA JustbufsCxx ==
  InOrder(Programs!justbuf_cc, "found") /\ InOrder(Programs!old_justbuf_cc, "found")
<1> DEFINE process == <<Programs!New("DA", {"ctx"}), Programs!Copy("a", "DA"),
                        Programs!Copy("DA", "b"), Programs!Check("b", Programs!A),
                        Programs!Del("DA")>>
           close == <<Programs!Del("que"), Programs!Del("ctx")>>
           first == <<Programs!Select("gpu"), Programs!Ask({}), Programs!New("ctx", {}),
                      Programs!New("que", {"ctx"})>>
           open == <<Programs!Select("type"), Programs!New("ctx", {}),
                     Programs!New("que", {"ctx"})>>
           ask == <<Programs!Ask({"ctx"})>>
<1>1. PICK e \in Contents : Runs(process, Opened(Given), Opened(e))
  <2> DEFINE h == {"ctx", "que"}
  <2>1. h \in SUBSET Objects /\ "DA" \notin h
    BY DEF Objects
  <2> HIDE DEF h
  <2>2. \E e \in Contents : Runs(process, View(h, Given, FALSE, "found"), View(h, e, FALSE, "found"))
    BY <2>1, GivenContents, BufferRuns DEF Phases
  <2> QED BY <2>2 DEF h, Opened
<1>2. Runs(close, Opened(e), View({}, e, FALSE, "found"))
  BY Closings
<1>3. Runs(first, Start, Opened(Given)) /\ Runs(open \o ask, Start, Opened(Given))
  BY Openings DEF Rules
<1>4. Programs!justbuf_cc = first \o process \o close
  BY DEF Programs!justbuf_cc
<1>5. Programs!old_justbuf_cc = (open \o ask) \o process \o close
  <2>1. Programs!ocl_ctx_t = open \o ask
    BY DEF Programs!ocl_ctx_t
  <2>2. Programs!old_justbuf_cc = Programs!ocl_ctx_t \o process \o close
    BY DEF Programs!old_justbuf_cc, Programs!ocl_ctx_process
  <2> QED BY <2>1, <2>2, Zenon
<1> HIDE DEF process, close, first, open, ask
<1>6. InOrder(first \o process \o close, "found")
  BY <1>1, <1>2, <1>3, ThreeParts
<1>7. InOrder((open \o ask) \o process \o close, "found")
  BY <1>1, <1>2, <1>3, ThreeParts
<1> QED BY <1>4, <1>5, <1>6, <1>7, Zenon

\* The computations on three buffers.
LEMMA Computations ==
  \E e \in Contents :
    /\ e["c"] = Programs!Result(<<Programs!A, Programs!B>>)
    /\ Runs(Programs!vadd, Opened(Given), Opened(e))
    /\ Runs(Programs!mmult, Opened(Given), Opened(e))
    /\ Runs(Programs!old_vadd, Opened(Given), Opened(e))
<1> DEFINE load == <<Programs!New("DA", {"ctx"}), Programs!New("DB", {"ctx"}),
                     Programs!New("DC", {"ctx"}), Programs!Copy("a", "DA"),
                     Programs!Copy("b", "DB")>>
           compute == <<Programs!New("program", {"ctx"}), Programs!Kernel(<<"DA", "DB">>, "DC"),
                        Programs!Wait, Programs!Copy("DC", "c"), Programs!Del("program")>>
           foreign == <<Programs!New("foreign", {}),
                        Programs!Kernel(<<"DA", "DB">>, "DC"),
                        Programs!Copy("DC", "c"), Programs!Del("foreign")>>
           release == <<Programs!Del("DC"), Programs!Del("DB"), Programs!Del("DA")>>
<1>1. "found" \in Phases
  BY DEF Phases
<1>2. PICK d \in Contents :
        /\ d["DA"] = Programs!A /\ d["DB"] = Programs!B
        /\ Runs(load, Opened(Given), View(Buffers, d, FALSE, "found"))
  BY <1>1, GivenContents, LoadRuns DEF Opened
<1>3. PICK e \in Contents :
        /\ e["c"] = Programs!Result(<<Programs!A, Programs!B>>)
        /\ Runs(compute, View(Buffers, d, FALSE, "found"), View(Buffers, e, FALSE, "found"))
        /\ Runs(foreign, View(Buffers, d, FALSE, "found"), View(Buffers, e, FALSE, "found"))
  BY <1>1, <1>2, ComputeRuns
<1>4. Runs(release, View(Buffers, e, FALSE, "found"), Opened(e))
  BY <1>1, ReleaseRuns DEF Opened
<1>5. Programs!vadd = load \o compute \o release
  BY DEF Programs!vadd
<1>6. Programs!mmult = load \o compute \o release
  BY DEF Programs!mmult
<1>7. Programs!old_vadd = load \o foreign \o release
  BY DEF Programs!old_vadd
<1> HIDE DEF load, compute, foreign, release
<1>8. Runs(load \o compute, Opened(Given), View(Buffers, e, FALSE, "found"))
  BY <1>2, <1>3, RunsJoined
<1>9. Runs(load \o compute \o release, Opened(Given), Opened(e))
  BY <1>4, <1>8, RunsJoined
<1>10. Runs(load \o foreign, Opened(Given), View(Buffers, e, FALSE, "found"))
  BY <1>2, <1>3, RunsJoined
<1>11. Runs(load \o foreign \o release, Opened(Given), Opened(e))
  BY <1>4, <1>10, RunsJoined
<1> QED BY <1>3, <1>5, <1>6, <1>7, <1>9, <1>11, Zenon

\* cl_vectoradd.cc, its archived version and cl_gemm.cc.
LEMMA ProductScripts ==
  /\ InOrder(Programs!vectoradd, "found")
  /\ InOrder(Programs!old_vectoradd, "found")
  /\ InOrder(Programs!gemm, "found")
<1> DEFINE m == Programs!Result(<<Programs!A, Programs!B>>)
           open(r) == <<Programs!Select(r), Programs!New("ctx", {}), Programs!New("que", {"ctx"})>>
           ask == <<Programs!Ask({})>>
           close == <<Programs!Check("c", m), Programs!Del("que"), Programs!Del("ctx")>>
           asked == <<Programs!Ask({"que"}), Programs!Check("c", m), Programs!Del("que"),
                      Programs!Del("ctx")>>
<1>1. PICK e \in Contents :
        /\ e["c"] = m
        /\ Runs(Programs!vadd, Opened(Given), Opened(e))
        /\ Runs(Programs!mmult, Opened(Given), Opened(e))
        /\ Runs(Programs!old_vadd, Opened(Given), Opened(e))
  BY Computations
<1>2. /\ Runs(close, Opened(e), View({}, e, FALSE, "found"))
      /\ Runs(asked, Opened(e), View({}, e, FALSE, "found"))
  BY <1>1, Closings
<1>3. /\ Runs(open("gpu") \o ask, Start, Opened(Given))
      /\ Runs(open("vendor"), Start, Opened(Given))
      /\ Runs(ask \o (open("gemm") \o ask \o ask), Start, Opened(Given))
  BY Openings DEF Rules
<1>4. Programs!vectoradd = (open("gpu") \o ask) \o Programs!vadd \o close
  <2>1. Programs!vectoradd_app = open("gpu") \o ask
    BY DEF Programs!vectoradd_app
  <2> QED BY <2>1, Zenon DEF Programs!vectoradd, m, close
<1>5. Programs!old_vectoradd = open("vendor") \o Programs!old_vadd \o close
  BY Zenon DEF Programs!old_vectoradd
<1>6. Programs!gemm = (ask \o (open("gemm") \o ask \o ask)) \o Programs!mmult \o asked
  BY Zenon DEF Programs!gemm, Programs!readCfg, Programs!gemm_app, Programs!readFile
<1> HIDE DEF open, ask, close, asked
<1>7. InOrder((open("gpu") \o ask) \o Programs!vadd \o close, "found")
  BY <1>1, <1>2, <1>3, ThreeParts
<1>8. InOrder(open("vendor") \o Programs!old_vadd \o close, "found")
  BY <1>1, <1>2, <1>3, ThreeParts
<1>9. InOrder((ask \o (open("gemm") \o ask \o ask)) \o Programs!mmult \o asked, "found")
  BY <1>1, <1>2, <1>3, ThreeParts
<1> QED BY <1>4, <1>5, <1>6, <1>7, <1>8, <1>9, Zenon

\* cl_hist.cc.
LEMMA HistogramScript == InOrder(Programs!hist, "found")
<1> DEFINE m == Programs!Result(<<Programs!A>>)
           open == <<Programs!Select("hist"), Programs!New("ctx", {}), Programs!New("que", {"ctx"})>>
           ask == <<Programs!Ask({})>>
           close == <<Programs!Ask({"que"}), Programs!Check("c", m), Programs!Del("que"),
                      Programs!Del("ctx")>>
<1>1. PICK e \in Contents : e["c"] = m /\ Runs(Programs!OclApp_hist, Opened(Given), Opened(e))
  BY GivenContents, CountRuns DEF Phases, Opened
<1>2. Runs(close, Opened(e), View({}, e, FALSE, "found"))
  BY <1>1, Closings
<1>3. Runs(ask \o (open \o ask \o ask), Start, Opened(Given))
  BY Openings DEF Rules
<1>4. Programs!hist = (ask \o (open \o ask \o ask)) \o Programs!OclApp_hist \o close
  BY Zenon DEF Programs!hist, Programs!hist_readCfg, Programs!hist_app, Programs!hist_readFile
<1> HIDE DEF open, ask, close
<1>5. InOrder((ask \o (open \o ask \o ask)) \o Programs!OclApp_hist \o close, "found")
  BY <1>1, <1>2, <1>3, ThreeParts
<1> QED BY <1>4, <1>5, Zenon

\* cl_platform.c and its archived version.
LEMMA ListingScripts ==
  InOrder(Programs!platform_c, "listed") /\ InOrder(Programs!old_platform_c, "listed")
<1> DEFINE list(r) == <<Programs!Ask({}), Programs!New("ids", {}), Programs!Ask({}),
                        Programs!List(r), Programs!Del("ids")>>
<1>1. ASSUME NEW r PROVE InOrder(list(r), "listed")
  <2>1. Follows(Programs!List(r), View({"ids"}, Given, FALSE, "start"),
                View({"ids"}, Given, FALSE, "listed"))
    BY GivenContents, CallList DEF Objects
  <2>2. Runs(list(r), Start, View({}, Given, FALSE, "listed"))
    BY <2>1, GivenContents, PlatformsRun DEF Phases, Start
  <2> QED BY <2>2, GivenContents DEF InOrder
<1>2. list("forgiving") = Programs!platform_c /\ list("strict") = Programs!old_platform_c
  BY DEF Programs!platform_c, Programs!old_platform_c, Programs!get_platforms,
         Programs!old_get_platforms
<1> HIDE DEF list
<1> QED BY <1>1, <1>2

Ending == IF kernel \in {"platform_c", "old_platform_c"} THEN "listed" ELSE "found"

\* Every script is in order and ends with nothing held.
LEMMA ScriptsInOrder ==
  ASSUME kernel \in Programs!InC \cup Programs!InCxx
  PROVE  InOrder(Programs!Script, Ending)
BY JustbufsC, JustbufsCxx, ProductScripts, HistogramScript, ListingScripts
   DEF Programs!Script, Programs!InC, Programs!InCxx, Ending

-----------------------------------------------------------------------------
(* CalledList of objects, and choices of platforms.                             *)

\* What is held, in either form.
LEMMA HeldElems ==
  ASSUME NEW S, NEW s \in Seq(S)
  PROVE  /\ Programs!ToSet(s) = Loops!Elems(s)
         /\ Programs!IsInjective(s) <=> Loops!Distinct(s)
<1>1. DOMAIN s = 1..Len(s)
  OBVIOUS
<1> QED BY <1>1 DEF Programs!ToSet, Loops!Elems, Programs!IsInjective, Loops!Distinct

\* The smallest of some numbers is one of them.
LEMMA MinIsMember ==
  ASSUME NEW I \in SUBSET Nat, I # {}
  PROVE  Programs!Min(I) \in I
<1>1. \E x \in I : \A y \in I : x <= y
  BY Loops!Smallest
<1> QED BY <1>1 DEF Programs!Min

\* Removing an element at a place closes the gap.
LEMMA RemoveAtIs ==
  ASSUME NEW S, NEW s \in Seq(S), NEW i \in 1..Len(s)
  PROVE  Programs!RemoveAt(s, i) = Loops!Removed(s, i)
<1> DEFINE p == SubSeq(s, 1, i - 1)
           q == SubSeq(s, i + 1, Len(s))
           n == Len(s)
<1>1. n \in Nat /\ i \in Nat /\ i >= 1 /\ i <= n
  OBVIOUS
<1>2. /\ p \in Seq(S) /\ Len(p) = i - 1
      /\ \A j \in 1..(i - 1) : p[j] = s[j]
  <2>1. \A j \in 1..(i - 1) : s[j] \in S
    BY <1>1
  <2> QED BY <1>1, <2>1, SubSeqProperties
<1>3. /\ q \in Seq(S) /\ Len(q) = n - i
      /\ \A j \in 1..(n - i) : q[j] = s[j + i]
  <2>1. \A j \in (i + 1)..n : s[j] \in S
    BY <1>1
  <2>2. /\ q \in Seq(S) /\ Len(q) = IF i + 1 <= n THEN n - (i + 1) + 1 ELSE 0
        /\ \A j \in 1..(n - (i + 1) + 1) : q[j] = s[i + 1 + j - 1]
    BY <1>1, <2>1, SubSeqProperties
  <2> HIDE DEF q
  <2> QED BY <1>1, <2>2
<1> HIDE DEF p, q
<1>4. /\ p \o q \in Seq(S) /\ Len(p \o q) = n - 1
      /\ \A j \in 1..(n - 1) : (p \o q)[j] = IF j < i THEN s[j] ELSE s[j + 1]
  <2>1. /\ p \o q \in Seq(S) /\ Len(p \o q) = Len(p) + Len(q)
        /\ \A j \in 1..(Len(p) + Len(q)) : (p \o q)[j] = IF j <= Len(p) THEN p[j] ELSE q[j - Len(p)]
    BY <1>2, <1>3, ConcatProperties
  <2>2. ASSUME NEW j \in 1..(n - 1)
        PROVE  (p \o q)[j] = IF j < i THEN s[j] ELSE s[j + 1]
    <3>1. CASE j < i
      BY <3>1, <2>1, <1>1, <1>2, <1>3
    <3>2. CASE j >= i
      <4> DEFINE m == j - (i - 1)
      <4>1. m \in 1..(n - i) /\ m + i = j + 1 /\ ~(j <= i - 1) /\ ~(j < i)
        <5>1. j \in Int /\ n \in Int /\ i \in Int /\ 1 <= j /\ j <= n - 1
          BY <1>1
        <5> QED BY <3>2, <5>1
      <4>2. j \in 1..(Len(p) + Len(q)) /\ Len(p) = i - 1
        BY <1>1, <1>2, <1>3
      <4>3. (p \o q)[j] = q[m]
        BY <2>1, <4>1, <4>2
      <4> HIDE DEF m, n
      <4>4. q[m] = s[m + i]
        BY <4>1, <1>3
      <4>5. m + i = j + 1 /\ ~(j < i)
        BY <4>1
      <4>6. (p \o q)[j] = s[j + 1]
        BY <4>3, <4>4, <4>5
      <4> QED BY <4>5, <4>6
    <3>3. j < i \/ j >= i
      <4>1. j \in Int /\ i \in Int
        BY <1>1
      <4> QED BY <4>1
    <3> QED BY <3>1, <3>2, <3>3, Zenon
  <2> QED BY <1>1, <1>2, <1>3, <2>1, <2>2
<1>5. Loops!Removed(s, i) \in Seq(S) /\ Len(Loops!Removed(s, i)) = n - 1
      /\ \A j \in 1..(n - 1) : Loops!Removed(s, i)[j] = IF j < i THEN s[j] ELSE s[j + 1]
  BY Loops!RemovedType DEF Loops!Removed
<1>6. p \o q = Loops!Removed(s, i)
  BY <1>4, <1>5, SeqEqual
<1> QED BY <1>6 DEF Programs!RemoveAt, p, q

\* Removing an object from a list that has it once.
LEMMA RemoveFirstIs ==
  ASSUME NEW S, NEW s \in Seq(S), Loops!Distinct(s), NEW e \in Loops!Elems(s)
  PROVE  /\ Programs!RemoveFirst(s, e) \in Seq(S)
         /\ Loops!Distinct(Programs!RemoveFirst(s, e))
         /\ Loops!Elems(Programs!RemoveFirst(s, e)) = Loops!Elems(s) \ {e}
<1> DEFINE I == {i \in 1..Len(s) : s[i] = e}
           m == Programs!Min(I)
<1>1. I \in SUBSET Nat /\ I # {} /\ \E i \in 1..Len(s) : s[i] = e
  BY DEF Loops!Elems
<1>2. m \in 1..Len(s) /\ s[m] = e
  BY <1>1, MinIsMember
<1>3. Programs!RemoveFirst(s, e) = Programs!RemoveAt(s, m)
  BY <1>1 DEF Programs!RemoveFirst, Programs!SelectInSeq
<1>4. Programs!RemoveFirst(s, e) = Loops!Removed(s, m)
  BY <1>2, <1>3, RemoveAtIs
<1> HIDE DEF m
<1> QED BY <1>2, <1>4, Loops!RemovedType, Loops!RemovedElems

\* Appending a new object.
LEMMA AppendIs ==
  ASSUME NEW S, NEW s \in Seq(S), Loops!Distinct(s), NEW e \in S, e \notin Loops!Elems(s)
  PROVE  /\ Append(s, e) \in Seq(S)
         /\ Loops!Distinct(Append(s, e))
         /\ Loops!Elems(Append(s, e)) = Loops!Elems(s) \cup {e}
<1> DEFINE r == Append(s, e)
<1>1. /\ Len(s) \in Nat /\ r \in Seq(S) /\ Len(r) = Len(s) + 1
      /\ \A i \in 1..Len(s) : r[i] = s[i]
      /\ r[Len(s) + 1] = e
  OBVIOUS
<1> HIDE DEF r
<1>2. \A i \in 1..Len(s) : s[i] # e
  BY DEF Loops!Elems
<1>3. Loops!Distinct(r)
  BY <1>1, <1>2 DEF Loops!Distinct
<1>4. Loops!Elems(r) = Loops!Elems(s) \cup {e}
  BY <1>1 DEF Loops!Elems
<1> QED BY <1>1, <1>3, <1>4 DEF r

\* What select_platform and its like find.
LEMMA PickFinds ==
  ASSUME APtr \in Seq(Programs!Platforms), Len(APtr) >= 1,
         Programs!Step.obj \in Rules, Programs!Pick # 0
  PROVE  Programs!Pick \in 1..Len(APtr) /\ APtr[Programs!Pick].gpus > 0
<1> DEFINE G == {i \in 1..Len(APtr) : APtr[i].gpus > 0}
           F == {i \in 1..Len(APtr) : APtr[i].full /\ APtr[i].gpus > 0}
           V == {i \in 1..Len(APtr) : APtr[i].vendor}
<1>1. Len(APtr) \in Nat /\ 1 \in 1..Len(APtr)
  OBVIOUS
<1>2. G # {} => Programs!Min(G) \in G
  <2>1. G \in SUBSET Nat
    BY <1>1
  <2> QED BY <2>1, MinIsMember
<1>3. F # {} => Programs!Min(F) \in F
  <2>1. F \in SUBSET Nat
    BY <1>1
  <2> QED BY <2>1, MinIsMember
<1>4. V # {} => Programs!Min(V) \in V
  <2>1. V \in SUBSET Nat
    BY <1>1
  <2> QED BY <2>1, MinIsMember
<1>5. CASE Programs!Step.obj \in {"gpu", "gemm", "hist", "type"}
  <2>1. Programs!Pick = IF G # {} THEN Programs!Min(G) ELSE 0
    BY <1>5 DEF Programs!Pick, Programs!select_platform, Programs!gemm_select_platform,
                Programs!hist_select_platform, Programs!context_of_type, Programs!SelectInSeq
  <2> QED BY <1>2, <2>1
<1>6. CASE Programs!Step.obj = "full"
  <2>1. Programs!Pick = IF F # {} THEN Programs!Min(F) ELSE 0
    BY <1>6 DEF Programs!Pick, Programs!select_full_platform, Programs!SelectInSeq
  <2> QED BY <1>3, <2>1
<1>7. CASE Programs!Step.obj = "vendor"
  <2> DEFINE first == IF V # {} THEN Programs!Min(V) ELSE 0
             default == IF first = 0 THEN 1 ELSE first
  <2>1. Programs!Pick = IF APtr[default].gpus > 0 THEN default ELSE 0
    BY <1>7 DEF Programs!Pick, Programs!ocl_selector, Programs!SelectInSeq
  <2>2. default \in 1..Len(APtr)
    BY <1>1, <1>4
  <2> HIDE DEF default
  <2> QED BY <2>1, <2>2
<1>8. CASE Programs!Step.obj = "default"
  BY <1>1, <1>8 DEF Programs!Pick, Programs!default_platform
<1> QED BY <1>5, <1>6, <1>7, <1>8 DEF Rules

-----------------------------------------------------------------------------
(* What holds while a host program runs.                                   *)

Holdings == Objects \cup {"devices"}
Devices(i) == Programs!DevicesOf(APtr[i])

\* The list of what is held is that of the view, and the array of devices while
\* cl_platform describes them.
HeldIs(h) ==
  /\ CPtr \in Seq(Holdings) /\ Loops!Distinct(CPtr)
  /\ Loops!Elems(CPtr) = IF B = "list" THEN h \cup {"devices"} ELSE h

\* The queue holds one command at most, which the arrays await.
QueueIs(v) ==
  \/ C = << >> /\ k = 0 /\ A = v.data
  \/ \E c : /\ C = <<c>> /\ c.op \in {"copy", "kernel"}
            /\ Programs!Touches(c) \subseteq v.held \cup Memory
            /\ v.data = Programs!Effect(c)
            /\ k \in {0, 1} /\ (k = 0 => v.busy)

\* The devices of the first n platforms, and the first m of the next.
Told(n) == {e \in Nat \X Nat : e[1] \in 1..n /\ e[2] \in 1..Devices(e[1])}
ToldUpTo(n, m) == {e \in Nat \X Nat : e[1] = n /\ e[2] \in 1..m}

\* What cl_platform has described and has yet to describe.
Listed ==
  /\ BPtr \in 0..Len(APtr)
  /\ acc \in Seq(Nat \X Nat) /\ Loops!Distinct(acc)
  /\ \/ B = "info" /\ t = << >> /\ Loops!Elems(acc) = Told(BPtr)
     \/ B = "devices" /\ t = << >> /\ BPtr # 0 /\ Loops!Elems(acc) = Told(BPtr - 1)
     \/ /\ B = "list" /\ BPtr # 0
        /\ \E n \in Nat \ {0} : t = [d \in 1..n |-> <<BPtr, 0>>]
     \/ /\ B = "list" /\ BPtr # 0
        /\ \E m \in 0..Devices(BPtr) :
             /\ Loops!Elems(acc) = Told(BPtr - 1) \cup ToldUpTo(BPtr, m)
             /\ t = [d \in 1..(Devices(BPtr) - m) |-> <<BPtr, m + d>>]

\* What became of the platforms in each phase.
Settled(p) ==
  /\ B = "info" /\ t = << >>
  /\ p = "start" => Listed /\ BPtr = 0
  /\ p = "found" => BPtr \in 1..Len(APtr) /\ APtr[BPtr].gpus > 0
  /\ p = "listed" => Listed /\ BPtr = Len(APtr)

At(v) == HeldIs(v.held) /\ QueueIs(v) /\ Settled(v.phase)
Enumerating(v) == HeldIs(v.held) /\ QueueIs(v) /\ v.phase = "start" /\ Listed

\* The program is at its next call, in the view in which the script is there.
OnTrack ==
  \E g, d :
    /\ d \in Contents /\ IsRun(g, Programs!Script, Start, View({}, d, FALSE, Ending))
    /\ pc \in 1..(Len(Programs!Script) + 1)
    /\ \E v : /\ v = g[pc - 1]
              /\ \/ At(v)
                 \/ /\ pc <= Len(Programs!Script) /\ Programs!Script[pc].op = "list"
                    /\ Enumerating(v)

Hosting ==
  /\ kernel \in Programs!InC \cup Programs!InCxx
  /\ APtr \in Seq(Programs!Platforms) /\ Len(APtr) >= 1
  /\ IF host = "run" THEN OnTrack ELSE Programs!NothingHeld /\ Programs!FoundDevices

-----------------------------------------------------------------------------
(* Where a program on track is.                                            *)

\* Scripts are sequences.
LEMMA ScriptLength ==
  ASSUME kernel \in Programs!InC \cup Programs!InCxx
  PROVE  Len(Programs!Script) \in Nat
BY ScriptsInOrder DEF InOrder, Runs

\* A list of platforms is as good as settled at first.
LEMMA SettledEnumerates ==
  ASSUME NEW v, At(v), v.phase = "start"
  PROVE  Enumerating(v)
BY DEF At, Enumerating, Settled

\* At a call that is no listing.
LEMMA Called ==
  ASSUME Hosting, OnTrack, pc <= Len(Programs!Script), Programs!Script[pc].op # "list"
  PROVE  \E v \in Views, w \in Views :
           /\ Follows(Programs!Script[pc], v, w) /\ At(v)
           /\ kernel' = kernel /\ pc' = pc + 1 /\ At(w)' => OnTrack'
<1>1. PICK g, d :
        /\ d \in Contents /\ IsRun(g, Programs!Script, Start, View({}, d, FALSE, Ending))
        /\ pc \in 1..(Len(Programs!Script) + 1)
        /\ At(g[pc - 1])
  BY DEF OnTrack
<1>2. Len(Programs!Script) \in Nat
  BY ScriptLength DEF Hosting
<1>3. pc \in 1..Len(Programs!Script) /\ pc - 1 \in 0..Len(Programs!Script)
      /\ pc \in 0..Len(Programs!Script)
  BY <1>1, <1>2
<1>4. PICK w \in Views : w = g[pc]
  BY <1>1, <1>3 DEF IsRun
<1>5. g[pc - 1] \in Views /\ Follows(Programs!Script[pc], g[pc - 1], w)
  BY <1>1, <1>3, <1>4 DEF IsRun
<1>6. ASSUME kernel' = kernel, pc' = pc + 1, At(w)' PROVE OnTrack'
  <2>1. Programs!Script' = Programs!Script /\ Ending' = Ending
    BY <1>6 DEF Programs!Script, Ending
  <2>2. pc' \in 1..(Len(Programs!Script) + 1) /\ w = g[pc' - 1]
    BY <1>2, <1>3, <1>4, <1>6
  <2> QED BY <1>1, <1>6, <2>1, <2>2 DEF OnTrack
<1> QED BY <1>1, <1>5, <1>6

\* At a listing.
LEMMA CalledList ==
  ASSUME Hosting, OnTrack, pc <= Len(Programs!Script), Programs!Script[pc].op = "list"
  PROVE  \E v \in Views, w \in Views :
           /\ Follows(Programs!Script[pc], v, w) /\ Enumerating(v)
           /\ kernel' = kernel /\ pc' = pc /\ Enumerating(v)' => OnTrack'
           /\ kernel' = kernel /\ pc' = pc + 1 /\ At(w)' => OnTrack'
<1>1. PICK g, d, v :
        /\ d \in Contents /\ IsRun(g, Programs!Script, Start, View({}, d, FALSE, Ending))
        /\ pc \in 1..(Len(Programs!Script) + 1)
        /\ v = g[pc - 1] /\ (At(v) \/ Enumerating(v))
  BY DEF OnTrack
<1>2. Len(Programs!Script) \in Nat
  BY ScriptLength DEF Hosting
<1>3. pc \in 1..Len(Programs!Script) /\ pc - 1 \in 0..Len(Programs!Script)
      /\ pc \in 0..Len(Programs!Script)
  BY <1>1, <1>2
<1>4. PICK w \in Views : w = g[pc]
  BY <1>1, <1>3 DEF IsRun
<1>5. v \in Views /\ Follows(Programs!Script[pc], v, w)
  BY <1>1, <1>3, <1>4 DEF IsRun
<1>6. Enumerating(v)
  BY <1>1, <1>5, SettledEnumerates DEF Follows
<1>7. ASSUME kernel' = kernel PROVE Programs!Script' = Programs!Script /\ Ending' = Ending
  BY <1>7 DEF Programs!Script, Ending
<1>8. ASSUME kernel' = kernel, pc' = pc + 1, At(w)' PROVE OnTrack'
  <2>1. pc' \in 1..(Len(Programs!Script) + 1) /\ w = g[pc' - 1]
    BY <1>2, <1>3, <1>4, <1>8
  <2> QED BY <1>1, <1>7, <1>8, <2>1 DEF OnTrack
<1>9. ASSUME kernel' = kernel, pc' = pc, Enumerating(v)' PROVE OnTrack'
  <2>1. pc' \in 1..(Len(Programs!Script) + 1) /\ v = g[pc' - 1]
    BY <1>1, <1>9
  <2>2. pc' <= Len(Programs!Script') /\ Programs!Script'[pc'].op = "list"
    BY <1>7, <1>9
  <2> QED BY <1>1, <1>7, <1>9, <2>1, <2>2 DEF OnTrack
<1> QED BY <1>5, <1>6, <1>8, <1>9

\* When the device runs a command, only the queue and the arrays change.
LEMMA DeviceServes ==
  ASSUME Hosting, OnTrack
  PROVE  \E v \in Views :
           /\ HeldIs(v.held) /\ QueueIs(v)
           /\ UNCHANGED <<kernel, APtr, pc, BPtr, CPtr, B, t, acc>> /\ QueueIs(v)' => OnTrack'
<1>1. PICK g, d, v :
        /\ d \in Contents /\ IsRun(g, Programs!Script, Start, View({}, d, FALSE, Ending))
        /\ pc \in 1..(Len(Programs!Script) + 1)
        /\ v = g[pc - 1]
        /\ \/ At(v)
           \/ /\ pc <= Len(Programs!Script) /\ Programs!Script[pc].op = "list"
              /\ Enumerating(v)
  BY DEF OnTrack
<1>2. Len(Programs!Script) \in Nat
  BY ScriptLength DEF Hosting
<1>3. v \in Views
  <2>1. pc - 1 \in 0..Len(Programs!Script)
    BY <1>1, <1>2
  <2> QED BY <1>1, <2>1 DEF IsRun
<1>4. HeldIs(v.held) /\ QueueIs(v)
  BY <1>1 DEF At, Enumerating
<1>5. ASSUME UNCHANGED <<kernel, APtr, pc, BPtr, CPtr, B, t, acc>>, QueueIs(v)' PROVE OnTrack'
  <2>1. Programs!Script' = Programs!Script /\ Ending' = Ending
    BY <1>5 DEF Programs!Script, Ending
  <2>2. HeldIs(v.held)' /\ Listed' = Listed /\ Settled(v.phase)' = Settled(v.phase)
    BY <1>4, <1>5 DEF HeldIs, Listed, Settled, Told, Devices
  <2>3. At(v) => At(v)'
    BY <1>5, <2>2 DEF At
  <2>4. Enumerating(v) => Enumerating(v)'
    BY <1>5, <2>2 DEF Enumerating
  <2>5. pc' \in 1..(Len(Programs!Script) + 1) /\ v = g[pc' - 1]
    BY <1>1, <1>5
  <2>6. Programs!Script'[pc'] = Programs!Script[pc] /\ Len(Programs!Script') = Len(Programs!Script)
    BY <1>5, <2>1
  <2> QED BY <1>1, <1>5, <2>1, <2>3, <2>4, <2>5, <2>6 DEF OnTrack
<1> QED BY <1>3, <1>4, <1>5

\* At the end of the script.
LEMMA AtEnd ==
  ASSUME Hosting, OnTrack, pc > Len(Programs!Script)
  PROVE  \E v \in Views : At(v) /\ v.held = {} /\ ~v.busy /\ v.phase = Ending
<1>1. PICK g, d, v :
        /\ d \in Contents /\ IsRun(g, Programs!Script, Start, View({}, d, FALSE, Ending))
        /\ pc \in 1..(Len(Programs!Script) + 1)
        /\ v = g[pc - 1]
        /\ At(v) \/ pc <= Len(Programs!Script)
  BY DEF OnTrack
<1>2. pc - 1 = Len(Programs!Script) /\ ~(pc <= Len(Programs!Script))
  <2>1. Len(Programs!Script) \in Nat
    BY ScriptLength DEF Hosting
  <2> QED BY <1>1, <2>1
<1>3. v = View({}, d, FALSE, Ending) /\ At(v)
  BY <1>1, <1>2 DEF IsRun
<1>4. View({}, d, FALSE, Ending) \in Views
  <2>1. {} \in SUBSET Objects /\ FALSE \in BOOLEAN
    OBVIOUS
  <2>2. Ending \in {"start", "found", "listed"}
    BY DEF Ending
  <2> QED BY <1>1, <2>1, <2>2, ViewType, Zenon
<1> QED BY <1>1, <1>3, <1>4 DEF View

-----------------------------------------------------------------------------
(* What the steps do to what is known.                                     *)

\* Without a command to wait for, nothing is queued.
LEMMA QueueEmpty ==
  ASSUME NEW v, QueueIs(v), k = 0, ~v.busy
  PROVE  C = << >> /\ A = v.data
BY DEF QueueIs

\* An empty queue is in order in every view with the same data.
LEMMA EmptyQueue ==
  ASSUME NEW v, C' = << >>, k' = 0, A' = v.data
  PROVE  QueueIs(v)'
BY DEF QueueIs

\* Any call but a listing leaves off with everything settled.
LEMMA StaysSettled ==
  ASSUME NEW p, Settled(p), UNCHANGED <<APtr, BPtr, B, t, acc>>
  PROVE  Settled(p)'
BY DEF Settled, Listed, Told, Devices

\* What is held.
LEMMA HeldSet ==
  ASSUME NEW h, HeldIs(h)
  PROVE  /\ Programs!Held = Loops!Elems(CPtr)
         /\ h \subseteq Programs!Held
         /\ B # "list" => Programs!Held = h
<1>1. Programs!Held = Loops!Elems(CPtr)
  BY HeldElems DEF HeldIs, Programs!Held
<1> QED BY <1>1 DEF HeldIs

\* Commands touch only what is held.
LEMMA QueueHeld ==
  ASSUME Hosting, OnTrack
  PROVE  \A i \in DOMAIN C : Programs!Touches(C[i]) \subseteq Programs!Held \cup Memory
<1>1. PICK v \in Views : HeldIs(v.held) /\ QueueIs(v)
  BY DeviceServes
<1>2. CASE C = << >>
  BY <1>2
<1>3. ASSUME NEW c, C = <<c>>, Programs!Touches(c) \subseteq v.held \cup Memory
      PROVE  \A i \in DOMAIN C : Programs!Touches(C[i]) \subseteq Programs!Held \cup Memory
  <2>1. v.held \subseteq Programs!Held
    BY <1>1, HeldSet
  <2>2. \A i \in DOMAIN C : C[i] = c
    BY <1>3
  <2> QED BY <1>3, <2>1, <2>2
<1> QED BY <1>1, <1>2, <1>3 DEF QueueIs

\* An abort leaves everything as it is.
LEMMA Aborts ==
  ASSUME Hosting, OnTrack, host' = "abort", UNCHANGED <<kernel, APtr, CPtr, C>>
  PROVE  Hosting'
<1>1. Programs!NothingHeld'
  BY QueueHeld DEF Programs!NothingHeld, Programs!Held, Memory
<1>2. Programs!FoundDevices'
  BY DEF Programs!FoundDevices
<1> QED BY <1>1, <1>2 DEF Hosting

\* A program that gives up lets go of everything, unless it aborts.
LEMMA Stops ==
  ASSUME Hosting, OnTrack, NEW caught, Programs!Stop(caught)
  PROVE  Hosting'
<1>1. kernel' = kernel /\ APtr' = APtr
  BY DEF Programs!Stop
<1>2. CASE host' = "abort" /\ UNCHANGED <<CPtr, C>>
  BY <1>1, <1>2, Aborts
<1>3. CASE host' = "failed" /\ CPtr' = << >> /\ C' = << >>
  <2>1. Programs!NothingHeld'
    BY <1>3 DEF Programs!NothingHeld
  <2>2. Programs!FoundDevices'
    BY <1>3 DEF Programs!FoundDevices
  <2> QED BY <1>1, <1>3, <2>1, <2>2 DEF Hosting
<1> QED BY <1>2, <1>3 DEF Programs!Stop

\* A call that returns leaves the program on track.
LEMMA Returns ==
  ASSUME Hosting, host = "run", host' = "run", OnTrack', UNCHANGED <<kernel, APtr>>
  PROVE  Hosting'
BY DEF Hosting

-----------------------------------------------------------------------------
(* The calls.                                                              *)

\* Any call may fail.
LEMMA CallFailsStep ==
  ASSUME Hosting, Programs!CallFails
  PROVE  Hosting'
BY Stops DEF Programs!CallFails, Programs!Ready, Hosting

\* An object is created.
LEMMA CreateStep ==
  ASSUME Hosting, Programs!Create
  PROVE  Hosting'
<1> DEFINE o == Programs!Step.obj
<1>1. /\ host = "run" /\ pc <= Len(Programs!Script) /\ k = 0 /\ Programs!Step.op = "new"
      /\ CPtr' = Append(CPtr, o) /\ pc' = pc + 1
      /\ UNCHANGED <<kernel, APtr, BPtr, C, k, A, B, t, acc, host>>
  BY DEF Programs!Create, Programs!Ready
<1>2. OnTrack
  BY <1>1 DEF Hosting
<1>3. PICK v \in Views, w \in Views :
        /\ Follows(Programs!Step, v, w) /\ At(v)
        /\ kernel' = kernel /\ pc' = pc + 1 /\ At(w)' => OnTrack'
  BY <1>1, <1>2, Called DEF Programs!Step
<1>4. ~v.busy /\ o \in Objects \ v.held /\ w = View(v.held \cup {o}, v.data, FALSE, v.phase)
  BY <1>1, <1>3 DEF Follows
<1>5. w.held = v.held \cup {o} /\ w.data = v.data /\ w.phase = v.phase
  BY <1>4 DEF View
<1>6. C = << >> /\ A = v.data
  BY <1>1, <1>3, <1>4, QueueEmpty DEF At
<1>7. QueueIs(w)'
  BY <1>1, <1>5, <1>6, EmptyQueue
<1>8. Settled(w.phase)'
  BY <1>1, <1>3, <1>5, StaysSettled DEF At
<1>9. HeldIs(w.held)'
  <2>1. CPtr \in Seq(Holdings) /\ Loops!Distinct(CPtr) /\ Loops!Elems(CPtr) = v.held /\ B = "info"
    BY <1>3 DEF At, HeldIs, Settled
  <2>2. o \in Holdings /\ o \notin Loops!Elems(CPtr)
    BY <1>4, <2>1 DEF Holdings
  <2> HIDE DEF o
  <2> QED BY <1>1, <1>5, <2>1, <2>2, AppendIs DEF HeldIs
<1>10. OnTrack'
  BY <1>1, <1>3, <1>7, <1>8, <1>9 DEF At
<1> QED BY <1>1, <1>10, Returns

\* An object is released.
LEMMA ReleaseStep ==
  ASSUME Hosting, Programs!Release
  PROVE  Hosting'
<1> DEFINE o == Programs!Step.obj
<1>1. /\ host = "run" /\ pc <= Len(Programs!Script) /\ k = 0 /\ Programs!Step.op = "del"
      /\ CPtr' = Programs!RemoveFirst(CPtr, o) /\ pc' = pc + 1
      /\ UNCHANGED <<kernel, APtr, BPtr, C, k, A, B, t, acc, host>>
  BY DEF Programs!Release, Programs!Ready
<1>2. OnTrack
  BY <1>1 DEF Hosting
<1>3. PICK v \in Views, w \in Views :
        /\ Follows(Programs!Step, v, w) /\ At(v)
        /\ kernel' = kernel /\ pc' = pc + 1 /\ At(w)' => OnTrack'
  BY <1>1, <1>2, Called DEF Programs!Step
<1>4. ~v.busy /\ o \in v.held /\ w = View(v.held \ {o}, v.data, FALSE, v.phase)
  BY <1>1, <1>3 DEF Follows
<1>5. w.held = v.held \ {o} /\ w.data = v.data /\ w.phase = v.phase
  BY <1>4 DEF View
<1>6. C = << >> /\ A = v.data
  BY <1>1, <1>3, <1>4, QueueEmpty DEF At
<1>7. QueueIs(w)'
  BY <1>1, <1>5, <1>6, EmptyQueue
<1>8. Settled(w.phase)'
  BY <1>1, <1>3, <1>5, StaysSettled DEF At
<1>9. HeldIs(w.held)'
  <2>1. CPtr \in Seq(Holdings) /\ Loops!Distinct(CPtr) /\ Loops!Elems(CPtr) = v.held /\ B = "info"
    BY <1>3 DEF At, HeldIs, Settled
  <2> HIDE DEF o
  <2>2. o \in Loops!Elems(CPtr)
    BY <1>4, <2>1
  <2>3. /\ CPtr' \in Seq(Holdings) /\ Loops!Distinct(CPtr')
        /\ Loops!Elems(CPtr') = Loops!Elems(CPtr) \ {o}
    BY <1>1, <2>1, <2>2, RemoveFirstIs, Zenon
  <2>4. B' # "list" /\ Loops!Elems(CPtr') = w.held
    BY <1>1, <1>5, <2>1, <2>3
  <2> QED BY <2>3, <2>4 DEF HeldIs
<1>10. OnTrack'
  BY <1>1, <1>3, <1>7, <1>8, <1>9 DEF At
<1> QED BY <1>1, <1>10, Returns

\* A question is answered.
LEMMA QueryStep ==
  ASSUME Hosting, Programs!Query
  PROVE  Hosting'
<1>1. /\ host = "run" /\ pc <= Len(Programs!Script) /\ Programs!Step.op = "ask"
      /\ pc' = pc + 1
      /\ UNCHANGED <<kernel, APtr, BPtr, CPtr, C, k, A, B, t, acc, host>>
  BY DEF Programs!Query, Programs!Ready
<1>2. OnTrack
  BY <1>1 DEF Hosting
<1>3. PICK v \in Views, w \in Views :
        /\ Follows(Programs!Step, v, w) /\ At(v)
        /\ kernel' = kernel /\ pc' = pc + 1 /\ At(w)' => OnTrack'
  BY <1>1, <1>2, Called DEF Programs!Step
<1>4. w = v
  BY <1>1, <1>3 DEF Follows
<1>5. At(v)'
  <2>1. HeldIs(v.held)' /\ Settled(v.phase)'
    BY <1>1, <1>3, StaysSettled DEF At, HeldIs
  <2>2. QueueIs(v)'
    BY <1>1, <1>3 DEF At, QueueIs, Programs!Effect
  <2> QED BY <2>1, <2>2 DEF At
<1>6. OnTrack'
  BY <1>1, <1>3, <1>4, <1>5
<1> QED BY <1>1, <1>6, Returns

\* The results are compared, and there is no difference.
LEMMA CompareStep ==
  ASSUME Hosting, Programs!Compare
  PROVE  Hosting'
<1>1. /\ host = "run" /\ pc <= Len(Programs!Script) /\ Programs!Step.op = "check"
  BY DEF Programs!Compare, Programs!Ready
<1>2. OnTrack
  BY <1>1 DEF Hosting
<1>3. CASE \E caught : Programs!Stop(caught)
  BY <1>2, <1>3, Stops
<1>4. CASE /\ pc' = pc + 1
           /\ UNCHANGED <<kernel, APtr, BPtr, CPtr, C, k, A, B, t, acc, host>>
  <2>1. PICK v \in Views, w \in Views :
          /\ Follows(Programs!Step, v, w) /\ At(v)
          /\ kernel' = kernel /\ pc' = pc + 1 /\ At(w)' => OnTrack'
    BY <1>1, <1>2, Called DEF Programs!Step
  <2>2. w = v
    BY <1>1, <2>1 DEF Follows
  <2>3. HeldIs(v.held)' /\ Settled(v.phase)'
    BY <1>4, <2>1, StaysSettled DEF At, HeldIs
  <2>4. QueueIs(v)'
    BY <1>4, <2>1 DEF At, QueueIs, Programs!Effect
  <2>5. OnTrack'
    BY <1>4, <2>1, <2>2, <2>3, <2>4 DEF At
  <2> QED BY <1>1, <1>4, <2>5, Returns
<1> QED BY <1>3, <1>4 DEF Programs!Compare

\* When results are compared, they are what the inputs demand.
LEMMA TrackCompares ==
  ASSUME Hosting
  PROVE  Programs!ResultsRight
<1>1. SUFFICES ASSUME Programs!Ready, Programs!Step.op = "check"
               PROVE  A[Programs!Step.obj[1]] = Programs!Step.obj[2]
  BY DEF Programs!ResultsRight
<1>2. OnTrack /\ pc <= Len(Programs!Script) /\ k = 0
  BY <1>1 DEF Hosting, Programs!Ready
<1>3. PICK v \in Views, w \in Views : Follows(Programs!Step, v, w) /\ At(v)
  BY <1>1, <1>2, Called DEF Programs!Step
<1>4. ~v.busy /\ v.data[Programs!Step.obj[1]] = Programs!Step.obj[2]
  BY <1>1, <1>3 DEF Follows
<1> QED BY <1>2, <1>3, <1>4, QueueEmpty DEF At

\* A platform is chosen, or there is none.
LEMMA SelectStep ==
  ASSUME Hosting, Programs!SelectPlatform
  PROVE  Hosting'
<1>1. host = "run" /\ pc <= Len(Programs!Script) /\ k = 0 /\ Programs!Step.op = "select"
  BY DEF Programs!SelectPlatform, Programs!Ready
<1>2. OnTrack
  BY <1>1 DEF Hosting
<1>3. CASE \E caught : Programs!Stop(caught)
  BY <1>2, <1>3, Stops
<1>4. CASE /\ Programs!Pick # 0 /\ BPtr' = Programs!Pick /\ pc' = pc + 1
           /\ UNCHANGED <<kernel, APtr, CPtr, C, k, A, B, t, acc, host>>
  <2>1. PICK v \in Views, w \in Views :
          /\ Follows(Programs!Step, v, w) /\ At(v)
          /\ kernel' = kernel /\ pc' = pc + 1 /\ At(w)' => OnTrack'
    BY <1>1, <1>2, Called DEF Programs!Step
  <2>2. /\ ~v.busy /\ Programs!Step.obj \in Rules
        /\ w = View(v.held, v.data, FALSE, "found")
    BY <1>1, <2>1 DEF Follows
  <2>3. w.held = v.held /\ w.data = v.data /\ w.phase = "found"
    BY <2>2 DEF View
  <2>4. Programs!Pick \in 1..Len(APtr) /\ APtr[Programs!Pick].gpus > 0
    BY <1>4, <2>2, PickFinds DEF Hosting
  <2>5. Settled(w.phase)'
    BY <1>4, <2>1, <2>3, <2>4 DEF At, Settled
  <2>6. C = << >> /\ A = v.data
    BY <1>1, <2>1, <2>2, QueueEmpty DEF At
  <2>7. QueueIs(w)'
    BY <1>1, <1>4, <2>3, <2>6, EmptyQueue
  <2>8. HeldIs(w.held)'
    BY <1>4, <2>1, <2>3 DEF At, HeldIs
  <2>9. OnTrack'
    BY <1>4, <2>1, <2>5, <2>7, <2>8 DEF At
  <2> QED BY <1>1, <1>4, <2>9, Returns
<1> QED BY <1>3, <1>4 DEF Programs!SelectPlatform

\* A copy is queued, and awaited.
LEMMA CopyStep ==
  ASSUME Hosting, Programs!CopyBlocking
  PROVE  Hosting'
<1>0. PICK c : c = Programs!Step
  OBVIOUS
<1>1. /\ host = "run" /\ pc <= Len(Programs!Script) /\ k = 0 /\ c.op = "copy"
      /\ C' = Append(C, c) /\ k' = Len(C') /\ pc' = pc + 1
      /\ UNCHANGED <<kernel, APtr, BPtr, CPtr, A, B, t, acc, host>>
  BY <1>0 DEF Programs!CopyBlocking, Programs!Ready, Programs!Enqueue
<1>2. OnTrack
  BY <1>1 DEF Hosting
<1>3. PICK v \in Views, w \in Views :
        /\ Follows(c, v, w) /\ At(v)
        /\ kernel' = kernel /\ pc' = pc + 1 /\ At(w)' => OnTrack'
  BY <1>0, <1>1, <1>2, Called DEF Programs!Step
<1>4. /\ ~v.busy /\ {c.obj[1], c.obj[2]} \subseteq v.held \cup Memory
      /\ c.obj \in (Programs!Arrays \X Programs!Arrays)
      /\ w = View(v.held, [v.data EXCEPT ![c.obj[2]] = v.data[c.obj[1]]], FALSE, v.phase)
  BY <1>1, <1>3 DEF Follows
<1>5. /\ w.held = v.held /\ w.phase = v.phase
      /\ w.data = [v.data EXCEPT ![c.obj[2]] = v.data[c.obj[1]]]
  BY <1>4 DEF View
<1>6. C = << >> /\ A = v.data
  BY <1>1, <1>3, <1>4, QueueEmpty DEF At
<1>7. C' = <<c>> /\ k' = 1
  BY <1>1, <1>6
<1>8. QueueIs(w)'
  <2>1. Programs!Touches(c) \subseteq w.held \cup Memory
    <3>1. DOMAIN c.obj = {1, 2}
      BY <1>4
    <3>2. Programs!ToSet(c.obj) = {c.obj[1], c.obj[2]}
      BY <3>1 DEF Programs!ToSet
    <3> QED BY <1>1, <1>4, <1>5, <3>2 DEF Programs!Touches
  <2>2. w.data = Programs!Effect(c)'
    BY <1>1, <1>5, <1>6 DEF Programs!Effect
  <2> QED BY <1>1, <1>7, <2>1, <2>2 DEF QueueIs
<1>9. Settled(w.phase)'
  BY <1>1, <1>3, <1>5, StaysSettled DEF At
<1>10. HeldIs(w.held)'
  BY <1>1, <1>3, <1>5 DEF At, HeldIs
<1>11. OnTrack'
  BY <1>1, <1>3, <1>8, <1>9, <1>10 DEF At
<1> QED BY <1>1, <1>11, Returns

\* A kernel is queued, unless its program is none of this context.
LEMMA LaunchStep ==
  ASSUME Hosting, Programs!Launch
  PROVE  Hosting'
<1>0. PICK c : c = Programs!Step
  OBVIOUS
<1>1. host = "run" /\ pc <= Len(Programs!Script) /\ k = 0 /\ c.op = "kernel"
  BY <1>0 DEF Programs!Launch, Programs!Ready
<1>2. OnTrack
  BY <1>1 DEF Hosting
<1>3. CASE Programs!Stop(TRUE)
  BY <1>2, <1>3, Stops
<1>4. CASE /\ c.on \subseteq Programs!Held
           /\ C' = Append(C, c) /\ k' = 0 /\ pc' = pc + 1
           /\ UNCHANGED <<kernel, APtr, BPtr, CPtr, A, B, t, acc, host>>
  <2>1. PICK v \in Views, w \in Views :
          /\ Follows(c, v, w) /\ At(v)
          /\ kernel' = kernel /\ pc' = pc + 1 /\ At(w)' => OnTrack'
    BY <1>0, <1>1, <1>2, Called DEF Programs!Step
  <2> DEFINE d == [v.data EXCEPT ![c.obj[2]] =
                     Programs!Result([i \in DOMAIN c.obj[1] |-> v.data[c.obj[1][i]]])]
  <2>2. /\ ~v.busy /\ c.obj \in (Seq(Programs!Arrays) \X Programs!Arrays)
        /\ \A i \in DOMAIN c.obj[1] : c.obj[1][i] \in v.held
        /\ c.obj[2] \in v.held
        /\ w = View(v.held, d, c.on \subseteq v.held, v.phase)
    BY <1>1, <2>1 DEF Follows
  <2> HIDE DEF d
  <2>3. w.held = v.held /\ w.phase = v.phase /\ w.data = d
    BY <2>2 DEF View
  <2>4. C = << >> /\ A = v.data
    BY <1>1, <2>1, <2>2, QueueEmpty DEF At
  <2>5. C' = <<c>>
    BY <1>4, <2>4
  <2>6. w.busy
    <3>1. Programs!Held = v.held
      BY <2>1, HeldSet DEF At, Settled
    <3>2. (c.on \subseteq v.held) = TRUE
      BY <1>4, <3>1
    <3>3. w.busy = (c.on \subseteq v.held)
      BY <2>2 DEF View
    <3> QED BY <3>2, <3>3
  <2>7. QueueIs(w)'
    <3>1. Programs!Touches(c) \subseteq w.held \cup Memory
      <4>1. Programs!Touches(c) = Programs!ToSet(c.obj[1]) \cup {c.obj[2]}
        BY <1>1 DEF Programs!Touches
      <4>2. \A x \in Programs!ToSet(c.obj[1]) : x \in v.held
        BY <2>2 DEF Programs!ToSet
      <4> QED BY <2>2, <2>3, <4>1, <4>2
    <3>2. w.data = Programs!Effect(c)'
      BY <1>1, <1>4, <2>3, <2>4 DEF Programs!Effect, d
    <3> QED BY <1>1, <1>4, <2>5, <2>6, <3>1, <3>2 DEF QueueIs
  <2>8. Settled(w.phase)'
    BY <1>4, <2>1, <2>3, StaysSettled DEF At
  <2>9. HeldIs(w.held)'
    BY <1>4, <2>1, <2>3 DEF At, HeldIs
  <2>10. OnTrack'
    BY <1>4, <2>1, <2>7, <2>8, <2>9 DEF At
  <2> QED BY <1>1, <1>4, <2>10, Returns
<1> QED BY <1>0, <1>1, <1>3, <1>4 DEF Programs!Launch, Programs!Enqueue

\* What is queued is awaited.
LEMMA AwaitStep ==
  ASSUME Hosting, Programs!AwaitQueue
  PROVE  Hosting'
<1>1. /\ host = "run" /\ pc <= Len(Programs!Script) /\ k = 0 /\ Programs!Step.op = "wait"
      /\ k' = Len(C) /\ pc' = pc + 1
      /\ UNCHANGED <<kernel, APtr, BPtr, CPtr, C, A, B, t, acc, host>>
  BY DEF Programs!AwaitQueue, Programs!Ready
<1>2. OnTrack
  BY <1>1 DEF Hosting
<1>3. PICK v \in Views, w \in Views :
        /\ Follows(Programs!Step, v, w) /\ At(v)
        /\ kernel' = kernel /\ pc' = pc + 1 /\ At(w)' => OnTrack'
  BY <1>1, <1>2, Called DEF Programs!Step
<1>4. w.held = v.held /\ w.data = v.data /\ w.phase = v.phase
  BY <1>1, <1>3 DEF Follows, View
<1>5. QueueIs(w)'
  <2>1. CASE C = << >> /\ A = v.data
    BY <1>1, <1>4, <2>1, EmptyQueue
  <2>2. ASSUME NEW c, C = <<c>>, c.op \in {"copy", "kernel"},
               Programs!Touches(c) \subseteq v.held \cup Memory, v.data = Programs!Effect(c)
        PROVE  QueueIs(w)'
    <3>1. k' = 1 /\ C' = <<c>>
      BY <1>1, <2>2
    <3>2. w.data = Programs!Effect(c)'
      BY <1>1, <1>4, <2>2 DEF Programs!Effect
    <3> QED BY <1>4, <2>2, <3>1, <3>2 DEF QueueIs
  <2> QED BY <1>3, <2>1, <2>2 DEF At, QueueIs
<1>6. Settled(w.phase)'
  BY <1>1, <1>3, <1>4, StaysSettled DEF At
<1>7. HeldIs(w.held)'
  BY <1>1, <1>3, <1>4 DEF At, HeldIs
<1>8. OnTrack'
  BY <1>1, <1>3, <1>5, <1>6, <1>7 DEF At
<1> QED BY <1>1, <1>8, Returns

\* The device runs a command.
LEMMA DeviceStep ==
  ASSUME Hosting, NEW i, Programs!DeviceRuns(i)
  PROVE  Hosting'
<1>1. /\ host = "run" /\ i \in DOMAIN C /\ A' = Programs!Effect(C[i])
      /\ C' = Programs!RemoveAt(C, i)
      /\ k' = IF k = 0 THEN 0 ELSE IF i = Len(C) /\ C[i].op = "copy" THEN 0 ELSE k - 1
      /\ UNCHANGED <<kernel, APtr, pc, BPtr, CPtr, B, t, acc, host>>
  BY DEF Programs!DeviceRuns
<1>2. OnTrack
  BY <1>1 DEF Hosting
<1>3. PICK v \in Views :
        /\ QueueIs(v)
        /\ UNCHANGED <<kernel, APtr, pc, BPtr, CPtr, B, t, acc>> /\ QueueIs(v)' => OnTrack'
  BY <1>2, DeviceServes
<1>4. C # << >>
  BY <1>1
<1>5. PICK c : C = <<c>> /\ v.data = Programs!Effect(c) /\ k \in {0, 1}
  BY <1>3, <1>4 DEF QueueIs
<1>6. i = 1 /\ C[i] = c /\ Len(C) = 1
  BY <1>1, <1>5
<1>7. A' = v.data /\ k' = 0
  BY <1>1, <1>5, <1>6
<1>8. C' = << >>
  <2>1. C' = SubSeq(C, 1, 0) \o SubSeq(C, 2, 1)
    BY <1>1, <1>6 DEF Programs!RemoveAt
  <2>2. SubSeq(C, 1, 0) = << >> /\ SubSeq(C, 2, 1) = << >>
    BY <1>5
  <2> QED BY <2>1, <2>2
<1>9. OnTrack'
  BY <1>1, <1>3, <1>7, <1>8, EmptyQueue
<1> QED BY <1>1, <1>9, Returns

\* The numbers of devices.
LEMMA DevicesType ==
  ASSUME Hosting, NEW i \in 1..Len(APtr)
  PROVE  APtr[i] \in Programs!Platforms /\ Devices(i) \in Nat
<1>1. APtr[i] \in Programs!Platforms
  BY DEF Hosting
<1>2. \A p \in Programs!Platforms : p.gpus \in Nat /\ p.others \in Nat
  BY HostAssumption DEF Programs!Platforms
<1>3. \A p \in Programs!Platforms : p.gpus + p.others \in Nat
  BY <1>2
<1> QED BY <1>1, <1>3 DEF Devices, Programs!DevicesOf

\* A program ends well with nothing held and its platforms found.
LEMMA ExitStep ==
  ASSUME Hosting, Programs!Exit
  PROVE  Hosting'
<1>1. /\ host = "run" /\ pc > Len(Programs!Script) /\ k = 0
      /\ UNCHANGED <<kernel, APtr, BPtr, CPtr, C, k, A, B, t, acc>> /\ host' = "ok"
  BY DEF Programs!Exit
<1>2. OnTrack
  BY <1>1 DEF Hosting
<1>3. PICK v \in Views : At(v) /\ v.held = {} /\ ~v.busy /\ v.phase = Ending
  BY <1>1, <1>2, AtEnd
<1>4. C = << >>
  BY <1>1, <1>3, QueueEmpty DEF At
<1>5. CPtr = << >>
  <2>1. CPtr \in Seq(Holdings) /\ Loops!Elems(CPtr) = {}
    BY <1>3 DEF At, HeldIs, Settled
  <2>2. ASSUME Len(CPtr) # 0 PROVE FALSE
    <3>1. 1 \in 1..Len(CPtr)
      BY <2>1, <2>2
    <3> QED BY <2>1, <3>1 DEF Loops!Elems
  <2> QED BY <2>1, <2>2
<1>6. Programs!NothingHeld'
  BY <1>1, <1>4, <1>5 DEF Programs!NothingHeld
<1>7. Programs!FoundDevices'
  <2>1. CASE kernel \notin {"platform_c", "old_platform_c"}
    <3>1. APtr[BPtr].gpus > 0
      BY <1>3, <2>1 DEF Ending, At, Settled
    <3> QED BY <1>1, <2>1, <3>1 DEF Programs!FoundDevices
  <2>2. CASE kernel \in {"platform_c", "old_platform_c"}
    <3>1. /\ Listed /\ B = "info" /\ BPtr = Len(APtr)
      BY <1>3, <2>2 DEF Ending, At, Settled
    <3>2. /\ acc \in Seq(Nat \X Nat) /\ Loops!Distinct(acc) /\ Loops!Elems(acc) = Told(Len(APtr))
      BY <3>1 DEF Listed
    <3>3. DOMAIN acc = 1..Len(acc) /\ DOMAIN APtr = 1..Len(APtr) /\ Len(APtr) \in Nat
      BY <3>2 DEF Hosting
    <3>4. ASSUME NEW i \in DOMAIN APtr, NEW d \in 1..Programs!DevicesOf(APtr[i])
          PROVE  \E j \in DOMAIN acc : acc[j] = <<i, d>>
      <4>1. Programs!DevicesOf(APtr[i]) \in Nat
        BY <3>3, DevicesType DEF Devices
      <4>2. <<i, d>> \in Told(Len(APtr))
        BY <3>3, <4>1 DEF Told, Devices
      <4> QED BY <3>2, <3>3, <4>2 DEF Loops!Elems
    <3>5. Programs!IsInjective(acc)
      BY <3>2, HeldElems
    <3>6. \A j \in DOMAIN acc : acc[j][2] # 0
      <4>1. \A j \in DOMAIN acc : acc[j] \in Told(Len(APtr))
        BY <3>2, <3>3 DEF Loops!Elems
      <4>2. \A e \in Told(Len(APtr)) : e[2] # 0
        BY DEF Told
      <4> QED BY <4>1, <4>2
    <3> QED BY <1>1, <2>2, <3>4, <3>5, <3>6 DEF Programs!FoundDevices
  <2> QED BY <2>1, <2>2
<1> QED BY <1>1, <1>6, <1>7 DEF Hosting

-----------------------------------------------------------------------------
(* The listing of cl_platform.                                             *)

\* Where a listing is, and how it goes on.
LEMMA Listing ==
  ASSUME Hosting, Programs!Ready, Programs!Step.op = "list"
  PROVE  /\ host = "run" /\ OnTrack
         /\ \E v \in Views, w \in Views :
              /\ HeldIs(v.held) /\ v.held \subseteq Objects /\ v.phase = "start"
              /\ C = << >> /\ k = 0 /\ A = v.data
              /\ w = View(v.held, v.data, FALSE, "listed")
              /\ Listed
              /\ kernel' = kernel /\ pc' = pc /\ Enumerating(v)' => OnTrack'
              /\ kernel' = kernel /\ pc' = pc + 1 /\ At(w)' => OnTrack'
<1>1. host = "run" /\ pc <= Len(Programs!Script) /\ k = 0
  BY DEF Programs!Ready
<1>2. OnTrack
  BY <1>1 DEF Hosting
<1>3. PICK v \in Views, w \in Views :
        /\ Follows(Programs!Step, v, w) /\ Enumerating(v)
        /\ kernel' = kernel /\ pc' = pc /\ Enumerating(v)' => OnTrack'
        /\ kernel' = kernel /\ pc' = pc + 1 /\ At(w)' => OnTrack'
  BY <1>1, <1>2, CalledList DEF Programs!Step
<1>4. ~v.busy /\ v.phase = "start" /\ w = View(v.held, v.data, FALSE, "listed")
  BY <1>3 DEF Follows
<1>5. C = << >> /\ A = v.data
  BY <1>1, <1>3, <1>4, QueueEmpty DEF Enumerating
<1>6. v.held \subseteq Objects
  BY DEF Views
<1> QED BY <1>1, <1>2, <1>3, <1>4, <1>5, <1>6 DEF Enumerating

\* How a step of the listing that leaves the queue alone goes on.
LEMMA ListingGoesOn ==
  ASSUME Hosting, Programs!Ready, Programs!Step.op = "list",
         UNCHANGED <<kernel, APtr, pc, C, k, A>>, host' = "run", Listed',
         \A h \in SUBSET Objects : HeldIs(h) => HeldIs(h)'
  PROVE  Hosting'
<1>1. PICK v \in Views :
        /\ HeldIs(v.held) /\ v.held \subseteq Objects /\ v.phase = "start"
        /\ C = << >> /\ k = 0 /\ A = v.data
        /\ kernel' = kernel /\ pc' = pc /\ Enumerating(v)' => OnTrack'
  BY Listing
<1>2. HeldIs(v.held)'
  BY <1>1
<1>3. QueueIs(v)'
  BY <1>1, EmptyQueue
<1>4. OnTrack'
  BY <1>1, <1>2, <1>3 DEF Enumerating
<1> QED BY <1>4, Listing, Returns

\* One more platform has been told of.
LEMMA ToldNext ==
  ASSUME Hosting, NEW n \in 1..Len(APtr)
  PROVE  Told(n) = Told(n - 1) \cup ToldUpTo(n, Devices(n))
<1>1. \A i \in Nat : i \in 1..n <=> i \in 1..(n - 1) \/ i = n
  OBVIOUS
<1> QED BY <1>1 DEF Told, ToldUpTo

\* The next platform is due.
LEMMA InfoStep ==
  ASSUME Hosting, Programs!print_platform_info
  PROVE  Hosting'
<1>1. /\ Programs!Ready /\ Programs!Step.op = "list" /\ B = "info" /\ BPtr < Len(APtr)
      /\ BPtr' = BPtr + 1 /\ B' = "devices"
      /\ UNCHANGED <<kernel, APtr, pc, CPtr, C, k, A, t, acc, host>>
  BY DEF Programs!print_platform_info
<1>2. Listed /\ host = "run"
  BY <1>1, Listing
<1>3. BPtr' \in 0..Len(APtr) /\ BPtr' # 0 /\ BPtr' - 1 = BPtr
  BY <1>1, <1>2 DEF Listed, Hosting
<1>4. t = << >> /\ Loops!Elems(acc) = Told(BPtr)
  BY <1>1, <1>2 DEF Listed
<1>5. Loops!Elems(acc') = (Told(BPtr - 1))'
  BY <1>1, <1>3, <1>4 DEF Told, Devices
<1>6. Listed'
  BY <1>1, <1>2, <1>3, <1>4, <1>5 DEF Listed
<1>7. \A h \in SUBSET Objects : HeldIs(h) => HeldIs(h)'
  BY <1>1 DEF HeldIs
<1> QED BY <1>1, <1>2, <1>6, <1>7, ListingGoesOn

\* The devices of the platform are fetched, or what was never set is taken for
\* their number.
LEMMA EnumerateStep ==
  ASSUME Hosting, Programs!enumerate_devices
  PROVE  Hosting'
<1>1. Programs!Ready /\ Programs!Step.op = "list" /\ B = "devices"
  BY DEF Programs!enumerate_devices
<1>2. host = "run" /\ OnTrack /\ Listed
  BY <1>1, Listing
<1>3. CASE Programs!Stop(TRUE)
  BY <1>2, <1>3, Stops
<1>4. ASSUME NEW ds \in Programs!numdevices, t' = ds,
             CPtr' = IF ds = << >> THEN CPtr ELSE Append(CPtr, "devices"),
             B' = IF ds = << >> THEN "info" ELSE "list",
             UNCHANGED <<kernel, APtr, pc, BPtr, C, k, A, acc, host>>
      PROVE  Hosting'
  <2>1. /\ BPtr \in 1..Len(APtr) /\ t = << >> /\ Loops!Elems(acc) = Told(BPtr - 1)
    BY <1>1, <1>2 DEF Listed, Hosting
  <2>2. Devices(BPtr) \in Nat /\ Devices(BPtr)' = Devices(BPtr)
    BY <1>4, <2>1, DevicesType DEF Devices
  <2>3. Told(BPtr) = Told(BPtr - 1) \cup ToldUpTo(BPtr, Devices(BPtr))
    BY <2>1, ToldNext
  <2>4. /\ Loops!Elems(acc') = Loops!Elems(acc)
        /\ Told(BPtr)' = Told(BPtr) /\ Told(BPtr - 1)' = Told(BPtr - 1)
        /\ \A m : ToldUpTo(BPtr, m)' = ToldUpTo(BPtr, m)
    BY <1>4 DEF Told, ToldUpTo, Devices
  <2>5. Listed'
    <3>1. CASE Devices(BPtr) > 0
      <4>1. ds = [d \in 1..Devices(BPtr) |-> <<BPtr, d>>]
        BY <3>1 DEF Programs!numdevices, Devices
      <4>2. ds # << >>
        <5>1. 1 \in DOMAIN ds
          BY <2>2, <3>1, <4>1
        <5> QED BY <5>1
      <4>3. ds = [d \in 1..(Devices(BPtr) - 0) |-> <<BPtr, 0 + d>>]
        BY <2>2, <4>1
      <4>4. ToldUpTo(BPtr, 0) = {}
        BY DEF ToldUpTo
      <4>5. Loops!Elems(acc') = Told(BPtr - 1)' \cup ToldUpTo(BPtr, 0)'
        BY <2>1, <2>4, <4>4
      <4>6. B' = "list" /\ BPtr' # 0 /\ 0 \in 0..Devices(BPtr)'
        BY <1>4, <2>1, <2>2, <4>2
      <4>7. t' = [d \in 1..(Devices(BPtr)' - 0) |-> <<BPtr', 0 + d>>]
        BY <1>4, <2>2, <4>3
      <4> QED BY <1>2, <1>4, <4>5, <4>6, <4>7 DEF Listed
    <3>2. CASE ~(Devices(BPtr) > 0)
      <4>1. PICK n \in Junk : ds = [d \in 1..n |-> <<BPtr, 0>>]
        BY <3>2 DEF Programs!numdevices, Devices
      <4>2. n \in Nat
        BY HostAssumption
      <4>3. CASE n = 0
        <5>1. ds = << >>
          BY <4>1, <4>3
        <5>2. ToldUpTo(BPtr, Devices(BPtr)) = {}
          BY <2>2, <3>2 DEF ToldUpTo
        <5>3. Loops!Elems(acc') = Told(BPtr)'
          BY <2>1, <2>3, <2>4, <5>2
        <5> QED BY <1>2, <1>4, <5>1, <5>3 DEF Listed
      <4>4. CASE n # 0
        <5>1. 1 \in DOMAIN ds
          BY <4>1, <4>2, <4>4
        <5>2. ds # << >>
          BY <5>1
        <5>3. t' = [d \in 1..n |-> <<BPtr', 0>>]
          BY <1>4, <4>1, Zenon
        <5>4. n \in Nat \ {0} /\ B' = "list" /\ BPtr' # 0
          BY <1>4, <2>1, <4>2, <4>4, <5>2
        <5> QED BY <1>2, <1>4, <5>3, <5>4 DEF Listed
      <4> QED BY <4>3, <4>4
    <3> QED BY <3>1, <3>2
  <2>6. ASSUME NEW h \in SUBSET Objects, HeldIs(h) PROVE HeldIs(h)'
    <3>1. CPtr \in Seq(Holdings) /\ Loops!Distinct(CPtr) /\ Loops!Elems(CPtr) = h
      BY <1>1, <2>6 DEF HeldIs
    <3>2. "devices" \in Holdings /\ "devices" \notin Loops!Elems(CPtr)
      BY <3>1 DEF Holdings, Objects
    <3>3. CASE ds = << >>
      BY <1>4, <3>1, <3>3 DEF HeldIs
    <3>4. CASE ds # << >>
      BY <1>4, <3>1, <3>2, <3>4, AppendIs DEF HeldIs
    <3> QED BY <3>3, <3>4
  <2> QED BY <1>1, <1>2, <1>4, <2>5, <2>6, ListingGoesOn
<1> QED BY <1>3, <1>4 DEF Programs!enumerate_devices

\* A device is described, and when it is none that is the end.
LEMMA DeviceInfoStep ==
  ASSUME Hosting, Programs!print_device_info
  PROVE  Hosting'
<1>1. /\ Programs!Ready /\ Programs!Step.op = "list" /\ t # << >>
      /\ acc' = Append(acc, Head(t)) /\ t' = Tail(t)
      /\ host' = IF Head(t)[2] = 0 THEN "abort" ELSE "run"
      /\ UNCHANGED <<kernel, APtr, pc, BPtr, CPtr, C, k, A, B>>
  BY DEF Programs!print_device_info
<1>2. host = "run" /\ OnTrack /\ Listed
  BY <1>1, Listing
<1>3. CASE Head(t)[2] = 0
  BY <1>1, <1>2, <1>3, Aborts
<1>4. CASE Head(t)[2] # 0
  <2> DEFINE D == Devices(BPtr)
  <2>1. BPtr \in 1..Len(APtr) /\ B = "list"
    BY <1>1, <1>2 DEF Listed, Hosting
  <2>2. D \in Nat
    BY <2>1, DevicesType
  <2>3. PICK m \in 0..D :
          /\ Loops!Elems(acc) = Told(BPtr - 1) \cup ToldUpTo(BPtr, m)
          /\ t = [d \in 1..(D - m) |-> <<BPtr, m + d>>]
    <3>1. ASSUME NEW n \in Nat \ {0}, t = [d \in 1..n |-> <<BPtr, 0>>] PROVE FALSE
      <4>1. t \in Seq({<<BPtr, 0>>}) /\ Len(t) = n /\ t[1] = <<BPtr, 0>>
        BY <3>1
      <4>2. Head(t) = t[1]
        BY <4>1
      <4> QED BY <1>4, <4>1, <4>2
    <3> QED BY <1>1, <1>2, <2>1, <3>1 DEF Listed
  <2> HIDE DEF D
  <2>4. D - m \in Nat /\ D - m # 0 /\ m \in Nat
    <3>1. CASE D - m = 0
      BY <1>1, <2>3, <3>1
    <3> QED BY <2>2, <3>1
  <2> DEFINE S == Nat \X Nat
  <2>5. t \in Seq(S) /\ Len(t) = D - m /\ \A d \in 1..(D - m) : t[d] = <<BPtr, m + d>>
    <3>1. \A d \in 1..(D - m) : m + d \in Nat
      BY <2>4
    <3>2. \A d \in 1..(D - m) : <<BPtr, m + d>> \in S
      BY <2>1, <3>1
    <3>3. PICK n \in Nat : n = D - m
      BY <2>4
    <3>4. t \in [1..n -> S]
      BY <2>3, <3>2, <3>3
    <3>5. t \in Seq(S) /\ Len(t) = n
      BY <3>4
    <3> QED BY <2>3, <3>3, <3>5
  <2>6. PICK e \in S : e = <<BPtr, m + 1>> /\ e = Head(t)
    <3>1. 1 \in 1..(D - m)
      BY <2>4
    <3>2. Head(t) = <<BPtr, m + 1>> /\ <<BPtr, m + 1>> \in S
      BY <2>1, <2>4, <2>5, <3>1
    <3> QED BY <3>2
  <2>7. t' = [d \in 1..(D - (m + 1)) |-> <<BPtr, (m + 1) + d>>]
    <3>1. /\ t' \in Seq(S) /\ Len(t') = D - m - 1
          /\ \A d \in 1..(D - m - 1) : t'[d] = t[d + 1]
      BY <1>1, <2>4, <2>5
    <3>2. D - m - 1 = D - (m + 1) /\ D - (m + 1) \in Nat
      BY <2>2, <2>4
    <3>3. \A d \in 1..(D - (m + 1)) : t'[d] = <<BPtr, (m + 1) + d>>
      <4>1. \A d \in 1..(D - (m + 1)) : d + 1 \in 1..(D - m) /\ m + (d + 1) = (m + 1) + d
        BY <2>2, <2>4
      <4> QED BY <2>5, <3>1, <3>2, <4>1
    <3>4. PICK n \in Nat : n = D - (m + 1)
      BY <3>2
    <3>5. t' \in [1..n -> S]
      BY <3>1, <3>2, <3>4
    <3>6. t' = [d \in 1..n |-> <<BPtr, (m + 1) + d>>]
      BY <3>3, <3>4, <3>5
    <3> QED BY <3>4, <3>6
  <2>8. acc \in Seq(S) /\ Loops!Distinct(acc) /\ e \notin Loops!Elems(acc)
    BY <1>2, <2>1, <2>3, <2>4, <2>6 DEF Listed, Told, ToldUpTo
  <2>9. /\ acc' \in Seq(S) /\ Loops!Distinct(acc')
        /\ Loops!Elems(acc') = Loops!Elems(acc) \cup {e}
    <3>1. acc' = Append(acc, e)
      BY <1>1, <2>6, Zenon
    <3>2. e \in S
      OBVIOUS
    <3> HIDE DEF S
    <3> QED BY <2>8, <3>1, <3>2, AppendIs
  <2>10. ToldUpTo(BPtr, m + 1) = ToldUpTo(BPtr, m) \cup {e}
    BY <2>1, <2>4, <2>6 DEF ToldUpTo
  <2>11. Loops!Elems(acc') = Told(BPtr - 1)' \cup ToldUpTo(BPtr, m + 1)'
    <3>1. Loops!Elems(acc') = Told(BPtr - 1) \cup ToldUpTo(BPtr, m + 1)
      BY <2>3, <2>9, <2>10, Zenon
    <3>2. Told(BPtr - 1)' = Told(BPtr - 1) /\ ToldUpTo(BPtr, m + 1)' = ToldUpTo(BPtr, m + 1)
      BY <1>1 DEF Told, ToldUpTo, Devices
    <3> QED BY <3>1, <3>2
  <2>12. Devices(BPtr)' = D /\ m + 1 \in 0..D
    BY <1>1, <2>2, <2>4 DEF D, Devices
  <2>13. Listed'
    <3>1. PICK n : n = m + 1
      OBVIOUS
    <3>2. /\ n \in 0..Devices(BPtr)'
          /\ Loops!Elems(acc') = Told(BPtr - 1)' \cup ToldUpTo(BPtr, n)'
          /\ t' = [d \in 1..(Devices(BPtr)' - n) |-> <<BPtr', n + d>>]
      <4>1. BPtr' = BPtr
        BY <1>1
      <4> QED BY <2>7, <2>11, <2>12, <3>1, <4>1
    <3>3. BPtr' \in 0..Len(APtr') /\ BPtr' # 0 /\ B' = "list"
      BY <1>1, <1>2, <2>1 DEF Listed
    <3> QED BY <2>9, <3>2, <3>3 DEF Listed
  <2>14. \A h \in SUBSET Objects : HeldIs(h) => HeldIs(h)'
    BY <1>1 DEF HeldIs
  <2> QED BY <1>1, <1>4, <2>13, <2>14, ListingGoesOn
<1> QED BY <1>3, <1>4

\* The devices of a platform are all described, and their array is freed.
LEMMA DevicesListedStep ==
  ASSUME Hosting, Programs!DevicesListed
  PROVE  Hosting'
<1>1. /\ Programs!Ready /\ Programs!Step.op = "list" /\ B = "list" /\ t = << >>
      /\ CPtr' = Programs!RemoveFirst(CPtr, "devices") /\ B' = "info"
      /\ UNCHANGED <<kernel, APtr, pc, BPtr, C, k, A, t, acc, host>>
  BY DEF Programs!DevicesListed
<1>2. host = "run" /\ OnTrack /\ Listed
  BY <1>1, Listing
<1>3. BPtr \in 1..Len(APtr)
  BY <1>1, <1>2 DEF Listed, Hosting
<1>4. Devices(BPtr) \in Nat
  BY <1>3, DevicesType
<1>5. PICK m \in 0..Devices(BPtr) :
        /\ Loops!Elems(acc) = Told(BPtr - 1) \cup ToldUpTo(BPtr, m)
        /\ t = [d \in 1..(Devices(BPtr) - m) |-> <<BPtr, m + d>>]
  <2>1. ASSUME NEW n \in Nat \ {0}, t = [d \in 1..n |-> <<BPtr, 0>>] PROVE FALSE
    <3>1. 1 \in DOMAIN t
      BY <2>1
    <3> QED BY <1>1, <3>1
  <2> QED BY <1>1, <1>2, <2>1 DEF Listed
<1>6. m = Devices(BPtr)
  <2>1. ASSUME m < Devices(BPtr) PROVE FALSE
    <3>1. 1 \in DOMAIN t
      BY <1>4, <1>5, <2>1
    <3> QED BY <1>1, <3>1
  <2> QED BY <1>4, <2>1
<1>7. Loops!Elems(acc) = Told(BPtr)
  BY <1>3, <1>5, <1>6, ToldNext
<1>8. Loops!Elems(acc') = Told(BPtr)'
  BY <1>1, <1>7 DEF Told, Devices
<1>9. Listed'
  BY <1>1, <1>2, <1>8 DEF Listed
<1>10. ASSUME NEW h \in SUBSET Objects, HeldIs(h) PROVE HeldIs(h)'
  <2>1. /\ CPtr \in Seq(Holdings) /\ Loops!Distinct(CPtr)
        /\ Loops!Elems(CPtr) = h \cup {"devices"}
    BY <1>1, <1>10 DEF HeldIs
  <2>2. "devices" \in Loops!Elems(CPtr) /\ Loops!Elems(CPtr) \ {"devices"} = h
    BY <2>1 DEF Objects
  <2>3. /\ CPtr' \in Seq(Holdings) /\ Loops!Distinct(CPtr')
        /\ Loops!Elems(CPtr') = Loops!Elems(CPtr) \ {"devices"}
    BY <1>1, <2>1, <2>2, RemoveFirstIs, Zenon
  <2> QED BY <1>1, <2>2, <2>3 DEF HeldIs
<1> QED BY <1>1, <1>2, <1>9, <1>10, ListingGoesOn

\* All platforms have been listed.
LEMMA EnumeratedStep ==
  ASSUME Hosting, Programs!Enumerated
  PROVE  Hosting'
<1>1. /\ Programs!Ready /\ Programs!Step.op = "list" /\ B = "info" /\ BPtr = Len(APtr)
      /\ pc' = pc + 1
      /\ UNCHANGED <<kernel, APtr, BPtr, CPtr, C, k, A, B, t, acc, host>>
  BY DEF Programs!Enumerated
<1>2. PICK v \in Views, w \in Views :
        /\ HeldIs(v.held) /\ C = << >> /\ k = 0 /\ A = v.data
        /\ w = View(v.held, v.data, FALSE, "listed")
        /\ kernel' = kernel /\ pc' = pc + 1 /\ At(w)' => OnTrack'
  BY <1>1, Listing
<1>3. w.held = v.held /\ w.data = v.data /\ w.phase = "listed"
  BY <1>2 DEF View
<1>4. QueueIs(w)'
  BY <1>1, <1>2, <1>3, EmptyQueue
<1>5. HeldIs(w.held)'
  BY <1>1, <1>2, <1>3 DEF HeldIs
<1>6. Settled(w.phase)'
  <2>1. Settled(w.phase)
    BY <1>1, <1>3, Listing DEF Settled, Listed
  <2> QED BY <1>1, <2>1, StaysSettled
<1>7. OnTrack'
  BY <1>1, <1>2, <1>4, <1>5, <1>6 DEF At
<1> QED BY <1>1, <1>7, Listing, Returns

-----------------------------------------------------------------------------
(* The invariant of the host programs.                                     *)

\* Every program starts on track.
LEMMA InitHosting ==
  ASSUME Programs!Init
  PROVE  Hosting
<1>1. /\ kernel \in Programs!InC \cup Programs!InCxx /\ pc = 1 /\ BPtr = 0
      /\ CPtr = << >> /\ C = << >> /\ k = 0 /\ A = Given
      /\ B = "info" /\ t = << >> /\ acc = << >> /\ host = "run"
  BY DEF Programs!Init, Given
<1>2. APtr \in Seq(Programs!Platforms) /\ Len(APtr) >= 1
  <2>1. PICK n \in 1..MaxPlatforms : APtr \in [1..n -> Programs!Platforms]
    BY DEF Programs!Init
  <2>2. n \in Nat /\ n >= 1
    BY HostAssumption
  <2> QED BY <2>1, <2>2
<1>3. PICK g, d : d \in Contents /\ IsRun(g, Programs!Script, Start, View({}, d, FALSE, Ending))
  BY <1>1, ScriptsInOrder DEF InOrder, Runs
<1>4. Start = g[0] /\ Start.held = {} /\ Start.data = Given /\ Start.phase = "start"
  BY <1>3 DEF IsRun, Start, View
<1>5. HeldIs(Start.held)
  <2>1. CPtr \in Seq(Holdings) /\ Len(CPtr) = 0
    BY <1>1
  <2> QED BY <1>1, <1>4, <2>1 DEF HeldIs, Loops!Distinct, Loops!Elems
<1>6. QueueIs(Start)
  BY <1>1, <1>4 DEF QueueIs
<1>7. Settled(Start.phase)
  <2>1. acc \in Seq(Nat \X Nat) /\ Len(acc) = 0
    BY <1>1
  <2>2. Loops!Distinct(acc) /\ Loops!Elems(acc) = {}
    BY <2>1 DEF Loops!Distinct, Loops!Elems
  <2>3. Told(BPtr) = {}
    BY <1>1 DEF Told
  <2>4. BPtr \in 0..Len(APtr)
    BY <1>1, <1>2
  <2>5. Listed
    BY <1>1, <2>1, <2>2, <2>3, <2>4 DEF Listed
  <2> QED BY <1>1, <1>4, <2>5 DEF Settled
<1>8. OnTrack
  <2>1. pc \in 1..(Len(Programs!Script) + 1) /\ pc - 1 = 0
    BY <1>1, ScriptLength
  <2> QED BY <1>3, <1>4, <1>5, <1>6, <1>7, <2>1 DEF OnTrack, At
<1> QED BY <1>1, <1>2, <1>8 DEF Hosting

\* Nothing changes when nothing happens.
LEMMA HostingStays ==
  ASSUME Hosting, UNCHANGED Programs!vars
  PROVE  Hosting'
<1>1. UNCHANGED <<kernel, APtr, pc, BPtr, CPtr, C, k, A, B, t, acc, host>>
  BY DEF Programs!vars
<1>2. CASE host = "run"
  <2>1. OnTrack
    BY <1>2 DEF Hosting
  <2>2. PICK v \in Views :
          /\ QueueIs(v)
          /\ UNCHANGED <<kernel, APtr, pc, BPtr, CPtr, B, t, acc>> /\ QueueIs(v)' => OnTrack'
    BY <2>1, DeviceServes
  <2>3. QueueIs(v)'
    BY <1>1, <2>2 DEF QueueIs, Programs!Effect
  <2> QED BY <1>1, <1>2, <2>2, <2>3, Returns
<1>3. CASE host # "run"
  <2>1. Programs!NothingHeld' /\ Programs!FoundDevices'
    BY <1>1, <1>3 DEF Hosting, Programs!NothingHeld, Programs!FoundDevices, Programs!Held
  <2> QED BY <1>1, <1>3, <2>1 DEF Hosting
<1> QED BY <1>2, <1>3

\* Every step of a host program or of the device keeps it so.
LEMMA HostingStep ==
  ASSUME Hosting, [Programs!Next]_(Programs!vars)
  PROVE  Hosting'
<1>1. CASE Programs!Host
  BY <1>1, CallFailsStep, CreateStep, ReleaseStep, QueryStep, SelectStep, InfoStep,
     EnumerateStep, DeviceInfoStep, DevicesListedStep, EnumeratedStep, CopyStep, LaunchStep,
     AwaitStep, CompareStep, ExitStep
     DEF Programs!Host
<1>2. CASE \E i \in 1..3 : Programs!DeviceRuns(i)
  BY <1>2, DeviceStep
<1>3. CASE UNCHANGED Programs!vars
  BY <1>3, HostingStays
<1> QED BY <1>1, <1>2, <1>3 DEF Programs!Next

\* It is what HostsTidy asks for.
LEMMA HostingTidy ==
  ASSUME Hosting
  PROVE  Programs!NothingHeld /\ Programs!FoundDevices
<1>1. CASE host = "run"
  BY <1>1, QueueHeld DEF Hosting, Programs!NothingHeld, Programs!FoundDevices, Memory
<1>2. CASE host # "run"
  BY <1>2 DEF Hosting
<1> QED BY <1>1, <1>2

-----------------------------------------------------------------------------
(* The steps of MCOpenCl.                                                  *)

\* A step of a behaviour about the histogram is one of the histogram's.
LEMMA HistNext ==
  ASSUME [AnyNext]_anyVars, part = "hist"
  PROVE  part' = "hist" /\ [Histogram!Next]_(Histogram!vars)
<1>1. ASSUME NEW w \in Histogram!Items, HistItem(w) PROVE part' = "hist" /\ Histogram!Next
  BY <1>1 DEF HistItem, In, Histogram!Next
<1>2. CASE HistAnswer
  BY <1>2 DEF HistAnswer, In, Histogram!Next
<1>3. CASE UNCHANGED anyVars
  BY <1>3 DEF anyVars, vars, hostVars, buffers, tiles, Histogram!vars, Histogram!memory
<1>4. ~GemmAnswer /\ ~HostRuns /\ (\A w \in Items : ~GemmItem(w)) /\ (\A j \in 1..3 : ~DeviceRuns(j))
  BY DEF GemmAnswer, HostRuns, GemmItem, DeviceRuns, In
<1> QED BY <1>1, <1>2, <1>3, <1>4 DEF AnyNext

\* A step of a behaviour about the product is one of the product's.
LEMMA GemmNext ==
  ASSUME [AnyNext]_anyVars, part = "gemm"
  PROVE  part' = "gemm" /\ [Next]_vars
<1>1. CASE UNCHANGED anyVars
  BY <1>1 DEF anyVars
<1>2. ~HistAnswer /\ ~HostRuns /\ (\A w \in Histogram!Items : ~HistItem(w))
      /\ (\A j \in 1..3 : ~DeviceRuns(j))
  BY DEF HistAnswer, HostRuns, HistItem, DeviceRuns, In
<1>3. ASSUME AnyNext PROVE part' = "gemm" /\ Next
  BY <1>2, <1>3 DEF AnyNext, GemmItem, GemmAnswer, In, Next
<1> QED BY <1>1, <1>3

\* A step of a behaviour about a host program is one of the program's or of its device.
LEMMA HostNext ==
  ASSUME [AnyNext]_anyVars, part = "host"
  PROVE  part' = "host" /\ [Programs!Next]_(Programs!vars)
<1>1. CASE UNCHANGED anyVars
  BY <1>1 DEF anyVars, vars, hostVars, buffers, tiles, Programs!vars
<1>2. ~HistAnswer /\ ~GemmAnswer /\ (\A w \in Histogram!Items : ~HistItem(w))
      /\ (\A w \in Items : ~GemmItem(w))
  BY DEF HistAnswer, GemmAnswer, HistItem, GemmItem, In
<1>3. ASSUME AnyNext PROVE part' = "host" /\ Programs!Next
  BY <1>2, <1>3 DEF AnyNext, HostRuns, DeviceRuns, In, Programs!Next
<1> QED BY <1>1, <1>3

\* The part that a behaviour is about does not change.
LEMMA PartStays ==
  ASSUME [AnyNext]_anyVars
  PROVE  part' = part
BY DEF AnyNext, GemmItem, GemmAnswer, HistItem, HistAnswer, HostRuns, DeviceRuns, In, anyVars

-----------------------------------------------------------------------------
(* Theorems.                                                               *)

\* While a work-item of gemm_localmem.cl multiplies, both tiles hold its current
\* round of A and B: its two barriers per round are enough for every size of the
\* matrices, of the tiles and of the groups.
THEOREM TilesAlwaysCurrent == AnySpec => []TilesCurrent
<1> DEFINE Inv == part = "gemm" => Tiling
<1>1. AnyInit => Inv
  BY InitTiling DEF AnyInit
<1>2. Inv /\ [AnyNext]_anyVars => Inv'
  BY PartStays, GemmNext, TilingStep
<1>3. Inv => TilesCurrent
  BY TilingCurrent DEF TilesCurrent
<1> QED BY <1>1, <1>2, <1>3, PTL DEF AnySpec

\* When a work-item of hist.cl starts to add up its bins, the local memory of its
\* group holds exactly what the group has to count, whatever it held at first: the
\* two barriers are enough for every number of data, bins, items and groups.
THEOREM GroupsAlwaysCounted == AnySpec => []GroupsCounted
<1> DEFINE Inv == part = "hist" => Counting
<1>1. AnyInit => Inv
  BY HistogramAssumption, InitCounting DEF AnyInit
<1>2. Inv /\ [AnyNext]_anyVars => Inv'
  BY HistogramAssumption, PartStays, HistNext, CountingStep
<1>3. Inv => GroupsCounted
  BY HistogramAssumption, CountingGroup DEF GroupsCounted
<1> QED BY <1>1, <1>2, <1>3, PTL DEF AnySpec

\* The racy hist-onlyg.cl never counts a datum twice and never misses a bin that
\* has data, and the other kernels count no more than there is at any time, over
\* whatever the buffer held when it was allocated.
THEOREM RaceAlwaysLosesOnly == AnySpec => []RaceLosesOnly
<1> DEFINE Inv == part = "hist" => Counting /\ Summing
<1>1. AnyInit => Inv
  BY HistogramAssumption, InitCounting, InitSumming DEF AnyInit
<1>2. Inv /\ [AnyNext]_anyVars => Inv'
  BY HistogramAssumption, PartStays, HistNext, CountingStep, SummingStep
<1>3. Inv => RaceLosesOnly
  BY HistogramAssumption, SummingLoses DEF RaceLosesOnly
<1> QED BY <1>1, <1>2, <1>3, PTL DEF AnySpec

\* What main of cl_hist.cc reads back: with hist.cl and hist-onlyg-corr.cl the bins are
\* those counted on the CPU on top of what the buffer held, in whatever order the
\* work-items run.  Unless that was all zeros, the comparison fails.
THEOREM HistogramsAlwaysAdd == AnySpec => [](part = "hist" => Histogram!AddsReference)
<1> DEFINE Inv == part = "hist" => Counting /\ Summing
           Goal == part = "hist" => Histogram!AddsReference
<1>1. AnyInit => Inv
  BY HistogramAssumption, InitCounting, InitSumming DEF AnyInit
<1>2. Inv /\ [AnyNext]_anyVars => Inv'
  BY HistogramAssumption, PartStays, HistNext, CountingStep, SummingStep
<1>3. Inv => Goal
  BY HistogramAssumption, SummingAdds
<1>4. AnySpec => []Goal
  <2> HIDE DEF Inv, Goal
  <2> QED BY <1>1, <1>2, <1>3, PTL DEF AnySpec
<1> QED BY <1>4

\* What main of cl_gemm.cc reads back: the product of what its buffers hold, over the
\* columns that tiles cover, in whatever order the work-items run; and the product that
\* the CPU computes, unless B is the larger matrix or tiles leave columns out.
THEOREM ProductsAlwaysRight == AnySpec => [](part = "gemm" => ProductRight)
<1> DEFINE Inv == part = "gemm" => Product
           Goal == part = "gemm" => ProductRight
<1>1. AnyInit => Inv
  BY InitProduct DEF AnyInit
<1>2. Inv /\ [AnyNext]_anyVars => Inv'
  BY PartStays, GemmNext, ProductStep
<1>3. Inv => Goal
  BY ProductIsRight
<1>4. AnySpec => []Goal
  <2> HIDE DEF Inv, Goal
  <2> QED BY <1>1, <1>2, <1>3, PTL DEF AnySpec
<1> QED BY <1>4

\* Every host program keeps what its queued commands touch, and when it returns has
\* let go of everything: releases match creations on each way through the ten
\* scripts, through every failure.  cl_platform, when it ends well, has described
\* every device once, and the others have settled on a platform with a GPU, on
\* machines with any number of platforms.
THEOREM HostsAlwaysTidy == AnySpec => []HostsTidy
<1> DEFINE Inv == part = "host" => Hosting
<1>1. AnyInit => Inv
  BY InitHosting DEF AnyInit
<1>2. Inv /\ [AnyNext]_anyVars => Inv'
  BY PartStays, HostNext, HostingStep
<1>3. Inv => HostsTidy
  BY HostingTidy DEF HostsTidy
<1> QED BY <1>1, <1>2, <1>3, PTL DEF AnySpec

\* The results that a host program compares are what its inputs demand, in whatever
\* order the device ran its commands: every wait of the scripts is where it is needed.
THEOREM ResultsAlwaysRight == AnySpec => [](part = "host" => Programs!ResultsRight)
<1> DEFINE Inv == part = "host" => Hosting
           Goal == part = "host" => Programs!ResultsRight
<1>1. AnyInit => Inv
  BY InitHosting DEF AnyInit
<1>2. Inv /\ [AnyNext]_anyVars => Inv'
  BY PartStays, HostNext, HostingStep
<1>3. Inv => Goal
  BY TrackCompares
<1>4. AnySpec => []Goal
  <2> HIDE DEF Inv, Goal
  <2> QED BY <1>1, <1>2, <1>3, PTL DEF AnySpec
<1> QED BY <1>4

\* What each main goes on to compare is what its kernel or its commands have to leave
\* there, for all kernels and all programs, all sizes and whatever buffers held.
THEOREM ResultsAlwaysExact == AnySpec => []ResultsExact
<1> DEFINE Part == part \in {"gemm", "hist", "host"}
           Product_ == part = "gemm" => ProductRight
           Histogram_ == part = "hist" => Histogram!AddsReference
           Host_ == part = "host" => Programs!ResultsRight
<1>1. AnySpec => []Product_
  BY ProductsAlwaysRight
<1>2. AnySpec => []Histogram_
  BY HistogramsAlwaysAdd
<1>3. AnySpec => []Host_
  BY ResultsAlwaysRight
<1>4. AnyInit => Part
  BY DEF AnyInit
<1>5. Part /\ [AnyNext]_anyVars => Part'
  BY PartStays
<1>6. Part /\ Product_ /\ Histogram_ /\ Host_ => ResultsExact
  BY DEF ResultsExact
<1> HIDE DEF Part, Product_, Histogram_, Host_
<1> QED BY <1>1, <1>2, <1>3, <1>4, <1>5, <1>6, PTL DEF AnySpec
=============================================================================
