----------------------------- MODULE LruLemmas -----------------------------
(***************************************************************************)
(* Facts about recency lists, about rings and chains of nodes that link a  *)
(* sequence, and about functions defined by recursion, for the proofs      *)
(* about the LRU caches.                                                   *)
(***************************************************************************)
EXTENDS RecencyList, Integers, FiniteSetTheorems, WellFoundedInduction, TLAPS

-----------------------------------------------------------------------------
(* What the operations of RecencyList do to a list: lengths, elements,     *)
(* distinctness and positions.                                             *)

\* Pushing in front keeps the list a list and adds one element.
LEMMA PushFrontType ==
  ASSUME NEW S, NEW s \in Seq(S), NEW x \in S
  PROVE  /\ PushFront(s, x) \in Seq(S)
         /\ Len(PushFront(s, x)) = Len(s) + 1
         /\ PushFront(s, x)[1] = x
         /\ \A j \in 1..Len(s) : PushFront(s, x)[j + 1] = s[j]
BY DEF PushFront

\* The element pushed joins those that were on the list.
LEMMA PushFrontElems ==
  ASSUME NEW S, NEW s \in Seq(S), NEW x \in S
  PROVE  Elems(PushFront(s, x)) = Elems(s) \cup {x}
<1> DEFINE t == PushFront(s, x)
<1>1. Len(t) = Len(s) + 1 /\ t[1] = x /\ \A j \in 1..Len(s) : t[j + 1] = s[j]
  BY PushFrontType
<1>2. ASSUME NEW e \in Elems(t) PROVE e \in Elems(s) \cup {x}
  <2>1. PICK i \in 1..Len(t) : e = t[i]
    BY DEF Elems
  <2>2. CASE i = 1
    BY <1>1, <2>1, <2>2
  <2>3. CASE i # 1
    <3>1. i - 1 \in 1..Len(s) /\ t[i] = s[i - 1]
      BY <1>1, <2>3 DEF PushFront
    <3> QED BY <2>1, <3>1 DEF Elems
  <2> QED BY <2>2, <2>3
<1>3. ASSUME NEW e \in Elems(s) \cup {x} PROVE e \in Elems(t)
  <2> HIDE DEF t
  <2>1. 1 \in 1..Len(t)
    BY <1>1
  <2>2. x \in Elems(t)
    BY <1>1, <2>1 DEF Elems
  <2>3. ASSUME NEW j \in 1..Len(s) PROVE s[j] \in Elems(t)
    <3>1. j + 1 \in 1..Len(t)
      BY <1>1
    <3> QED BY <1>1, <3>1 DEF Elems
  <2> QED BY <2>2, <2>3 DEF Elems
<1> QED BY <1>2, <1>3

\* An element that was not on the list keeps it free of duplicates.
LEMMA PushFrontDistinct ==
  ASSUME NEW S, NEW s \in Seq(S), NEW x \in S, Distinct(s), x \notin Elems(s)
  PROVE  Distinct(PushFront(s, x))
BY DEF PushFront, Elems, Distinct

\* Popping the back drops the last element of a non-empty list.
LEMMA PopBackType ==
  ASSUME NEW S, NEW s \in Seq(S), s # << >>
  PROVE  /\ PopBack(s) \in Seq(S)
         /\ Len(PopBack(s)) = Len(s) - 1
         /\ \A j \in 1..(Len(s) - 1) : PopBack(s)[j] = s[j]
BY DEF PopBack

\* Exactly the last element leaves.
LEMMA PopBackElems ==
  ASSUME NEW S, NEW s \in Seq(S), s # << >>, Distinct(s)
  PROVE  /\ Elems(PopBack(s)) = Elems(s) \ {s[Len(s)]}
         /\ Distinct(PopBack(s))
BY PopBackType, SMTT(30) DEF Elems, Distinct

\* Moving one element to the front permutes the list.
LEMMA MoveToFrontType ==
  ASSUME NEW S, NEW s \in Seq(S), NEW i \in 1..Len(s)
  PROVE  /\ MoveToFront(s, i) \in Seq(S)
         /\ Len(MoveToFront(s, i)) = Len(s)
BY DEF MoveToFront

\* The elements of the list stay the same.
LEMMA MoveToFrontElems ==
  ASSUME NEW S, NEW s \in Seq(S), NEW i \in 1..Len(s)
  PROVE  Elems(MoveToFront(s, i)) = Elems(s)
<1> DEFINE t == MoveToFront(s, i)
<1>1. Len(t) = Len(s)
  BY MoveToFrontType
<1>2. ASSUME NEW j \in 1..Len(s) PROVE \E m \in 1..Len(s) : t[j] = s[m]
  BY DEF MoveToFront
<1>3. ASSUME NEW m \in 1..Len(s) PROVE \E j \in 1..Len(s) : t[j] = s[m]
  <2>1. CASE m = i
    BY <2>1 DEF MoveToFront
  <2>2. CASE m < i
    <3>1. m + 1 \in 1..Len(s) /\ t[m + 1] = s[m]
      BY <2>2 DEF MoveToFront
    <3> QED BY <3>1
  <2>3. CASE m > i
    BY <2>3 DEF MoveToFront
  <2> QED BY <2>1, <2>2, <2>3
<1> HIDE DEF t
<1>4. ASSUME NEW e \in Elems(t) PROVE e \in Elems(s)
  BY <1>1, <1>2 DEF Elems
<1>5. ASSUME NEW e \in Elems(s) PROVE e \in Elems(t)
  BY <1>1, <1>3 DEF Elems
<1> QED BY <1>4, <1>5 DEF t

\* No element appears a second time.
LEMMA MoveToFrontDistinct ==
  ASSUME NEW S, NEW s \in Seq(S), NEW i \in 1..Len(s), Distinct(s)
  PROVE  Distinct(MoveToFront(s, i))
BY DEF MoveToFront, Distinct

\* The position of an element is a position that holds it.
LEMMA PositionOfElem ==
  ASSUME NEW S, NEW s \in Seq(S), NEW x \in Elems(s)
  PROVE  PositionOf(s, x) \in 1..Len(s) /\ s[PositionOf(s, x)] = x
BY DEF PositionOf, Elems

\* A request puts its key in front of a list of distinct keys.
LEMMA TouchType ==
  ASSUME NEW S, NEW s \in Seq(S), NEW k \in S, Distinct(s)
  PROVE  Touch(s, k) \in Seq(S) /\ Distinct(Touch(s, k))
BY PushFrontType, PushFrontDistinct, PositionOfElem, MoveToFrontType,
   MoveToFrontDistinct DEF Touch

-----------------------------------------------------------------------------
(* Induction over the naturals in its first-order form, about a set, and   *)
(* what it gives for functions defined by recursion.                       *)

\* A set of naturals has a smallest element.
LEMMA Smallest ==
  ASSUME NEW T \in SUBSET Nat, T # {}
  PROVE  \E x \in T : \A y \in T : x <= y
<1>1. PICK x \in T : \A y \in T : <<y, x>> \notin OpToRel(<, Nat)
  BY NatLessThanWellFounded, WFMin, Zenon
<1>2. \A y \in T : ~(y < x)
  BY <1>1, Zenon DEF OpToRel
<1> QED BY <1>2

\* A set that holds zero and every successor holds all naturals.
LEMMA SetInduction ==
  ASSUME NEW S, 0 \in S, \A n \in Nat : n \in S => n + 1 \in S
  PROVE  Nat \subseteq S
<1> DEFINE T == Nat \ S
<1>1. SUFFICES ASSUME T # {} PROVE FALSE
  OBVIOUS
<1>2. PICK x \in T : \A y \in T : x <= y
  BY <1>1, Smallest
<1>3. x # 0 /\ x - 1 \in Nat
  OBVIOUS
<1> QED BY <1>2, <1>3

\* f starts with a, and its value at i is what F[i] makes of the one before, as
\* long as that is in the stage before.
Staged(f, a, F, D, N) ==
  f[0] = a /\ \A i \in 1..N : f[i - 1] \in D[i - 1] => f[i] = F[i][f[i - 1]]

\* Then every value is in its stage.
LEMMA Stages ==
  ASSUME NEW N \in Nat, NEW D, NEW F, NEW a \in D[0],
         \A i \in 1..N : F[i] \in [D[i - 1] -> D[i]],
         NEW f, Staged(f, a, F, D, N)
  PROVE  \A i \in 0..N : f[i] \in D[i]
<1> DEFINE S == {n \in Nat : n <= N => f[n] \in D[n]}
<1>1. 0 \in S
  BY DEF Staged
<1>2. ASSUME NEW n \in Nat, n \in S PROVE n + 1 \in S
  <2>1. CASE n + 1 <= N
    <3>1. n + 1 \in 1..N /\ (n + 1) - 1 = n /\ n <= N
      BY <2>1
    <3>2. f[n] \in D[n] /\ F[n + 1] \in [D[n] -> D[n + 1]]
      BY <1>2, <3>1
    <3>3. f[n + 1] = F[n + 1][f[n]]
      BY <3>1, <3>2 DEF Staged
    <3> QED BY <3>2, <3>3
  <2>2. CASE ~(n + 1 <= N)
    BY <2>2
  <2> QED BY <2>1, <2>2
<1>3. Nat \subseteq S
  <2> HIDE DEF S
  <2> QED BY <1>1, <1>2, SetInduction
<1> QED BY <1>3

\* Such a function there is.
LEMMA StagedIteration ==
  ASSUME NEW N \in Nat, NEW D, NEW F, NEW a \in D[0],
         \A i \in 1..N : F[i] \in [D[i - 1] -> D[i]]
  PROVE  \E f : f = [i \in 0..N |-> f[i]] /\ Staged(f, a, F, D, N)
<1> DEFINE Done(n) == \E f : f = [i \in 0..n |-> f[i]] /\ Staged(f, a, F, D, n)
           S == {n \in Nat : n <= N => Done(n)}
<1>1. 0 \in S
  <2>1. [i \in 0..0 |-> a][0] = a
    OBVIOUS
  <2>2. [i \in 0..0 |-> a] = [i \in 0..0 |-> [j \in 0..0 |-> a][i]]
    OBVIOUS
  <2>3. 1..0 = {}
    OBVIOUS
  <2>4. Staged([i \in 0..0 |-> a], a, F, D, 0)
    BY <2>1, <2>3 DEF Staged
  <2> QED BY <2>2, <2>4
<1>2. ASSUME NEW n \in Nat, n \in S PROVE n + 1 \in S
  <2>1. CASE n + 1 <= N
    <3>1. Done(n)
      BY <1>2, <2>1
    <3>2. PICK f : f = [i \in 0..n |-> f[i]] /\ Staged(f, a, F, D, n)
      BY <3>1
    <3> DEFINE g == [i \in 0..(n + 1) |-> IF i = n + 1 THEN F[n + 1][f[n]] ELSE f[i]]
    <3>3. g = [i \in 0..(n + 1) |-> g[i]] /\ g[0] = a
      BY <3>2 DEF Staged
    <3>4. ASSUME NEW i \in 1..(n + 1), g[i - 1] \in D[i - 1] PROVE g[i] = F[i][g[i - 1]]
      <4>1. CASE i = n + 1
        BY <4>1
      <4>2. CASE i # n + 1
        <5>1. i \in 1..n /\ g[i] = f[i] /\ g[i - 1] = f[i - 1]
          BY <4>2
        <5> HIDE DEF g
        <5> QED BY <3>2, <3>4, <5>1 DEF Staged
      <4> QED BY <4>1, <4>2
    <3> HIDE DEF g
    <3>5. Staged(g, a, F, D, n + 1)
      BY <3>3, <3>4 DEF Staged
    <3> QED BY <3>3, <3>5
  <2>2. CASE ~(n + 1 <= N)
    BY <2>2
  <2> QED BY <2>1, <2>2
<1>3. Nat \subseteq S
  <2> HIDE DEF S
  <2> QED BY <1>1, <1>2, SetInduction
<1>4. Done(N)
  <2> HIDE DEF Done
  <2> QED BY <1>3
<1> QED BY <1>4

\* f holds a and what F makes of it, applied once, twice, up to N times.
Iterates(f, a, F, N) == f[0] = a /\ \A i \in 1..N : f[i] = F[f[i - 1]]

\* A function on a set may be iterated from a member of the set.
LEMMA Iteration ==
  ASSUME NEW D, NEW a \in D, NEW F \in [D -> D], NEW N \in Nat
  PROVE  \E f \in [0..N -> D] : Iterates(f, a, F, N)
<1> DEFINE Ds == [i \in 0..N |-> D]
           Fs == [i \in 1..N |-> F]
<1>1. /\ a \in Ds[0] /\ \A i \in 1..N : Fs[i] \in [Ds[i - 1] -> Ds[i]]
      /\ \A i \in 0..N : Ds[i] = D
      /\ \A i \in 1..N : Fs[i] = F
  OBVIOUS
<1> HIDE DEF Ds, Fs
<1>2. PICK f : f = [i \in 0..N |-> f[i]] /\ Staged(f, a, Fs, Ds, N)
  BY <1>1, StagedIteration
<1>3. \A i \in 0..N : f[i] \in Ds[i]
  BY <1>1, <1>2, Stages
<1>4. f \in [0..N -> D]
  BY <1>1, <1>2, <1>3
<1>5. ASSUME NEW i \in 1..N PROVE f[i] = F[f[i - 1]]
  <2>1. i - 1 \in 0..N
    OBVIOUS
  <2>2. f[i] = Fs[i][f[i - 1]]
    BY <1>2, <1>3, <2>1 DEF Staged
  <2> QED BY <1>1, <2>2
<1>6. Iterates(f, a, F, N)
  BY <1>2, <1>5 DEF Iterates, Staged
<1> QED BY <1>4, <1>6

-----------------------------------------------------------------------------
(* The list without its i-th element.                                      *)

Removed(s, i) == [j \in 1..(Len(s) - 1) |-> IF j < i THEN s[j] ELSE s[j + 1]]

\* The others keep their order.
LEMMA RemovedType ==
  ASSUME NEW S, NEW s \in Seq(S), NEW i \in 1..Len(s)
  PROVE  Removed(s, i) \in Seq(S) /\ Len(Removed(s, i)) = Len(s) - 1
BY DEF Removed

\* Exactly that element leaves.
LEMMA RemovedElems ==
  ASSUME NEW S, NEW s \in Seq(S), NEW i \in 1..Len(s), Distinct(s)
  PROVE  Elems(Removed(s, i)) = Elems(s) \ {s[i]} /\ Distinct(Removed(s, i))
<1> DEFINE r == Removed(s, i)
<1>1. r \in Seq(S) /\ Len(r) = Len(s) - 1
  BY RemovedType
<1>2. \A j \in 1..(Len(s) - 1) : r[j] = IF j < i THEN s[j] ELSE s[j + 1]
  BY DEF Removed
<1> HIDE DEF r
<1>3. Distinct(r)
  BY <1>1, <1>2 DEF Distinct
<1>4. ASSUME NEW e \in Elems(r) PROVE e \in Elems(s) /\ e # s[i]
  <2>1. PICK j \in 1..Len(r) : e = r[j]
    BY <1>4 DEF Elems
  <2> QED BY <1>1, <1>2, <2>1 DEF Elems, Distinct
<1>5. ASSUME NEW e \in Elems(s), e # s[i] PROVE e \in Elems(r)
  <2>1. PICK j \in 1..Len(s) : e = s[j]
    BY DEF Elems
  <2>2. CASE j < i
    BY <1>1, <1>2, <2>1, <2>2 DEF Elems
  <2>3. CASE j > i
    <3>1. j - 1 \in 1..Len(r) /\ r[j - 1] = s[j]
      BY <1>1, <1>2, <2>3
    <3> QED BY <2>1, <3>1 DEF Elems
  <2> QED BY <1>5, <2>1, <2>2, <2>3
<1> QED BY <1>3, <1>4, <1>5 DEF r

\* Moving to the front is removing and pushing in front.
LEMMA MovedIsPushed ==
  ASSUME NEW S, NEW s \in Seq(S), NEW i \in 1..Len(s)
  PROVE  MoveToFront(s, i) = PushFront(Removed(s, i), s[i])
<1>1. Len(Removed(s, i)) = Len(s) - 1
  BY RemovedType
<1>2. ASSUME NEW j \in 1..Len(s)
      PROVE  MoveToFront(s, i)[j] = PushFront(Removed(s, i), s[i])[j]
  BY <1>1 DEF MoveToFront, PushFront, Removed
<1> QED BY <1>1, <1>2 DEF MoveToFront, PushFront

\* Removing the last element is popping the back.
LEMMA LastRemoved ==
  ASSUME NEW S, NEW s \in Seq(S), Len(s) # 0
  PROVE  Len(s) \in 1..Len(s) /\ Removed(s, Len(s)) = PopBack(s)
<1>1. Len(s) \in Nat \ {0}
  OBVIOUS
<1>2. ASSUME NEW j \in 1..(Len(s) - 1)
      PROVE  (IF j < Len(s) THEN s[j] ELSE s[j + 1]) = s[j]
  BY <1>1
<1> QED BY <1>1, <1>2 DEF Removed, PopBack

-----------------------------------------------------------------------------
(* What a request does to the first positions of the history.              *)

\* A key found at position i moves from there to the front.
LEMMA TouchKnown ==
  ASSUME NEW S, NEW s \in Seq(S), Distinct(s), NEW i \in 1..Len(s)
  PROVE  Touch(s, s[i]) = MoveToFront(s, i)
<1>1. s[i] \in Elems(s)
  BY DEF Elems
<1>2. PositionOf(s, s[i]) = i
  BY <1>1, PositionOfElem DEF Distinct
<1> QED BY <1>1, <1>2 DEF Touch

\* A key that is not among the first n shifts them by one.
LEMMA TouchShifts ==
  ASSUME NEW S, NEW s \in Seq(S), NEW k \in S, NEW n \in 0..Len(s),
         \A j \in 1..n : s[j] # k
  PROVE  /\ Len(Touch(s, k)) \in Nat
         /\ Len(Touch(s, k)) > n
         /\ Len(Touch(s, k)) \in {Len(s), Len(s) + 1}
         /\ Touch(s, k)[1] = k
         /\ \A j \in 1..n : Touch(s, k)[j + 1] = s[j]
<1>1. CASE k \notin Elems(s)
  <2>1. Touch(s, k) = PushFront(s, k)
    BY <1>1 DEF Touch
  <2>2. /\ Len(PushFront(s, k)) = Len(s) + 1
        /\ PushFront(s, k)[1] = k
        /\ \A j \in 1..Len(s) : PushFront(s, k)[j + 1] = s[j]
    BY PushFrontType, ZenonT(60)
  <2> HIDE DEF PushFront
  <2> QED BY <2>1, <2>2
<1>2. CASE k \in Elems(s)
  <2> DEFINE q == PositionOf(s, k)
  <2>1. q \in 1..Len(s) /\ s[q] = k
    BY <1>2, PositionOfElem
  <2>2. Touch(s, k) = MoveToFront(s, q)
    BY <1>2 DEF Touch
  <2> HIDE DEF q
  <2>3. Len(MoveToFront(s, q)) = Len(s)
    BY <2>1, MoveToFrontType
  <2>4. q > n
    BY <2>1
  <2>5. MoveToFront(s, q)[1] = k
    BY <2>1 DEF MoveToFront
  <2>6. ASSUME NEW j \in 1..n PROVE MoveToFront(s, q)[j + 1] = s[j]
    BY <2>1, <2>4 DEF MoveToFront
  <2> QED BY <2>1, <2>2, <2>3, <2>4, <2>5, <2>6
<1> QED BY <1>1, <1>2

\* What the first c positions hold after a request: the key, and only what they
\* held before; nothing leaves them when the key was one of theirs.
LEMMA ResidentTouched ==
  ASSUME NEW S, NEW s \in Seq(S), Distinct(s), NEW k \in S, NEW c \in Nat
  PROVE  /\ k \notin Resident(s, c) =>
              \A j \in Resident(Touch(s, k), c) : j = k \/ j \in Resident(s, c)
         /\ k \in Resident(s, c) => \A j : j \in Resident(Touch(s, k), c) <=> j \in Resident(s, c)
         /\ c # 0 => k \in Resident(Touch(s, k), c)
<1>1. \A t, x : x \in Resident(t, c) <=> \E i \in 1..Len(t) : i <= c /\ t[i] = x
  BY DEF Resident
<1>2. CASE k \in Elems(s)
  <2>1. PICK i \in 1..Len(s) : s[i] = k
    BY <1>2 DEF Elems
  <2> DEFINE t == Touch(s, k)
  <2>2. t = MoveToFront(s, i)
    BY <2>1, TouchKnown
  <2> HIDE DEF t
  <2>3. /\ Len(t) = Len(s) /\ Len(s) \in Nat
        /\ \A j \in 1..Len(s) : t[j] = IF j = 1 THEN s[i] ELSE IF j <= i THEN s[j - 1] ELSE s[j]
    BY <2>2, MoveToFrontType DEF MoveToFront
  <2>4. k \in Resident(s, c) <=> i <= c
    BY <1>1, <2>1 DEF Distinct
  <2>5. ASSUME NEW x \in Resident(t, c) PROVE x = k \/ x \in Resident(s, c)
    <3>1. PICK j \in 1..Len(t) : j <= c /\ t[j] = x
      BY <1>1, <2>5
    <3>2. j \in 1..Len(s) /\ (j # 1 => j - 1 \in 1..Len(s) /\ j - 1 <= c)
      BY <2>3, <3>1
    <3> QED BY <1>1, <2>1, <2>3, <3>1, <3>2
  <2>6. ASSUME NEW x \in Resident(s, c), i <= c PROVE x \in Resident(t, c)
    <3>1. PICK j \in 1..Len(s) : j <= c /\ s[j] = x
      BY <1>1, <2>6
    <3>2. CASE j = i
      <4>1. 1 \in 1..Len(t) /\ 1 <= c /\ t[1] = x
        BY <2>3, <2>6, <3>1, <3>2
      <4> QED BY <1>1, <4>1
    <3>3. CASE j < i
      <4>1. j + 1 \in 1..Len(t) /\ j + 1 <= c /\ t[j + 1] = x
        <5>1. j + 1 \in 1..Len(s) /\ j + 1 # 1 /\ j + 1 <= i /\ (j + 1) - 1 = j /\ j + 1 <= c
          BY <2>3, <2>6, <3>3
        <5> QED BY <2>3, <3>1, <5>1
      <4> QED BY <1>1, <4>1
    <3>4. CASE j > i
      <4>1. j \in 1..Len(t) /\ t[j] = x
        BY <2>3, <3>1, <3>4
      <4> QED BY <1>1, <3>1, <4>1
    <3> QED BY <3>2, <3>3, <3>4
  <2>7. c # 0 => k \in Resident(t, c)
    <3>1. 1 \in 1..Len(t) /\ t[1] = k /\ (c # 0 => 1 <= c)
      BY <2>1, <2>3
    <3> QED BY <1>1, <3>1
  <2> QED BY <2>4, <2>5, <2>6, <2>7 DEF t
<1>3. CASE k \notin Elems(s)
  <2> DEFINE t == PushFront(s, k)
  <2>1. /\ Len(t) = Len(s) + 1 /\ t[1] = k /\ Len(s) \in Nat
        /\ \A j \in 1..Len(s) : t[j + 1] = s[j]
    <3>1. Len(t) = Len(s) + 1 /\ t[1] = k
      BY PushFrontType
    <3>2. \A j \in 1..Len(s) : t[j + 1] = s[j]
      BY PushFrontType
    <3> QED BY <3>1, <3>2
  <2> HIDE DEF t
  <2>2. k \notin Resident(s, c)
    BY <1>1, <1>3 DEF Elems
  <2>3. ASSUME NEW x \in Resident(t, c) PROVE x = k \/ x \in Resident(s, c)
    <3>1. PICK j \in 1..Len(t) : j <= c /\ t[j] = x
      BY <1>1, <2>3
    <3>2. CASE j = 1
      BY <2>1, <3>1, <3>2
    <3>3. CASE j # 1
      <4>1. j - 1 \in 1..Len(s) /\ (j - 1) + 1 = j /\ j - 1 <= c
        BY <2>1, <3>1, <3>3
      <4>2. s[j - 1] = x
        BY <2>1, <3>1, <4>1
      <4> QED BY <1>1, <4>1, <4>2
    <3> QED BY <3>2, <3>3
  <2>4. c # 0 => k \in Resident(t, c)
    <3>1. 1 \in 1..Len(t) /\ (c # 0 => 1 <= c)
      BY <2>1
    <3> QED BY <1>1, <2>1, <3>1
  <2>5. Touch(s, k) = t
    BY <1>3 DEF Touch, t
  <2> QED BY <2>2, <2>3, <2>4, <2>5
<1> QED BY <1>2, <1>3

-----------------------------------------------------------------------------
(* Nodes that link a sequence: a ring through its sentinel, or a chain     *)
(* that ends in NULL.                                                      *)

\* The node at a position, the end before and after the sequence.
At(s, i, end) == IF i \in 1..Len(s) THEN s[i] ELSE end

\* next and prev lead from position to position of s and around the sentinel.
Ring(next, prev, s, end) ==
  \A i \in 0..Len(s) : /\ next[At(s, i, end)] = At(s, i + 1, end)
                       /\ prev[At(s, i + 1, end)] = At(s, i, end)

\* next leads from the head along t to the end.
Chained(head, next, t, end) ==
  /\ head = At(t, 1, end)
  /\ \A i \in 1..Len(t) : next[t[i]] = At(t, i + 1, end)

\* A node is met at one position only.
LEMMA AtOnce ==
  ASSUME NEW A, NEW s \in Seq(A), NEW end, end \notin A, Distinct(s),
         NEW i \in 0..(Len(s) + 1), NEW j \in 0..(Len(s) + 1),
         At(s, i, end) = At(s, j, end)
  PROVE  i = j \/ (i \in {0, Len(s) + 1} /\ j \in {0, Len(s) + 1})
<1>1. Len(s) \in Nat /\ \A m \in 1..Len(s) : s[m] \in A /\ s[m] # end
  OBVIOUS
<1>2. CASE i \in 1..Len(s) /\ j \in 1..Len(s)
  BY <1>2 DEF At, Distinct
<1>3. CASE i \in 1..Len(s) /\ j \notin 1..Len(s)
  BY <1>1, <1>3 DEF At
<1>4. CASE i \notin 1..Len(s) /\ j \in 1..Len(s)
  BY <1>1, <1>4 DEF At
<1>5. CASE i \notin 1..Len(s) /\ j \notin 1..Len(s)
  BY <1>1, <1>5
<1> QED BY <1>2, <1>3, <1>4, <1>5

LEMMA AtType ==
  ASSUME NEW A, NEW s \in Seq(A), NEW end, NEW i \in Int
  PROVE  At(s, i, end) \in A \cup {end}
BY DEF At

\* A ring's next step undone by prev, for the sentinel too.
LEMMA RingEnds ==
  ASSUME NEW A, NEW s \in Seq(A), NEW end, end \notin A, NEW next, NEW prev,
         Ring(next, prev, s, end)
  PROVE  /\ next[end] = At(s, 1, end) /\ prev[end] = At(s, Len(s), end)
         /\ \A a \in Elems(s) \cup {end} : prev[next[a]] = a
         /\ next[end] = end <=> Len(s) = 0
<1>1. Len(s) \in Nat /\ 0 \in 0..Len(s) /\ Len(s) \in 0..Len(s)
  OBVIOUS
<1>2. At(s, 0, end) = end /\ At(s, Len(s) + 1, end) = end
  BY <1>1 DEF At
<1>3. next[end] = At(s, 1, end) /\ prev[end] = At(s, Len(s), end)
  BY <1>1, <1>2 DEF Ring
<1>4. ASSUME NEW a \in Elems(s) \cup {end} PROVE prev[next[a]] = a
  <2>1. PICK i \in 0..Len(s) : a = At(s, i, end)
    BY <1>1, <1>2 DEF Elems, At
  <2> QED BY <2>1 DEF Ring
<1>5. next[end] = end <=> Len(s) = 0
  <2>1. Len(s) # 0 => s[1] \in A
    BY <1>1
  <2> QED BY <1>1, <1>3, <2>1 DEF At
<1> QED BY <1>3, <1>4, <1>5

\* Linking a node in behind the sentinel puts it in front of the sequence.
LEMMA RingPushed ==
  ASSUME NEW A, NEW s \in Seq(A), NEW end, end \notin A, Distinct(s),
         NEW x \in A, x \notin Elems(s),
         NEW next, NEW prev, Ring(next, prev, s, end), NEW next2, NEW prev2,
         next2[end] = x, next2[x] = next[end], \A a \in Elems(s) : next2[a] = next[a],
         prev2[x] = end, prev2[next[end]] = x,
         \A a \in Elems(s) \cup {end} : a # next[end] => prev2[a] = prev[a]
  PROVE  Ring(next2, prev2, PushFront(s, x), end)
<1> DEFINE r == PushFront(s, x)
<1>0. Len(r) = Len(s) + 1 /\ r[1] = x /\ \A j \in 1..Len(s) : r[j + 1] = s[j]
  BY DEF PushFront
<1>1. /\ Len(r) = Len(s) + 1 /\ r[1] = x /\ Len(s) \in Nat
      /\ \A j \in 1..Len(s) : r[j + 1] = s[j]
  BY <1>0
<1>2. At(r, 0, end) = end /\ At(r, 1, end) = x
  BY <1>1 DEF At
<1>3. ASSUME NEW i \in 1..(Len(s) + 1) PROVE At(r, i + 1, end) = At(s, i, end)
  BY <1>1 DEF At
<1>4. ASSUME NEW i \in Int PROVE At(s, i, end) \in Elems(s) \cup {end} /\ At(s, i, end) # x
  BY DEF At, Elems
<1>5. next[end] = At(s, 1, end)
  BY RingEnds
<1> HIDE DEF r
<1>6. ASSUME NEW i \in 0..Len(r)
      PROVE  next2[At(r, i, end)] = At(r, i + 1, end) /\ prev2[At(r, i + 1, end)] = At(r, i, end)
  <2>1. CASE i = 0
    BY <1>2, <2>1
  <2>2. CASE i = 1
    BY <1>1, <1>2, <1>3, <1>5, <2>2
  <2>3. CASE i > 1
    <3>1. i - 1 \in 1..Len(s) /\ i \in 1..(Len(s) + 1)
      BY <1>1, <2>3
    <3>2. /\ At(r, i, end) = At(s, i - 1, end) /\ At(r, i + 1, end) = At(s, i, end)
      BY <1>3, <3>1
    <3>3. At(s, i - 1, end) \in Elems(s)
      BY <3>1 DEF At, Elems
    <3>4. next[At(s, i - 1, end)] = At(s, i, end) /\ prev[At(s, i, end)] = At(s, i - 1, end)
      BY <3>1 DEF Ring
    <3>5. next2[At(s, i - 1, end)] = next[At(s, i - 1, end)]
      BY <3>3
    <3>6. At(s, i, end) # At(s, 1, end)
      BY <1>1, <2>3, <3>1, AtOnce
    <3>7. prev2[At(s, i, end)] = prev[At(s, i, end)]
      <4>1. At(s, i, end) # next[end]
        BY <1>5, <3>1, <3>6
      <4> QED BY <1>4, <4>1
    <3> QED BY <3>2, <3>4, <3>5, <3>7
  <2> QED BY <1>1, <2>1, <2>2, <2>3
<1> QED BY <1>6 DEF Ring, r

\* Linking a node's neighbours takes it out of the sequence.
LEMMA RingDetached ==
  ASSUME NEW A, NEW s \in Seq(A), NEW end, end \notin A, Distinct(s),
         NEW i \in 1..Len(s),
         NEW next, NEW prev, Ring(next, prev, s, end), NEW next2, NEW prev2,
         next2[prev[s[i]]] = next[s[i]], prev2[next[s[i]]] = prev[s[i]],
         \A a \in Elems(s) \cup {end} : a # prev[s[i]] => next2[a] = next[a],
         \A a \in Elems(s) \cup {end} : a # next[s[i]] => prev2[a] = prev[a]
  PROVE  Ring(next2, prev2, Removed(s, i), end)
<1> DEFINE r == Removed(s, i)
<1>1. Len(s) \in Nat /\ Len(r) = Len(s) - 1
  BY RemovedType
<1>2. ASSUME NEW j \in 0..Len(s)
      PROVE  At(r, j, end) = IF j < i THEN At(s, j, end) ELSE At(s, j + 1, end)
  BY <1>1 DEF At, Removed
<1>3. prev[s[i]] = At(s, i - 1, end) /\ next[s[i]] = At(s, i + 1, end)
  <2>1. i - 1 \in 0..Len(s) /\ i \in 0..Len(s) /\ At(s, i, end) = s[i] /\ (i - 1) + 1 = i
    BY DEF At
  <2> QED BY <2>1 DEF Ring
<1>4. ASSUME NEW j \in Int PROVE At(s, j, end) \in Elems(s) \cup {end}
  BY DEF At, Elems
<1> HIDE DEF r
<1>5. ASSUME NEW j \in 0..Len(r)
      PROVE  next2[At(r, j, end)] = At(r, j + 1, end) /\ prev2[At(r, j + 1, end)] = At(r, j, end)
  <2>1. /\ j \in 0..Len(s) /\ j + 1 \in 0..Len(s) /\ j + 2 \in 0..(Len(s) + 1)
        /\ i - 1 \in 0..Len(s) /\ i + 1 \in 0..(Len(s) + 1)
    BY <1>1
  <2>2. CASE j = i - 1
    <3>1. At(r, j, end) = At(s, i - 1, end) /\ At(r, j + 1, end) = At(s, i + 1, end)
      BY <1>2, <2>1, <2>2
    <3> QED BY <1>3, <1>4, <2>1, <3>1
  <2>3. CASE j < i - 1
    <3>1. At(r, j, end) = At(s, j, end) /\ At(r, j + 1, end) = At(s, j + 1, end)
      BY <1>2, <2>1, <2>3
    <3>2. At(s, j, end) # At(s, i - 1, end)
      BY <2>1, <2>3, <1>1, AtOnce
    <3>3. At(s, j + 1, end) # At(s, i + 1, end)
      BY <2>1, <2>3, <1>1, AtOnce
    <3>4. next[At(s, j, end)] = At(s, j + 1, end) /\ prev[At(s, j + 1, end)] = At(s, j, end)
      BY <2>1 DEF Ring
    <3> QED BY <1>3, <1>4, <2>1, <3>1, <3>2, <3>3, <3>4
  <2>4. CASE j > i - 1
    <3>1. At(r, j, end) = At(s, j + 1, end) /\ At(r, j + 1, end) = At(s, j + 2, end)
      BY <1>2, <2>1, <2>4
    <3>2. At(s, j + 1, end) # At(s, i - 1, end)
      BY <2>1, <2>4, <1>1, AtOnce
    <3>3. At(s, j + 2, end) # At(s, i + 1, end)
      BY <2>1, <2>4, <1>1, AtOnce
    <3>4. next[At(s, j + 1, end)] = At(s, j + 2, end) /\ prev[At(s, j + 2, end)] = At(s, j + 1, end)
      BY <2>1 DEF Ring
    <3> QED BY <1>3, <1>4, <2>1, <3>1, <3>2, <3>3, <3>4
  <2> QED BY <2>2, <2>3, <2>4
<1> QED BY <1>5 DEF Ring, r

\* The neighbours of a node in the ring are others.
LEMMA RingNeighbours ==
  ASSUME NEW A, NEW s \in Seq(A), NEW end, end \notin A, Distinct(s),
         NEW i \in 1..Len(s), NEW next, NEW prev, Ring(next, prev, s, end)
  PROVE  /\ s[i] \in A
         /\ next[s[i]] = At(s, i + 1, end) /\ next[s[i]] # s[i]
         /\ prev[s[i]] = At(s, i - 1, end) /\ prev[s[i]] # s[i]
         /\ next[s[i]] \in Elems(s) \cup {end} /\ prev[s[i]] \in Elems(s) \cup {end}
<1>1. /\ Len(s) \in Nat /\ i \in 0..Len(s) /\ i - 1 \in 0..Len(s) /\ i + 1 \in 0..(Len(s) + 1)
      /\ (i - 1) + 1 = i
  OBVIOUS
<1>2. At(s, i, end) = s[i] /\ s[i] \in A
  BY DEF At
<1>3. prev[s[i]] = At(s, i - 1, end) /\ next[s[i]] = At(s, i + 1, end)
  BY <1>1, <1>2 DEF Ring
<1>4. prev[s[i]] # s[i] /\ next[s[i]] # s[i]
  BY <1>1, <1>2, <1>3, AtOnce
<1> QED BY <1>1, <1>2, <1>3, <1>4 DEF At, Elems

\* A ring does not depend on the nodes outside it.
LEMMA RingKept ==
  ASSUME NEW A, NEW s \in Seq(A), NEW end, NEW next, NEW prev, NEW next2, NEW prev2,
         Ring(next, prev, s, end),
         \A a \in Elems(s) \cup {end} : next2[a] = next[a] /\ prev2[a] = prev[a]
  PROVE  Ring(next2, prev2, s, end)
<1>1. \A i \in Int : At(s, i, end) \in Elems(s) \cup {end}
  BY DEF At, Elems
<1> QED BY <1>1 DEF Ring

\* A chain does not depend on the nodes outside it.
LEMMA ChainKept ==
  ASSUME NEW A, NEW t \in Seq(A), NEW end, NEW head, NEW next, NEW next2,
         Chained(head, next, t, end), \A a \in Elems(t) : next2[a] = next[a]
  PROVE  Chained(head, next2, t, end)
BY DEF Chained, Elems

\* Linking a node in before the head puts it in front of the chain.
LEMMA ChainPushed ==
  ASSUME NEW A, NEW t \in Seq(A), NEW end, NEW head, NEW next, NEW next2,
         Chained(head, next, t, end), NEW x \in A, next2[x] = head,
         \A a \in Elems(t) : next2[a] = next[a]
  PROVE  Chained(x, next2, PushFront(t, x), end)
<1> DEFINE r == PushFront(t, x)
<1>1. Len(t) \in Nat
  OBVIOUS
<1>2. Len(r) = Len(t) + 1 /\ r[1] = x /\ \A j \in 1..Len(t) : r[j + 1] = t[j]
  BY PushFrontType
<1> HIDE DEF r
<1>3. ASSUME NEW i \in 1..(Len(t) + 1) PROVE At(r, i + 1, end) = At(t, i, end)
  BY <1>1, <1>2 DEF At
<1>4. At(r, 1, end) = x
  BY <1>1, <1>2 DEF At
<1>5. ASSUME NEW i \in 1..Len(r) PROVE next2[r[i]] = At(r, i + 1, end)
  <2>1. CASE i = 1
    BY <1>1, <1>2, <1>3, <2>1 DEF Chained
  <2>2. CASE i # 1
    <3>1. i - 1 \in 1..Len(t) /\ r[i] = t[i - 1] /\ i \in 1..(Len(t) + 1)
      BY <1>1, <1>2, <2>2
    <3>2. next2[t[i - 1]] = At(t, i, end)
      BY <3>1 DEF Elems, Chained
    <3> QED BY <1>3, <3>1, <3>2
  <2> QED BY <2>1, <2>2
<1> QED BY <1>4, <1>5 DEF Chained, r

\* Leading the pointer to a node past it takes it out of the chain.
LEMMA ChainRemoved ==
  ASSUME NEW A, NEW t \in Seq(A), NEW end, NEW head, NEW next, NEW next2,
         Chained(head, next, t, end), Distinct(t), NEW i \in 1..Len(t),
         i # 1 => next2[t[i - 1]] = next[t[i]],
         \A j \in 1..Len(t) : j \notin {i - 1, i} => next2[t[j]] = next[t[j]],
         NEW head2, head2 = IF i = 1 THEN next[t[1]] ELSE head
  PROVE  Chained(head2, next2, Removed(t, i), end)
<1> DEFINE r == Removed(t, i)
<1>1. Len(t) \in Nat /\ Len(r) = Len(t) - 1
  BY RemovedType
<1>2. ASSUME NEW j \in 1..Len(t)
      PROVE  At(r, j, end) = IF j < i THEN t[j] ELSE At(t, j + 1, end)
  BY <1>1 DEF At, Removed
<1>3. \A j \in 1..Len(r) : r[j] = IF j < i THEN t[j] ELSE t[j + 1]
  BY <1>1 DEF Removed
<1> HIDE DEF r
<1>4. \A j \in 1..Len(t) : next[t[j]] = At(t, j + 1, end)
  BY DEF Chained
<1>5. ASSUME NEW j \in 1..Len(r) PROVE next2[r[j]] = At(r, j + 1, end)
  <2>1. j \in 1..Len(t) /\ j + 1 \in 1..Len(t)
    BY <1>1
  <2>2. CASE j = i - 1
    <3>1. r[j] = t[i - 1] /\ At(r, j + 1, end) = At(t, i + 1, end)
      BY <1>1, <1>2, <1>3, <2>1, <2>2
    <3> QED BY <1>4, <2>2, <3>1
  <2>3. CASE j < i - 1
    <3>1. r[j] = t[j] /\ At(r, j + 1, end) = t[j + 1]
      BY <1>1, <1>2, <1>3, <2>1, <2>3
    <3>2. next2[t[j]] = next[t[j]]
      BY <2>1, <2>3
    <3> QED BY <1>1, <1>4, <2>1, <3>1, <3>2 DEF At
  <2>4. CASE j >= i
    <3>1. r[j] = t[j + 1] /\ At(r, j + 1, end) = At(t, j + 2, end)
      BY <1>1, <1>2, <1>3, <2>1, <2>4
    <3>2. next2[t[j + 1]] = next[t[j + 1]]
      BY <2>1, <2>4
    <3> QED BY <1>1, <1>4, <2>1, <3>1, <3>2
  <2> QED BY <2>2, <2>3, <2>4
<1>6. head2 = At(r, 1, end)
  <2>1. CASE i = 1
    BY <1>2, <1>4, <2>1
  <2>2. CASE i # 1
    BY <1>1, <1>2, <2>2 DEF Chained, At
  <2> QED BY <2>1, <2>2
<1> QED BY <1>5, <1>6 DEF Chained, r

\* The nodes met from the head along next, N steps, staying at the end once there.
IsWalk(f, head, next, end, N) ==
  f = [i \in 0..N |-> IF i = 0 THEN head
                      ELSE IF f[i - 1] = end THEN end ELSE next[f[i - 1]]]

\* A walk along a chain meets its nodes in order.
LEMMA ChainWalked ==
  ASSUME NEW A, NEW t \in Seq(A), NEW end, end \notin A, NEW head, NEW next,
         Chained(head, next, t, end), NEW N \in Nat, NEW f,
         IsWalk(f, head, next, end, N)
  PROVE  f = [i \in 0..N |-> At(t, i + 1, end)]
<1> DEFINE S == {n \in Nat : n <= N => f[n] = At(t, n + 1, end)}
<1>1. \A i \in 0..N : f[i] = IF i = 0 THEN head
                             ELSE IF f[i - 1] = end THEN end ELSE next[f[i - 1]]
  BY Zenon DEF IsWalk
<1>2. Len(t) \in Nat
  OBVIOUS
<1>3. 0 \in S
  BY <1>1 DEF Chained
<1>4. ASSUME NEW n \in Nat, n \in S PROVE n + 1 \in S
  <2>1. SUFFICES ASSUME n + 1 <= N PROVE f[n + 1] = At(t, n + 2, end)
    OBVIOUS
  <2>2. f[n] = At(t, n + 1, end) /\ n + 1 \in 0..N
    BY <1>4, <2>1
  <2>3. f[n + 1] = IF f[n] = end THEN end ELSE next[f[n]]
    BY <1>1, <2>2
  <2>4. CASE n + 1 \in 1..Len(t)
    <3>1. f[n] = t[n + 1] /\ t[n + 1] \in A
      BY <2>2, <2>4 DEF At
    <3>2. next[t[n + 1]] = At(t, (n + 1) + 1, end)
      BY <2>4 DEF Chained
    <3> QED BY <2>3, <3>1, <3>2
  <2>5. CASE n + 1 \notin 1..Len(t)
    <3>1. f[n] = end
      BY <2>2, <2>5 DEF At
    <3>2. At(t, n + 2, end) = end
      BY <1>2, <2>5 DEF At
    <3> QED BY <2>3, <3>1, <3>2
  <2> QED BY <2>4, <2>5
<1>5. Nat \subseteq S
  <2> HIDE DEF S
  <2> QED BY <1>3, <1>4, SetInduction
<1>6. ASSUME NEW i \in 0..N PROVE f[i] = At(t, i + 1, end)
  <2>1. i \in Nat /\ i <= N
    OBVIOUS
  <2>2. i \in S
    <3> HIDE DEF S
    <3> QED BY <1>5, <2>1
  <2> QED BY <2>1, <2>2
<1> QED BY <1>1, <1>6 DEF IsWalk

\* Such a walk there is from any head along any pointers.
LEMMA WalkExists ==
  ASSUME NEW A, NEW end, NEW head \in A \cup {end}, NEW next \in [A -> A \cup {end}],
         NEW N \in Nat
  PROVE  \E f : IsWalk(f, head, next, end, N)
<1> DEFINE D == A \cup {end}
           F == [a \in D |-> IF a = end THEN end ELSE next[a]]
<1>1. F \in [D -> D]
  OBVIOUS
<1>2. PICK f \in [0..N -> D] : Iterates(f, head, F, N)
  <2>1. head \in D
    OBVIOUS
  <2> HIDE DEF D, F
  <2> QED BY <1>1, <2>1, Iteration
<1>3. ASSUME NEW i \in 0..N
      PROVE  f[i] = IF i = 0 THEN head
                    ELSE IF f[i - 1] = end THEN end ELSE next[f[i - 1]]
  <2>1. CASE i = 0
    BY <1>2, <2>1 DEF Iterates
  <2>2. CASE i # 0
    <3>1. i \in 1..N /\ i - 1 \in 0..N
      BY <2>2
    <3>2. f[i] = F[f[i - 1]] /\ f[i - 1] \in D
      BY <1>2, <3>1 DEF Iterates
    <3> QED BY <2>2, <3>2
  <2> QED BY <2>1, <2>2
<1> QED BY <1>3 DEF IsWalk

\* f numbers the members of T from 1 to n, none of them twice.
Numbers(f, n, T) ==
  /\ \A i \in 1..n : f[i] \in T
  /\ \A e \in T : \E i \in 1..n : f[i] = e
  /\ \A i, j \in 1..n : f[i] = f[j] => i = j

\* Then T has n members.
LEMMA Numbered ==
  ASSUME NEW n \in Nat, NEW f, NEW T, Numbers(f, n, T)
  PROVE  IsFiniteSet(T) /\ Cardinality(T) = n
<1> DEFINE g == [i \in 1..n |-> f[i]]
<1>1. g \in [1..n -> T] /\ \A i \in 1..n : g[i] = f[i]
  BY DEF Numbers
<1> HIDE DEF g
<1>2. g \in Bijection(1..n, T)
  BY <1>1 DEF Numbers, Bijection, Injection, Surjection, IsInjective
<1>3. IsFiniteSet(1..n) /\ Cardinality(1..n) = n
  BY FS_Interval
<1>4. ExistsBijection(1..n, T)
  BY <1>2 DEF ExistsBijection
<1> QED BY <1>3, <1>4, FS_Bijection

\* A sequence without duplicates is as long as its elements are many.
LEMMA DistinctLength ==
  ASSUME NEW A, IsFiniteSet(A), NEW s \in Seq(A), Distinct(s)
  PROVE  /\ IsFiniteSet(Elems(s)) /\ Cardinality(Elems(s)) = Len(s)
         /\ Cardinality(A) \in Nat /\ Len(s) <= Cardinality(A)
<1>1. Elems(s) \subseteq A /\ Len(s) \in Nat
  BY DEF Elems
<1>2. IsFiniteSet(Elems(s)) /\ Cardinality(Elems(s)) <= Cardinality(A)
  BY <1>1, FS_Subset
<1>3. Numbers(s, Len(s), Elems(s))
  BY DEF Elems, Distinct, Numbers
<1>4. Cardinality(Elems(s)) = Len(s)
  BY <1>1, <1>3, Numbered
<1>5. Cardinality(A) \in Nat
  BY FS_CardinalityType
<1> QED BY <1>2, <1>4, <1>5
=============================================================================
