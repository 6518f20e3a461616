------------------------------ MODULE MCMyVec -------------------------------
(***************************************************************************)
(* All five vectors: a behaviour is one of the program with the first two  *)
(* of 08-exceptions/myvec-demo, in MyVecArrays, the last two, in MyVec, or *)
(* the one of 14-iterators, in IterVector.                                 *)
(***************************************************************************)
EXTENDS MyVec

CONSTANT Given

\* The elements of a list are values, and no place of an element is one.
ASSUME GivenAssumption == Given \subseteq Seq(Values)
ASSUME ElementAssumption == Values \cap [block : Buffers, place : Nat] = {}

MCGiven == {<<x, y>> : x, y \in Values}

Arrays == INSTANCE MyVecArrays
Iter == INSTANCE IterVector WITH MaxUsed <- MaxUsed - 1

Buffered == version \in Versions
Iterated == version \in {5, 6}
InArrays == ~Buffered /\ ~Iterated

AnyInit == Init \/ Arrays!Init \/ Iter!Init
AnyNext == (Buffered /\ Next) \/ (InArrays /\ Arrays!Next) \/ (Iterated /\ Iter!Next)
AnySpec == /\ AnyInit /\ [][AnyNext]_vars
           /\ WF_vars(Buffered /\ Step)
           /\ WF_vars(InArrays /\ Arrays!Step)
           /\ WF_vars(Iterated /\ Iter!Step)

\* The memory of all five is sound: of MyVectorBuf as OwnedOnce and ElementsExact
\* say, of the arrays of versions 1 and 2 as ArraysOwned does, of VectorStorage
\* as StorageOwned does.
MemoryOwned ==
  CASE Buffered -> OwnedOnce /\ ElementsExact
    [] InArrays -> Arrays!ArraysOwned
    [] Iterated -> Iter!StorageOwned

AnyContents ==
  CASE Buffered -> [v \in Vectors |-> ContentsOf(v)]
    [] InArrays -> Arrays!Contents
    [] Iterated -> Iter!Contents

Promise == INSTANCE VecSpec WITH contents <- AnyContents

\* The strong guarantee: an operation that throws has changed nothing, one that
\* returns has done all it should, and no other vector notices.  For version 1
\* up to an exception.
AllImplementVec == Promise!Spec

\* Every operation ends: it returns, throws, or leaves its memory for good.
AllReturn == []<>(op.pc \in {"idle", "thrown", "overrun", "dangling"})

\* myvec-2.cc, line 9: "Second better implementation: exception safe".
SecondIsSafe == InArrays => Arrays!SecondIsSafe
=============================================================================
