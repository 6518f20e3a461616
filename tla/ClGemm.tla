------------------------------- MODULE ClGemm -------------------------------
(***************************************************************************)
(* The matrix product of 11-compute: OclApp::mmult and the comparison in   *)
(* main of cl_gemm.cc, with the kernels gemm_simple.cl and                 *)
(* gemm_localmem.cl.  The work-items of a group share the tiles Asub and   *)
(* Bsub and meet at two barriers per tile.  Matrices are flat arrays.      *)
(***************************************************************************)
EXTENDS Integers, FiniteSets

CONSTANTS Kernels,        \* the kernels that Config may name
          AX, AY, BY_, LSZ,      \* BY_ is BY, a TLA+ keyword
          Inputs(_),      \* arrays of n elements that rand_init may give
          Garbage         \* an element of a buffer or tile nobody has written

ASSUME KernelAssumption == Kernels \subseteq {"simple", "localmem"}
ASSUME SizeAssumption == {AX, AY, BY_, LSZ} \subseteq Nat \ {0}
\* clEnqueueNDRangeKernel refuses other ranges.
ASSUME RangeAssumption == AX % LSZ = 0 /\ BY_ % LSZ = 0

ASz == AX * AY
BSz == AY * BY_
CSz == AX * BY_

\* TYPE is a number; TLC's instances take naturals for it.
ASSUME ElementAssumption ==
  /\ Inputs(ASz) \subseteq [0..(ASz - 1) -> Int] /\ Inputs(BSz) \subseteq [0..(BSz - 1) -> Int]
  /\ Garbage \in Int

TS == LSZ

Items == (0..(AX - 1)) \X (0..(BY_ - 1))
Groups == (0..(AX \div TS - 1)) \X (0..(BY_ \div TS - 1))
Tile == (0..(TS - 1)) \X (0..(TS - 1))
numTiles == AY \div TS

get_group_id(w) == <<w[1] \div TS, w[2] \div TS>>
row(w) == w[1] % TS
col(w) == w[2] % TS
GroupOf(w) == {v \in Items : get_group_id(v) = get_group_id(w)}

VARIABLES kernel, APtr, BPtr, CPtr, host,    \* the host
          A, B, C,                   \* buffers of the device
          Asub, Bsub,                \* tiles of each group
          pc, t, k, acc              \* the work-items

hostVars == <<kernel, APtr, BPtr, CPtr, host>>
buffers == <<A, B, C>>
tiles == <<Asub, Bsub>>
vars == <<hostVars, buffers, tiles, pc, t, k, acc>>

\* cl::copy of n elements into a new buffer of size elements.
Copied(from, n, size) == [j \in 0..(size - 1) |-> IF j < n THEN from[j] ELSE Garbage]

\* The second copy ends at BPtr + ASz.
CopiedB(from) == Copied(from, ASz, BSz)

\* A copy past the end of its buffer is refused with CL_INVALID_VALUE.
CopyRefused == ASz > BSz

Init ==
  /\ kernel \in Kernels
  /\ APtr \in Inputs(ASz)
  /\ BPtr \in Inputs(BSz)
  /\ CPtr = [j \in 0..(CSz - 1) |-> 0]
  /\ A = Copied(APtr, ASz, ASz)
  /\ B = CopiedB(BPtr)
  /\ C = [j \in 0..(CSz - 1) |-> Garbage]
  /\ host = IF CopyRefused THEN "error" ELSE "wait"
  /\ Asub = [g \in Groups |-> [c \in Tile |-> Garbage]]
  /\ Bsub = [g \in Groups |-> [c \in Tile |-> Garbage]]
  /\ pc = [w \in Items |-> IF kernel = "simple" THEN "sum" ELSE "load"]
  /\ t = [w \in Items |-> 0]
  /\ k = [w \in Items |-> 0]
  /\ acc = [w \in Items |-> 0]

Goto(w, label) == pc' = [pc EXCEPT ![w] = label]

-----------------------------------------------------------------------------
(* gemm_localmem.cl                                                        *)

Load(w) ==
  LET tiledRow == TS * t[w] + row(w)
      tiledCol == TS * t[w] + col(w)
  IN /\ pc[w] = "load"
     /\ t[w] < numTiles
     /\ Asub' = [Asub EXCEPT ![get_group_id(w)][<<col(w), row(w)>>] = A[w[1] * AY + tiledCol]]
     /\ Bsub' = [Bsub EXCEPT ![get_group_id(w)][<<col(w), row(w)>>] = B[tiledRow * BY_ + w[2]]]
     /\ Goto(w, "loaded")
     /\ UNCHANGED <<hostVars, buffers, t, k, acc>>

\* An item is past a barrier, or has come to it.
AtLoaded(v, round) == t[v] > round \/ (t[v] = round /\ pc[v] # "load")
AtUsed(v, round) == t[v] > round \/ (t[v] = round /\ pc[v] = "used")

BarrierLoaded(w) ==
  /\ pc[w] = "loaded"
  /\ \A v \in GroupOf(w) : AtLoaded(v, t[w])
  /\ Goto(w, "multiply")
  /\ UNCHANGED <<hostVars, buffers, tiles, t, k, acc>>

\* Slip: the tile of B is read as it is written.
MultiplyUntransposed(w) ==
  /\ pc[w] = "multiply"
  /\ acc' = [acc EXCEPT ![w] = @ + Asub[get_group_id(w)][<<k[w], row(w)>>]
                                   * Bsub[get_group_id(w)][<<k[w], col(w)>>]]
  /\ k' = [k EXCEPT ![w] = (@ + 1) % TS]
  /\ Goto(w, IF k[w] + 1 = TS THEN "used" ELSE "multiply")
  /\ UNCHANGED <<hostVars, buffers, tiles, t>>

Multiply(w) ==
  /\ pc[w] = "multiply"
  /\ acc' = [acc EXCEPT ![w] = @ + Asub[get_group_id(w)][<<k[w], row(w)>>]
                                   * Bsub[get_group_id(w)][<<col(w), k[w]>>]]
  /\ k' = [k EXCEPT ![w] = (@ + 1) % TS]
  /\ Goto(w, IF k[w] + 1 = TS THEN "used" ELSE "multiply")
  /\ UNCHANGED <<hostVars, buffers, tiles, t>>

\* Slip: no barrier before the next tile is loaded.
BarrierUsedMissing(w) ==
  /\ pc[w] = "used"
  /\ t' = [t EXCEPT ![w] = @ + 1]
  /\ Goto(w, "load")
  /\ UNCHANGED <<hostVars, buffers, tiles, k, acc>>

BarrierUsed(w) ==
  /\ pc[w] = "used"
  /\ \A v \in GroupOf(w) : AtUsed(v, t[w])
  /\ t' = [t EXCEPT ![w] = @ + 1]
  /\ Goto(w, "load")
  /\ UNCHANGED <<hostVars, buffers, tiles, k, acc>>

-----------------------------------------------------------------------------
(* gemm_simple.cl                                                          *)

Sum(w) ==
  /\ pc[w] = "sum"
  /\ k[w] < AY
  /\ acc' = [acc EXCEPT ![w] = @ + A[w[1] * AY + k[w]] * B[k[w] * BY_ + w[2]]]
  /\ k' = [k EXCEPT ![w] = @ + 1]
  /\ UNCHANGED <<hostVars, buffers, tiles, pc, t>>

-----------------------------------------------------------------------------
Store(w) ==
  /\ \/ pc[w] = "load" /\ t[w] >= numTiles
     \/ pc[w] = "sum" /\ k[w] >= AY
  /\ C' = [C EXCEPT ![w[1] * BY_ + w[2]] = acc[w]]
  /\ Goto(w, "done")
  /\ UNCHANGED <<hostVars, A, B, tiles, t, k, acc>>

\* Evt.wait, then C is copied to CPtr.
ReadBack ==
  /\ host = "wait"
  /\ \A w \in Items : pc[w] = "done"
  /\ CPtr' = C
  /\ host' = "done"
  /\ UNCHANGED <<kernel, APtr, BPtr, buffers, tiles, pc, t, k, acc>>

WorkItem(w) ==
  /\ host = "wait"
  /\ \/ Load(w) \/ BarrierLoaded(w) \/ Multiply(w) \/ BarrierUsed(w) \/ Sum(w) \/ Store(w)

Finished == host \in {"done", "error"} /\ UNCHANGED vars

Next == (\E w \in Items : WorkItem(w)) \/ ReadBack \/ Finished

Spec == Init /\ [][Next]_vars

-----------------------------------------------------------------------------
(* transpose_mult_ref: B is transposed first, then rows meet rows.         *)

transposed(b) == [j \in 0..(BSz - 1) |-> b[(j % AY) * BY_ + j \div AY]]

\* What a loop that adds one term after the other leaves in its accumulator.
LoopSum(term, n) ==
  LET sum[j \in 0..n] == IF j = 0 THEN 0 ELSE sum[j - 1] + term[j - 1]
  IN sum[n]

transpose_mult_ref(a, b) ==
  LET tmp == transposed(b)
  IN [c \in 0..(CSz - 1) |->
        LoopSum([j \in 0..(AY - 1) |-> a[(c \div BY_) * AY + j] * tmp[(c % BY_) * AY + j]], AY)]

\* C = A * B, "alpha = 1.0, beta = 0.0": the comparison at the end of main.
ChecksPass == host = "done" => CPtr = transpose_mult_ref(APtr, BPtr)

\* How many terms a kernel adds up: gemm_localmem.cl those of whole tiles only.
Depth == IF kernel = "simple" THEN AY ELSE TS * numTiles

\* What the program achieves for all sizes: each element read back is the sum of that
\* many products of what the buffers hold, which is the product the CPU computes
\* where all of B has reached its buffer and no term is left out.
ProductRight ==
  /\ host = "done" =>
       CPtr = [c \in 0..(CSz - 1) |->
                 LoopSum([j \in 0..(Depth - 1) |->
                            A[(c \div BY_) * AY + j] * B[j * BY_ + (c % BY_)]], Depth)]
  /\ BSz <= ASz /\ Depth = AY => ChecksPass

\* What gemm_localmem.cl uses its barriers for: while an item multiplies, both
\* tiles hold its current round of A and B, whatever the others of its group do.
TileCurrent ==
  \A w \in Items : pc[w] = "multiply" =>
    \A c \in Tile :
      LET g == get_group_id(w)
      IN /\ Asub[g][c] = A[(TS * g[1] + c[2]) * AY + TS * t[w] + c[1]]
         /\ Bsub[g][c] = B[(TS * t[w] + c[2]) * BY_ + TS * g[2] + c[1]]
=============================================================================
