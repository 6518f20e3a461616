----------------------------- MODULE MCExamples -----------------------------
(***************************************************************************)
(* The smaller programs of the course, each a sequential one: a behaviour  *)
(* is one of a single program: a permutation group (PermGroup) or one of   *)
(* the nine others below.  They share the variables of PermGroup, and r8   *)
(* to r11.                                                                 *)
(***************************************************************************)
EXTENDS PermGroup

CONSTANTS Keys, NULL, MaxCapacity, MaxCount,
          IntMax, Digits, MaxKeys,
          Triangles, Graphs, Conts, Matrices,
          Blocks, nullptr, MaxNodes, DrawNodes, MaxTop, MaxMade, ArrayBlocks, MaxSize, MaxElts

VARIABLES part, r8, r9, r10, r11

anyVars == <<vars, part, r8, r9, r10, r11>>

Naive == INSTANCE LruNaive
  WITH pc <- pc, requested <- loops_, count <- f, blocks <- num, cache <- gens, used <- orb,
       i <- next, hits <- r8, hash <- r9, stack <- r10, lruHits <- r11

Work == INSTANCE Worklists
  WITH job <- pc, input <- loops_, work <- f, mst <- num, key <- gens, parent <- orb, orb <- next,
       sorted <- r8, printed <- r9

Drivers == INSTANCE LruDrivers
  WITH prog <- pc, pc <- loops_, tok <- f, reading <- num, nums <- gens, cache <- orb, hits <- next,
       asked <- r8

Archive == INSTANCE VecArchive
  WITH Blocks <- ArrayBlocks, prog <- pc, vec <- loops_, heap <- f, want <- num, torn <- gens,
       drops <- orb, stray <- next, state <- r8

Heaps == INSTANCE ScopedHeaps
  WITH prog <- pc, own <- loops_, heap <- f, op <- num, stack <- gens, want <- orb, state <- next

Iters == INSTANCE IterRanges
  WITH prog <- pc, in <- loops_, at <- f, cont <- num, out <- gens, status <- orb

Draw == INSTANCE Drawables
  WITH Nodes <- DrawNodes,
       prog <- pc, heap <- loops_, doc <- f, own <- num, want <- gens, out <- orb

Bench == INSTANCE CopyBench
  WITH prog <- pc, call <- loops_, mem <- f, pos <- num, pc <- gens, out <- orb

Geo == INSTANCE LinGeo
  WITH pc <- pc, triangle1 <- loops_, triangle2 <- f, another <- num, side <- gens

-----------------------------------------------------------------------------
\* The variables a part leaves alone, from the k-th on.
Unused(k) ==
  /\ k <= 6 => orb = 0
  /\ k <= 7 => next = 0
  /\ k <= 8 => r8 = 0
  /\ k <= 9 => r9 = 0
  /\ k <= 10 => r10 = 0 /\ r11 = 0

AnyInit ==
  \/ part = "naive" /\ Naive!Init
  \/ part = "work" /\ Work!Init /\ Unused(10)
  \/ part = "drivers" /\ Drivers!Init /\ Unused(9)
  \/ part = "archive" /\ Archive!Init /\ Unused(9)
  \/ part = "perms" /\ Init /\ Unused(8)
  \/ part = "heaps" /\ Heaps!Init /\ Unused(8)
  \/ part = "iters" /\ Iters!Init /\ Unused(7)
  \/ part = "draw" /\ Draw!Init /\ Unused(7)
  \/ part = "bench" /\ Bench!Init /\ Unused(7)
  \/ part = "geo" /\ Geo!Init /\ Unused(6)

from10 == <<part, r10, r11>>
from9 == <<from10, r9>>
from8 == <<from9, r8>>
from7 == <<from8, next>>
from6 == <<from7, orb>>

AnyNext ==
  \/ part = "naive" /\ Naive!Next /\ UNCHANGED part
  \/ part = "work" /\ Work!Next /\ UNCHANGED from10
  \/ part = "drivers" /\ Drivers!Next /\ UNCHANGED from9
  \/ part = "archive" /\ Archive!Next /\ UNCHANGED from9
  \/ part = "perms" /\ Next /\ UNCHANGED from8
  \/ part = "heaps" /\ Heaps!Next /\ UNCHANGED from8
  \/ part = "iters" /\ Iters!Next /\ UNCHANGED from7
  \/ part = "draw" /\ Draw!Next /\ UNCHANGED from7
  \/ part = "bench" /\ Bench!Next /\ UNCHANGED from7
  \/ part = "geo" /\ Geo!Next /\ UNCHANGED from6

AnySpec == AnyInit /\ [][AnyNext]_anyVars

-----------------------------------------------------------------------------
(* The inputs.                                                             *)

\* Loops of any length, alone and in pairs.
MCLists == {<< >>} \cup {<<a>> : a \in RawLoops}
           \cup {<<a, b>> : a \in RawLoops, b \in RawLoops}
MCFactors == {<<<<2, 1>>>>, <<<<3, 4>>, <<1, 4, 2>>>>}

\* All triangles on a grid of nine points, flat ones included, up to where they
\* start.
Grid == {<<x, y, 1>> : x, y \in 0..2}
Code(p) == 3 * p[1] + p[2]
MCTriangles ==
  {t \in {<<p, q, r>> : p, q, r \in Grid} :
     Code(t[1]) <= Code(t[2]) /\ Code(t[1]) <= Code(t[3])}

\* The graph of the program's main, and small ones with parallel edges.
Edge(u, v, w) == [u |-> u, v |-> v, w |-> w]
Elist == <<Edge(0, 1, 4), Edge(0, 7, 8), Edge(1, 2, 8), Edge(1, 7, 11), Edge(2, 3, 7),
           Edge(2, 8, 2), Edge(2, 5, 4), Edge(3, 4, 9), Edge(3, 5, 14), Edge(4, 5, 10),
           Edge(5, 6, 2), Edge(6, 7, 1), Edge(6, 8, 6), Edge(7, 8, 7)>>
Upward == {e \in {Edge(u, v, w) : u \in 0..2, v \in 1..3, w \in {1, 2}} : e.u < e.v}
MCGraphs == {Elist} \cup {<<a, b>> : a, b \in Upward}
            \cup {<<a, b, c, d>> : a, b, c, d \in Upward}

MCConts == UNION {[1..n -> {2, 3}] : n \in 0..3} \cup {<<1, 2, 3, 4, 5, 6, 7>>}
Matrix(l, c, m) == [lines |-> l, columns |-> c, m |-> m]
MCMatrices == UNION {{Matrix(l, c, [q \in 1..(l * c) |-> 1]),
                      Matrix(l, c, [q \in 1..(l * c) |-> (5 * q + 2) % 7])} : l, c \in 0..3}

-----------------------------------------------------------------------------
(* Properties.                                                             *)

\* The LRU programs print the hits of an LRU cache of the capacity asked for,
\* although they make it no larger than the number of requests; lru-in-c-naive
\* keeps its chains sound while nodes change their key in place, and the drivers
\* of the others read numbers up to the limits of the type exactly.
HitsPrinted ==
  /\ part = "naive" => Naive!ChainsSound /\ Naive!HitsAreLru
  /\ part = "drivers" => Drivers!TokensExact /\ Drivers!HitsOfCapacity

\* However a permutation came about, its loops are canonical and perform its map;
\* orbits and their representatives are exact (permutations, see PermGroup).
PermutationsRight ==
  part = "perms" => Denotes /\ RepsCarry /\ OrbitExact

\* The worklist algorithms visit what they should, once: see Worklists.
WorklistsComplete ==
  part = "work" => Work!SpanningTree /\ Work!OrbitComplete /\ Work!TreeWalked

\* Intersections, iterator ranges, matrix products and copies are those of their
\* definitions, wherever the code does not run past its input.
ComputedRight ==
  /\ part = "geo" => Geo!IntersectionRight /\ Geo!FlatInput
  /\ part = "iters" => Iters!ZipPairs /\ Iters!PlacesKept /\ Iters!MatrixRight
  /\ part = "bench" => Bench!CopiesExact

\* Memory has owners: of scoped pointers and stacks, of the archived vectors
\* through any exception, of the nodes of a drawing and of the figures on screens.
OwnersKept ==
  /\ part = "heaps" => Heaps!OwnersSound
  /\ part = "archive" => Archive!ArchiveKept
  /\ part = "draw" => Draw!ModelByValue /\ Draw!FiguresShown
=============================================================================
