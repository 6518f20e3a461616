------------------------------- MODULE ClHist -------------------------------
(***************************************************************************)
(* The histogram of 11-compute: the host side of cl_hist.cc (OclApp::hist  *)
(* and the comparison in main) and its three kernels, hist.cl, which       *)
(* counts in local memory between barriers, hist-onlyg-corr.cl, with one   *)
(* atomic addition per datum, and hist-onlyg.cl, whose addition is a load  *)
(* and a store.  Work-items of all groups run concurrently.                *)
(***************************************************************************)
EXTENDS Naturals, FiniteSets

CONSTANTS Kernels,         \* the kernels that Config may name
          DataSize, HistSize, GlobalSize, LSZ,
          UCHAR,           \* number of values of unsigned char
          LocalGarbage,    \* what local memory may hold at first
          BufferGarbage    \* what the buffer H may hold at first

\* What the program makes of its options: clEnqueueNDRangeKernel refuses a range that
\* LSZ does not divide.
ConstantsRight ==
  /\ Kernels \subseteq {"hist", "onlyg-corr", "onlyg"}
  /\ {DataSize, HistSize} \subseteq Nat
  /\ {GlobalSize, LSZ, UCHAR} \subseteq Nat \ {0}
  /\ GlobalSize % LSZ = 0
  /\ LocalGarbage \subseteq Nat /\ BufferGarbage \subseteq Nat

Items == 0..(GlobalSize - 1)
Groups == 0..(GlobalSize \div LSZ - 1)
Bins == 0..(HistSize - 1)

get_group_id(w) == w \div LSZ
get_local_id(w) == w % LSZ
GroupOf(w) == {v \in Items : get_group_id(v) = get_group_id(w)}

VARIABLES kernel, data, host, Hist,          \* the host
          first,                             \* what the buffer H held when allocated
          histogram, local_hist,             \* memory of the device
          pc, i, loaded                      \* the work-items

memory == <<histogram, local_hist>>
vars == <<kernel, data, first, host, Hist, memory, pc, i, loaded>>

\* rand_init: the random numbers up to HistSize - 1 are stored as unsigned char.
RandomData == {[k \in 0..(DataSize - 1) |-> d[k] % UCHAR] : d \in [0..(DataSize - 1) -> Bins]}

hist_ref(d) == [b \in Bins |-> Cardinality({k \in DOMAIN d : d[k] = b})]

FirstLoop == CASE kernel = "hist" -> "zero"
               [] kernel = "onlyg-corr" -> "add"
               [] kernel = "onlyg" -> "load"

FirstIndex(w) == IF kernel = "hist" THEN get_local_id(w) ELSE w

\* The data are copied to the device, the buffer H is only allocated.
Init ==
  /\ kernel \in Kernels
  /\ data \in RandomData
  /\ host = "wait"
  /\ Hist = [b \in Bins |-> 0]
  /\ first \in [Bins -> BufferGarbage]
  /\ histogram = first
  /\ local_hist \in [Groups -> [Bins -> LocalGarbage]]
  /\ pc = [w \in Items |-> FirstLoop]
  /\ i = [w \in Items |-> FirstIndex(w)]
  /\ loaded = [w \in Items |-> 0]

Goto(w, label) == pc' = [pc EXCEPT ![w] = label]
Advance(w, stride) == i' = [i EXCEPT ![w] = @ + stride]

-----------------------------------------------------------------------------
(* hist.cl                                                                 *)

\* Slip: the index is not advanced.
ZeroForever(w) ==
  /\ pc[w] = "zero"
  /\ i[w] < HistSize
  /\ local_hist' = [local_hist EXCEPT ![get_group_id(w)][i[w]] = 0]
  /\ UNCHANGED <<kernel, data, first, host, Hist, histogram, pc, i, loaded>>

Zero(w) ==
  /\ pc[w] = "zero"
  /\ i[w] < HistSize
  /\ local_hist' = [local_hist EXCEPT ![get_group_id(w)][i[w]] = 0]
  /\ Advance(w, LSZ)
  /\ UNCHANGED <<kernel, data, first, host, Hist, histogram, pc, loaded>>

ZeroDone(w) == pc[w] # "zero" \/ i[w] >= HistSize

\* Slip: no barrier after the bins are cleared.
BarrierZeroMissing(w) ==
  /\ pc[w] = "zero"
  /\ ZeroDone(w)
  /\ Goto(w, "count")
  /\ i' = [i EXCEPT ![w] = w]
  /\ UNCHANGED <<kernel, data, first, host, Hist, memory, loaded>>

BarrierZero(w) ==
  /\ pc[w] = "zero"
  /\ \A v \in GroupOf(w) : ZeroDone(v)
  /\ Goto(w, "count")
  /\ i' = [i EXCEPT ![w] = w]
  /\ UNCHANGED <<kernel, data, first, host, Hist, memory, loaded>>

Count(w) ==
  /\ pc[w] = "count"
  /\ i[w] < DataSize
  /\ local_hist' = [local_hist EXCEPT ![get_group_id(w)][data[i[w]]] = @ + 1]
  /\ Advance(w, GlobalSize)
  /\ UNCHANGED <<kernel, data, first, host, Hist, histogram, pc, loaded>>

CountDone(w) == pc[w] \in {"flush", "done"} \/ (pc[w] = "count" /\ i[w] >= DataSize)

BarrierCount(w) ==
  /\ pc[w] = "count"
  /\ \A v \in GroupOf(w) : CountDone(v)
  /\ Goto(w, "flush")
  /\ i' = [i EXCEPT ![w] = get_local_id(w)]
  /\ UNCHANGED <<kernel, data, first, host, Hist, memory, loaded>>

Flush(w) ==
  /\ pc[w] = "flush"
  /\ i[w] < HistSize
  /\ histogram' = [histogram EXCEPT ![i[w]] = @ + local_hist[get_group_id(w)][i[w]]]
  /\ Advance(w, LSZ)
  /\ UNCHANGED <<kernel, data, first, host, Hist, local_hist, pc, loaded>>

-----------------------------------------------------------------------------
(* hist-onlyg-corr.cl                                                      *)

AtomicAdd(w) ==
  /\ pc[w] = "add"
  /\ i[w] < DataSize
  /\ histogram' = [histogram EXCEPT ![data[i[w]]] = @ + 1]
  /\ Advance(w, GlobalSize)
  /\ UNCHANGED <<kernel, data, first, host, Hist, local_hist, pc, loaded>>

(* hist-onlyg.cl                                                           *)

Load(w) ==
  /\ pc[w] = "load"
  /\ i[w] < DataSize
  /\ loaded' = [loaded EXCEPT ![w] = histogram[data[i[w]]]]
  /\ Goto(w, "store")
  /\ UNCHANGED <<kernel, data, first, host, Hist, memory, i>>

\* Slip: the value loaded is stored, not its successor.
StoreSame(w) ==
  /\ pc[w] = "store"
  /\ histogram' = [histogram EXCEPT ![data[i[w]]] = loaded[w]]
  /\ Advance(w, GlobalSize)
  /\ Goto(w, "load")
  /\ UNCHANGED <<kernel, data, first, host, Hist, local_hist, loaded>>

Store(w) ==
  /\ pc[w] = "store"
  /\ histogram' = [histogram EXCEPT ![data[i[w]]] = loaded[w] + 1]
  /\ Advance(w, GlobalSize)
  /\ Goto(w, "load")
  /\ UNCHANGED <<kernel, data, first, host, Hist, local_hist, loaded>>

-----------------------------------------------------------------------------
\* The last loop of each kernel ends.
Return(w) ==
  /\ \/ pc[w] = "flush" /\ i[w] >= HistSize
     \/ pc[w] \in {"add", "load"} /\ i[w] >= DataSize
  /\ Goto(w, "done")
  /\ UNCHANGED <<kernel, data, first, host, Hist, memory, i, loaded>>

\* Evt.wait, then H is copied to Hist.
ReadBack ==
  /\ host = "wait"
  /\ \A w \in Items : pc[w] = "done"
  /\ Hist' = histogram
  /\ host' = "done"
  /\ UNCHANGED <<kernel, data, first, memory, pc, i, loaded>>

WorkItem(w) ==
  \/ Zero(w) \/ BarrierZero(w) \/ Count(w) \/ BarrierCount(w) \/ Flush(w)
  \/ AtomicAdd(w) \/ Load(w) \/ Store(w) \/ Return(w)

Finished == host = "done" /\ UNCHANGED vars

Next == (\E w \in Items : WorkItem(w)) \/ ReadBack \/ Finished

Spec == Init /\ [][Next]_vars

\* The device runs every work-item and the event fires.
FairSpec == Spec /\ (\A w \in Items : WF_vars(WorkItem(w))) /\ WF_vars(ReadBack)

-----------------------------------------------------------------------------
\* The comparison at the end of main: the bins read back are those that hist_ref
\* counts on the CPU, except with hist-onlyg.cl, which is there to show a race.
ChecksPass == host = "done" /\ kernel # "onlyg" => Hist = hist_ref(data)

\* What the program does achieve: the bins read back are those of hist_ref on top of
\* what the buffer held before, which it never clears.
AddsReference ==
  host = "done" /\ kernel # "onlyg" => Hist = [b \in Bins |-> first[b] + hist_ref(data)[b]]

\* What hist.cl uses its barriers for: when one work-item of a group starts to
\* add up its bins, local_hist holds all that the group has to count, and nothing
\* of what the memory held before.
GroupCounted ==
  \A w \in Items : pc[w] \in {"flush", "done"} /\ kernel = "hist" =>
    \A b \in Bins :
      local_hist[get_group_id(w)][b] =
        Cardinality({k \in DOMAIN data : data[k] = b /\ (k % GlobalSize) \in GroupOf(w)})

\* hist-onlyg.cl is wrong only by losing additions: over what it held before, a bin
\* never counts a datum twice, and counts at least one if there is one.
LosesOnly ==
  \A b \in Bins :
    /\ first[b] <= histogram[b] /\ histogram[b] <= first[b] + hist_ref(data)[b]
    /\ (host = "done" /\ hist_ref(data)[b] > 0) => histogram[b] > first[b]

\* Every work-item passes both barriers and the host gets its answer.
Answers == <>(host = "done")
=============================================================================
