------------------------------ MODULE MCOpenCl ------------------------------
(***************************************************************************)
(* The OpenCL programs: a behaviour is one of the kernels of cl_gemm       *)
(* (ClGemm), of the kernels of cl_hist (ClHist) or of a host program and   *)
(* the queue it fills (ClHost).  They share the variables of ClGemm.       *)
(***************************************************************************)
EXTENDS MCClGemm

CONSTANTS HistKernels, DataSize, HistSize, GlobalSize, HistLSZ, UCHAR,
          LocalGarbage, BufferGarbage, Junk, MaxPlatforms, MaxDevices

VARIABLE part

anyVars == <<vars, part>>

Histogram == INSTANCE ClHist
  WITH Kernels <- HistKernels, LSZ <- HistLSZ,
       data <- A, Hist <- CPtr, first <- APtr, histogram <- C, local_hist <- B, i <- k, loaded <- acc

ASSUME HistogramAssumption == Histogram!ConstantsRight
ASSUME HostAssumption ==
  Junk \subseteq Nat /\ MaxPlatforms \in Nat \ {0} /\ MaxDevices \in Nat

histUnused == <<BPtr, Asub, Bsub, t>>

Programs == INSTANCE ClHost
  WITH prog <- kernel, platforms <- APtr, sel <- BPtr, live <- CPtr, queue <- C,
       waits <- k, data <- A, stage <- B, todo <- t, shown <- acc, status <- host

hostUnused == <<Asub, Bsub>>

AnyInit ==
  \/ part = "gemm" /\ Init
  \/ part = "hist" /\ Histogram!Init
     /\ BPtr = 0 /\ Asub = 0 /\ Bsub = 0 /\ t = 0
  \/ part = "host" /\ Programs!Init /\ Asub = 0 /\ Bsub = 0

In(name) == part = name /\ UNCHANGED part

GemmItem(w) == In("gemm") /\ WorkItem(w)
GemmAnswer == In("gemm") /\ (ReadBack \/ Finished)
HistItem(w) == In("hist") /\ Histogram!WorkItem(w) /\ UNCHANGED histUnused
HistAnswer == In("hist") /\ (Histogram!ReadBack \/ Histogram!Finished) /\ UNCHANGED histUnused
HostRuns == In("host") /\ Programs!Host /\ UNCHANGED hostUnused
DeviceRuns(j) == In("host") /\ Programs!DeviceRuns(j) /\ UNCHANGED hostUnused

AnyNext ==
  \/ (\E w \in Items : GemmItem(w)) \/ GemmAnswer
  \/ (\E w \in Histogram!Items : HistItem(w)) \/ HistAnswer
  \/ HostRuns \/ (\E j \in 1..3 : DeviceRuns(j))

\* The device runs every work-item and serves its queue, the host goes on.
AnySpec ==
  /\ AnyInit /\ [][AnyNext]_anyVars
  /\ \A w \in Items : WF_anyVars(GemmItem(w))
  /\ \A w \in Histogram!Items : WF_anyVars(HistItem(w))
  /\ WF_anyVars(GemmAnswer) /\ WF_anyVars(HistAnswer) /\ WF_anyVars(HostRuns)
  /\ WF_anyVars(\E j \in 1..3 : DeviceRuns(j))

-----------------------------------------------------------------------------
(* Properties.                                                             *)

\* What each main goes on to compare: the product of what reached the device, the
\* reference histogram on top of what the buffer held, the results that inputs
\* demand, in whatever order work-items and commands ran.
ResultsExact ==
  CASE part = "gemm" -> ProductRight
    [] part = "hist" -> Histogram!AddsReference
    [] part = "host" -> Programs!ResultsRight

\* What the barriers of hist.cl are for: see GroupCounted of ClHist.
GroupsCounted == part = "hist" => Histogram!GroupCounted

\* What the barriers of gemm_localmem.cl are for: see TileCurrent of ClGemm.
TilesCurrent == part = "gemm" => TileCurrent

\* hist-onlyg.cl, which races, loses additions and does nothing worse.
RaceLosesOnly == part = "hist" => Histogram!LosesOnly

\* No command is queued on a buffer that is gone, and a program that returns has
\* let go of everything; cl_platform has described every device, once, and the
\* others have settled on a platform that has a GPU.
HostsTidy == part = "host" => Programs!NothingHeld /\ Programs!FoundDevices

\* Every work-item passes its barriers, no wait is for a command that never
\* runs, and every host gets its answer.
ProgramsEnd ==
  <>(CASE part = "gemm" -> host = "done"
       [] part = "hist" -> host = "done"
       [] part = "host" -> host # "run")
=============================================================================
