--------------------------- MODULE VkFramesProofs ---------------------------
(***************************************************************************)
(* Proofs about the render loop (VkFrames) for any number of frames in     *)
(* flight, of images and of window sizes, for one queue or two, and        *)
(* whatever the device, the presentation engine and the window do.         *)
(***************************************************************************)
EXTENDS VkFrames, FiniteSetTheorems, TLAPS

Operations == [op : {"draw", "present"}, image : Images, frame : Frames]

\* What is waiting in the queue that draws.
Drawings == queue[GraphicsQueue]
DrawsFrame(j, f) == Drawings[j].op = "draw" /\ Drawings[j].frame = f
PresentsFrame(j, f) == Drawings[j].op = "present" /\ Drawings[j].frame = f

Labels == {"poll", "waitFrame", "acquire", "waitImage", "present", "readSize", "loop",
           "waitEvents", "waitIdle", "recreate", "lastIdle"} \cup Ended

\* The variables that the fences and semaphores depend on.
TypeOK ==
  /\ pc \in Labels
  /\ CurrentFrame \in Frames
  /\ SwapChainImages \subseteq Images
  /\ ImagesInFlight \in [SwapChainImages -> Frames \cup {NoFence}]
  /\ pc \in {"waitImage", "present"} => imageIndex \in SwapChainImages
  /\ queue \in [Queues -> Seq(Operations)]
  /\ fence \in [Frames -> BOOLEAN]
  /\ renderFinished \in [Frames -> {"none", "signaled", "left"}]
  /\ imageAvailable \in [Frames -> {"none", "pending", "signaled"}]

\* Only the graphics queue draws.
DrawsInPlace ==
  \A q \in Queues : \A j \in 1..Len(queue[q]) : queue[q][j].op = "draw" => q = GraphicsQueue

\* A drawing that is waiting will signal a fence that is unsignaled, and it is that
\* fence which render_frame has noted for its image.
DrawsTracked ==
  \A j \in 1..Len(Drawings) : Drawings[j].op = "draw" =>
    /\ ~fence[Drawings[j].frame]
    /\ Drawings[j].image \in SwapChainImages
    /\ ImagesInFlight[Drawings[j].image] = Drawings[j].frame

\* No two drawings signal the same fence.
OneDrawPerFrame ==
  \A j, k \in 1..Len(Drawings) : \A f \in Frames :
    DrawsFrame(j, f) /\ DrawsFrame(k, f) => j = k

\* A fence that was reset is on its way, unless the submission failed.
FencePending ==
  pc # "threw" =>
    \A f \in Frames : ~fence[f] => \E j \in 1..Len(Drawings) : DrawsFrame(j, f)

\* Between the first wait of render_frame and the reset the fence stays signaled.
FrameFree == pc \in {"acquire", "waitImage"} => fence[CurrentFrame]

\* A semaphore of a frame that is not being drawn is idle, unless the frame has just
\* acquired its image.
AvailableConsumed ==
  pc # "threw" => \A f \in Frames :
    fence[f] => imageAvailable[f] = "none" \/ (pc = "waitImage" /\ f = CurrentFrame)

\* update_swap_chain goes on when the device is idle.
IdleAtRecreate == pc = "recreate" => DeviceIdle

\* With one queue, a present is between any two drawings of a frame.
PresentBefore ==
  \A j \in 1..Len(Drawings) : \A f \in Frames :
    DrawsFrame(j, f) /\ renderFinished[f] = "signaled" =>
      \E k \in 1..Len(Drawings) : k < j /\ PresentsFrame(k, f)

\* Inside update_swap_chain.
Rebuilding == {"readSize", "loop", "waitEvents", "waitIdle", "recreate"}

\* The frame that is drawn and not yet presented, or for whose present the swap chain
\* is being rebuilt: that present may have failed.
Presenting(f) ==
  f = CurrentFrame /\ (pc = "present" \/ (pc \in Rebuilding /\ advance))

PresentAfter ==
  pc # "threw" => \A f \in Frames : ~Presenting(f) =>
    /\ renderFinished[f] = "signaled" => \E k \in 1..Len(Drawings) : PresentsFrame(k, f)
    /\ \A j \in 1..Len(Drawings) : DrawsFrame(j, f) =>
         \E k \in 1..Len(Drawings) : j < k /\ PresentsFrame(k, f)

\* The inductive invariant.
Synchronised ==
  /\ TypeOK /\ DrawsInPlace /\ DrawsTracked /\ OneDrawPerFrame
  /\ FencePending /\ FrameFree /\ AvailableConsumed /\ IdleAtRecreate
  /\ GraphicsQueue = PresentQueue => PresentBefore /\ PresentAfter
-----------------------------------------------------------------------------
(* Queues and frames.                                                      *)

\* vkQueueSubmit and vkQueuePresentKHR put an operation at the end.
LEMMA AppendFacts ==
  ASSUME NEW S, NEW s \in Seq(S), NEW e \in S
  PROVE  /\ Append(s, e) \in Seq(S)
         /\ Len(s) \in Nat
         /\ Len(Append(s, e)) = Len(s) + 1
         /\ \A j \in 1..Len(s) : Append(s, e)[j] = s[j]
         /\ Append(s, e)[Len(s) + 1] = e
OBVIOUS

\* The device takes the operation at the front.
LEMMA TailFacts ==
  ASSUME NEW S, NEW s \in Seq(S), s # << >>
  PROVE  /\ Tail(s) \in Seq(S)
         /\ Len(s) \in Nat /\ 1 <= Len(s)
         /\ Len(Tail(s)) = Len(s) - 1
         /\ \A j \in 1..Len(Tail(s)) : Tail(s)[j] = s[j + 1]
         /\ s[1] \in S
OBVIOUS

\* The frame after the last is the first.
LEMMA NextFrameType == CurrentFrame \in Frames => NextFrame \in Frames
BY FramesAssumption DEF Frames, NextFrame

\* No fence is the null handle, and every swap chain has an image 0.
LEMMA ConstantFacts ==
  /\ NoFence \notin Frames
  /\ GraphicsQueue \in Queues /\ PresentQueue \in Queues
  /\ \A n \in MinImages..MaxImages : 0..(n - 1) \subseteq Images
BY FramesAssumption, ImagesAssumption DEF NoFence, Frames, Queues, Images

\* A started program has nothing in flight.
LEMMA InitSynchronised == Init => Synchronised
<1> SUFFICES ASSUME Init PROVE Synchronised
  OBVIOUS
<1>1. 0 \in Frames
  BY FramesAssumption DEF Frames
<1>2. TypeOK
  BY <1>1, ConstantFacts DEF Init, TypeOK, Labels
<1>3. Drawings = << >> /\ \A q \in Queues : queue[q] = << >>
  BY ConstantFacts DEF Init, Drawings
<1>4. /\ DrawsInPlace /\ DrawsTracked /\ OneDrawPerFrame
      /\ PresentBefore
  BY <1>3 DEF DrawsInPlace, DrawsTracked, OneDrawPerFrame, PresentBefore
<1>5. FencePending /\ FrameFree /\ AvailableConsumed /\ IdleAtRecreate
  BY DEF Init, FencePending, FrameFree, AvailableConsumed, IdleAtRecreate
<1>6. PresentAfter
  BY <1>3 DEF Init, PresentAfter
<1> QED BY <1>2, <1>4, <1>5, <1>6 DEF Synchronised

-----------------------------------------------------------------------------
(* Steps of the program between its waits.                                 *)

\* A step that submits nothing, resets nothing and waits for what it needs.
LEMMA QuietStep ==
  ASSUME Synchronised,
         UNCHANGED <<queue, fence, renderFinished, imageAvailable, ImagesInFlight,
                     SwapChainImages, CurrentFrame>>,
         pc' \in Labels,
         pc' \in {"waitImage", "present"} => pc' = pc /\ imageIndex' = imageIndex,
         pc' = "acquire" => pc' = pc \/ fence[CurrentFrame],
         pc' = "recreate" => pc' = pc \/ DeviceIdle,
         pc = "threw" => pc' = "threw",
         pc = "waitImage" => pc' \in {pc, "threw"},
         pc = "present" => pc' \in {pc, "threw"} \/ (pc' \in Rebuilding /\ advance'),
         pc \in Rebuilding /\ advance => pc' = "threw" \/ (pc' \in Rebuilding /\ advance')
  PROVE  Synchronised'
<1> USE DEF Synchronised
<1>1. TypeOK'
  BY DEF TypeOK
<1>2. DrawsInPlace' /\ DrawsTracked' /\ OneDrawPerFrame' /\ (PresentBefore => PresentBefore')
  BY DEF DrawsInPlace, DrawsTracked, OneDrawPerFrame, PresentBefore, Drawings, DrawsFrame,
         PresentsFrame
<1>3. FencePending'
  BY DEF FencePending, Drawings, DrawsFrame
<1>4. FrameFree' /\ IdleAtRecreate'
  BY DEF FrameFree, IdleAtRecreate, DeviceIdle
<1>5. AvailableConsumed'
  BY DEF AvailableConsumed
<1>6. PresentAfter => PresentAfter'
  BY DEF PresentAfter, Presenting, Drawings, DrawsFrame, PresentsFrame
<1> QED BY <1>1, <1>2, <1>3, <1>4, <1>5, <1>6

\* Acquire: the semaphore of the frame becomes pending, its fence stays signaled.
LEMMA AcquireStep ==
  ASSUME Synchronised, NEW i \in Images, Acquire(i)
  PROVE  Synchronised'
<1> USE DEF Synchronised
<1>1. /\ UNCHANGED <<queue, fence, renderFinished, ImagesInFlight, SwapChainImages, CurrentFrame>>
      /\ pc = "acquire" /\ pc' = "waitImage" /\ imageIndex' \in SwapChainImages
      /\ imageAvailable' = [imageAvailable EXCEPT ![CurrentFrame] = "pending"]
  BY DEF Acquire, deviceVars, swapChain
<1>2. TypeOK'
  BY <1>1 DEF TypeOK, Labels
<1>3. DrawsInPlace' /\ DrawsTracked' /\ OneDrawPerFrame' /\ (PresentBefore => PresentBefore')
  BY <1>1 DEF DrawsInPlace, DrawsTracked, OneDrawPerFrame, PresentBefore, Drawings,
              DrawsFrame, PresentsFrame
<1>4. FencePending' /\ FrameFree' /\ IdleAtRecreate'
  BY <1>1 DEF FencePending, FrameFree, IdleAtRecreate, Drawings, DrawsFrame
<1>5. AvailableConsumed'
  BY <1>1 DEF AvailableConsumed, TypeOK
<1>6. PresentAfter => PresentAfter'
  BY <1>1 DEF PresentAfter, Presenting, Rebuilding, Drawings, DrawsFrame, PresentsFrame
<1> QED BY <1>2, <1>3, <1>4, <1>5, <1>6

\* No drawing of the image is waiting once its noted fence is signaled: what the second
\* wait of render_frame is for.
LEMMA ImageIsFree ==
  ASSUME Synchronised, pc = "waitImage",
         ImagesInFlight[imageIndex] # NoFence => fence[ImagesInFlight[imageIndex]],
         NEW j \in 1..Len(Drawings), Drawings[j].op = "draw"
  PROVE  Drawings[j].image # imageIndex
<1>1. Drawings[j] \in Operations
  BY ConstantFacts DEF Synchronised, TypeOK, Drawings
<1>2. Drawings[j].frame \in Frames /\ ~fence[Drawings[j].frame]
  BY <1>1 DEF Synchronised, DrawsTracked, Operations
<1> QED BY <1>2, ConstantFacts DEF Synchronised, DrawsTracked

\* A submission that fails has reset the fence and noted it.
LEMMA SubmitThrows ==
  ASSUME Synchronised, pc = "waitImage",
         ImagesInFlight[imageIndex] # NoFence => fence[ImagesInFlight[imageIndex]],
         ImagesInFlight' = [ImagesInFlight EXCEPT ![imageIndex] = CurrentFrame],
         fence' = [fence EXCEPT ![CurrentFrame] = FALSE],
         pc' = "threw",
         UNCHANGED <<CurrentFrame, imageIndex, SwapChainImages, queue, renderFinished,
                     imageAvailable>>
  PROVE  Synchronised'
<1> USE DEF Synchronised
<1>1. TypeOK'
  BY DEF TypeOK, Labels, Ended
<1>2. DrawsInPlace' /\ OneDrawPerFrame' /\ (PresentBefore => PresentBefore')
  BY DEF DrawsInPlace, OneDrawPerFrame, PresentBefore, Drawings, DrawsFrame, PresentsFrame
<1>3. DrawsTracked'
  <2> SUFFICES ASSUME NEW j \in 1..Len(Drawings), Drawings[j].op = "draw"
               PROVE  /\ ~fence'[Drawings[j].frame]
                      /\ Drawings[j].image \in SwapChainImages
                      /\ ImagesInFlight'[Drawings[j].image] = Drawings[j].frame
    BY DEF DrawsTracked, Drawings
  <2>1. Drawings[j] \in Operations
    BY ConstantFacts DEF TypeOK, Drawings
  <2>2. Drawings[j].image # imageIndex
    BY ImageIsFree
  <2> QED BY <2>1, <2>2 DEF DrawsTracked, TypeOK, Operations
<1>4. FencePending' /\ FrameFree' /\ IdleAtRecreate' /\ AvailableConsumed' /\ PresentAfter'
  BY DEF FencePending, FrameFree, IdleAtRecreate, AvailableConsumed, PresentAfter
<1> QED BY <1>1, <1>2, <1>3, <1>4

\* Submit: one more drawing, whose fence was signaled until now.
LEMMA SubmitStep ==
  ASSUME Synchronised, Submit
  PROVE  Synchronised'
<1> DEFINE o == [op |-> "draw", image |-> imageIndex, frame |-> CurrentFrame]
           n == Len(Drawings)
<1> USE DEF Synchronised
<1>1. /\ UNCHANGED <<CurrentFrame, imageIndex, SwapChainImages, renderFinished, imageAvailable>>
      /\ pc = "waitImage" /\ pc' = "present"
      /\ ImagesInFlight' = [ImagesInFlight EXCEPT ![imageIndex] = CurrentFrame]
      /\ fence' = [fence EXCEPT ![CurrentFrame] = FALSE]
      /\ queue' = [queue EXCEPT ![GraphicsQueue] = Append(@, o)]
  BY DEF Submit, engineVars, swapChain
<1>2. /\ imageIndex \in SwapChainImages /\ CurrentFrame \in Frames /\ fence[CurrentFrame]
      /\ o \in Operations /\ Drawings \in Seq(Operations)
  BY <1>1, ConstantFacts DEF TypeOK, FrameFree, Operations, Drawings
<1>3. /\ Drawings' = Append(Drawings, o)
      /\ \A q \in Queues : q # GraphicsQueue => queue'[q] = queue[q]
  BY <1>1, ConstantFacts DEF TypeOK, Drawings
<1>4. /\ Drawings' \in Seq(Operations) /\ n \in Nat /\ Len(Drawings') = n + 1
      /\ \A j \in 1..n : Drawings'[j] = Drawings[j] /\ Drawings[j] \in Operations
      /\ Drawings'[n + 1] = o
  BY <1>2, <1>3, AppendFacts
<1> HIDE DEF o, n
<1>o. o.op = "draw" /\ o.image = imageIndex /\ o.frame = CurrentFrame
  BY DEF o
<1>5. ASSUME NEW j \in 1..n, Drawings[j].op = "draw"
      PROVE  Drawings[j].image # imageIndex /\ Drawings[j].frame # CurrentFrame
  <2>1. Drawings[j].image # imageIndex
    BY <1>5, ImageIsFree DEF Submit, n
  <2>2. ~fence[Drawings[j].frame]
    BY <1>5 DEF DrawsTracked, n
  <2> QED BY <1>2, <2>1, <2>2
<1>6. TypeOK'
  <2>1. queue' \in [Queues -> Seq(Operations)]
    BY <1>1, <1>3, <1>4, ConstantFacts DEF TypeOK, Drawings
  <2> QED BY <1>1, <1>2, <2>1 DEF TypeOK, Labels
<1>7. DrawsInPlace'
  BY <1>3 DEF DrawsInPlace
<1>8. DrawsTracked'
  <2> SUFFICES ASSUME NEW j \in 1..(n + 1), Drawings'[j].op = "draw"
               PROVE  /\ ~fence'[Drawings'[j].frame]
                      /\ Drawings'[j].image \in SwapChainImages
                      /\ ImagesInFlight'[Drawings'[j].image] = Drawings'[j].frame
    BY <1>1, <1>4 DEF DrawsTracked
  <2>1. CASE j = n + 1
    BY <1>1, <1>2, <1>4, <1>o, <2>1 DEF TypeOK
  <2>2. CASE j \in 1..n
    <3>1. /\ Drawings'[j] = Drawings[j] /\ Drawings[j].frame \in Frames
          /\ ~fence[Drawings[j].frame] /\ Drawings[j].image \in SwapChainImages
          /\ ImagesInFlight[Drawings[j].image] = Drawings[j].frame
      BY <1>4, <2>2 DEF DrawsTracked, Operations, n
    <3>2. Drawings[j].image # imageIndex /\ Drawings[j].frame # CurrentFrame
      BY <1>5, <2>2, <3>1
    <3> QED BY <1>1, <1>2, <3>1, <3>2 DEF TypeOK
  <2> QED BY <1>4, <2>1, <2>2
<1>9. OneDrawPerFrame'
  <2> SUFFICES ASSUME NEW j \in 1..(n + 1), NEW k \in 1..(n + 1), NEW f \in Frames,
                      DrawsFrame(j, f)', DrawsFrame(k, f)'
               PROVE  j = k
    BY <1>4 DEF OneDrawPerFrame
  <2>1. CASE j \in 1..n /\ k \in 1..n
    BY <1>4, <2>1 DEF OneDrawPerFrame, DrawsFrame, n
  <2>2. ASSUME NEW l \in 1..n, DrawsFrame(l, f)' PROVE f # CurrentFrame
    BY <1>4, <1>5, <2>2 DEF DrawsFrame
  <2> QED BY <1>4, <1>o, <2>1, <2>2 DEF DrawsFrame
<1>10. FencePending'
  <2> SUFFICES ASSUME NEW f \in Frames, ~fence'[f]
               PROVE  \E j \in 1..(n + 1) : DrawsFrame(j, f)'
    BY <1>4 DEF FencePending
  <2>1. CASE f = CurrentFrame
    BY <1>4, <1>o, <2>1 DEF DrawsFrame
  <2>2. CASE f # CurrentFrame
    <3>1. ~fence[f]
      BY <1>1, <1>2, <2>2 DEF TypeOK
    <3>2. PICK j \in 1..n : DrawsFrame(j, f)
      BY <1>1, <3>1 DEF FencePending, n
    <3> QED BY <1>4, <3>2 DEF DrawsFrame
  <2> QED BY <2>1, <2>2
<1>11. FrameFree' /\ IdleAtRecreate'
  BY <1>1 DEF FrameFree, IdleAtRecreate
<1>12. AvailableConsumed'
  BY <1>1, <1>2 DEF AvailableConsumed, TypeOK
<1>13. ASSUME PresentBefore, PresentAfter PROVE PresentBefore' /\ PresentAfter'
  <2>1. ASSUME NEW j \in 1..(n + 1), NEW f \in Frames, DrawsFrame(j, f)',
               renderFinished[f] = "signaled"
        PROVE  \E k \in 1..(n + 1) : k < j /\ PresentsFrame(k, f)'
    <3>1. CASE j \in 1..n
      <4>1. PICK k \in 1..n : k < j /\ PresentsFrame(k, f)
        BY <1>4, <1>13, <2>1, <3>1 DEF PresentBefore, DrawsFrame, n
      <4> QED BY <1>4, <4>1 DEF PresentsFrame
    <3>2. CASE j = n + 1
      <4>1. f = CurrentFrame
        BY <1>4, <1>o, <2>1, <3>2 DEF DrawsFrame
      <4>2. PICK k \in 1..n : PresentsFrame(k, f)
        BY <1>1, <1>13, <2>1 DEF PresentAfter, Presenting, Rebuilding, n
      <4> QED BY <1>4, <3>2, <4>2 DEF PresentsFrame
    <3> QED BY <1>4, <3>1, <3>2
  <2>2. PresentBefore'
    BY <1>1, <1>4, <2>1 DEF PresentBefore
  <2>3. ASSUME NEW f \in Frames, f # CurrentFrame, renderFinished[f] = "signaled"
        PROVE  \E k \in 1..(n + 1) : PresentsFrame(k, f)'
    <3>1. PICK k \in 1..n : PresentsFrame(k, f)
      BY <1>1, <1>13, <2>3 DEF PresentAfter, Presenting, Rebuilding, n
    <3> QED BY <1>4, <3>1 DEF PresentsFrame
  <2>4. ASSUME NEW f \in Frames, f # CurrentFrame, NEW j \in 1..(n + 1), DrawsFrame(j, f)'
        PROVE  \E k \in 1..(n + 1) : j < k /\ PresentsFrame(k, f)'
    <3>1. j \in 1..n /\ DrawsFrame(j, f)
      BY <1>4, <1>o, <2>4 DEF DrawsFrame
    <3>2. PICK k \in 1..n : j < k /\ PresentsFrame(k, f)
      BY <1>1, <1>13, <2>4, <3>1 DEF PresentAfter, Presenting, Rebuilding, n
    <3> QED BY <1>4, <3>2 DEF PresentsFrame
  <2>5. PresentAfter'
    BY <1>1, <1>4, <2>3, <2>4 DEF PresentAfter, Presenting
  <2> QED BY <2>2, <2>5
<1> QED BY <1>6, <1>7, <1>8, <1>9, <1>10, <1>11, <1>12, <1>13

\* A present is queued, wherever, and the frame is left or kept.
LEMMA PresentStep ==
  ASSUME Synchronised, pc = "present", QueuePresent,
         pc' \in {"poll", "readSize"}, CurrentFrame' \in Frames,
         UNCHANGED <<ImagesInFlight, SwapChainImages, fence, renderFinished, imageAvailable>>
  PROVE  Synchronised'
<1> DEFINE o == [op |-> "present", image |-> imageIndex, frame |-> CurrentFrame]
           n == Len(Drawings)
<1> USE DEF Synchronised
<1>1. /\ o \in Operations /\ CurrentFrame \in Frames /\ Drawings \in Seq(Operations)
      /\ queue' = [queue EXCEPT ![PresentQueue] = Append(@, o)]
      /\ \A q \in Queues : queue[q] \in Seq(Operations)
  BY ConstantFacts DEF TypeOK, Operations, QueuePresent, Drawings
<1>2. /\ queue'[PresentQueue] = Append(queue[PresentQueue], o)
      /\ \A q \in Queues : q # PresentQueue => queue'[q] = queue[q]
  BY <1>1, ConstantFacts DEF TypeOK
<1>o. o.op = "present" /\ o.frame = CurrentFrame
  OBVIOUS
<1> HIDE DEF o
<1>3. queue' \in [Queues -> Seq(Operations)]
  BY <1>1, <1>2, AppendFacts, ConstantFacts DEF TypeOK
<1>4. n \in Nat
  BY <1>1
<1>5. /\ Len(Drawings') \in {n, n + 1}
      /\ \A j \in 1..n : Drawings'[j] = Drawings[j]
      /\ Len(Drawings') = n + 1 => Drawings'[n + 1] = o
      /\ GraphicsQueue = PresentQueue => Len(Drawings') = n + 1
  <2>1. CASE GraphicsQueue = PresentQueue
    BY <1>1, <1>2, <2>1, AppendFacts DEF Drawings
  <2>2. CASE GraphicsQueue # PresentQueue
    <3>1. Drawings' = Drawings
      BY <1>2, <2>2, ConstantFacts DEF Drawings
    <3> QED BY <1>4, <2>2, <3>1
  <2> QED BY <2>1, <2>2
<1> HIDE DEF n
<1>6. /\ 1..Len(Drawings') \subseteq 1..(n + 1)
      /\ 1..n \subseteq 1..Len(Drawings')
      /\ \A j \in 1..Len(Drawings') : j \in 1..n \/ (j = n + 1 /\ Drawings'[j] = o)
  BY <1>4, <1>5
<1>7. \A j \in 1..Len(Drawings') : Drawings'[j].op = "draw" =>
        j \in 1..n /\ Drawings'[j] = Drawings[j]
  BY <1>o, <1>5, <1>6
<1>8. TypeOK'
  BY <1>3 DEF TypeOK, Labels
<1>9. DrawsInPlace'
  <2> SUFFICES ASSUME NEW q \in Queues, NEW j \in 1..Len(queue'[q]), queue'[q][j].op = "draw"
               PROVE  q = GraphicsQueue
    BY DEF DrawsInPlace
  <2>1. CASE q # PresentQueue
    BY <1>2, <2>1 DEF DrawsInPlace
  <2>2. CASE q = PresentQueue
    <3>1. /\ queue[q] \in Seq(Operations)
          /\ queue'[q] = Append(queue[q], o)
      BY <1>1, <1>2, <2>2
    <3>2. /\ Len(queue[q]) \in Nat /\ Len(queue'[q]) = Len(queue[q]) + 1
          /\ queue'[q][Len(queue[q]) + 1] = o
          /\ \A l \in 1..Len(queue[q]) : queue'[q][l] = queue[q][l]
      BY <1>1, <3>1, AppendFacts
    <3>3. j \in 1..Len(queue[q]) /\ queue[q][j].op = "draw"
      BY <1>o, <3>2
    <3> QED BY <3>3 DEF DrawsInPlace
  <2> QED BY <2>1, <2>2
<1>10. DrawsTracked' /\ OneDrawPerFrame'
  BY <1>7 DEF DrawsTracked, OneDrawPerFrame, DrawsFrame, n
<1>11. FencePending'
  <2> SUFFICES ASSUME NEW f \in Frames, ~fence[f]
               PROVE  \E j \in 1..Len(Drawings') : DrawsFrame(j, f)'
    BY DEF FencePending
  <2>1. PICK j \in 1..n : DrawsFrame(j, f)
    BY DEF FencePending, n
  <2> QED BY <1>5, <1>6, <2>1 DEF DrawsFrame
<1>12. FrameFree' /\ IdleAtRecreate' /\ AvailableConsumed'
  BY DEF FrameFree, IdleAtRecreate, AvailableConsumed
<1>13. ASSUME GraphicsQueue = PresentQueue PROVE PresentBefore' /\ PresentAfter'
  <2>0. n + 1 \in 1..Len(Drawings') /\ Drawings'[n + 1] = o
    BY <1>4, <1>5, <1>13
  <2>1. ASSUME NEW j \in 1..Len(Drawings'), NEW f \in Frames, DrawsFrame(j, f)',
               renderFinished[f] = "signaled"
        PROVE  \E k \in 1..Len(Drawings') : k < j /\ PresentsFrame(k, f)'
    <3>1. j \in 1..n /\ DrawsFrame(j, f)
      BY <1>7, <2>1 DEF DrawsFrame
    <3>2. PICK k \in 1..n : k < j /\ PresentsFrame(k, f)
      BY <1>13, <2>1, <3>1 DEF PresentBefore, n
    <3> QED BY <1>5, <1>6, <3>2 DEF PresentsFrame
  <2>2. PresentBefore'
    BY <2>1 DEF PresentBefore
  <2>3. ASSUME NEW f \in Frames, renderFinished[f] = "signaled"
        PROVE  \E k \in 1..Len(Drawings') : PresentsFrame(k, f)'
    <3>1. CASE f = CurrentFrame
      BY <1>o, <2>0, <3>1 DEF PresentsFrame
    <3>2. CASE f # CurrentFrame
      <4>1. PICK k \in 1..n : PresentsFrame(k, f)
        BY <1>13, <2>3, <3>2 DEF PresentAfter, Presenting, n
      <4> QED BY <1>5, <1>6, <4>1 DEF PresentsFrame
    <3> QED BY <3>1, <3>2
  <2>4. ASSUME NEW f \in Frames, NEW j \in 1..Len(Drawings'), DrawsFrame(j, f)'
        PROVE  \E k \in 1..Len(Drawings') : j < k /\ PresentsFrame(k, f)'
    <3>0. j \in 1..n /\ DrawsFrame(j, f)
      BY <1>7, <2>4 DEF DrawsFrame
    <3>1. CASE f = CurrentFrame
      <4>1. j < n + 1
        BY <1>4, <3>0
      <4> QED BY <1>o, <2>0, <3>1, <4>1 DEF PresentsFrame
    <3>2. CASE f # CurrentFrame
      <4>1. PICK k \in 1..n : j < k /\ PresentsFrame(k, f)
        BY <1>13, <3>0, <3>2 DEF PresentAfter, Presenting, n
      <4> QED BY <1>5, <1>6, <4>1 DEF PresentsFrame
    <3> QED BY <3>1, <3>2
  <2>5. PresentAfter'
    BY <2>3, <2>4 DEF PresentAfter
  <2> QED BY <2>2, <2>5
<1> QED BY <1>8, <1>9, <1>10, <1>11, <1>12, <1>13

\* Recreate: nothing is in flight, so any fences the images keep will do, and a render
\* semaphore that is signaled is left so.
LEMMA RecreateStep ==
  ASSUME Synchronised, NEW n \in MinImages..MaxImages, Recreate(n)
  PROVE  Synchronised'
<1> USE DEF Synchronised
<1>1. /\ UNCHANGED <<queue, fence, imageAvailable>>
      /\ renderFinished' =
           [f \in Frames |-> IF renderFinished[f] = "none" THEN "none" ELSE "left"]
      /\ pc = "recreate" /\ pc' = "poll" /\ SwapChainImages' = 0..(n - 1)
      /\ ImagesInFlight' = Resized(n)
      /\ CurrentFrame' \in {NextFrame, CurrentFrame}
  BY DEF Recreate, deviceVars
<1>2. CurrentFrame' \in Frames
  BY <1>1, NextFrameType DEF TypeOK
<1>3. Resized(n) \in [0..(n - 1) -> Frames \cup {NoFence}]
  BY DEF Resized, TypeOK
<1>4. TypeOK'
  BY <1>1, <1>2, <1>3, ConstantFacts DEF TypeOK, Labels
<1>5. Drawings = << >> /\ Drawings' = << >>
  BY <1>1, ConstantFacts DEF IdleAtRecreate, DeviceIdle, Drawings
<1>6. DrawsInPlace' /\ DrawsTracked' /\ OneDrawPerFrame' /\ PresentBefore'
  BY <1>1, <1>5 DEF DrawsInPlace, DrawsTracked, OneDrawPerFrame, PresentBefore
<1>7. FencePending' /\ FrameFree' /\ IdleAtRecreate'
  BY <1>1, <1>5 DEF FencePending, FrameFree, IdleAtRecreate, DrawsFrame
<1>8. AvailableConsumed'
  BY <1>1 DEF AvailableConsumed
<1>9. PresentAfter'
  BY <1>1, <1>5 DEF PresentAfter, DrawsFrame
<1> QED BY <1>4, <1>6, <1>7, <1>8, <1>9

-----------------------------------------------------------------------------
(* Steps of the device and of the presentation engine.                     *)

\* What is left when the graphics queue takes its first operation.
LEMMA TakeFacts ==
  ASSUME Synchronised, queue[GraphicsQueue] # << >>, Take(GraphicsQueue)
  PROVE  /\ queue' \in [Queues -> Seq(Operations)]
         /\ Len(Drawings) \in Nat /\ 1 <= Len(Drawings)
         /\ Len(Drawings') = Len(Drawings) - 1
         /\ \A j \in 1..Len(Drawings') :
              j + 1 \in 1..Len(Drawings) /\ Drawings'[j] = Drawings[j + 1]
         /\ \A j \in 1..Len(Drawings) :
              j # 1 => j - 1 \in 1..Len(Drawings') /\ Drawings'[j - 1] = Drawings[j]
         /\ DrawsInPlace'
         /\ Drawings[1] \in Operations
<1> USE DEF Synchronised
<1>1. Drawings \in Seq(Operations) /\ Drawings # << >>
  BY ConstantFacts DEF TypeOK, Drawings
<1>2. /\ Drawings' = Tail(Drawings)
      /\ \A q \in Queues : q # GraphicsQueue => queue'[q] = queue[q]
  BY ConstantFacts DEF TypeOK, Drawings, Take
<1>3. /\ Tail(Drawings) \in Seq(Operations)
      /\ Len(Drawings) \in Nat /\ 1 <= Len(Drawings)
      /\ Len(Tail(Drawings)) = Len(Drawings) - 1
      /\ \A j \in 1..Len(Tail(Drawings)) : Tail(Drawings)[j] = Drawings[j + 1]
      /\ Drawings[1] \in Operations
  BY <1>1, TailFacts
<1>4. queue' \in [Queues -> Seq(Operations)]
  BY <1>2, <1>3, ConstantFacts DEF TypeOK, Take, Drawings
<1>5. DrawsInPlace'
  BY <1>2 DEF DrawsInPlace
<1> QED BY <1>2, <1>3, <1>4, <1>5

\* Draw: the fence is signaled when the drawing leaves the queue, and no other drawing
\* of that frame is left.
LEMMA DrawStep ==
  ASSUME Synchronised, NEW q \in Queues, Draw(q)
  PROVE  Synchronised'
<1> DEFINE g == Drawings[1].frame
           n == Len(Drawings)
<1> USE DEF Synchronised
<1>1. /\ q = GraphicsQueue /\ queue[GraphicsQueue] # << >> /\ Take(GraphicsQueue)
      /\ Drawings[1].op = "draw"
      /\ imageAvailable' = [imageAvailable EXCEPT ![g] = "none"]
      /\ renderFinished' = [renderFinished EXCEPT ![g] = "signaled"]
      /\ fence' = [fence EXCEPT ![g] = TRUE]
      /\ UNCHANGED <<pc, CurrentFrame, imageIndex, ImagesInFlight, SwapChainImages, advance>>
  <2>1. queue[q] \in Seq(Operations) /\ queue[q] # << >> /\ queue[q][1].op = "draw"
    BY DEF Draw, HeadOf, TypeOK
  <2>2. 1 \in 1..Len(queue[q])
    BY <2>1, TailFacts
  <2>3. q = GraphicsQueue
    BY <2>1, <2>2 DEF DrawsInPlace
  <2>4. g = HeadOf(q).frame /\ Drawings[1] = queue[q][1]
    BY <2>3 DEF HeadOf, Drawings
  <2> HIDE DEF g
  <2> QED BY <2>1, <2>3, <2>4 DEF Draw, appVars, swapChain
<1>2. /\ queue' \in [Queues -> Seq(Operations)] /\ DrawsInPlace'
      /\ n \in Nat /\ 1 <= n /\ Len(Drawings') = n - 1
      /\ \A j \in 1..Len(Drawings') : j + 1 \in 1..n /\ Drawings'[j] = Drawings[j + 1]
      /\ \A j \in 1..n : j # 1 => j - 1 \in 1..Len(Drawings') /\ Drawings'[j - 1] = Drawings[j]
      /\ g \in Frames
  BY <1>1, TakeFacts DEF Operations
<1>3. DrawsFrame(1, g)
  BY <1>1 DEF DrawsFrame
<1> HIDE DEF g, n
<1>4. TypeOK'
  BY <1>1, <1>2 DEF TypeOK
<1>5. ASSUME NEW j \in 1..Len(Drawings'), NEW f \in Frames, DrawsFrame(j, f)'
      PROVE  f # g /\ DrawsFrame(j + 1, f) /\ j + 1 \in 1..n
  <2>1. DrawsFrame(j + 1, f) /\ j + 1 \in 1..n /\ j + 1 # 1 /\ 1 \in 1..n
    BY <1>2, <1>5 DEF DrawsFrame
  <2> QED BY <1>2, <1>3, <2>1 DEF OneDrawPerFrame, n
<1>6. DrawsTracked'
  <2> SUFFICES ASSUME NEW j \in 1..Len(Drawings'), Drawings'[j].op = "draw"
               PROVE  /\ ~fence'[Drawings'[j].frame]
                      /\ Drawings'[j].image \in SwapChainImages
                      /\ ImagesInFlight[Drawings'[j].image] = Drawings'[j].frame
    BY <1>1 DEF DrawsTracked
  <2>a. Drawings'[j] = Drawings[j + 1] /\ j + 1 \in 1..n
    BY <1>2
  <2>b. Drawings[j + 1] \in Operations
    BY <2>a, ConstantFacts DEF TypeOK, Drawings, n
  <2>1. Drawings'[j] = Drawings[j + 1] /\ j + 1 \in 1..n /\ Drawings[j + 1].frame \in Frames
    BY <2>a, <2>b DEF Operations
  <2>2. Drawings'[j].frame # g
    BY <1>5, <2>1 DEF DrawsFrame
  <2> QED BY <1>1, <1>2, <2>1, <2>2 DEF DrawsTracked, TypeOK, n
<1>7. OneDrawPerFrame'
  <2> SUFFICES ASSUME NEW j \in 1..Len(Drawings'), NEW k \in 1..Len(Drawings'),
                      NEW f \in Frames, DrawsFrame(j, f)', DrawsFrame(k, f)'
               PROVE  j = k
    BY DEF OneDrawPerFrame
  <2>1. j + 1 = k + 1
    BY <1>5 DEF OneDrawPerFrame, n
  <2> QED BY <1>2, <2>1
<1>8. FencePending'
  <2> SUFFICES ASSUME pc # "threw", NEW f \in Frames, ~fence'[f]
               PROVE  \E j \in 1..Len(Drawings') : DrawsFrame(j, f)'
    BY <1>1 DEF FencePending
  <2>1. f # g /\ ~fence[f]
    BY <1>1, <1>2 DEF TypeOK
  <2>2. PICK j \in 1..n : DrawsFrame(j, f)
    BY <2>1 DEF FencePending, n
  <2>3. j # 1
    BY <1>3, <2>1, <2>2 DEF DrawsFrame
  <2> QED BY <1>2, <2>2, <2>3 DEF DrawsFrame
<1>9. FrameFree'
  BY <1>1, <1>2 DEF FrameFree, TypeOK
<1>10. AvailableConsumed'
  BY <1>1, <1>2 DEF AvailableConsumed, TypeOK
<1>11. IdleAtRecreate'
  BY <1>1, ConstantFacts DEF IdleAtRecreate, DeviceIdle
<1>12. ASSUME PresentBefore, PresentAfter PROVE PresentBefore' /\ PresentAfter'
  <2>1. ASSUME NEW j \in 1..Len(Drawings'), NEW f \in Frames, DrawsFrame(j, f)',
               renderFinished'[f] = "signaled"
        PROVE  \E k \in 1..Len(Drawings') : k < j /\ PresentsFrame(k, f)'
    <3>1. f # g /\ DrawsFrame(j + 1, f) /\ j + 1 \in 1..n /\ renderFinished[f] = "signaled"
      BY <1>1, <1>2, <1>5, <2>1 DEF TypeOK
    <3>2. PICK k \in 1..n : k < j + 1 /\ PresentsFrame(k, f)
      BY <1>12, <3>1 DEF PresentBefore, n
    <3>3. k # 1
      BY <1>1, <3>2 DEF PresentsFrame
    <3>4. k - 1 \in 1..Len(Drawings') /\ PresentsFrame(k - 1, f)' /\ k - 1 < j
      BY <1>2, <3>2, <3>3 DEF PresentsFrame
    <3> QED BY <3>4
  <2>2. PresentBefore'
    BY <2>1 DEF PresentBefore
  <2>3. ASSUME pc # "threw", NEW f \in Frames, ~Presenting(f), renderFinished'[f] = "signaled"
        PROVE  \E k \in 1..Len(Drawings') : PresentsFrame(k, f)'
    <3>1. PICK k \in 1..n : PresentsFrame(k, f)
      <4>1. CASE f = g
        <5>1. \E k \in 1..n : 1 < k /\ PresentsFrame(k, f)
          BY <1>2, <1>3, <1>12, <2>3, <4>1 DEF PresentAfter, n
        <5> QED BY <5>1
      <4>2. CASE f # g
        BY <1>1, <1>12, <2>3, <4>2 DEF PresentAfter, TypeOK, n
      <4> QED BY <4>1, <4>2
    <3>2. k # 1
      BY <1>1, <3>1 DEF PresentsFrame
    <3>3. k - 1 \in 1..Len(Drawings') /\ PresentsFrame(k - 1, f)'
      BY <1>2, <3>1, <3>2 DEF PresentsFrame
    <3> QED BY <3>3
  <2>4. ASSUME pc # "threw", NEW f \in Frames, ~Presenting(f),
               NEW j \in 1..Len(Drawings'), DrawsFrame(j, f)'
        PROVE  \E k \in 1..Len(Drawings') : j < k /\ PresentsFrame(k, f)'
    <3>1. DrawsFrame(j + 1, f) /\ j + 1 \in 1..n
      BY <1>5, <2>4
    <3>2. PICK k \in 1..n : j + 1 < k /\ PresentsFrame(k, f)
      BY <1>12, <2>4, <3>1 DEF PresentAfter, n
    <3>3. k # 1
      BY <1>2, <3>1, <3>2
    <3>4. k - 1 \in 1..Len(Drawings') /\ PresentsFrame(k - 1, f)' /\ j < k - 1
      BY <1>2, <3>2, <3>3 DEF PresentsFrame
    <3> QED BY <3>4
  <2>5. PresentAfter'
    BY <1>1, <2>3, <2>4 DEF PresentAfter, Presenting
  <2> QED BY <2>2, <2>5
<1> QED BY <1>2, <1>4, <1>6, <1>7, <1>8, <1>9, <1>10, <1>11, <1>12

\* Show: a present leaves the queue, and the render semaphore is unsignaled again.
LEMMA ShowStep ==
  ASSUME Synchronised, NEW q \in Queues, Show(q)
  PROVE  Synchronised'
<1> DEFINE g == queue[q][1].frame
           n == Len(Drawings)
<1> USE DEF Synchronised
<1>1. /\ queue[q] # << >> /\ Take(q) /\ queue[q][1].op = "present"
      /\ renderFinished' = [renderFinished EXCEPT ![g] = "none"]
      /\ UNCHANGED <<pc, CurrentFrame, imageIndex, ImagesInFlight, SwapChainImages, fence,
                     imageAvailable, advance>>
      /\ queue[q] \in Seq(Operations)
  BY DEF Show, HeadOf, appVars, swapChain, TypeOK
<1>2. g \in Frames
  <2>1. queue[q][1] \in Operations
    BY <1>1, TailFacts
  <2> QED BY <2>1 DEF Operations
<1>3. FrameFree' /\ AvailableConsumed'
  BY <1>1 DEF FrameFree, AvailableConsumed
<1>4. IdleAtRecreate'
  BY <1>1 DEF IdleAtRecreate, DeviceIdle
<1>5. CASE q # GraphicsQueue
  <2>1. /\ Drawings' = Drawings /\ GraphicsQueue # PresentQueue
        /\ queue'[q] = Tail(queue[q])
        /\ \A r \in Queues : r # q => queue'[r] = queue[r]
    BY <1>1, <1>5, ConstantFacts DEF Drawings, Take, TypeOK, Queues
  <2>2. TypeOK'
    <3>1. queue' \in [Queues -> Seq(Operations)]
      BY <1>1, <2>1, TailFacts DEF TypeOK, Take
    <3> QED BY <1>1, <1>2, <3>1 DEF TypeOK
  <2>3. DrawsInPlace'
    <3> SUFFICES ASSUME NEW j \in 1..Len(queue'[q]) PROVE queue'[q][j].op # "draw"
      BY <2>1 DEF DrawsInPlace
    <3>1. j + 1 \in 1..Len(queue[q]) /\ queue'[q][j] = queue[q][j + 1]
      BY <1>1, <2>1, TailFacts
    <3> QED BY <1>5, <3>1 DEF DrawsInPlace
  <2>4. DrawsTracked' /\ OneDrawPerFrame' /\ FencePending'
    BY <1>1, <2>1 DEF DrawsTracked, OneDrawPerFrame, FencePending, DrawsFrame
  <2> QED BY <1>3, <1>4, <2>1, <2>2, <2>3, <2>4
<1>6. CASE q = GraphicsQueue
  <2>1. /\ queue' \in [Queues -> Seq(Operations)] /\ DrawsInPlace'
        /\ n \in Nat /\ 1 <= n /\ Len(Drawings') = n - 1
        /\ \A j \in 1..Len(Drawings') : j + 1 \in 1..n /\ Drawings'[j] = Drawings[j + 1]
        /\ \A j \in 1..n :
             j # 1 => j - 1 \in 1..Len(Drawings') /\ Drawings'[j - 1] = Drawings[j]
        /\ Drawings[1].op = "present" /\ Drawings[1].frame = g
    BY <1>1, <1>6, TakeFacts DEF Drawings
  <2> HIDE DEF n
  <2>2. TypeOK'
    BY <1>1, <1>2, <2>1 DEF TypeOK
  <2>3. DrawsTracked'
    BY <1>1, <2>1 DEF DrawsTracked, n
  <2>4. \A j \in 1..Len(Drawings') : \A f \in Frames :
          DrawsFrame(j, f)' => DrawsFrame(j + 1, f) /\ j + 1 \in 1..n
    BY <2>1 DEF DrawsFrame
  <2>5. OneDrawPerFrame'
    <3> SUFFICES ASSUME NEW j \in 1..Len(Drawings'), NEW k \in 1..Len(Drawings'),
                        NEW f \in Frames, DrawsFrame(j, f)', DrawsFrame(k, f)'
                 PROVE  j = k
      BY DEF OneDrawPerFrame
    <3>1. j + 1 = k + 1
      BY <2>4 DEF OneDrawPerFrame, n
    <3> QED BY <2>1, <3>1
  <2>6. FencePending'
    <3> SUFFICES ASSUME pc # "threw", NEW f \in Frames, ~fence[f]
                 PROVE  \E j \in 1..Len(Drawings') : DrawsFrame(j, f)'
      BY <1>1 DEF FencePending
    <3>1. PICK j \in 1..n : DrawsFrame(j, f)
      BY DEF FencePending, n
    <3>2. j # 1
      BY <2>1, <3>1 DEF DrawsFrame
    <3> QED BY <2>1, <3>1, <3>2 DEF DrawsFrame
  <2>7. ASSUME PresentBefore, PresentAfter PROVE PresentBefore' /\ PresentAfter'
    <3>0. \A f \in Frames : renderFinished'[f] = "signaled" => f # g /\ renderFinished[f] = "signaled"
      BY <1>1, <1>2 DEF TypeOK
    <3>k. ASSUME NEW k \in 1..n, NEW f \in Frames, PresentsFrame(k, f), f # g \/ k # 1
          PROVE  k - 1 \in 1..Len(Drawings') /\ PresentsFrame(k - 1, f)'
      <4>1. k # 1
        BY <2>1, <3>k DEF PresentsFrame
      <4> QED BY <2>1, <3>k, <4>1 DEF PresentsFrame
    <3>1. ASSUME NEW j \in 1..Len(Drawings'), NEW f \in Frames, DrawsFrame(j, f)',
                 renderFinished'[f] = "signaled"
          PROVE  \E k \in 1..Len(Drawings') : k < j /\ PresentsFrame(k, f)'
      <4>1. DrawsFrame(j + 1, f) /\ j + 1 \in 1..n /\ renderFinished[f] = "signaled" /\ f # g
        BY <2>4, <3>0, <3>1
      <4>2. PICK k \in 1..n : k < j + 1 /\ PresentsFrame(k, f)
        BY <2>7, <4>1 DEF PresentBefore, n
      <4>3. k - 1 \in 1..Len(Drawings') /\ PresentsFrame(k - 1, f)' /\ k - 1 < j
        BY <2>1, <3>k, <4>1, <4>2
      <4> QED BY <4>3
    <3>2. PresentBefore'
      BY <3>1 DEF PresentBefore
    <3>3. ASSUME pc # "threw", NEW f \in Frames, ~Presenting(f), renderFinished'[f] = "signaled"
          PROVE  \E k \in 1..Len(Drawings') : PresentsFrame(k, f)'
      <4>1. PICK k \in 1..n : PresentsFrame(k, f)
        BY <2>7, <3>0, <3>3 DEF PresentAfter, n
      <4>2. k - 1 \in 1..Len(Drawings') /\ PresentsFrame(k - 1, f)'
        BY <3>0, <3>3, <3>k, <4>1
      <4> QED BY <4>2
    <3>4. ASSUME pc # "threw", NEW f \in Frames, ~Presenting(f),
                 NEW j \in 1..Len(Drawings'), DrawsFrame(j, f)'
          PROVE  \E k \in 1..Len(Drawings') : j < k /\ PresentsFrame(k, f)'
      <4>1. DrawsFrame(j + 1, f) /\ j + 1 \in 1..n
        BY <2>4, <3>4
      <4>2. PICK k \in 1..n : j + 1 < k /\ PresentsFrame(k, f)
        BY <2>7, <3>4, <4>1 DEF PresentAfter, n
      <4>3. k # 1
        BY <2>1, <4>1, <4>2
      <4>4. k - 1 \in 1..Len(Drawings') /\ PresentsFrame(k - 1, f)'
        BY <3>k, <4>2, <4>3
      <4>5. j < k - 1
        BY <2>1, <4>2
      <4> QED BY <4>4, <4>5
    <3>5. PresentAfter'
      BY <1>1, <3>3, <3>4 DEF PresentAfter, Presenting
    <3> QED BY <3>2, <3>5
  <2> QED BY <1>3, <1>4, <2>1, <2>2, <2>3, <2>5, <2>6, <2>7
<1> QED BY <1>5, <1>6

\* SignalAvailable: the semaphore was in use before and still is.
LEMMA SignalStep ==
  ASSUME Synchronised, NEW f \in Frames, SignalAvailable(f)
  PROVE  Synchronised'
<1> USE DEF Synchronised
<1>1. /\ UNCHANGED <<queue, fence, renderFinished, pc, CurrentFrame, imageIndex,
                     ImagesInFlight, SwapChainImages, advance>>
      /\ imageAvailable[f] = "pending"
      /\ imageAvailable' = [imageAvailable EXCEPT ![f] = "signaled"]
  BY DEF SignalAvailable, appVars, swapChain, deviceVars
<1>2. TypeOK'
  BY <1>1 DEF TypeOK
<1>3. AvailableConsumed'
  BY <1>1 DEF AvailableConsumed, TypeOK
<1>4. /\ DrawsInPlace' /\ DrawsTracked' /\ OneDrawPerFrame' /\ FencePending' /\ FrameFree'
      /\ IdleAtRecreate' /\ (PresentBefore => PresentBefore') /\ (PresentAfter => PresentAfter')
  BY <1>1 DEF DrawsInPlace, DrawsTracked, OneDrawPerFrame, FencePending, FrameFree,
              IdleAtRecreate, DeviceIdle, PresentBefore, PresentAfter, Presenting, Drawings,
              DrawsFrame, PresentsFrame
<1> QED BY <1>2, <1>3, <1>4

-----------------------------------------------------------------------------
(* The results.                                                            *)

\* Every step, of whomever, keeps fences, semaphores and queues in step.
LEMMA NextSynchronised == Synchronised /\ [Next]_vars => Synchronised'
<1> SUFFICES ASSUME Synchronised, [Next]_vars PROVE Synchronised'
  OBVIOUS
<1>t. pc \in Labels
  BY DEF Synchronised, TypeOK
<1>1. CASE Window
  BY <1>1, <1>t, QuietStep
     DEF Rebuilding, Window, UserResizes, UserCloses, appVars, swapChain, deviceVars, engineVars
<1>2. CASE Poll \/ WaitEvents
  BY <1>2, QuietStep DEF Rebuilding, Poll, WaitEvents, swapChain, deviceVars, engineVars, Labels
<1>3. CASE LeaveLoop \/ Exit
  BY <1>3, QuietStep DEF Rebuilding, LeaveLoop, Exit, swapChain, deviceVars, engineVars, Labels, Ended
<1>4. CASE WaitForFrame
  BY <1>4, QuietStep DEF Rebuilding, WaitForFrame, swapChain, deviceVars, engineVars, Labels
<1>5. CASE \E i \in Images : Acquire(i)
  BY <1>5, AcquireStep
<1>6. CASE AcquireOutOfDate
  BY <1>6, QuietStep DEF Rebuilding, AcquireOutOfDate, swapChain, deviceVars, engineVars, Labels
<1>7. CASE Submit
  BY <1>7, SubmitStep
<1>8. CASE PresentGood \/ PresentStale
  <2>1. /\ pc = "present" /\ QueuePresent /\ pc' \in {"poll", "readSize"}
        /\ CurrentFrame' \in {NextFrame, CurrentFrame}
        /\ UNCHANGED <<ImagesInFlight, SwapChainImages, fence, renderFinished, imageAvailable>>
    BY <1>8 DEF PresentGood, PresentStale, swapChain, engineVars
  <2>2. CurrentFrame' \in Frames
    BY <2>1, NextFrameType DEF Synchronised, TypeOK
  <2> QED BY <2>1, <2>2, PresentStep
<1>8f. CASE PresentFails
  BY <1>8f, QuietStep DEF PresentFails, swapChain, deviceVars, engineVars, Labels, Rebuilding
<1>9. CASE ReadSize \/ ReadSizeAgain
  BY <1>9, QuietStep DEF Rebuilding, ReadSize, ReadSizeAgain, swapChain, deviceVars, engineVars, Labels
<1>10. CASE WaitIdle
  BY <1>10, QuietStep DEF Rebuilding, WaitIdle, swapChain, deviceVars, engineVars, Labels
<1>11. CASE \E n \in MinImages..MaxImages : Recreate(n)
  BY <1>11, RecreateStep
<1>12. CASE Throw
  <2>1. CASE pc \in {"acquire", "present", "recreate"} /\ UNCHANGED <<ImagesInFlight, fence>>
    BY <1>12, <2>1, QuietStep DEF Rebuilding, Throw, swapChain, engineVars, Labels, Ended
  <2>2. CASE pc \notin {"acquire", "present", "recreate"}
    BY <1>12, <2>2, SubmitThrows DEF Throw, swapChain, engineVars
  <2>3. pc \in {"acquire", "present", "recreate"} => UNCHANGED <<ImagesInFlight, fence>>
    BY <1>12 DEF Throw
  <2> QED BY <2>1, <2>2, <2>3
<1>13. CASE Terminated \/ UNCHANGED vars
  BY <1>13, <1>t, QuietStep
     DEF Rebuilding, Terminated, vars, appVars, swapChain, deviceVars, engineVars, windowVars
<1>14. CASE \E q \in Queues : Draw(q) \/ Show(q)
  BY <1>14, DrawStep, ShowStep
<1>15. CASE \E i \in Images : Release(i)
  BY <1>15, <1>t, QuietStep DEF Rebuilding, Release, appVars, swapChain, deviceVars
<1>16. CASE \E f \in Frames : SignalAvailable(f)
  BY <1>16, SignalStep
<1> QED
  BY <1>1, <1>2, <1>3, <1>4, <1>5, <1>6, <1>7, <1>8, <1>8f, <1>9, <1>10, <1>11, <1>12, <1>13,
     <1>14, <1>15, <1>16 DEF Next, Program

\* The invariant holds throughout.
LEMMA AlwaysSynchronised == Spec => []Synchronised
BY InitSynchronised, NextSynchronised, PTL DEF Spec

\* A finite set whose elements are all equal has at most one.
LEMMA AtMostOne ==
  ASSUME NEW S, IsFiniteSet(S), \A x, y \in S : x = y
  PROVE  Cardinality(S) <= 1 /\ (S # {} => Cardinality(S) = 1)
<1>1. CASE S = {}
  BY <1>1, FS_EmptySet
<1>2. CASE S # {}
  <2>1. PICK x : x \in S
    BY <1>2
  <2>2. S = {x}
    BY <2>1
  <2> QED BY <2>2, FS_Singleton
<1> QED BY <1>1, <1>2

\* The drawings of one frame or of one image are finitely many.
LEMMA DrawingsFinite ==
  ASSUME Synchronised, NEW S, S \subseteq 1..Len(Drawings)
  PROVE  IsFiniteSet(S)
<1>1. Len(Drawings) \in Nat
  BY ConstantFacts DEF Synchronised, TypeOK, Drawings
<1>2. IsFiniteSet(1..Len(Drawings))
  BY <1>1, FS_Interval
<1> QED BY <1>2, FS_Subset

\* The command buffer of an image is submitted only when its last submission has executed,
\* with any number of frames and images, whichever images the engine hands out.
THEOREM CommandBuffersFree == Spec => []CommandBufferFree
<1>1. Synchronised => CommandBufferFree
  <2> SUFFICES ASSUME Synchronised, NEW i \in Images
               PROVE  Cardinality(DrawsOf(LAMBDA o : o.image = i)) <= 1
    BY DEF CommandBufferFree
  <2> DEFINE D == {j \in DOMAIN queue[GraphicsQueue] :
                     queue[GraphicsQueue][j].op = "draw" /\ queue[GraphicsQueue][j].image = i}
  <2>1. DrawsOf(LAMBDA o : o.image = i) = D
    BY DEF DrawsOf
  <2>2. Drawings \in Seq(Operations) /\ DOMAIN Drawings = 1..Len(Drawings)
    BY ConstantFacts DEF Synchronised, TypeOK, Drawings
  <2>3. IsFiniteSet(D)
    BY <2>2, DrawingsFinite DEF Drawings
  <2>4. ASSUME NEW j \in D, NEW k \in D PROVE j = k
    <3>1. /\ j \in 1..Len(Drawings) /\ k \in 1..Len(Drawings)
          /\ Drawings[j].op = "draw" /\ Drawings[k].op = "draw"
          /\ Drawings[j].image = i /\ Drawings[k].image = i
      BY <2>2 DEF Drawings
    <3>2. Drawings[j].frame = Drawings[k].frame
      BY <3>1 DEF Synchronised, DrawsTracked
    <3>3. Drawings[j] \in Operations
      BY <2>2, <3>1
    <3>4. Drawings[j].frame \in Frames
      BY <3>3 DEF Operations
    <3> QED BY <3>1, <3>2, <3>4 DEF Synchronised, OneDrawPerFrame, DrawsFrame
  <2> HIDE DEF D
  <2> QED BY <2>1, <2>3, <2>4, AtMostOne
<1> QED BY <1>1, AlwaysSynchronised, PTL

\* A fence is unsignaled exactly while one submission that will signal it is pending.
THEOREM FencesMatch == Spec => []FenceMatches
<1>1. Synchronised => FenceMatches
  <2> SUFFICES ASSUME Synchronised, pc # "threw", NEW f \in Frames
               PROVE  Cardinality(DrawsOf(LAMBDA o : o.frame = f)) = IF fence[f] THEN 0 ELSE 1
    BY DEF FenceMatches
  <2> DEFINE D == {j \in DOMAIN queue[GraphicsQueue] :
                     queue[GraphicsQueue][j].op = "draw" /\ queue[GraphicsQueue][j].frame = f}
  <2>1. DrawsOf(LAMBDA o : o.frame = f) = D
    BY DEF DrawsOf
  <2>2. Drawings \in Seq(Operations) /\ DOMAIN Drawings = 1..Len(Drawings)
    BY ConstantFacts DEF Synchronised, TypeOK, Drawings
  <2>3. IsFiniteSet(D)
    BY <2>2, DrawingsFinite DEF Drawings
  <2>4. \A j : j \in D <=> j \in 1..Len(Drawings) /\ DrawsFrame(j, f)
    BY <2>2 DEF DrawsFrame, Drawings
  <2> HIDE DEF D
  <2>5. CASE fence[f]
    <3>1. D = {}
      BY <2>4, <2>5 DEF Synchronised, DrawsTracked, DrawsFrame
    <3> QED BY <2>1, <2>5, <3>1, FS_EmptySet
  <2>6. CASE ~fence[f]
    <3>1. D # {}
      BY <2>4, <2>6 DEF Synchronised, FencePending
    <3>2. \A j, k \in D : j = k
      BY <2>4 DEF Synchronised, OneDrawPerFrame
    <3> QED BY <2>1, <2>3, <2>6, <3>1, <3>2, AtMostOne
  <2> QED BY <2>5, <2>6
<1> QED BY <1>1, AlwaysSynchronised, PTL

\* Whoever signals a binary semaphore finds it unsignaled and unused, at every acquire and,
\* with one queue for drawing and presenting, at every drawing.
THEOREM SemaphoresAlwaysFree == Spec => []SemaphoresFree
<1>1. Synchronised => SemaphoresFree
  <2> SUFFICES ASSUME Synchronised PROVE AcquireSemaphoreFree /\ RenderFinishedOnce
    BY DEF SemaphoresFree
  <2>1. AcquireSemaphoreFree
    BY DEF Synchronised, TypeOK, FrameFree, AvailableConsumed, AcquireSemaphoreFree
  <2>2. ASSUME GraphicsQueue = PresentQueue, Drawings # << >>, Drawings[1].op = "draw"
        PROVE  renderFinished[Drawings[1].frame] # "signaled"
    <3> SUFFICES ASSUME renderFinished[Drawings[1].frame] = "signaled" PROVE FALSE
      OBVIOUS
    <3>1. Drawings \in Seq(Operations)
      BY ConstantFacts DEF Synchronised, TypeOK, Drawings
    <3>2. 1 \in 1..Len(Drawings) /\ Drawings[1] \in Operations
      BY <2>2, <3>1, TailFacts
    <3>3. DrawsFrame(1, Drawings[1].frame) /\ Drawings[1].frame \in Frames
      BY <2>2, <3>2 DEF DrawsFrame, Operations
    <3>4. PICK k \in 1..Len(Drawings) : k < 1
      BY <2>2, <3>2, <3>3 DEF Synchronised, PresentBefore
    <3> QED BY <3>1, <3>4
  <2>3. ASSUME GraphicsQueue = PresentQueue, pc = "recreate", NEW f \in Frames,
               renderFinished[f] = "signaled", ~Presenting(f)
        PROVE  FALSE
    <3>1. Drawings = << >>
      BY <2>3, ConstantFacts DEF Synchronised, IdleAtRecreate, DeviceIdle, Drawings
    <3>2. \E k \in 1..Len(Drawings) : PresentsFrame(k, f)
      BY <2>3 DEF Synchronised, PresentAfter
    <3> QED BY <3>1, <3>2
  <2>4. RenderFinishedOnce
    BY <2>2, <2>3 DEF RenderFinishedOnce, HeadOf, Drawings, Presenting
  <2> QED BY <2>1, <2>4
<1> QED BY <1>1, AlwaysSynchronised, PTL

\* update_swap_chain destroys the swap chain and what was made from it when no submission,
\* no presentation and no acquired image is outstanding.
THEOREM RecreateAlwaysIdle == Spec => []RecreateIdle
<1>1. Synchronised => RecreateIdle
  <2> SUFFICES ASSUME Synchronised, pc = "recreate"
               PROVE  DeviceIdle /\ \A f \in Frames : imageAvailable[f] = "none" /\ fence[f]
    BY DEF RecreateIdle
  <2>1. DeviceIdle /\ Drawings = << >>
    BY ConstantFacts DEF Synchronised, IdleAtRecreate, DeviceIdle, Drawings
  <2>2. \A f \in Frames : fence[f]
    BY <2>1 DEF Synchronised, FencePending
  <2> QED BY <2>1, <2>2 DEF Synchronised, AvailableConsumed
<1> QED BY <1>1, AlwaysSynchronised, PTL
=============================================================================
