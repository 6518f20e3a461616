------------------------------ MODULE VkFrames ------------------------------
(***************************************************************************)
(* The render loop of 10-3d/vk-simplest.cc (run, render_frame and          *)
(* update_swap_chain) against everything it runs concurrently with: the    *)
(* queues of the device, the presentation engine and the window system.    *)
(*                                                                         *)
(* The program waits in five places: for the fence of the frame, for an    *)
(* image, for the fence of the image, for window events, for the device to *)
(* be idle.  Between two waits it runs without being observed, so each     *)
(* stretch is one step.  Vulkan and GLFW are external; the presentation    *)
(* engine is as free as the API allows: it may hand out any image that the *)
(* program does not hold, even one whose presentation is still queued, and *)
(* signals the acquire semaphore once it is done with that image.          *)
(***************************************************************************)
EXTENDS Naturals, Sequences, FiniteSets

CONSTANTS MAX_FRAMES_IN_FLIGHT,
          MinImages, MaxImages,          \* what the surface may give per swap chain
          GraphicsQueue, PresentQueue,   \* equal when one family does both
          Sizes,                         \* window sizes, 0 when minimised
          MinExtent, MaxExtent,          \* what the surface allows
          MaxResizes                     \* bound on the resizes by the user

ASSUME FramesAssumption == MAX_FRAMES_IN_FLIGHT \in Nat \ {0}
ASSUME ImagesAssumption == /\ MinImages \in Nat \ {0}
                           /\ MaxImages \in Nat
                           /\ MinImages <= MaxImages
ASSUME SizesAssumption == Sizes \subseteq Nat /\ Sizes \ {0} # {}
ASSUME ExtentAssumption == /\ MinExtent \in Nat
                           /\ MaxExtent \in Nat
                           /\ MinExtent <= MaxExtent

Frames == 0..(MAX_FRAMES_IN_FLIGHT - 1)
Images == 0..(MaxImages - 1)
Queues == {GraphicsQueue, PresentQueue}
NoFence == MAX_FRAMES_IN_FLIGHT          \* VK_NULL_HANDLE

VARIABLES
  \* the program
  pc,                  \* where it is: the next wait or call
  CurrentFrame,
  imageIndex,          \* the image acquired for the frame, 0 between two frames
  FramebufferResized,
  ImagesInFlight,      \* fence of the frame that last drew each image
  width,               \* the size read by update_swap_chain, 0 outside of it
  advance,             \* update_swap_chain was called after the present
  extent,              \* Extent of the swap chain
  SwapChainImages,     \* its images
  shouldClose,         \* glfwWindowShouldClose
  \* the device
  queue,               \* operations submitted and not yet executed
  fence,               \* InFlightFences: signaled or not
  renderFinished,      \* RenderFinishedSemaphores: "none", "signaled", or "left" when it
                       \* was signaled before the swap chain was last rebuilt
  \* the presentation engine
  imageAvailable,      \* ImageAvailableSemaphores: "none", "pending", "signaled"
  acquired,            \* image each pending semaphore is about, 0 for the others
  reading,             \* images being shown
  \* the window system
  size, events, resizes

swapChain == <<extent, SwapChainImages>>
appVars == <<pc, CurrentFrame, imageIndex, FramebufferResized, ImagesInFlight,
             width, advance, swapChain, shouldClose>>
deviceVars == <<queue, fence, renderFinished>>
engineVars == <<imageAvailable, acquired, reading>>
windowVars == <<size, events, resizes>>
vars == <<appVars, deviceVars, engineVars, windowVars>>

myclamp(x, low, hi) == IF x > hi THEN hi ELSE IF x < low THEN low ELSE x

\* Extent as create_swap_chain sets it.
SurfaceExtent == myclamp(size, MinExtent, MaxExtent)

\* After create_sync_objs.  No constructor sets FramebufferResized.
Init ==
  /\ pc = "poll"
  /\ CurrentFrame = 0
  /\ imageIndex = 0
  /\ FramebufferResized \in BOOLEAN
  /\ \E n \in MinImages..MaxImages : SwapChainImages = 0..(n - 1)
  /\ ImagesInFlight = [i \in SwapChainImages |-> NoFence]
  /\ width = 0
  /\ advance = FALSE
  /\ size \in Sizes \ {0}
  /\ extent = SurfaceExtent
  /\ shouldClose = FALSE
  /\ queue = [q \in Queues |-> << >>]
  /\ fence = [f \in Frames |-> TRUE]
  /\ renderFinished = [f \in Frames |-> "none"]
  /\ imageAvailable = [f \in Frames |-> "none"]
  /\ acquired = [f \in Frames |-> 0]
  /\ reading = {}
  /\ events = {}
  /\ resizes = 0

-----------------------------------------------------------------------------
(* Window events.  GLFW delivers them inside glfwPollEvents and            *)
(* glfwWaitEvents, where framebuffer_size_callback runs.                   *)

\* Slip: the callback does nothing.
DeliverIgnored ==
  /\ events' = {}
  /\ shouldClose' = (shouldClose \/ "close" \in events)
  /\ UNCHANGED FramebufferResized

Deliver ==
  /\ events' = {}
  /\ shouldClose' = (shouldClose \/ "close" \in events)
  /\ FramebufferResized' = (FramebufferResized \/ "resize" \in events)

UserResizes(s) ==
  /\ resizes < MaxResizes
  /\ s # size
  /\ size' = s
  /\ events' = events \cup {"resize"}
  /\ resizes' = resizes + 1
  /\ UNCHANGED <<appVars, deviceVars, engineVars>>

UserCloses ==
  /\ events' = events \cup {"close"}
  /\ ~shouldClose
  /\ UNCHANGED <<appVars, deviceVars, engineVars, size, resizes>>

-----------------------------------------------------------------------------
(* run                                                                     *)

Poll ==
  /\ pc = "poll"
  /\ ~shouldClose
  /\ Deliver
  /\ pc' = "waitFrame"
  /\ UNCHANGED <<CurrentFrame, imageIndex, ImagesInFlight, width, advance, swapChain,
                 deviceVars, engineVars, size, resizes>>

\* Slip: the loop does not test the flag.
LeaveLoopNever ==
  /\ pc = "poll"
  /\ shouldClose
  /\ pc' = "waitFrame"
  /\ UNCHANGED <<CurrentFrame, imageIndex, FramebufferResized, ImagesInFlight, width,
                 advance, swapChain, shouldClose, deviceVars, engineVars, windowVars>>

LeaveLoop ==
  /\ pc = "poll"
  /\ shouldClose
  /\ pc' = "lastIdle"
  /\ UNCHANGED <<CurrentFrame, imageIndex, FramebufferResized, ImagesInFlight, width,
                 advance, swapChain, shouldClose, deviceVars, engineVars, windowVars>>

\* vkDeviceWaitIdle returns when every queue has run dry.
DeviceIdle == \A q \in Queues : queue[q] = << >>

Exit ==
  /\ pc = "lastIdle"
  /\ DeviceIdle
  /\ pc' = "closed"
  /\ UNCHANGED <<CurrentFrame, imageIndex, FramebufferResized, ImagesInFlight, width,
                 advance, swapChain, shouldClose, deviceVars, engineVars, windowVars>>

-----------------------------------------------------------------------------
(* render_frame                                                            *)

\* Slip: the fence of the frame is not waited for.
WaitForFrameNot ==
  /\ pc = "waitFrame"
  /\ pc' = "acquire"
  /\ UNCHANGED <<CurrentFrame, imageIndex, FramebufferResized, ImagesInFlight, width,
                 advance, swapChain, shouldClose, deviceVars, engineVars, windowVars>>

WaitForFrame ==
  /\ pc = "waitFrame"
  /\ fence[CurrentFrame]
  /\ pc' = "acquire"
  /\ UNCHANGED <<CurrentFrame, imageIndex, FramebufferResized, ImagesInFlight, width,
                 advance, swapChain, shouldClose, deviceVars, engineVars, windowVars>>

\* VK_SUCCESS or VK_SUBOPTIMAL_KHR.  The program holds no image here: each one it
\* acquired it has presented, or lost with the swap chain.
Acquire(i) ==
  /\ pc = "acquire"
  /\ i \in SwapChainImages
  /\ imageIndex' = i
  /\ imageAvailable' = [imageAvailable EXCEPT ![CurrentFrame] = "pending"]
  /\ acquired' = [acquired EXCEPT ![CurrentFrame] = i]
  /\ pc' = "waitImage"
  /\ UNCHANGED <<CurrentFrame, FramebufferResized, ImagesInFlight, width, advance,
                 swapChain, shouldClose, deviceVars, reading, windowVars>>

\* VK_ERROR_OUT_OF_DATE_KHR, which the driver may answer at any time: the frame is
\* not advanced.
AcquireOutOfDate ==
  /\ pc = "acquire"
  /\ advance' = FALSE
  /\ pc' = "readSize"
  /\ UNCHANGED <<CurrentFrame, imageIndex, FramebufferResized, ImagesInFlight, width,
                 swapChain, shouldClose, deviceVars, engineVars, windowVars>>

\* Slip: the fence of the image is not waited for.
SubmitAtOnce ==
  /\ pc = "waitImage"
  /\ ImagesInFlight' = [ImagesInFlight EXCEPT ![imageIndex] = CurrentFrame]
  /\ fence' = [fence EXCEPT ![CurrentFrame] = FALSE]
  /\ queue' = [queue EXCEPT ![GraphicsQueue] =
                 Append(@, [op |-> "draw", image |-> imageIndex, frame |-> CurrentFrame])]
  /\ pc' = "present"
  /\ UNCHANGED <<CurrentFrame, imageIndex, FramebufferResized, width, advance, swapChain,
                 shouldClose, renderFinished, engineVars, windowVars>>

\* Slip: the fence is reset, but not given to the submission.
SubmitWithoutFence ==
  /\ pc = "waitImage"
  /\ ImagesInFlight[imageIndex] # NoFence => fence[ImagesInFlight[imageIndex]]
  /\ ImagesInFlight' = [ImagesInFlight EXCEPT ![imageIndex] = CurrentFrame]
  /\ fence' = [fence EXCEPT ![CurrentFrame] = FALSE]
  /\ pc' = "present"
  /\ UNCHANGED <<CurrentFrame, imageIndex, FramebufferResized, width, advance, swapChain,
                 shouldClose, queue, renderFinished, engineVars, windowVars>>

\* Slip: the fence is not reset before the submission.
SubmitNoReset ==
  /\ pc = "waitImage"
  /\ ImagesInFlight[imageIndex] # NoFence => fence[ImagesInFlight[imageIndex]]
  /\ ImagesInFlight' = [ImagesInFlight EXCEPT ![imageIndex] = CurrentFrame]
  /\ queue' = [queue EXCEPT ![GraphicsQueue] =
                 Append(@, [op |-> "draw", image |-> imageIndex, frame |-> CurrentFrame])]
  /\ pc' = "present"
  /\ UNCHANGED <<CurrentFrame, imageIndex, FramebufferResized, width, advance, swapChain,
                 shouldClose, fence, renderFinished, engineVars, windowVars>>

Submit ==
  /\ pc = "waitImage"
  /\ ImagesInFlight[imageIndex] # NoFence => fence[ImagesInFlight[imageIndex]]
  /\ ImagesInFlight' = [ImagesInFlight EXCEPT ![imageIndex] = CurrentFrame]
  /\ fence' = [fence EXCEPT ![CurrentFrame] = FALSE]
  /\ queue' = [queue EXCEPT ![GraphicsQueue] =
                 Append(@, [op |-> "draw", image |-> imageIndex, frame |-> CurrentFrame])]
  /\ pc' = "present"
  /\ UNCHANGED <<CurrentFrame, imageIndex, FramebufferResized, width, advance, swapChain,
                 shouldClose, renderFinished, engineVars, windowVars>>

NextFrame == (CurrentFrame + 1) % MAX_FRAMES_IN_FLIGHT

QueuePresent ==
  queue' = [queue EXCEPT ![PresentQueue] =
              Append(@, [op |-> "present", image |-> imageIndex, frame |-> CurrentFrame])]

PresentGood ==
  /\ pc = "present"
  /\ QueuePresent
  /\ ~FramebufferResized
  /\ CurrentFrame' = NextFrame
  /\ imageIndex' = 0
  /\ pc' = "poll"
  /\ UNCHANGED <<FramebufferResized, ImagesInFlight, width, advance, swapChain,
                 shouldClose, fence, renderFinished, engineVars, windowVars>>

\* VK_ERROR_OUT_OF_DATE_KHR or VK_SUBOPTIMAL_KHR, which the driver may answer at any
\* time, or the callback has run.
PresentStale ==
  /\ pc = "present"
  /\ QueuePresent
  /\ FramebufferResized' = FALSE
  /\ advance' = TRUE
  /\ imageIndex' = 0
  /\ pc' = "readSize"
  /\ UNCHANGED <<CurrentFrame, ImagesInFlight, width, swapChain, shouldClose,
                 fence, renderFinished, engineVars, windowVars>>

\* Once the callback has run, an error that queues nothing is not noticed either: the
\* render semaphore of the frame stays signaled.
PresentFails ==
  /\ pc = "present"
  /\ FramebufferResized
  /\ FramebufferResized' = FALSE
  /\ advance' = TRUE
  /\ imageIndex' = 0
  /\ pc' = "readSize"
  /\ UNCHANGED <<CurrentFrame, ImagesInFlight, width, swapChain, shouldClose,
                 deviceVars, engineVars, windowVars>>

\* Any other result of the acquire, the present or a create_ call is thrown out
\* of run; so is one of the submit, after the fence was reset.
Throw ==
  /\ \/ /\ pc \in {"acquire", "present", "recreate"}
        /\ pc = "present" => ~FramebufferResized
        /\ UNCHANGED <<ImagesInFlight, fence>>
     \/ /\ pc = "waitImage"
        /\ ImagesInFlight[imageIndex] # NoFence => fence[ImagesInFlight[imageIndex]]
        /\ ImagesInFlight' = [ImagesInFlight EXCEPT ![imageIndex] = CurrentFrame]
        /\ fence' = [fence EXCEPT ![CurrentFrame] = FALSE]
  /\ pc' = "threw"
  /\ UNCHANGED <<CurrentFrame, imageIndex, FramebufferResized, width, advance, swapChain,
                 shouldClose, queue, renderFinished, engineVars, windowVars>>

-----------------------------------------------------------------------------
(* update_swap_chain                                                       *)

ReadSize ==
  /\ pc = "readSize"
  /\ width' = size
  /\ pc' = IF size = 0 THEN "loop" ELSE "waitIdle"
  /\ UNCHANGED <<CurrentFrame, imageIndex, FramebufferResized, ImagesInFlight, advance,
                 swapChain, shouldClose, deviceVars, engineVars, windowVars>>

ReadSizeAgain ==
  /\ pc = "loop"
  /\ width' = size
  /\ pc' = "waitEvents"
  /\ UNCHANGED <<CurrentFrame, imageIndex, FramebufferResized, ImagesInFlight, advance,
                 swapChain, shouldClose, deviceVars, engineVars, windowVars>>

\* glfwWaitEvents returns at any event, so also when none that matters here has
\* come.  The loop tests the size it read before it waited.
WaitEvents ==
  /\ pc = "waitEvents"
  /\ Deliver
  /\ pc' = IF width = 0 THEN "loop" ELSE "waitIdle"
  /\ UNCHANGED <<CurrentFrame, imageIndex, ImagesInFlight, width, advance, swapChain,
                 deviceVars, engineVars, size, resizes>>

\* Slip: the device is not waited for.
WaitIdleSkipped ==
  /\ pc = "waitIdle"
  /\ pc' = "recreate"
  /\ UNCHANGED <<CurrentFrame, imageIndex, FramebufferResized, ImagesInFlight, width,
                 advance, swapChain, shouldClose, deviceVars, engineVars, windowVars>>

WaitIdle ==
  /\ pc = "waitIdle"
  /\ DeviceIdle
  /\ pc' = "recreate"
  /\ UNCHANGED <<CurrentFrame, imageIndex, FramebufferResized, ImagesInFlight, width,
                 advance, swapChain, shouldClose, deviceVars, engineVars, windowVars>>

\* ImagesInFlight.resize: new images have no fence, old ones keep theirs.
Resized(n) ==
  [i \in 0..(n - 1) |-> IF i \in DOMAIN ImagesInFlight THEN ImagesInFlight[i] ELSE NoFence]

\* cleanup_swap_chain and the create_ calls; create_swap_chain reads the size
\* once more.  The surface gives n images.  No semaphore is made anew.
Recreate(n) ==
  /\ pc = "recreate"
  /\ extent' = SurfaceExtent
  /\ SwapChainImages' = 0..(n - 1)
  /\ ImagesInFlight' = Resized(n)
  /\ reading' = {}
  /\ CurrentFrame' = IF advance THEN NextFrame ELSE CurrentFrame
  /\ width' = 0
  /\ advance' = FALSE
  /\ pc' = "poll"
  /\ renderFinished' =
       [f \in Frames |-> IF renderFinished[f] = "none" THEN "none" ELSE "left"]
  /\ UNCHANGED <<imageIndex, FramebufferResized, shouldClose, queue, fence,
                 imageAvailable, acquired, windowVars>>

-----------------------------------------------------------------------------
(* The device and the presentation engine.                                 *)

HeadOf(q) == queue[q][1]

Take(q) == queue' = [queue EXCEPT ![q] = Tail(@)]

\* A drawing starts once its image is available, and then signals the render
\* semaphore and the fence.
Draw(q) ==
  /\ queue[q] # << >>
  /\ HeadOf(q).op = "draw"
  /\ imageAvailable[HeadOf(q).frame] = "signaled"
  /\ imageAvailable' = [imageAvailable EXCEPT ![HeadOf(q).frame] = "none"]
  /\ renderFinished' = [renderFinished EXCEPT ![HeadOf(q).frame] = "signaled"]
  /\ fence' = [fence EXCEPT ![HeadOf(q).frame] = TRUE]
  /\ Take(q)
  /\ UNCHANGED <<appVars, acquired, reading, windowVars>>

\* A present waits for the render semaphore, then the image is shown.
Show(q) ==
  /\ queue[q] # << >>
  /\ HeadOf(q).op = "present"
  /\ renderFinished[HeadOf(q).frame] # "none"
  /\ renderFinished' = [renderFinished EXCEPT ![HeadOf(q).frame] = "none"]
  /\ reading' = reading \cup {HeadOf(q).image}
  /\ Take(q)
  /\ UNCHANGED <<appVars, fence, imageAvailable, acquired, windowVars>>

Release(i) ==
  /\ i \in reading
  /\ reading' = reading \ {i}
  /\ UNCHANGED <<appVars, deviceVars, imageAvailable, acquired, windowVars>>

\* The acquired image is free of the presentations before this acquisition: of
\* another frame, or of this one while its last drawing has not been presented.
SignalAvailable(f) ==
  /\ imageAvailable[f] = "pending"
  /\ acquired[f] \notin reading
  /\ \A q \in Queues : \A j \in 1..Len(queue[q]) :
       (queue[q][j].op = "present" /\ queue[q][j].image = acquired[f])
         => queue[q][j].frame = f /\ renderFinished[f] # "signaled"
  /\ imageAvailable' = [imageAvailable EXCEPT ![f] = "signaled"]
  /\ acquired' = [acquired EXCEPT ![f] = 0]
  /\ UNCHANGED <<appVars, deviceVars, reading, windowVars>>

-----------------------------------------------------------------------------
Ended == {"closed", "threw"}

\* The window lives as long as the program.
Window ==
  /\ pc \notin Ended
  /\ (\E s \in Sizes : UserResizes(s)) \/ UserCloses

Terminated == pc \in Ended /\ UNCHANGED vars

Program ==
  \/ Poll \/ LeaveLoop \/ Exit
  \/ WaitForFrame \/ (\E i \in Images : Acquire(i)) \/ AcquireOutOfDate
  \/ Submit \/ PresentGood \/ PresentStale \/ PresentFails
  \/ ReadSize \/ ReadSizeAgain \/ WaitEvents \/ WaitIdle
  \/ \E n \in MinImages..MaxImages : Recreate(n)

Next ==
  \/ Window \/ Program \/ Throw \/ Terminated
  \/ \E q \in Queues : Draw(q) \/ Show(q)
  \/ (\E i \in Images : Release(i))
  \/ (\E f \in Frames : SignalAvailable(f))

Spec == Init /\ [][Next]_vars

\* The program runs on; the device executes what its queues hold; the engine
\* lets go of every image it shows and signals what it owes.  A window gets an
\* event now and then, so glfwWaitEvents returns.
Fairness ==
  /\ WF_vars(Program)
  /\ \A q \in Queues : WF_vars(Draw(q)) /\ WF_vars(Show(q))
  /\ \A i \in Images : WF_vars(Release(i))
  /\ \A f \in Frames : WF_vars(SignalAvailable(f))

FairSpec == Spec /\ Fairness

-----------------------------------------------------------------------------
DrawsOf(P(_)) ==
  {j \in DOMAIN queue[GraphicsQueue] :
     queue[GraphicsQueue][j].op = "draw" /\ P(queue[GraphicsQueue][j])}

\* The command buffer of an image is submitted only when its last submission has
\* executed, whichever images the engine hands out and in whatever order: the
\* second fence wait of render_frame.
CommandBufferFree ==
  \A i \in Images : Cardinality(DrawsOf(LAMBDA o : o.image = i)) <= 1

\* A fence is unsignaled exactly while one submission that will signal it is
\* pending, so that neither fence wait of render_frame waits in vain; at most the
\* submission that failed leaves one behind.
FenceMatches ==
  pc # "threw" => \A f \in Frames :
    Cardinality(DrawsOf(LAMBDA o : o.frame = f)) = IF fence[f] THEN 0 ELSE 1

\* The semaphore given to vkAcquireNextImageKHR has no wait or signal pending.
AcquireSemaphoreFree == pc = "acquire" => imageAvailable[CurrentFrame] = "none"

\* A drawing never signals a render semaphore that its previous present has yet to
\* consume (with one queue for both), except one that a rebuild left signaled; and
\* a rebuild leaves none but that of the frame it was called for after the present.
RenderFinishedOnce ==
  GraphicsQueue = PresentQueue =>
    /\ queue[GraphicsQueue] # << >> /\ HeadOf(GraphicsQueue).op = "draw"
         => renderFinished[HeadOf(GraphicsQueue).frame] # "signaled"
    /\ pc = "recreate" => \A f \in Frames :
         renderFinished[f] = "signaled" => advance /\ f = CurrentFrame

\* Whoever signals a binary semaphore finds it unsignaled, with no operation
\* pending on it: the acquisition as well as the drawing.  The exception is the
\* semaphore of a present that failed and was not noticed.
SemaphoresFree == AcquireSemaphoreFree /\ RenderFinishedOnce

\* update_swap_chain destroys the frame buffers, the command buffers and the
\* swap chain when nothing uses them: no submission, no presentation and no
\* acquired image is outstanding, from whichever return of render_frame it comes.
RecreateIdle ==
  pc = "recreate" => /\ DeviceIdle
                     /\ \A f \in Frames : imageAvailable[f] = "none" /\ fence[f]

\* render_frame never hangs: the program is back at the head of its loop again
\* and again, unless it has ended or sits in glfwWaitEvents with the window minimised.
NeverHangs == []<>(pc \in {"poll", "loop"} \cup Ended)

\* Once the user stops resizing, the swap chain gets the size of the window, even
\* if acquire and present never report VK_ERROR_OUT_OF_DATE_KHR or
\* VK_SUBOPTIMAL_KHR: framebuffer_size_callback alone is enough.
SizeSettles == <>[](extent = SurfaceExtent \/ size = 0 \/ pc \in Ended)

\* A request to close ends run, if the window does not stay minimised.
CloseEnds == <>[](size # 0) => [](shouldClose => <>(pc \in Ended))
=============================================================================
