----------------------------- MODULE MCGraphics -----------------------------
(***************************************************************************)
(* The programs of 10-3d, and their GLUT predecessors in the archive, that *)
(* are about setting up, handling events and cleaning up: a behaviour is   *)
(* one of an OpenGL program (OglApps), of the objects of vk-simplest       *)
(* (VkSetup) or of a GLUT program (GlutApps).  They share the variables of *)
(* OglApps.                                                                *)
(***************************************************************************)
EXTENDS OglApps

CONSTANTS MaxUpdates, Xs, MaxCallbacks

VARIABLE part

anyVars == <<vars, part>>

MCPoints == {<<0, 0>>, <<2, 0>>, <<1, 1>>}
MCSizes == {SZ, <<2, 1>>, <<0, 0>>}     \* minimised, the window has no size

Vk == INSTANCE VkSetup
  WITH todo <- pending, live <- objs, generation <- cam, from <- view, threw <- status

vkUnused == <<prog, pc, glfw, owned, lost, linked, TheRenderer, acts, cursor, fb,
              closing, modes>>

Glut == INSTANCE GlutApps
  WITH app <- prog, gl <- modes, size <- fb, posted <- pending, frame <- objs,
       spin <- cam, obj <- phase, begin <- cursor, light_sample <- view,
       mouse <- acts, callbacks <- lost, running <- status

glutUnused == <<pc, glfw, owned, linked, TheRenderer, closing>>

AnyInit ==
  \/ part = "opengl" /\ Init
  \/ /\ part = "vulkan" /\ Vk!Init
     /\ prog = 0 /\ pc = 0 /\ glfw = 0 /\ owned = 0 /\ lost = 0 /\ linked = 0
     /\ TheRenderer = 0 /\ acts = 0 /\ cursor = 0 /\ fb = 0 /\ closing = 0 /\ modes = 0
  \/ /\ part = "glut" /\ Glut!Init
     /\ pc = 0 /\ glfw = 0 /\ owned = 0 /\ linked = 0 /\ TheRenderer = 0 /\ closing = 0

AnyNext ==
  /\ \/ part = "opengl" /\ Next
     \/ part = "vulkan" /\ Vk!Next /\ UNCHANGED vkUnused
     \/ part = "glut" /\ Glut!Next /\ UNCHANGED glutUnused
  /\ UNCHANGED part

AnySpec == AnyInit /\ [][AnyNext]_anyVars

-----------------------------------------------------------------------------
(* Properties.                                                             *)

\* vk-simplest calls nothing before all it needs is there.
VulkanInOrder == part = "vulkan" => Vk!RequirementsMet

\* After the swap chain is made anew, nothing that runs was made from objects of
\* the old one (vk-simplest.cc, update_swap_chain).
VulkanFresh == part = "vulkan" => Vk!NothingStale

\* Every object is destroyed before what it was made from, as long as no call has
\* thrown only once, and no window is ended before what needs it: in vk-simplest
\* as ChildrenFirst and DestroyedOnce say, in the OpenGL programs as
\* WindowOutlivesObjects does.
DestroyedInOrder ==
  /\ part = "vulkan" => Vk!ChildrenFirst /\ Vk!DestroyedOnce
  /\ part = "opengl" => WindowOutlivesObjects

\* What the callbacks have noted is what the user did: GLFW's run late and out of
\* step with the cursor they read (CallbacksCatchUp), GLUT's turn the light by
\* as much as the mouse moved (DragSmooth).
InputNoted ==
  /\ part = "opengl" => CallbacksCatchUp
  /\ part = "glut" => Glut!DragSmooth

\* Every frame is drawn from objects that exist, with no side of the cube lost
\* (DrawsWhatExists); GLUT's window shows the globals as they are (FrameCurrent).
FramesRight ==
  /\ part = "opengl" => DrawsWhatExists
  /\ part = "glut" => Glut!FrameCurrent
=============================================================================
