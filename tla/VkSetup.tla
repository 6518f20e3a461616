------------------------------ MODULE VkSetup -------------------------------
(***************************************************************************)
(* The Vulkan objects of 10-3d/vk-simplest.cc: the order in which main     *)
(* creates them, update_swap_chain replaces some of them and ~VkApp        *)
(* destroys them.  Every create_ call is the sequence of the objects and   *)
(* members it sets, each with the ones it is made from; any of them may    *)
(* fail, which throws.  A vector of handles is one object.                 *)
(***************************************************************************)
EXTENDS Naturals, Sequences, FiniteSets

CONSTANT MaxUpdates       \* bound on the calls of update_swap_chain

Make(o, parents) == [op |-> "make", object |-> o, from |-> parents]
Destroy(o) == [op |-> "destroy", object |-> o, from |-> {}]

-----------------------------------------------------------------------------
initialize_window == <<Make("Wnd", {})>>

create_instance == <<Make("Instance", {}), Make("Surface", {"Instance", "Wnd"})>>

peek_device == <<Make("PhysDevice", {"Instance"})>>

find_queues == <<Make("Families", {"PhysDevice", "Surface"})>>

create_logical_device ==
  <<Make("Device", {"PhysDevice", "Families"}), Make("Queues", {"Device", "Families"})>>

\* Two shader modules, from two files.
installShader == <<Make("ShaderIDs", {"Device"})>>

create_swap_chain ==
  <<Make("SurfaceFormat", {"PhysDevice", "Surface"}),
    Make("Extent", {"PhysDevice", "Surface", "Wnd"}),
    Make("SwapChain", {"Device", "Surface", "SurfaceFormat", "Extent", "Families"})>>

create_image_views ==
  <<Make("SwapChainImages", {"Device", "SwapChain"}),
    Make("SwapChainImageFormat", {"SurfaceFormat"}),
    Make("SwapChainExtent", {"Extent"}),
    Make("SwapChainImageViews", {"Device", "SwapChainImages", "SwapChainImageFormat"})>>

create_render_pass == <<Make("RenderPass", {"Device", "SwapChainImageFormat"})>>

\* update_swap_chain passes the shader modules that the first call has stored.
create_pipeline ==
  <<Make("PipelineLayout", {"Device"}),
    Make("GraphicsPipeline",
         {"Device", "ShaderIDs", "SwapChainExtent", "PipelineLayout", "RenderPass"})>>

create_frame_buffer ==
  <<Make("SwapChainFramebuffers",
         {"Device", "RenderPass", "SwapChainImageViews", "SwapChainExtent"})>>

create_command_pool == <<Make("CommandPool", {"Device", "Families"})>>

\* createBuffer for the staging buffer and the buffer, then copyBuffer, which
\* submits a command buffer of its own and waits for the queue to run dry.
Buffered(b) ==
  <<Make("stagingBuffer", {"Device", "PhysDevice"}),
    Make(b, {"Device", "PhysDevice"}),
    Make("commandBuffer", {"Device", "CommandPool", "Queues", "stagingBuffer", b}),
    Destroy("commandBuffer"),
    Destroy("stagingBuffer")>>

create_buffers == Buffered("VertexBuffer") \o Buffered("IndexBuffer")

create_command_buffers ==
  <<Make("CommandBuffers",
         {"Device", "CommandPool", "SwapChainFramebuffers", "RenderPass", "SwapChainExtent",
          "GraphicsPipeline", "VertexBuffer", "IndexBuffer"})>>

resizeImagesInFlight == <<Make("ImagesInFlight", {"SwapChainImages"})>>

create_sync_objs == resizeImagesInFlight \o <<Make("SyncObjects", {"Device"})>>

-----------------------------------------------------------------------------
main ==
  initialize_window \o create_instance \o peek_device \o find_queues
  \o create_logical_device \o installShader \o create_swap_chain \o create_image_views
  \o create_render_pass \o create_pipeline \o create_frame_buffer \o create_command_pool
  \o create_buffers \o create_command_buffers \o create_sync_objs

\* Slip: the pipeline outlives its layout and its render pass.
cleanup_swap_chain_Reversed ==
  <<Destroy("SwapChainFramebuffers"), Destroy("CommandBuffers"), Destroy("RenderPass"),
    Destroy("PipelineLayout"), Destroy("GraphicsPipeline"),
    Destroy("SwapChainImageViews"), Destroy("SwapChain")>>

cleanup_swap_chain ==
  <<Destroy("SwapChainFramebuffers"), Destroy("CommandBuffers"),
    Destroy("GraphicsPipeline"), Destroy("PipelineLayout"), Destroy("RenderPass"),
    Destroy("SwapChainImageViews"), Destroy("SwapChain")>>

\* Slip: ImagesInFlight is not resized.
update_swap_chain_NotResized ==
  cleanup_swap_chain \o create_swap_chain \o create_image_views \o create_render_pass
  \o create_pipeline \o create_frame_buffer \o create_command_buffers

\* Slip: the pipeline is made before its render pass.
update_swap_chain_PipelineFirst ==
  cleanup_swap_chain \o create_swap_chain \o create_image_views \o create_pipeline
  \o create_render_pass \o create_frame_buffer \o create_command_buffers
  \o resizeImagesInFlight

update_swap_chain ==
  cleanup_swap_chain \o create_swap_chain \o create_image_views \o create_render_pass
  \o create_pipeline \o create_frame_buffer \o create_command_buffers
  \o resizeImagesInFlight

\* The destructor's body, and then that of the member Wnd.
destructor ==
  cleanup_swap_chain
  \o <<Destroy("Device"), Destroy("Surface"), Destroy("Instance"), Destroy("Wnd")>>

-----------------------------------------------------------------------------
Objects == {main[i].object : i \in DOMAIN main}

VARIABLES phase,       \* "setup", "run", "update", "destroy", "end"
          todo,        \* the calls still to be made in this phase
          live,        \* objects made and not destroyed
          generation,  \* times each object was made
          from,        \* generations of the objects each one was made from
          threw

vars == <<phase, todo, live, generation, from, threw>>

Init ==
  /\ phase = "setup"
  /\ todo = main
  /\ live = {}
  /\ generation = [o \in Objects |-> 0]
  /\ from = [o \in Objects |-> << >>]
  /\ threw = FALSE

Call == Head(todo)

\* A member that is assigned again replaces its value.
MakeNext ==
  /\ todo # << >>
  /\ Call.op = "make"
  /\ todo' = Tail(todo)
  /\ live' = live \cup {Call.object}
  /\ generation' = [generation EXCEPT ![Call.object] = @ + 1]
  /\ from' = [from EXCEPT ![Call.object] = [p \in Call.from |-> generation[p]]]
  /\ UNCHANGED <<phase, threw>>

\* The exception leaves main's block, so ~VkApp runs on what there is.
MakeThrows ==
  /\ todo # << >>
  /\ Call.op = "make"
  /\ threw' = TRUE
  /\ phase' = "destroy"
  /\ todo' = destructor
  /\ UNCHANGED <<live, generation, from>>

DestroyNext ==
  /\ todo # << >>
  /\ Call.op = "destroy"
  /\ todo' = Tail(todo)
  /\ live' = live \ {Call.object}
  /\ UNCHANGED <<phase, generation, from, threw>>

Run ==
  /\ phase \in {"setup", "update"}
  /\ todo = << >>
  /\ phase' = "run"
  /\ UNCHANGED <<todo, live, generation, from, threw>>

Update ==
  /\ phase = "run"
  /\ generation["SwapChain"] <= MaxUpdates
  /\ phase' = "update"
  /\ todo' = update_swap_chain
  /\ UNCHANGED <<live, generation, from, threw>>

\* run returns, or an exception leaves it.
Leave ==
  /\ phase = "run"
  /\ phase' = "destroy"
  /\ todo' = destructor
  /\ threw' \in BOOLEAN
  /\ UNCHANGED <<live, generation, from>>

End ==
  /\ phase = "destroy"
  /\ todo = << >>
  /\ phase' = "end"
  /\ UNCHANGED <<todo, live, generation, from, threw>>

Terminated == phase = "end" /\ UNCHANGED vars

Next ==
  MakeNext \/ MakeThrows \/ DestroyNext \/ Run \/ Update \/ Leave \/ End \/ Terminated

Spec == Init /\ [][Next]_vars
-----------------------------------------------------------------------------
\* Each call gets what its comment says it requires: nothing it reads is
\* uninitialised or destroyed, at start-up and in update_swap_chain.
RequirementsMet == todo # << >> /\ Call.op = "make" => Call.from \subseteq live

\* While frames are rendered every object is there, and is made from the objects
\* there are now: none that update_swap_chain left alone still describes the
\* swap chain before, none that it replaced was missed.
NothingStale ==
  phase = "run" =>
    /\ Objects \ {"stagingBuffer", "commandBuffer"} \subseteq live
    /\ \A o \in live : \A p \in DOMAIN from[o] \ {"stagingBuffer", "commandBuffer"} :
         from[o][p] = generation[p]

\* What ~VkApp leaves to vkDestroyDevice.
Abandoned == {"CommandPool", "VertexBuffer", "IndexBuffer", "SyncObjects", "ShaderIDs",
              "stagingBuffer", "commandBuffer"}

Handles == {"Wnd", "Instance", "Surface", "Device", "SwapChain", "SwapChainImageViews",
            "RenderPass", "PipelineLayout", "GraphicsPipeline", "SwapChainFramebuffers"}

\* No object is destroyed while one made from it is alive (a command buffer may
\* outlive what it records), apart from those the destructor abandons.
ChildrenFirst ==
  \A o \in (live \cap Handles) \ Abandoned :
    \A p \in DOMAIN from[o] \cap Handles : p \in live

\* Nothing is destroyed twice or before it is made, as long as no creation failed.
DestroyedOnce == ~threw /\ todo # << >> /\ Call.op = "destroy" => Call.object \in live
=============================================================================
