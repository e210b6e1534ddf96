------------------------------ MODULE Barriers ------------------------------
(***************************************************************************)
(* A resource of one of the backends that track usages, from its creation. *)
(* On Vulkan, a command that uses a texture as an attachment begins a      *)
(* render pass.                                                            *)
(***************************************************************************)
EXTENDS VulkanBarriers, D3D12Barriers, VulkanRenderPasses

barrierVars == <<usageVars, passVars>>

BarriersInit ==
  /\ backend \in Backends /\ kind \in Kinds
  /\ allowed \in Creatable
  /\ using = {} /\ swap = IF kind = "swapchain" THEN "created" ELSE "none"
  /\ lastUsage = IF backend = "d3d12" THEN InitialUsage ELSE {}
  /\ native = IF backend = "d3d12" THEN D3Start ELSE VkStart
  /\ PassesInit

Attaches(d) == IF kind = "depth" THEN d.depthStencil # <<>> ELSE d.colors # <<>>
BeginsPass == backend = "vulkan" /\ using = {"OutputAttachment"} /\ using' = {}

BarriersNext ==
  /\ \/ backend = "vulkan" /\ VkNext
     \/ backend = "d3d12" /\ D3Next
  /\ IF BeginsPass THEN \E d \in Descriptors : Attaches(d) /\ RecordBeginRenderPass(d)
     ELSE UNCHANGED passVars

BarriersSpec == BarriersInit /\ [][BarriersNext]_barrierVars
-----------------------------------------------------------------------------
(* The barriers recorded order all conflicting accesses of the GPU and     *)
(* leave layouts and states as commands need them, and a render pass found *)
(* in the cache (RenderPassCache.cpp) fits the descriptor it is begun for. *)
BarriersSuffice == GpuRunsInOrder /\ LayoutIsExpected /\ D3D12StateAllows /\ CachedPassFits
=============================================================================
