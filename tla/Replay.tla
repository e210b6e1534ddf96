------------------------------- MODULE Replay -------------------------------
(***************************************************************************)
(* An accepted list of commands, replayed by one of the backends: the same *)
(* commands have to make the same draws whichever backend it is.           *)
(***************************************************************************)
EXTENDS VulkanReplay, OpenGLReplay, D3D12Replay, MetalReplay

vars == <<recVars, native>>

ReplayInit ==
  /\ RecInit
  /\ native = CASE backend = "vulkan" -> VkStart [] backend = "opengl" -> GlStart
                [] backend = "d3d12" -> D3Start [] backend = "metal" -> MetalStart

ReplayNext ==
  \/ backend = "vulkan" /\ VkNext
  \/ backend = "opengl" /\ GlNext
  \/ backend = "d3d12" /\ D3Next
  \/ backend = "metal" /\ MetalNext

ReplaySpec == ReplayInit /\ [][ReplayNext]_vars
=============================================================================
