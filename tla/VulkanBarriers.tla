--------------------------- MODULE VulkanBarriers ---------------------------
(***************************************************************************)
(* Vulkan: the pipeline barriers that Buffer and Texture record when their *)
(* usage changes (BufferVk.cpp, TextureVk.cpp, CommandBufferVk.cpp,        *)
(* BufferUploader.cpp, SwapChainVk.cpp, NativeSwapChainImplVk.cpp in       *)
(* src/src/dawn_native/vulkan), and what they mean for the GPU.            *)
(*                                                                         *)
(* The GPU runs what is recorded in any order that the barriers allow.     *)
(* past holds the accesses that a later one may have to wait for, by       *)
(* pipeline stage: before are the stages that run after it, available says *)
(* whether what it wrote left its cache, and seenBy names the <<stage,     *)
(* access>> pairs it is visible to.  A barrier whose first scope meets     *)
(* before continues the chain.                                             *)
(***************************************************************************)
EXTENDS ResourceUsages

Shaders == {"VERTEX_SHADER", "FRAGMENT_SHADER", "COMPUTE_SHADER"}
DepthTests == {"EARLY_FRAGMENT_TESTS", "LATE_FRAGMENT_TESTS"}
Everywhere == Shaders \cup DepthTests
                \cup {"TOP_OF_PIPE", "HOST", "TRANSFER", "VERTEX_INPUT", "COLOR_ATTACHMENT_OUTPUT"}
Writes == {"HOST_WRITE", "TRANSFER_WRITE", "SHADER_WRITE", "COLOR_WRITE", "DEPTH_WRITE"}

(* What the commands that need a usage do: the stages and accesses that    *)
(* Vulkan gives them.  Present is not a command.                           *)
Touches(usage) ==
  CASE usage = "MapRead" -> {"HOST"} \X {"HOST_READ"}
    [] usage = "MapWrite" -> {"HOST"} \X {"HOST_WRITE"}
    [] usage = "TransferSrc" -> {"TRANSFER"} \X {"TRANSFER_READ"}
    [] usage = "TransferDst" -> {"TRANSFER"} \X {"TRANSFER_WRITE"}
    [] usage = "Index" -> {"VERTEX_INPUT"} \X {"INDEX_READ"}
    [] usage = "Vertex" -> {"VERTEX_INPUT"} \X {"VERTEX_READ"}
    [] usage = "Uniform" -> Shaders \X {"UNIFORM_READ"}
    [] usage = "Storage" -> Shaders \X {"SHADER_READ", "SHADER_WRITE"}
    [] usage = "Sampled" -> Shaders \X {"SHADER_READ"}
    [] usage = "OutputAttachment" ->
         IF kind = "depth" THEN DepthTests \X {"DEPTH_READ", "DEPTH_WRITE"}
         ELSE {"COLOR_ATTACHMENT_OUTPUT"} \X {"COLOR_READ", "COLOR_WRITE"}
    [] usage = "Present" -> {}

(* The layout in which the command that is recorded expects a texture.     *)
Expected(usage) ==
  CASE usage = "TransferSrc" -> "GENERAL"
    [] usage = "TransferDst" -> "TRANSFER_DST"
    [] usage = "Sampled" -> "SHADER_READ_ONLY"
    [] usage = "OutputAttachment" -> IF kind = "depth" THEN "DEPTH_ATTACHMENT" ELSE "COLOR_ATTACHMENT"
    [] usage = "Present" -> "PRESENT_SRC"

(* A freshly created resource.  faults collects what a barrier got wrong.  *)
VkStart == [past |-> {}, layout |-> "UNDEFINED", faults |-> {}]
-----------------------------------------------------------------------------
(* The tables of the code *)

BufferStage(usage) ==
  CASE usage \in {"MapRead", "MapWrite"} -> {"HOST"}
    [] usage \in {"TransferSrc", "TransferDst"} -> {"TRANSFER"}
    [] usage \in {"Index", "Vertex"} -> {"VERTEX_INPUT"}
    [] usage \in {"Uniform", "Storage"} -> Shaders
BufferAccess(usage) ==
  CASE usage = "MapRead" -> {"HOST_READ"}
    [] usage = "MapWrite" -> {"HOST_WRITE"}
    [] usage = "TransferSrc" -> {"TRANSFER_READ"}
    [] usage = "TransferDst" -> {"TRANSFER_WRITE"}
    [] usage = "Index" -> {"INDEX_READ"}
    [] usage = "Vertex" -> {"VERTEX_READ"}
    [] usage = "Uniform" -> {"UNIFORM_READ"}
    [] usage = "Storage" -> {"SHADER_READ", "SHADER_WRITE"}
TextureStage(usage) ==
  CASE usage \in {"TransferSrc", "TransferDst"} -> {"TRANSFER"}
    [] usage = "Sampled" -> Shaders
    [] usage = "OutputAttachment" ->
         IF kind = "depth" THEN DepthTests ELSE {"COLOR_ATTACHMENT_OUTPUT"}
    [] usage = "Present" -> {"BOTTOM_OF_PIPE"}
TextureAccess(usage) ==
  CASE usage = "TransferSrc" -> {"TRANSFER_READ"}
    [] usage = "TransferDst" -> {"TRANSFER_WRITE"}
    [] usage = "Sampled" -> {"SHADER_READ"}
    [] usage = "OutputAttachment" ->
         IF kind = "depth" THEN {"DEPTH_READ", "DEPTH_WRITE"} ELSE {"COLOR_READ", "COLOR_WRITE"}
    [] usage = "Present" -> {}

VulkanPipelineStage(usages) ==
  IF kind = "buffer" THEN UNION {BufferStage(u) : u \in usages}
  ELSE IF usages = {} THEN {"TOP_OF_PIPE"} ELSE UNION {TextureStage(u) : u \in usages}
VulkanAccessFlags(usages) ==
  IF kind = "buffer" THEN UNION {BufferAccess(u) : u \in usages}
  ELSE UNION {TextureAccess(u) : u \in usages}

(* TransferSrc is mapped to GENERAL, for parts of the texture may need it  *)
(* in another usage as well.                                               *)
VulkanImageLayout(usages) ==
  CASE usages = {} -> "UNDEFINED"
    [] Cardinality(usages) > 1 -> "GENERAL"
    [] usages = {"TransferDst"} -> "TRANSFER_DST"
    [] usages = {"Sampled"} -> "SHADER_READ_ONLY"
    [] usages = {"TransferSrc"} -> "GENERAL"
    [] usages = {"OutputAttachment"} ->
         IF kind = "depth" THEN "DEPTH_ATTACHMENT" ELSE "COLOR_ATTACHMENT"
    [] usages = {"Present"} -> "PRESENT_SRC"
-----------------------------------------------------------------------------
(* What a barrier means *)

First(stages) == IF "BOTTOM_OF_PIPE" \in stages THEN Everywhere ELSE stages
Second(stages) == IF "TOP_OF_PIPE" \in stages THEN Everywhere ELSE stages
Meets(a, stages) == a.stage \in stages \/ a.before \cap stages # {}

(* What is written becomes available when the barrier names the access.    *)
After(a, src, srcAccess, dst, dstAccess) ==
  IF ~Meets(a, src) THEN a
  ELSE IF a.access \notin Writes THEN [a EXCEPT !.before = @ \cup dst]
  ELSE LET available == a.available \/ (a.stage \in src /\ a.access \in srcAccess)
       IN [a EXCEPT !.before = @ \cup dst, !.available = available,
                    !.seenBy = IF available THEN @ \cup (dst \X dstAccess) ELSE @]
Barrier(src, srcAccess, dst, dstAccess) ==
  {After(a, First(src), srcAccess, Second(dst), dstAccess) : a \in native.past}

(* A layout transition reads and writes the texture, after what the        *)
(* barrier waits for and before what waits for it.                         *)
Relayout(dst, dstAccess) ==
  {[stage |-> "TRANSITION", access |-> "TRANSFER_WRITE", before |-> Second(dst),
    available |-> TRUE, seenBy |-> Second(dst) \X dstAccess]}
Unordered(src, srcAccess) ==
  {a \in native.past : \/ ~Meets(a, First(src))
                       \/ /\ a.access \in Writes /\ ~a.available
                          /\ ~(a.stage \in First(src) /\ a.access \in srcAccess)}

(* The layout the barrier starts from has to be the one the texture has.   *)
(* UNDEFINED is always allowed and loses what is in the texture.           *)
RelayoutFaults(src, srcAccess, old) ==
  (IF Unordered(src, srcAccess) # {} THEN {"race"} ELSE {})
    \cup (IF old \notin {native.layout, "UNDEFINED"} THEN {"layout"} ELSE {})
    \cup (IF old = "UNDEFINED" /\ native.layout # "UNDEFINED" /\ swap = "none"
          THEN {"lost"} ELSE {})

ImageBarrier(src, srcAccess, dst, dstAccess, old, new) ==
  [past |-> Relayout(dst, dstAccess), layout |-> new,
   faults |-> native.faults \cup RelayoutFaults(src, srcAccess, old)]
-----------------------------------------------------------------------------
(* TransitionUsageNow *)

SkipsBarrier_FaultAnyUsage(usage) == usage \subseteq lastUsage
SkipsBarrier(usage) ==
  IF kind = "buffer"
  THEN usage \subseteq lastUsage /\ lastUsage \subseteq kReadOnlyBufferUsages
  ELSE usage = lastUsage /\ lastUsage \subseteq kReadOnlyTextureUsages

(* Before its first usage a buffer needs no barrier.                       *)
AfterBarrier(usage) ==
  LET src == VulkanPipelineStage(lastUsage)
      srcAccess == VulkanAccessFlags(lastUsage)
      dst == VulkanPipelineStage(usage)
      dstAccess == VulkanAccessFlags(usage)
  IN IF kind # "buffer"
     THEN ImageBarrier(src, srcAccess, dst, dstAccess,
                       VulkanImageLayout(lastUsage), VulkanImageLayout(usage))
     ELSE IF lastUsage = {} THEN native
     ELSE [native EXCEPT !.past = Barrier(src, srcAccess, dst, dstAccess)]

TransitionUsageNow(usage) ==
  IF SkipsBarrier(usage) THEN UNCHANGED <<lastUsage, native>>
  ELSE lastUsage' = usage /\ native' = AfterBarrier(usage)

VkTransition(usage) ==
  Usable /\ Keeps(TransitionUsageNow(usage)) /\ using' = usage /\ UNCHANGED swap

(* TransitionForPass, SetSubDataImpl and the copies, MapReadAsyncImpl and  *)
(* MapWriteAsyncImpl.                                                      *)
TransitionForPass == \E usage \in PassUsages : VkTransition(usage)
TransitionForCopy == \E usage \in CopyUsages : VkTransition(usage)
MapAsync == \E usage \in MapUsages : VkTransition(usage)

(* A copy from a buffer to itself makes two transitions.                   *)
TransitionDestination ==
  /\ kind = "buffer" /\ using = {"TransferSrc"} /\ "TransferDst" \in allowed
  /\ Keeps(TransitionUsageNow({"TransferDst"}))
  /\ using' = {"TransferSrc", "TransferDst"} /\ UNCHANGED swap

(* The command is recorded, or the host reads or writes.  An access that   *)
(* overwrites the others and comes after them stands for them.             *)
Needs == UNION {Touches(u) : u \in using}
Accesses ==
  {[stage |-> t[1], access |-> t[2], before |-> {}, available |-> FALSE, seenBy |-> {}]
     : t \in Needs}
Overwrites == \E t \in Needs : t[2] \in Writes
VkUse ==
  /\ using \notin {{}, {"Present"}} /\ using' = {}
  /\ native' = [native EXCEPT !.past = (IF Overwrites THEN {} ELSE @) \cup Accesses]
  /\ Keeps(UNCHANGED <<lastUsage, swap>>)
-----------------------------------------------------------------------------
(* Swap chain *)

(* The images get the layout for presentation.                             *)
VkConfigure ==
  /\ swap = "created" /\ swap' = "configured"
  /\ native' = ImageBarrier({"TOP_OF_PIPE"}, {}, {"TOP_OF_PIPE"}, {}, "UNDEFINED", "PRESENT_SRC")
  /\ Keeps(UNCHANGED <<lastUsage, using>>)

(* The image comes back with a new Texture.  The next submit waits at      *)
(* every stage for the semaphore that follows the presentation.            *)
VkGetNextTexture ==
  /\ swap \in {"configured", "presented"} /\ swap' = "acquired"
  /\ lastUsage' = {}
  /\ native' = [native EXCEPT !.past =
       {a \in @ : swap = "configured"} \cup
       {[stage |-> "PRESENT", access |-> "PRESENT_READ", before |-> Everywhere,
         available |-> TRUE, seenBy |-> {}]}]
  /\ Keeps(UNCHANGED using)

OnBeforePresent == swap = "acquired" /\ VkTransition({"Present"})

(* The presentation reads after what was submitted.                        *)
VkPresent ==
  /\ using = {"Present"} /\ using' = {} /\ swap' = "presented"
  /\ Keeps(UNCHANGED <<lastUsage, native>>)

VkNext ==
  \/ TransitionForPass \/ TransitionForCopy \/ MapAsync \/ TransitionDestination \/ VkUse
  \/ VkConfigure \/ VkGetNextTexture \/ OnBeforePresent \/ VkPresent
-----------------------------------------------------------------------------
Ordered(t, a) ==
  (t[2] \in Writes \/ a.access \in Writes) =>
    /\ t[1] \in a.before
    /\ a.access \in Writes => t \in a.seenBy

(* Each access of a command on the GPU, or of the host, runs after every   *)
(* earlier access that it conflicts with, and sees what was written, be it *)
(* through a chain of barriers that each served another usage.  A layout   *)
(* transition too waits for all that was done before, starts from the      *)
(* layout the texture has and loses nothing.                               *)
GpuRunsInOrder ==
  backend = "vulkan" =>
    /\ native.faults = {}
    /\ \A t \in Needs, a \in native.past : Ordered(t, a)

(* A texture has the layout that the command recorded for it names: those  *)
(* of copies, of bind groups, of render passes and of the presentation.    *)
LayoutIsExpected ==
  backend = "vulkan" /\ kind # "buffer" =>
    \A u \in using : native.layout = Expected(u)
=============================================================================
