---------------------------- MODULE VulkanReplay ----------------------------
(***************************************************************************)
(* The Vulkan backend records an accepted list into a VkCommandBuffer      *)
(* (src/src/dawn_native/vulkan/CommandBufferVk.cpp).                       *)
(*                                                                         *)
(* mSets of the DescriptorSetTracker holds the descriptor sets of the bind *)
(* groups in groups.  Sets that an earlier pass bound do not count as      *)
(* bound.  Vertex buffers go straight to the API, which takes their        *)
(* strides from the pipeline.  Push constants are not implemented.         *)
(***************************************************************************)
EXTENDS Recording

VkStart ==
  [mCurrentLayout |-> None, mDirtySets |-> {}, bound |-> NoGroups, index |-> None,
   dynamic |-> DefaultState, failed |-> FALSE]

(* The tracker and lastPipeline are locals of the pass; failed stands for  *)
(* an assertion that does not hold.                                        *)
VkBegin(kind) == BeginPass(kind) /\ native' = VkStart
VkEnd == EndPass /\ UNCHANGED native

DirtyAfterChange(layout) ==
  IF native.mCurrentLayout = None THEN {}
  ELSE native.mDirtySets
         \ InheritedGroupsMask(SetLayouts[layout], SetLayouts[native.mCurrentLayout])
OnPipelineLayoutChange(layout) ==
  native' = IF layout = native.mCurrentLayout THEN native
            ELSE [native EXCEPT !.mCurrentLayout = layout, !.mDirtySets = DirtyAfterChange(layout)]

(* A set that is inherited before a draw has bound it is dropped.          *)
VkSetPipeline(p) ==
  /\ Careful /\ native.mCurrentLayout \notin {None, PipelineLayout[p]} =>
       native.mDirtySets
         \cap InheritedGroupsMask(LayoutOf(p), SetLayouts[native.mCurrentLayout]) = {}
  /\ UsePipeline(p) /\ OnPipelineLayoutChange(PipelineLayout[p])

VkSetBindGroup(i, g) ==
  UseBindGroup(i, g) /\ native' = [native EXCEPT !.mDirtySets = @ \cup {i}]

(* The index type is the one of the last pipeline, if there is one.        *)
VkSetIndexBuffer(b) ==
  /\ UseIndexBuffer(b)
  /\ Careful => pipeline # None
  /\ native' = IF pipeline = None THEN [native EXCEPT !.failed = TRUE]
               ELSE [native EXCEPT !.index = <<b, IndexFormat[pipeline]>>]

VkSetVertexBuffers(start, bufs) == UseVertexBuffers(start, bufs) /\ UNCHANGED native

VkSetDynamicState(field, value) ==
  UseDynamicState(field, value) /\ native' = [native EXCEPT !.dynamic[field] = value]

AfterFlush_FaultOnlyNew == [i \in GroupIndices |->
  IF i \in native.mDirtySets /\ native.bound[i] = None
  THEN [group |-> groups[i], layout |-> native.mCurrentLayout] ELSE native.bound[i]]
AfterFlush == [i \in GroupIndices |->
  IF i \in native.mDirtySets
  THEN [group |-> groups[i], layout |-> native.mCurrentLayout] ELSE native.bound[i]]
VkOperate == Operate /\ native' = [native EXCEPT !.bound = AfterFlush, !.mDirtySets = {}]

VkNext ==
  \/ \E kind \in {"compute", "render"} : VkBegin(kind)
  \/ VkEnd \/ VkOperate
  \/ \E p \in Pipelines : VkSetPipeline(p)
  \/ \E i \in GroupIndices, g \in Groups : VkSetBindGroup(i, g)
  \/ \E b \in Buffers : VkSetIndexBuffer(b)
  \/ \E s \in VertexSlots, bufs \in BufferLists : VkSetVertexBuffers(s, bufs)
  \/ \E v \in 0 .. 1 : VkSetDynamicState("stencil", v)
  \/ VkSetDynamicState("scissor", "part")
-----------------------------------------------------------------------------
(* Vulkan keeps a set bound while the layouts agree up to its index.       *)
SetIsBound(i) ==
  /\ AfterFlush[i] # None
  /\ AfterFlush[i].group = groups[i]
  /\ i \in InheritedGroupsMask(LayoutOf(pipeline), SetLayouts[AfterFlush[i].layout])

(* A draw or dispatch that comes now has the descriptor sets of the bind   *)
(* groups that were set for its pipeline or inherited by it, the index     *)
(* buffer in the format of its pipeline and the dynamic state of the pass, *)
(* and no assertion failed on the way to it.                               *)
VulkanDrawsRight ==
  backend = "vulkan" =>
    /\ ~native.failed
    /\ GroupsReady => \A i \in UsedGroups(pipeline) : SetIsBound(i)
    /\ IndexReady => native.index = <<indexBuffer, IndexFormat[pipeline]>>
    /\ pass = "render" => native.dynamic = dynamic

(* What the comment in OnPipelineLayoutChange counts on: a draw with bind  *)
(* groups that fit its pipeline has their descriptor sets.                 *)
DrawsUseTheirGroups ==
  backend = "vulkan" /\ Ready
    /\ (\A i \in UsedGroups(pipeline) :
          groups[i] # None /\ GroupLayout[groups[i]] = LayoutOf(pipeline)[i])
    => \A i \in UsedGroups(pipeline) : SetIsBound(i)
-----------------------------------------------------------------------------
(* The invariant of the tracker: a bind group that is current is dirty, or *)
(* its set is bound with a layout that agrees up to it.                    *)
DescriptorSets == [group : Groups \cup {None}, layout : DOMAIN SetLayouts]
ASSUME DescriptorSetsAssumption == None \notin DescriptorSets

Formats == {IndexFormat[p] : p \in RenderPipelines}
VkTypeOK ==
  native \in [mCurrentLayout : DOMAIN SetLayouts \cup {None},
              mDirtySets : SUBSET GroupIndices,
              bound : [GroupIndices -> DescriptorSets \cup {None}],
              index : (Buffers \X Formats) \cup {None},
              dynamic : [stencil : 0 .. 1, scissor : {"full", "part"}],
              failed : BOOLEAN]

BoundFor(p, i) ==
  /\ native.bound[i] # None /\ native.bound[i].group = groups[i]
  /\ i \in InheritedGroupsMask(LayoutOf(p), SetLayouts[native.bound[i].layout])
VkInv ==
  /\ VkTypeOK /\ ~native.failed
  /\ InPass => /\ pipeline = None => native.mCurrentLayout = None
               /\ pipeline # None => native.mCurrentLayout = PipelineLayout[pipeline]
               /\ native.dynamic = dynamic
  /\ \A i \in GroupIndices : <<"group", i>> \in current =>
       i \in native.mDirtySets \/ BoundFor(pipeline, i)
  /\ <<"index">> \in current =>
       pipeline # None /\ native.index = <<indexBuffer, IndexFormat[pipeline]>>
=============================================================================
