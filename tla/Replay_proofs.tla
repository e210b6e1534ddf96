--------------------------- MODULE Replay_proofs ---------------------------
(***************************************************************************)
(* Theorems about Replay: what a draw finds on a backend is what the list  *)
(* has set for its pipeline.                                               *)
(***************************************************************************)
EXTENDS Replay, TLAPS, FiniteSetTheorems, WellFoundedInduction

-----------------------------------------------------------------------------
(* Layouts *)

(* A set of numbers that is not empty has a least one. *)
LEMMA LeastNat ==
  ASSUME NEW T \in SUBSET Nat, T # {}
  PROVE  \E m \in T : \A k \in T : m <= k
<1> DEFINE R == OpToRel(<, Nat)
<1>1. PICK m \in T : \A k \in T : ~ (<<k, m>> \in R)
  <2> HIDE DEF R
  <2>1. IsWellFoundedOn(R, Nat)
    BY NatLessThanWellFounded DEF R
  <2>2. QED
    BY <2>1, WFMin
<1>2. \A k \in T : ~ (k < m)
  BY <1>1 DEF OpToRel
<1>3. QED
  BY <1>2

(* Two layouts agree up to an index. *)
Agree(new, old, i) ==
  \A j \in 0 .. i : j \in DOMAIN new /\ j \in DOMAIN old /\ new[j] = old[j]

(* The mask of inherited groups has the indices up to which layouts agree. *)
LEMMA InheritedAgree ==
  ASSUME NEW new, NEW old, NEW i \in GroupIndices
  PROVE  i \in InheritedGroupsMask(new, old) <=> Agree(new, old, i)
<1> DEFINE differ == {j \in GroupIndices :
             \/ j \notin DOMAIN new \/ j \notin DOMAIN old
             \/ (j \in DOMAIN new \cap DOMAIN old /\ new[j] # old[j])}
           upTo == GroupsInheritUpTo(new, old)
<1>0. /\ kMaxBindGroups \in Nat /\ i \in Nat /\ i < kMaxBindGroups
      /\ GroupIndices = 0 .. kMaxBindGroups - 1
  BY LimitsAssumption DEF GroupIndices
<1>1. differ \in SUBSET Nat
  BY <1>0
<1>2. Agree(new, old, i) <=> \A j \in differ : i < j
  BY <1>0 DEF Agree
<1>3. CASE differ = {}
  <2>1. upTo = kMaxBindGroups + 1
    BY <1>3 DEF GroupsInheritUpTo
  <2>2. QED
    BY <2>1, <1>0, <1>2, <1>3 DEF InheritedGroupsMask
<1>4. CASE differ # {}
  <2>1. upTo = CHOOSE m \in differ : \A k \in differ : m <= k
    BY <1>4 DEF GroupsInheritUpTo
  <2> HIDE DEF differ, upTo
  <2>2. \E m \in differ : \A k \in differ : m <= k
    BY <1>1, <1>4, LeastNat
  <2>3. upTo \in differ /\ \A k \in differ : upTo <= k
    BY <2>1, <2>2
  <2>4. i < upTo <=> \A j \in differ : i < j
    BY <2>3, <1>1, <1>0
  <2>5. i \in InheritedGroupsMask(new, old) <=> i < upTo
    BY <1>0 DEF InheritedGroupsMask, upTo
  <2>6. QED
    BY <2>4, <2>5, <1>2
<1>5. QED
  BY <1>3, <1>4

(* A layout has no holes, so that it agrees with itself up to each group. *)
LEMMA AgreesWithItself ==
  ASSUME NEW l \in DOMAIN SetLayouts, NEW i \in DOMAIN SetLayouts[l]
  PROVE  i \in GroupIndices /\ Agree(SetLayouts[l], SetLayouts[l], i)
<1>1. PICK n \in 0 .. kMaxBindGroups : SetLayouts[l] \in [0 .. n - 1 -> DOMAIN BindingType]
  BY LayoutsAssumption
<1>2. DOMAIN SetLayouts[l] = 0 .. n - 1
  BY <1>1
<1>3. QED
  BY <1>2, LimitsAssumption DEF Agree, GroupIndices

(* Agreement is handed on. *)
LEMMA AgreeTransitive ==
  ASSUME NEW a, NEW b, NEW c, NEW i, Agree(a, b, i), Agree(b, c, i)
  PROVE  Agree(a, c, i)
  BY DEF Agree

(* Types of what layouts and pipelines are made of. *)
LEMMA PipelineFacts ==
  ASSUME NEW p \in Pipelines
  PROVE  /\ PipelineLayout[p] \in DOMAIN SetLayouts
         /\ UsedGroups(p) \subseteq GroupIndices
         /\ UsedGroups(p) = DOMAIN LayoutOf(p)
         /\ \A i \in UsedGroups(p) : LayoutOf(p)[i] \in DOMAIN BindingType
         /\ p # None
         /\ p \in RenderPipelines => Inputs[p] \subseteq VertexSlots /\ p \notin ComputePipelines
<1>1. PipelineLayout[p] \in DOMAIN SetLayouts
  BY PipelinesAssumption
<1>2. PICK n \in 0 .. kMaxBindGroups :
        SetLayouts[PipelineLayout[p]] \in [0 .. n - 1 -> DOMAIN BindingType]
  BY <1>1, LayoutsAssumption
<1>3. UsedGroups(p) = 0 .. n - 1
  BY <1>2 DEF UsedGroups
<1>4. UsedGroups(p) \subseteq GroupIndices
  BY <1>3, LimitsAssumption DEF GroupIndices
<1>5. p # None
  BY NoneAssumption
<1>6. p \in RenderPipelines => Inputs[p] \subseteq VertexSlots /\ p \notin ComputePipelines
  BY PipelinesAssumption
<1>7. QED
  BY <1>1, <1>2, <1>3, <1>4, <1>5, <1>6 DEF UsedGroups, LayoutOf

-----------------------------------------------------------------------------
(* The list that is replayed *)

(* What the backends do to the list: they take its next command. *)
RecStep ==
  \/ \E kind \in {"compute", "render"} : BeginPass(kind)
  \/ EndPass
  \/ \E p \in Pipelines : UsePipeline(p)
  \/ \E i \in GroupIndices, g \in Groups : UseBindGroup(i, g)
  \/ \E b \in Buffers : UseIndexBuffer(b)
  \/ \E s \in VertexSlots, bufs \in BufferLists : UseVertexBuffers(s, bufs)
  \/ \E stages \in SUBSET Stages, c \in ConstantIndices, n \in 1 .. kMaxPushConstants, v \in 0 .. 1 :
       UsePushConstants(stages, c, n, v)
  \/ \E v \in 0 .. 1 : UseDynamicState("stencil", v)
  \/ \E v \in {"part", "full"} : UseDynamicState("scissor", v)
  \/ UNCHANGED recVars

(* Every step of a replay takes a command, or none. *)
LEMMA StepTakesCommand ==
  ASSUME [ReplayNext]_vars
  PROVE  RecStep
<1>1. CASE VkNext
  BY <1>1 DEF VkNext, VkBegin, VkEnd, VkSetPipeline, VkSetBindGroup, VkSetIndexBuffer,
              VkSetVertexBuffers, VkSetDynamicState, VkOperate, Operate, RecStep
<1>2. CASE GlNext
  BY <1>2 DEF GlNext, GlBegin, GlEnd, GlSetPipeline, GlSetBindGroup, GlSetIndexBuffer,
              GlSetVertexBuffers, GlSetPushConstants, GlSetDynamicState, GlOperate, Operate, RecStep
<1>3. CASE D3Next
  BY <1>3 DEF D3Next, D3Begin, D3End, D3SetPipeline, D3SetBindGroup, D3SetIndexBuffer,
              D3SetVertexBuffers, D3SetDynamicState, D3Operate, D3NextCommandBuffer, Operate, RecStep
<1>4. CASE MetalNext
  BY <1>4 DEF MetalNext, MetalBegin, MetalEnd, MetalSetPipeline, MetalSetBindGroup,
              MetalSetIndexBuffer, MetalSetVertexBuffers, MetalSetPushConstants,
              MetalSetDynamicState, MetalOperate, Operate, RecStep
<1>5. CASE UNCHANGED vars
  BY <1>5 DEF vars, RecStep
<1>6. QED
  BY <1>1, <1>2, <1>3, <1>4, <1>5 DEF ReplayNext

(* The list starts outside of passes, with nothing set. *)
LEMMA ListStarts ==
  ASSUME RecInit
  PROVE  RecInv
<1>1. NoGroups \in [GroupIndices -> Groups \cup {None}]
  BY DEF NoGroups
<1>2. NoVertexBuffers \in [VertexSlots -> Buffers \cup {None}]
  BY DEF NoVertexBuffers
<1>3. NoConstants \in [Stages -> [ConstantIndices -> 0 .. 1]]
  BY DEF NoConstants
<1>4. DefaultState \in [stencil : 0 .. 1, scissor : {"full", "part"}]
  BY DEF DefaultState
<1>5. RecTypeOK
  BY <1>1, <1>2, <1>3, <1>4 DEF RecInit, Init, RecTypeOK
<1>6. PassesAreApart /\ CurrentIsSet
  BY DEF RecInit, Init, PassesAreApart, CurrentIsSet
<1>7. QED
  BY <1>5, <1>6 DEF RecInv

(* Begin and end of a pass keep the invariant of the list. *)
LEMMA PassKeepsList ==
  ASSUME RecInv, EndPass \/ \E kind \in {"compute", "render"} : BeginPass(kind)
  PROVE  RecInv'
<1> USE DEF Keeps
<1>1. NoGroups \in [GroupIndices -> Groups \cup {None}]
  BY DEF NoGroups
<1>2. NoVertexBuffers \in [VertexSlots -> Buffers \cup {None}]
  BY DEF NoVertexBuffers
<1>3. NoConstants \in [Stages -> [ConstantIndices -> 0 .. 1]]
  BY DEF NoConstants
<1>4. DefaultState \in [stencil : 0 .. 1, scissor : {"full", "part"}]
  BY DEF DefaultState
<1>5. ASSUME NEW kind \in {"compute", "render"}, BeginPass(kind)
      PROVE  RecInv'
  <2>1. RecTypeOK'
    BY <1>3, <1>4, <1>5 DEF BeginPass, Begin, RecInv, RecTypeOK
  <2>2. PassesAreApart' /\ CurrentIsSet'
    BY <1>5 DEF BeginPass, Begin, RecInv, PassesAreApart, CurrentIsSet
  <2>3. QED
    BY <2>1, <2>2 DEF RecInv
<1>6. ASSUME EndPass
      PROVE  RecInv'
  <2>1. RecTypeOK'
    BY <1>1, <1>2, <1>3, <1>4, <1>6 DEF EndPass, End, RecInv, RecTypeOK
  <2>2. PassesAreApart' /\ CurrentIsSet'
    BY <1>6 DEF EndPass, End, RecInv, PassesAreApart, CurrentIsSet
  <2>3. QED
    BY <2>1, <2>2 DEF RecInv
<1>7. QED
  BY <1>5, <1>6

(* A pipeline keeps what it can still use of what was set. *)
LEMMA PipelineKeepsList ==
  ASSUME RecInv, NEW p \in Pipelines, UsePipeline(p)
  PROVE  RecInv'
<1> USE DEF Keeps
<1>1. RecTypeOK'
  BY DEF UsePipeline, SetPipeline, RecInv, RecTypeOK
<1>2. PassesAreApart'
  BY NoneAssumption DEF UsePipeline, SetPipeline, RecInv, PassesAreApart, Pipelines
<1>3. ASSUME NEW i \in GroupIndices, <<"group", i>> \in current'
      PROVE  /\ pipeline' # None /\ i \in UsedGroups(pipeline')
             /\ groups'[i] \in Groups /\ GroupLayout[groups'[i]] = LayoutOf(pipeline')[i]
  <2>1. /\ pipeline' = p /\ groups' = groups
        /\ <<"group", i>> \in current /\ <<"group", i>> \in StaysCurrent(p)
    BY <1>3 DEF UsePipeline, SetPipeline
  <2>2. pipeline # None /\ i \in InheritedGroupsMask(LayoutOf(p), LayoutOf(pipeline))
    BY <2>1 DEF StaysCurrent, InheritedGroups
  <2>3. Agree(LayoutOf(p), LayoutOf(pipeline), i)
    BY <2>2, InheritedAgree
  <2>4. i \in DOMAIN LayoutOf(p) /\ LayoutOf(p)[i] = LayoutOf(pipeline)[i]
    BY <2>3, LimitsAssumption DEF Agree, GroupIndices
  <2>5. QED
    BY <2>1, <2>4, PipelineFacts DEF RecInv, CurrentIsSet, UsedGroups, LayoutOf
<1>4. ASSUME NEW s \in VertexSlots, <<"slot", s>> \in current'
      PROVE  pass' = "render" /\ vertexBuffers'[s] \in Buffers
  BY <1>4 DEF UsePipeline, SetPipeline, RecInv, CurrentIsSet
<1>5. <<"index">> \in current' => pass' = "render" /\ indexBuffer' \in Buffers
  BY DEF UsePipeline, SetPipeline, RecInv, CurrentIsSet
<1>6. QED
  BY <1>1, <1>2, <1>3, <1>4, <1>5 DEF RecInv, CurrentIsSet

(* Bind groups that are set fit the pipeline. *)
LEMMA GroupKeepsList ==
  ASSUME Careful, RecInv, NEW i \in GroupIndices, NEW g \in Groups, UseBindGroup(i, g)
  PROVE  RecInv'
<1> USE DEF Keeps
<1>1. RecTypeOK'
  BY DEF UseBindGroup, SetBindGroup, RecInv, RecTypeOK
<1>2. PassesAreApart'
  BY DEF UseBindGroup, SetBindGroup, RecInv, PassesAreApart, Fits, InPass
<1>3. CurrentIsSet'
  BY DEF UseBindGroup, SetBindGroup, RecInv, RecTypeOK, CurrentIsSet, Fits
<1>4. QED
  BY <1>1, <1>2, <1>3 DEF RecInv

(* Index and vertex buffers that are set become current. *)
LEMMA BuffersKeepList ==
  ASSUME RecInv,
         \/ \E b \in Buffers : UseIndexBuffer(b)
         \/ \E s \in VertexSlots, bufs \in BufferLists : UseVertexBuffers(s, bufs)
  PROVE  RecInv'
<1> USE DEF Keeps
<1>1. ASSUME NEW b \in Buffers, UseIndexBuffer(b)
      PROVE  RecInv'
  <2>1. RecTypeOK'
    BY <1>1 DEF UseIndexBuffer, SetIndexBuffer, RecInv, RecTypeOK
  <2>2. PassesAreApart'
    BY <1>1 DEF UseIndexBuffer, SetIndexBuffer, RecInv, PassesAreApart
  <2>3. CurrentIsSet'
    BY <1>1 DEF UseIndexBuffer, SetIndexBuffer, RecInv, CurrentIsSet
  <2>4. QED
    BY <2>1, <2>2, <2>3 DEF RecInv
<1>2. ASSUME NEW start \in VertexSlots, NEW bufs \in BufferLists, UseVertexBuffers(start, bufs)
      PROVE  RecInv'
  <2>1. PICK n \in 0 .. kMaxVertexInputs : bufs \in [0 .. n - 1 -> Buffers]
    BY DEF BufferLists
  <2>2. /\ pass = "render" /\ pass' = pass /\ pipeline' = pipeline
        /\ \A k \in DOMAIN bufs : start + k \in VertexSlots
        /\ UNCHANGED <<groups, indexBuffer, backend, list, constants, dynamic>>
        /\ current' = current \cup {<<"slot", start + k>> : k \in DOMAIN bufs}
    BY <1>2 DEF UseVertexBuffers, SetVertexBuffers
  <2>3. vertexBuffers' \in [VertexSlots -> Buffers \cup {None}]
    BY <1>2, <2>1 DEF UseVertexBuffers, SetVertexBuffers, RecInv, RecTypeOK
  <2>4. current' \subseteq
          ({"group"} \X GroupIndices) \cup {<<"index">>} \cup ({"slot"} \X VertexSlots)
    BY <2>2 DEF RecInv, RecTypeOK
  <2>5. RecTypeOK'
    BY <2>2, <2>3, <2>4 DEF RecInv, RecTypeOK
  <2>6. PassesAreApart'
    BY <2>2 DEF RecInv, PassesAreApart
  <2>7. ASSUME NEW s \in VertexSlots, <<"slot", s>> \in current'
        PROVE  vertexBuffers'[s] \in Buffers
    <3>1. vertexBuffers'[s] = IF s - start \in DOMAIN bufs THEN bufs[s - start]
                                                         ELSE vertexBuffers[s]
      BY <1>2 DEF UseVertexBuffers, SetVertexBuffers
    <3>2. \A k \in DOMAIN bufs : k \in Int /\ bufs[k] \in Buffers
      BY <2>1
    <3>3. CASE s - start \in DOMAIN bufs
      BY <3>1, <3>2, <3>3
    <3>4. CASE s - start \notin DOMAIN bufs
      <4>1. start \in Int /\ s \in Int
        BY DEF VertexSlots
      <4>2. \A k \in DOMAIN bufs : s # start + k
        BY <4>1, <3>2, <3>4
      <4>3. <<"slot", s>> \in current
        BY <4>2, <2>7, <2>2
      <4>4. QED
        BY <4>3, <3>1, <3>4 DEF RecInv, CurrentIsSet
    <3>5. QED
      BY <3>3, <3>4
  <2>8. CurrentIsSet'
    BY <2>2, <2>7 DEF RecInv, CurrentIsSet
  <2>9. QED
    BY <2>5, <2>6, <2>8 DEF RecInv
<1>3. QED
  BY <1>1, <1>2

(* Push constants and dynamic state are of the pass. *)
LEMMA StateKeepsList ==
  ASSUME RecInv,
         \/ \E stages \in SUBSET Stages, c \in ConstantIndices, n \in 1 .. kMaxPushConstants,
               v \in 0 .. 1 : UsePushConstants(stages, c, n, v)
         \/ \E v \in 0 .. 1 : UseDynamicState("stencil", v)
         \/ \E v \in {"part", "full"} : UseDynamicState("scissor", v)
  PROVE  RecInv'
<1> USE DEF Keeps
<1>1. ASSUME NEW stages \in SUBSET Stages, NEW c \in ConstantIndices,
             NEW n \in 1 .. kMaxPushConstants, NEW v \in 0 .. 1, UsePushConstants(stages, c, n, v)
      PROVE  RecInv'
  <2>1. UNCHANGED <<streamVars, dynamic, current, backend, list>>
    BY <1>1 DEF UsePushConstants
  <2>2. constants' \in [Stages -> [ConstantIndices -> 0 .. 1]]
    BY <1>1 DEF UsePushConstants, RecInv, RecTypeOK
  <2>3. QED
    BY <2>1, <2>2 DEF streamVars, RecInv, RecTypeOK, PassesAreApart, CurrentIsSet
<1>2. ASSUME NEW field \in {"stencil", "scissor"}, NEW v, UseDynamicState(field, v),
             IF field = "stencil" THEN v \in 0 .. 1 ELSE v \in {"part", "full"}
      PROVE  RecInv'
  <2>1. UNCHANGED <<streamVars, constants, current, backend, list>> /\ pass = "render"
    BY <1>2 DEF UseDynamicState
  <2>2. dynamic' \in [stencil : 0 .. 1, scissor : {"full", "part"}]
    BY <1>2 DEF UseDynamicState, RecInv, RecTypeOK
  <2>3. QED
    BY <2>1, <2>2 DEF streamVars, RecInv, RecTypeOK, PassesAreApart, CurrentIsSet
<1>3. QED
  BY <1>1, <1>2

(* The invariant of the list is inductive. *)
LEMMA ListStep ==
  ASSUME Careful, RecInv, RecStep
  PROVE  RecInv'
<1>1. CASE UNCHANGED recVars
  BY <1>1 DEF recVars, streamVars, RecInv, RecTypeOK, PassesAreApart, CurrentIsSet
<1>2. QED
  BY <1>1, PassKeepsList, PipelineKeepsList, GroupKeepsList, BuffersKeepList, StateKeepsList
     DEF RecStep

(* In each replay the list is one that the frontend accepts: passes are    *)
(* apart, and what counts as current was set and fits.                     *)
THEOREM ListIsAccepted == Careful => (ReplaySpec => []RecInv)
<1> SUFFICES ASSUME Careful PROVE ReplaySpec => []RecInv
  OBVIOUS
<1>1. ReplayInit => RecInv
  BY ListStarts DEF ReplayInit
<1>2. RecInv /\ [ReplayNext]_vars => RecInv'
  BY StepTakesCommand, ListStep
<1>3. QED
  BY <1>1, <1>2, PTL DEF ReplaySpec

(* The backend stays what it is. *)
LEMMA BackendStays ==
  ASSUME RecStep
  PROVE  backend' = backend
  BY DEF RecStep, recVars, BeginPass, EndPass, UsePipeline, UseBindGroup, UseIndexBuffer,
         UseVertexBuffers, UsePushConstants, UseDynamicState, Keeps

-----------------------------------------------------------------------------
(* Vulkan *)

(* The tracker of a new pass has nothing. *)
LEMMA VkStarts ==
  ASSUME native = VkStart, current = {}, pipeline = None, dynamic = DefaultState
  PROVE  VkInv
<1>1. /\ NoGroups \in [GroupIndices -> DescriptorSets \cup {None}]
      /\ DefaultState \in [stencil : 0 .. 1, scissor : {"full", "part"}]
  BY DEF NoGroups, DefaultState
<1>2. VkTypeOK
  BY <1>1 DEF VkStart, VkTypeOK
<1>3. QED
  BY <1>2 DEF VkInv, VkStart

(* A set bound with the layout of a pipeline is bound for that pipeline. *)
LEMMA FlushedIsBound ==
  ASSUME NEW p \in Pipelines, NEW i \in UsedGroups(p)
  PROVE  i \in InheritedGroupsMask(LayoutOf(p), SetLayouts[PipelineLayout[p]])
<1>1. PipelineLayout[p] \in DOMAIN SetLayouts /\ i \in DOMAIN SetLayouts[PipelineLayout[p]]
  BY PipelineFacts DEF UsedGroups
<1>2. i \in GroupIndices /\ Agree(LayoutOf(p), SetLayouts[PipelineLayout[p]], i)
  BY <1>1, AgreesWithItself DEF LayoutOf
<1>3. QED
  BY <1>2, InheritedAgree

(* What a draw finds after the dirty sets have been bound *)
LEMMA BoundAfterFlush ==
  ASSUME RecInv, VkInv, InPass, pipeline # None,
         NEW i \in GroupIndices, <<"group", i>> \in current
  PROVE  /\ AfterFlush[i] \in DescriptorSets
         /\ AfterFlush[i].group = groups[i]
         /\ i \in InheritedGroupsMask(LayoutOf(pipeline), SetLayouts[AfterFlush[i].layout])
<1>1. pipeline \in Pipelines
  BY DEF RecInv, RecTypeOK
<1>2. i \in UsedGroups(pipeline) /\ groups[i] \in Groups
  BY DEF RecInv, CurrentIsSet
<1>3. native.mCurrentLayout = PipelineLayout[pipeline] /\ PipelineLayout[pipeline] \in DOMAIN SetLayouts
  BY <1>1, PipelineFacts DEF VkInv
<1>4. CASE i \in native.mDirtySets
  <2>1. AfterFlush[i] = [group |-> groups[i], layout |-> PipelineLayout[pipeline]]
    BY <1>3, <1>4 DEF AfterFlush
  <2>2. QED
    BY <2>1, <1>1, <1>2, <1>3, FlushedIsBound DEF DescriptorSets
<1>5. CASE i \notin native.mDirtySets
  <2>1. BoundFor(pipeline, i) /\ AfterFlush[i] = native.bound[i]
    BY <1>5 DEF VkInv, AfterFlush
  <2>2. native.bound[i] \in DescriptorSets
    BY <2>1 DEF VkInv, VkTypeOK, BoundFor
  <2>3. QED
    BY <2>1, <2>2 DEF BoundFor
<1>6. QED
  BY <1>4, <1>5

(* The invariant says that draws find what was set. *)
LEMMA VkInvSuffices ==
  ASSUME RecInv, backend = "vulkan" => VkInv
  PROVE  VulkanDrawsRight
<1> SUFFICES ASSUME backend = "vulkan", VkInv
             PROVE  VulkanDrawsRight
  BY DEF VulkanDrawsRight
<1>1. ASSUME GroupsReady, NEW i \in UsedGroups(pipeline)
      PROVE  SetIsBound(i)
  <2>1. /\ InPass /\ pipeline # None /\ pipeline \in Pipelines /\ <<"group", i>> \in current
    BY <1>1 DEF GroupsReady, Ready, RecInv, RecTypeOK
  <2>2. i \in GroupIndices
    BY <2>1, PipelineFacts
  <2>3. QED
    BY <2>1, <2>2, BoundAfterFlush, DescriptorSetsAssumption DEF SetIsBound
<1>2. IndexReady => native.index = <<indexBuffer, IndexFormat[pipeline]>>
  BY DEF IndexReady, VkInv
<1>3. /\ pass = "render" => native.dynamic = dynamic
      /\ ~native.failed
  BY DEF VkInv, InPass
<1>4. QED
  BY <1>1, <1>2, <1>3 DEF VulkanDrawsRight

(* Binding the dirty sets keeps the invariant. *)
LEMMA VkOperateKeeps ==
  ASSUME RecInv, VkInv, VkOperate
  PROVE  VkInv'
<1>1. InPass /\ pipeline # None /\ UNCHANGED recVars
  BY NoneAssumption DEF VkOperate, Operate, CanDispatch, CanDrawArrays, CanDrawElements, InPass, Pipelines
<1>2. native' = [native EXCEPT !.bound = AfterFlush, !.mDirtySets = {}]
  BY DEF VkOperate
<1>3. /\ UNCHANGED <<pass, pipeline, groups, indexBuffer, dynamic, current>>
  BY <1>1 DEF recVars, streamVars
<1>4. AfterFlush \in [GroupIndices -> DescriptorSets \cup {None}]
  <2>1. groups \in [GroupIndices -> Groups \cup {None}] /\ pipeline \in Pipelines
    BY <1>1 DEF RecInv, RecTypeOK
  <2>2. native.mCurrentLayout \in DOMAIN SetLayouts
    BY <1>1, <2>1, PipelineFacts DEF VkInv
  <2>3. QED
    BY <2>1, <2>2 DEF AfterFlush, DescriptorSets, VkInv, VkTypeOK
<1>5. VkTypeOK'
  BY <1>2, <1>4 DEF VkInv, VkTypeOK
<1>6. /\ native'.bound = AfterFlush /\ native'.index = native.index
      /\ native'.dynamic = native.dynamic /\ native'.mCurrentLayout = native.mCurrentLayout
      /\ ~native'.failed
  BY <1>2 DEF VkInv, VkTypeOK
<1>7. ASSUME NEW i \in GroupIndices, <<"group", i>> \in current'
      PROVE  BoundFor(pipeline, i)'
  <2>1. /\ AfterFlush[i] \in DescriptorSets
        /\ AfterFlush[i].group = groups[i]
        /\ i \in InheritedGroupsMask(LayoutOf(pipeline), SetLayouts[AfterFlush[i].layout])
    BY <1>1, <1>3, <1>7, BoundAfterFlush
  <2>2. AfterFlush[i] # None
    BY <2>1, DescriptorSetsAssumption
  <2> HIDE DEF AfterFlush
  <2>3. QED
    BY <2>1, <2>2, <1>3, <1>6 DEF BoundFor
<1>8. QED
  BY <1>3, <1>5, <1>6, <1>7 DEF VkInv, InPass

(* A change of pipeline drops no set that stays current. *)
LEMMA VkPipelineKeeps ==
  ASSUME Careful, backend = "vulkan", RecInv, VkInv, NEW p \in Pipelines, VkSetPipeline(p)
  PROVE  VkInv'
<1> DEFINE old == native.mCurrentLayout
           new == PipelineLayout[p]
<1>1. /\ pipeline' = p /\ current' = current \cap StaysCurrent(p) /\ InPass
      /\ UNCHANGED <<pass, groups, indexBuffer, dynamic>>
  BY DEF VkSetPipeline, UsePipeline, SetPipeline, Keeps, InPass
<1>2. old \notin {None, new} =>
        native.mDirtySets \cap InheritedGroupsMask(LayoutOf(p), SetLayouts[old]) = {}
  BY DEF VkSetPipeline
<1>3. native' = IF new = old THEN native
                ELSE [native EXCEPT !.mCurrentLayout = new, !.mDirtySets = DirtyAfterChange(new)]
  BY DEF VkSetPipeline, OnPipelineLayoutChange
<1>4. /\ new \in DOMAIN SetLayouts /\ new # None /\ p # None
  BY PipelineFacts, NoneAssumption
<1>5. DirtyAfterChange(new) \in SUBSET GroupIndices
  BY DEF DirtyAfterChange, VkInv, VkTypeOK
<1>6. VkTypeOK'
  BY <1>3, <1>4, <1>5 DEF VkInv, VkTypeOK
<1>7. /\ native'.mCurrentLayout = new /\ native'.index = native.index
      /\ native'.dynamic = native.dynamic /\ native'.bound = native.bound
      /\ ~native'.failed
      /\ native'.mDirtySets = IF new = old THEN native.mDirtySets ELSE DirtyAfterChange(new)
  BY <1>3 DEF VkInv, VkTypeOK
<1>8. ASSUME NEW i \in GroupIndices, <<"group", i>> \in current'
      PROVE  i \in native'.mDirtySets \/ BoundFor(pipeline, i)'
  <2>1. /\ <<"group", i>> \in current /\ pipeline # None
        /\ i \in InheritedGroupsMask(LayoutOf(p), LayoutOf(pipeline))
    BY <1>1, <1>8 DEF StaysCurrent, InheritedGroups
  <2>2. old = PipelineLayout[pipeline] /\ SetLayouts[old] = LayoutOf(pipeline)
    BY <1>1, <2>1 DEF VkInv, LayoutOf
  <2>3. pipeline \in Pipelines /\ old # None
    BY <2>1, <2>2, NoneAssumption, PipelineFacts DEF RecInv, RecTypeOK
  <2>4. CASE i \in native.mDirtySets
    <3>1. new = old
      BY <2>1, <2>2, <2>3, <2>4, <1>2
    <3>2. QED
      BY <3>1, <2>4, <1>7
  <2>5. CASE i \notin native.mDirtySets
    <3>1. BoundFor(pipeline, i)
      BY <2>1, <2>5 DEF VkInv
    <3>2. Agree(LayoutOf(p), SetLayouts[native.bound[i].layout], i)
      BY <3>1, <2>1, InheritedAgree, AgreeTransitive DEF BoundFor
    <3>3. i \in InheritedGroupsMask(LayoutOf(p), SetLayouts[native.bound[i].layout])
      BY <3>2, InheritedAgree
    <3>4. QED
      BY <3>1, <3>3, <1>1, <1>7 DEF BoundFor
  <2>6. QED
    BY <2>4, <2>5
<1>9. ASSUME <<"index">> \in current'
      PROVE  native'.index = <<indexBuffer, IndexFormat[p]>>
  <2>1. <<"index">> \in current /\ IndexStays(p)
    BY <1>1, <1>9 DEF StaysCurrent
  <2>2. IndexFormat[p] = IndexFormat[pipeline]
    BY <2>1 DEF IndexStays, CapturesFormat, KeepsFormat
  <2>3. QED
    BY <2>1, <2>2, <1>7 DEF VkInv
<1>10. QED
  BY <1>1, <1>4, <1>6, <1>7, <1>8, <1>9 DEF VkInv, InPass

(* The other commands keep the invariant. *)
LEMMA VkOthersKeep ==
  ASSUME Careful, RecInv, VkInv,
         \/ \E kind \in {"compute", "render"} : VkBegin(kind)
         \/ VkEnd
         \/ \E i \in GroupIndices, g \in Groups : VkSetBindGroup(i, g)
         \/ \E b \in Buffers : VkSetIndexBuffer(b)
         \/ \E s \in VertexSlots, bufs \in BufferLists : VkSetVertexBuffers(s, bufs)
         \/ \E v \in 0 .. 1 : VkSetDynamicState("stencil", v)
         \/ VkSetDynamicState("scissor", "part")
         \/ UNCHANGED vars
  PROVE  VkInv'
<1> USE DEF Keeps
<1>1. ASSUME NEW kind \in {"compute", "render"}, VkBegin(kind)
      PROVE  VkInv'
  <2>1. /\ native' = VkStart /\ current' = {} /\ dynamic' = DefaultState
        /\ pipeline' = None
    BY <1>1 DEF VkBegin, BeginPass, Begin, RecInv, PassesAreApart
  <2>2. /\ NoGroups \in [GroupIndices -> DescriptorSets \cup {None}]
        /\ DefaultState \in [stencil : 0 .. 1, scissor : {"full", "part"}]
    BY DEF NoGroups, DefaultState
  <2>3. VkTypeOK'
    BY <2>1, <2>2 DEF VkStart, VkTypeOK
  <2>4. QED
    BY <2>1, <2>3 DEF VkInv, VkStart
<1>2. CASE VkEnd
  <2>1. native' = native /\ current' = {} /\ pass' = "outside"
    BY <1>2 DEF VkEnd, EndPass, End
  <2>2. QED
    BY <2>1 DEF VkInv, VkTypeOK, InPass
<1>3. ASSUME NEW i \in GroupIndices, NEW g \in Groups, VkSetBindGroup(i, g)
      PROVE  VkInv'
  <2>1. /\ native' = [native EXCEPT !.mDirtySets = @ \cup {i}]
        /\ current' = current \cup {<<"group", i>>} /\ groups' = [groups EXCEPT ![i] = g]
        /\ UNCHANGED <<pass, pipeline, indexBuffer, dynamic>>
    BY <1>3 DEF VkSetBindGroup, UseBindGroup, SetBindGroup
  <2>2. VkTypeOK'
    BY <2>1 DEF VkInv, VkTypeOK
  <2>3. /\ native'.mDirtySets = native.mDirtySets \cup {i} /\ native'.bound = native.bound
        /\ native'.index = native.index /\ native'.dynamic = native.dynamic
        /\ native'.mCurrentLayout = native.mCurrentLayout /\ ~native'.failed
    BY <2>1 DEF VkInv, VkTypeOK
  <2>4. ASSUME NEW j \in GroupIndices, <<"group", j>> \in current'
        PROVE  j \in native'.mDirtySets \/ BoundFor(pipeline, j)'
    <3>1. CASE j = i
      BY <3>1, <2>3
    <3>2. CASE j # i
      <4>1. <<"group", j>> \in current /\ groups'[j] = groups[j]
        BY <2>1, <2>4, <3>2 DEF RecInv, RecTypeOK
      <4>2. QED
        BY <4>1, <2>1, <2>3 DEF VkInv, BoundFor
    <3>3. QED
      BY <3>1, <3>2
  <2>5. QED
    BY <2>1, <2>2, <2>3, <2>4 DEF VkInv, InPass
<1>4. ASSUME NEW b \in Buffers, VkSetIndexBuffer(b)
      PROVE  VkInv'
  <2>1. /\ native' = [native EXCEPT !.index = <<b, IndexFormat[pipeline]>>]
        /\ current' = current \cup {<<"index">>} /\ indexBuffer' = b
        /\ pass = "render" /\ pipeline # None
        /\ UNCHANGED <<pass, pipeline, groups, dynamic>>
    BY <1>4 DEF VkSetIndexBuffer, UseIndexBuffer, SetIndexBuffer
  <2>2. IndexFormat[pipeline] \in Formats
    BY <2>1 DEF RecInv, PassesAreApart, Formats
  <2>3. VkTypeOK'
    BY <2>1, <2>2 DEF VkInv, VkTypeOK
  <2>4. /\ native'.mDirtySets = native.mDirtySets /\ native'.bound = native.bound
        /\ native'.index = <<b, IndexFormat[pipeline]>> /\ native'.dynamic = native.dynamic
        /\ native'.mCurrentLayout = native.mCurrentLayout /\ ~native'.failed
    BY <2>1 DEF VkInv, VkTypeOK
  <2>5. QED
    BY <2>1, <2>3, <2>4 DEF VkInv, BoundFor, InPass
<1>5. ASSUME NEW start \in VertexSlots, NEW bufs \in BufferLists, VkSetVertexBuffers(start, bufs)
      PROVE  VkInv'
  <2>1. /\ current' = current \cup {<<"slot", start + k>> : k \in DOMAIN bufs}
        /\ UNCHANGED <<native, pass, pipeline, groups, indexBuffer, dynamic>>
    BY <1>5 DEF VkSetVertexBuffers, UseVertexBuffers, SetVertexBuffers
  <2>2. /\ \A i \in GroupIndices : <<"group", i>> \in current' => <<"group", i>> \in current
        /\ <<"index">> \in current' => <<"index">> \in current
    BY <2>1
  <2>3. QED
    BY <2>1, <2>2 DEF VkInv, VkTypeOK, BoundFor, InPass
<1>6. ASSUME NEW field \in {"stencil", "scissor"}, NEW v, VkSetDynamicState(field, v),
             IF field = "stencil" THEN v \in 0 .. 1 ELSE v \in {"part", "full"}
      PROVE  VkInv'
  <2>1. /\ native' = [native EXCEPT !.dynamic[field] = v]
        /\ dynamic' = [dynamic EXCEPT ![field] = v]
        /\ pass = "render"
        /\ UNCHANGED <<pass, pipeline, groups, indexBuffer, current>>
    BY <1>6 DEF VkSetDynamicState, UseDynamicState, streamVars
  <2>2. /\ native'.mDirtySets = native.mDirtySets /\ native'.bound = native.bound
        /\ native'.index = native.index
        /\ native'.dynamic = [native.dynamic EXCEPT ![field] = v]
        /\ native'.mCurrentLayout = native.mCurrentLayout /\ ~native'.failed
    BY <2>1 DEF VkInv, VkTypeOK
  <2>3. VkTypeOK'
    <3>1. native'.dynamic \in [stencil : 0 .. 1, scissor : {"full", "part"}]
      BY <2>2, <1>6 DEF VkInv, VkTypeOK
    <3>2. QED
      BY <2>1, <2>2, <3>1 DEF VkInv, VkTypeOK
  <2>4. native'.dynamic = dynamic'
    BY <2>1, <2>2 DEF VkInv, InPass
  <2>5. QED
    BY <2>1, <2>2, <2>3, <2>4 DEF VkInv, BoundFor, InPass
<1>7. CASE UNCHANGED vars
  BY <1>7 DEF vars, recVars, streamVars, VkInv, VkTypeOK, BoundFor, InPass
<1>8. QED
  BY <1>1, <1>2, <1>3, <1>4, <1>5, <1>6, <1>7

(* On Vulkan, draws have the descriptor sets of the bind groups that were  *)
(* set for their pipeline or are inherited by it, whatever pipelines and   *)
(* layouts came before, the index buffer in the right format and the       *)
(* dynamic state of the pass, and no assertion fails (CommandBufferVk.cpp).*)
(* Careful assumes of the list, beyond what the frontend checks: bind      *)
(* groups are set after a pipeline whose layout they fit; no pipeline of   *)
(* another layout comes between a group that it inherits and the first     *)
(* draw with that group; the index buffer is set after a pipeline, and     *)
(* again after a pipeline of another index format.                         *)
THEOREM VulkanReplayRight == Careful => (ReplaySpec => []VulkanDrawsRight)
<1> SUFFICES ASSUME Careful PROVE ReplaySpec => []VulkanDrawsRight
  OBVIOUS
<1> DEFINE Ind == RecInv /\ (backend = "vulkan" => VkInv)
<1>1. ReplayInit => Ind
  <2> SUFFICES ASSUME ReplayInit PROVE Ind
    OBVIOUS
  <2>1. RecInv
    BY ListStarts DEF ReplayInit
  <2>2. backend = "vulkan" => native = VkStart /\ current = {} /\ pipeline = None /\ dynamic = DefaultState
    BY DEF ReplayInit, RecInit, Init
  <2>3. QED
    BY <2>1, <2>2, VkStarts
<1>2. Ind /\ [ReplayNext]_vars => Ind'
  <2> SUFFICES ASSUME Ind, [ReplayNext]_vars PROVE Ind'
    OBVIOUS
  <2>1. RecInv' /\ backend' = backend
    BY StepTakesCommand, ListStep, BackendStays
  <2>2. ASSUME backend = "vulkan", VkInv
        PROVE  VkInv'
    <3>1. VkNext \/ UNCHANGED vars
      BY <2>2 DEF ReplayNext
    <3>2. QED
      BY <2>2, <3>1, VkOperateKeeps, VkPipelineKeeps, VkOthersKeep DEF VkNext
  <2>3. QED
    BY <2>1, <2>2
<1>3. Ind => VulkanDrawsRight
  BY VkInvSuffices
<1>4. QED
  BY <1>1, <1>2, <1>3, PTL DEF ReplaySpec

-----------------------------------------------------------------------------
(* Places and numbers *)

(* A set that grows has more elements. *)
LEMMA CountGrows ==
  ASSUME NEW B, IsFiniteSet(B), NEW A \in SUBSET B, NEW x \in B, x \notin A
  PROVE  /\ Cardinality(A) \in Nat /\ Cardinality(B) \in Nat
         /\ Cardinality(A) < Cardinality(B)
<1>1. /\ IsFiniteSet(A) /\ Cardinality(A) <= Cardinality(B)
      /\ Cardinality(B) = Cardinality(A) => B = A
  BY FS_Subset
<1>2. Cardinality(A) \in Nat /\ Cardinality(B) \in Nat
  BY <1>1, FS_CardinalityType
<1>3. QED
  BY <1>1, <1>2

(* What a place is *)
LEMMA PlaceIs ==
  ASSUME NEW layout, NEW place
  PROVE  place \in PlacesOf(layout) <=>
           /\ place = <<place[1], place[2]>>
           /\ place[1] \in DOMAIN layout /\ place[2] \in DOMAIN BindingType[layout[place[1]]]
  BY DEF PlacesOf

(* The places of a pipeline are finitely many pairs of numbers. *)
LEMMA PlacesOfPipeline ==
  ASSUME NEW p \in Pipelines
  PROVE  /\ PlacesOf(LayoutOf(p)) \subseteq Nat \X Nat
         /\ IsFiniteSet(PlacesOf(LayoutOf(p)))
         /\ \A place \in PlacesOf(LayoutOf(p)) : TypeAt(LayoutOf(p), place) \in BindingTypes
<1> DEFINE box == GroupIndices \X (0 .. kMaxBindingsPerGroup - 1)
<1>1. /\ kMaxBindGroups \in Nat /\ kMaxBindingsPerGroup \in Nat
      /\ GroupIndices = 0 .. kMaxBindGroups - 1
  BY LimitsAssumption DEF GroupIndices
<1>2. ASSUME NEW place \in PlacesOf(LayoutOf(p))
      PROVE  place \in box /\ TypeAt(LayoutOf(p), place) \in BindingTypes
  <2>1. /\ place = <<place[1], place[2]>>
        /\ place[1] \in UsedGroups(p) /\ place[2] \in DOMAIN BindingType[LayoutOf(p)[place[1]]]
    BY PlaceIs, PipelineFacts
  <2>2. place[1] \in GroupIndices /\ LayoutOf(p)[place[1]] \in DOMAIN BindingType
    BY <2>1, PipelineFacts
  <2>3. /\ place[2] \in 0 .. kMaxBindingsPerGroup - 1
        /\ BindingType[LayoutOf(p)[place[1]]][place[2]] \in BindingTypes
    BY <2>1, <2>2, LayoutsAssumption
  <2>4. QED
    BY <2>1, <2>2, <2>3 DEF TypeAt
<1>3. IsFiniteSet(box)
  <2>1. IsFiniteSet(0 .. kMaxBindGroups - 1) /\ IsFiniteSet(0 .. kMaxBindingsPerGroup - 1)
    BY <1>1, FS_Interval
  <2>2. QED
    BY <1>1, <2>1, FS_Product
<1>4. PlacesOf(LayoutOf(p)) \in SUBSET box
  BY <1>2
<1>5. IsFiniteSet(PlacesOf(LayoutOf(p)))
  BY <1>3, <1>4, FS_Subset
<1>6. PlacesOf(LayoutOf(p)) \subseteq Nat \X Nat
  BY <1>1, <1>4
<1>7. QED
  BY <1>2, <1>5, <1>6

(* Places are ordered. *)
LEMMA PlacesAreOrdered ==
  /\ \A u \in Nat \X Nat : ~Before(u, u)
  /\ \A u \in Nat \X Nat, v \in Nat \X Nat : u # v => Before(u, v) \/ Before(v, u)
  /\ \A u \in Nat \X Nat, v \in Nat \X Nat, w \in Nat \X Nat :
       Before(u, v) /\ Before(v, w) => Before(u, w)
  BY DEF Before

(* Layouts that agree up to a group have the same places up to it. *)
LEMMA SamePlaces ==
  ASSUME NEW p \in Pipelines, NEW q \in Pipelines, NEW i \in GroupIndices,
         Agree(LayoutOf(p), LayoutOf(q), i), NEW place, place[1] \in 0 .. i
  PROVE  /\ place \in PlacesOf(LayoutOf(p)) <=> place \in PlacesOf(LayoutOf(q))
         /\ LayoutOf(p)[place[1]] = LayoutOf(q)[place[1]]
         /\ TypeAt(LayoutOf(p), place) = TypeAt(LayoutOf(q), place)
  BY PlaceIs DEF Agree, TypeAt

-----------------------------------------------------------------------------
(* Metal *)

(* What is counted for the number of a place *)
MetalBefore(layout, place, stage) ==
  {q \in PlacesOf(layout) :
    /\ Before(q, place) /\ stage \in Visibility[layout[q[1]]][q[2]]
    /\ MetalKind(TypeAt(layout, q)) = MetalKind(TypeAt(layout, place))}

(* Numbers of a kind grow from place to place. *)
LEMMA MetalNumbersGrow ==
  ASSUME NEW p \in Pipelines, NEW stage \in Stages,
         NEW u \in PlacesOf(LayoutOf(p)), NEW v \in PlacesOf(LayoutOf(p)),
         stage \in Visibility[LayoutOf(p)[u[1]]][u[2]],
         MetalKind(TypeAt(LayoutOf(p), u)) = MetalKind(TypeAt(LayoutOf(p), v)),
         Before(u, v)
  PROVE  MetalIndex(LayoutOf(p), u, stage) # MetalIndex(LayoutOf(p), v, stage)
<1> DEFINE A == MetalBefore(LayoutOf(p), u, stage)
           B == MetalBefore(LayoutOf(p), v, stage)
<1>1. /\ PlacesOf(LayoutOf(p)) \subseteq Nat \X Nat
      /\ IsFiniteSet(PlacesOf(LayoutOf(p)))
  BY PlacesOfPipeline
<1>2. IsFiniteSet(B)
  BY <1>1, FS_Subset DEF MetalBefore
<1>3. A \in SUBSET B /\ u \in B /\ u \notin A
  BY <1>1, PlacesAreOrdered DEF MetalBefore
<1>4. /\ MetalIndex(LayoutOf(p), u, stage) =
           (IF MetalKind(TypeAt(LayoutOf(p), u)) = "buffer" THEN 1 ELSE 0) + Cardinality(A)
      /\ MetalIndex(LayoutOf(p), v, stage) =
           (IF MetalKind(TypeAt(LayoutOf(p), v)) = "buffer" THEN 1 ELSE 0) + Cardinality(B)
  BY DEF MetalIndex, MetalBefore
<1> HIDE DEF A, B
<1>5. Cardinality(A) \in Nat /\ Cardinality(B) \in Nat /\ Cardinality(A) < Cardinality(B)
  BY <1>2, <1>3, CountGrows
<1>6. QED
  BY <1>4, <1>5

(* The point of a place is the point of no other. *)
OwnPoint(p, stage, i, b) ==
  \A t \in Stages, j \in UsedGroups(p) : \A c \in VisibleTo(t, LayoutOf(p)[j]) :
    MslBinding(p, stage, <<i, b>>) = MslBinding(p, t, <<j, c>>) => t = stage /\ j = i /\ c = b

(* Each place that a stage sees has a point of its own, apart from the     *)
(* ones of push constants and vertex buffers.                              *)
LEMMA MetalPointsApart ==
  ASSUME NumbersFit, NEW p \in Pipelines, NEW stage \in Stages, NEW i \in UsedGroups(p),
         NEW b \in VisibleTo(stage, LayoutOf(p)[i])
  PROVE  /\ <<i, b>> \in PlacesOf(LayoutOf(p))
         /\ MslBinding(p, stage, <<i, b>>) \in MetalPoints
         /\ \A s \in Stages : MslBinding(p, stage, <<i, b>>) # PushConstantPoint(s)
         /\ \A s \in VertexSlots : MslBinding(p, stage, <<i, b>>) # VertexPoint(s)
         /\ OwnPoint(p, stage, i, b)
<1> DEFINE u == <<i, b>>
           number == MetalIndex(LayoutOf(p), u, stage)
           kind == MetalKind(TypeAt(LayoutOf(p), u))
<1>0. /\ kMaxBindingsPerGroup \in Nat /\ kMaxVertexInputs \in Nat
      /\ VertexSlots = 0 .. kMaxVertexInputs - 1
  BY LimitsAssumption DEF VertexSlots
<1>1. \A j \in UsedGroups(p), t \in Stages : \A c \in VisibleTo(t, LayoutOf(p)[j]) :
        /\ <<j, c>> \in PlacesOf(LayoutOf(p))
        /\ t \in Visibility[LayoutOf(p)[j]][c]
  BY PipelineFacts DEF VisibleTo, PlacesOf
<1>2. u \in PlacesOf(LayoutOf(p)) /\ stage \in Visibility[LayoutOf(p)[i]][b]
  BY <1>1
<1>3. TypeAt(LayoutOf(p), u) \in BindingTypes
  BY <1>2, PlacesOfPipeline
<1>4. kind \in {"buffer", "sampler", "texture"}
  BY <1>3 DEF BindingTypes, MetalKind
<1>5. Cardinality(MetalBefore(LayoutOf(p), u, stage)) \in Nat
  <2>1. IsFiniteSet(MetalBefore(LayoutOf(p), u, stage))
    BY PlacesOfPipeline, FS_Subset DEF MetalBefore
  <2>2. QED
    BY <2>1, FS_CardinalityType
<1>6. number = (IF kind = "buffer" THEN 1 ELSE 0) + Cardinality(MetalBefore(LayoutOf(p), u, stage))
  BY DEF MetalIndex, MetalBefore
<1>7. number < kMaxBindingsPerGroup
  BY DEF NumbersFit
<1>8. MslBinding(p, stage, u) = <<stage, kind, number>>
  BY DEF MslBinding
<1>9. ASSUME NEW t \in Stages, NEW j \in UsedGroups(p), NEW c \in VisibleTo(t, LayoutOf(p)[j]),
             MslBinding(p, stage, <<i, b>>) = MslBinding(p, t, <<j, c>>)
      PROVE  t = stage /\ j = i /\ c = b
  <2>1. /\ <<j, c>> \in PlacesOf(LayoutOf(p)) /\ t \in Visibility[LayoutOf(p)[j]][c]
    BY <1>1
  <2>2. /\ t = stage /\ MetalKind(TypeAt(LayoutOf(p), <<j, c>>)) = kind
        /\ MetalIndex(LayoutOf(p), <<j, c>>, stage) = number
    BY <1>9 DEF MslBinding
  <2>3. ~Before(u, <<j, c>>) /\ ~Before(<<j, c>>, u)
    BY <1>2, <2>1, <2>2, MetalNumbersGrow
  <2>4. u \in Nat \X Nat /\ <<j, c>> \in Nat \X Nat
    BY <1>2, <2>1, PlacesOfPipeline
  <2>5. u = <<j, c>>
    BY <2>3, <2>4, PlacesAreOrdered
  <2>6. QED
    BY <2>2, <2>5
<1> HIDE DEF number, kind, u
<1>10. number \in Nat /\ (kind = "buffer" => number > 0)
  BY <1>5, <1>6
<1>11. <<stage, kind, number>> \in MetalPoints
  BY <1>0, <1>4, <1>7, <1>10 DEF MetalPoints
<1>12. \A s \in Stages : <<stage, kind, number>> # PushConstantPoint(s)
  BY <1>10 DEF PushConstantPoint
<1>13. \A s \in VertexSlots : <<stage, kind, number>> # VertexPoint(s)
  BY <1>0, <1>7, <1>10 DEF VertexPoint
<1>14. QED
  BY <1>2, <1>8, <1>9, <1>11, <1>12, <1>13 DEF u, OwnPoint

(* The points of push constants and vertex buffers *)
LEMMA FixedPoints ==
  /\ \A stage \in Stages : PushConstantPoint(stage) \in MetalPoints
  /\ \A s \in VertexSlots : VertexPoint(s) \in MetalPoints
  /\ \A s \in Stages, t \in Stages : PushConstantPoint(s) = PushConstantPoint(t) => s = t
  /\ \A s \in VertexSlots, t \in VertexSlots : VertexPoint(s) = VertexPoint(t) => s = t
  /\ \A s \in Stages, t \in VertexSlots : PushConstantPoint(s) # VertexPoint(t)
<1>1. /\ kMaxBindingsPerGroup \in Nat /\ kMaxBindingsPerGroup > 0 /\ kMaxVertexInputs \in Nat
      /\ VertexSlots = 0 .. kMaxVertexInputs - 1
  BY LimitsAssumption DEF VertexSlots
<1>2. QED
  BY <1>1 DEF PushConstantPoint, VertexPoint, MetalPoints, Stages

(* The places that a bind group sets at a point *)
LEMMA SetAtPoint ==
  ASSUME NumbersFit, RecInv, NEW i \in GroupIndices, NEW g \in Groups, Fits(i, g),
         NEW stage \in StagesOf(pipeline), NEW j \in UsedGroups(pipeline),
         NEW b \in VisibleTo(stage, LayoutOf(pipeline)[j])
  PROVE  SetAt(i, g, MslBinding(pipeline, stage, <<j, b>>)) = IF j = i THEN {b} ELSE {}
<1> DEFINE point == MslBinding(pipeline, stage, <<j, b>>)
<1>1. /\ pipeline \in Pipelines /\ i \in UsedGroups(pipeline)
      /\ LayoutOf(pipeline)[i] = GroupLayout[g]
  BY DEF Fits, RecInv, RecTypeOK
<1>2. stage \in Stages
  BY DEF StagesOf, Stages
<1>3. point[1] = stage
  BY DEF MslBinding
<1>4. ASSUME NEW c
      PROVE  c \in SetAt(i, g, point) <=>
               c \in VisibleTo(stage, LayoutOf(pipeline)[i])
                 /\ point = MslBinding(pipeline, stage, <<i, c>>)
  <2>1. TypeAt(LayoutOf(pipeline), <<i, c>>) = BindingType[GroupLayout[g]][c]
    BY <1>1 DEF TypeAt
  <2>2. MslBinding(pipeline, stage, <<i, c>>) =
          <<stage, MetalKind(BindingType[GroupLayout[g]][c]),
            MetalIndex(LayoutOf(pipeline), <<i, c>>, stage)>>
    BY <2>1 DEF MslBinding
  <2>3. point = <<point[1], point[2], point[3]>>
    BY DEF MslBinding
  <2>4. c \in SetAt(i, g, point) <=>
          /\ c \in VisibleTo(stage, LayoutOf(pipeline)[i])
          /\ point[2] = MetalKind(BindingType[GroupLayout[g]][c])
          /\ point[3] = MetalIndex(LayoutOf(pipeline), <<i, c>>, stage)
    BY <1>1, <1>3 DEF SetAt, VisibleTo
  <2> HIDE DEF point
  <2>5. QED
    BY <2>2, <2>3, <2>4, <1>3
<1>5. ASSUME NEW c \in VisibleTo(stage, LayoutOf(pipeline)[i]),
             point = MslBinding(pipeline, stage, <<i, c>>)
      PROVE  i = j /\ c = b
  <2>1. OwnPoint(pipeline, stage, j, b)
    BY <1>1, <1>2, MetalPointsApart
  <2>2. QED
    BY <2>1, <1>1, <1>2, <1>5 DEF OwnPoint
<1> HIDE DEF point
<1>6. SetAt(i, g, point) = IF j = i THEN {b} ELSE {}
  <2>1. j = i => point = MslBinding(pipeline, stage, <<i, b>>) /\ b \in VisibleTo(stage, LayoutOf(pipeline)[i])
    BY DEF point
  <2>2. QED
    BY <2>1, <1>4, <1>5
<1>7. QED
  BY <1>6 DEF point

(* A bind group sets nothing where push constants and vertex buffers are. *)
LEMMA SetAtNoFixedPoint ==
  ASSUME NumbersFit, RecInv, NEW i \in GroupIndices, NEW g \in Groups, Fits(i, g),
         NEW point,
         \/ \E s \in Stages : point = PushConstantPoint(s)
         \/ \E s \in VertexSlots : point = VertexPoint(s)
  PROVE  SetAt(i, g, point) = {}
<1>1. /\ pipeline \in Pipelines /\ i \in UsedGroups(pipeline)
      /\ LayoutOf(pipeline)[i] = GroupLayout[g]
  BY DEF Fits, RecInv, RecTypeOK
<1>2. point[1] \in Stages /\ point = <<point[1], point[2], point[3]>>
  BY DEF PushConstantPoint, VertexPoint, Stages
<1>3. ASSUME NEW c \in SetAt(i, g, point)
      PROVE  FALSE
  <2>1. /\ c \in VisibleTo(point[1], LayoutOf(pipeline)[i])
        /\ point[2] = MetalKind(BindingType[GroupLayout[g]][c])
        /\ point[3] = MetalIndex(LayoutOf(pipeline), <<i, c>>, point[1])
    BY <1>1 DEF SetAt, VisibleTo
  <2>2. point = MslBinding(pipeline, point[1], <<i, c>>)
    BY <1>1, <1>2, <2>1 DEF MslBinding, TypeAt
  <2>3. QED
    BY <2>1, <2>2, <1>1, <1>2, MetalPointsApart
<1>4. QED
  BY <1>3

(* Setting a bind group keeps the invariant: its bindings go to their own  *)
(* points.                                                                 *)
LEMMA MetalGroupKeeps ==
  ASSUME Careful, NumbersFit, RecInv, MetalInv, NEW i \in GroupIndices, NEW g \in Groups,
         MetalSetBindGroup(i, g)
  PROVE  MetalInv'
<1>1. /\ Fits(i, g) /\ InPass
      /\ current' = current \cup {<<"group", i>>} /\ groups' = [groups EXCEPT ![i] = g]
      /\ UNCHANGED <<pass, pipeline, vertexBuffers, constants, dynamic>>
  BY DEF MetalSetBindGroup, UseBindGroup, SetBindGroup, Keeps
<1>2. /\ DOMAIN native' = {"bound", "dynamic"} /\ native'.dynamic = native.dynamic
      /\ native'.bound = [point \in MetalPoints |->
           IF SetAt(i, g, point) = {} THEN native.bound[point]
           ELSE <<g, CHOOSE b \in SetAt(i, g, point) : TRUE>>]
  BY DEF MetalSetBindGroup, MetalInv
<1>3. \A stage \in Stages : native'.bound[PushConstantPoint(stage)] = constants'[stage]
  BY <1>1, <1>2, FixedPoints, SetAtNoFixedPoint DEF MetalInv
<1>4. \A s \in VertexSlots : native'.bound[VertexPoint(s)] = vertexBuffers'[s]
  BY <1>1, <1>2, FixedPoints, SetAtNoFixedPoint DEF MetalInv
<1>5. ASSUME NEW j \in GroupIndices, <<"group", j>> \in current',
             NEW stage \in StagesOf(pipeline), NEW b \in VisibleTo(stage, LayoutOf(pipeline)[j])
      PROVE  native'.bound[MslBinding(pipeline, stage, <<j, b>>)] = <<groups'[j], b>>
  <2> DEFINE point == MslBinding(pipeline, stage, <<j, b>>)
  <2>1. j \in UsedGroups(pipeline) /\ pipeline \in Pipelines /\ stage \in Stages
    BY <1>1, <1>5 DEF Fits, RecInv, RecTypeOK, CurrentIsSet, StagesOf, Stages
  <2>2. point \in MetalPoints
    BY <2>1, MetalPointsApart
  <2>3. SetAt(i, g, point) = IF j = i THEN {b} ELSE {}
    BY <1>1, <2>1, SetAtPoint
  <2>4. native'.bound[point] = IF SetAt(i, g, point) = {} THEN native.bound[point]
                               ELSE <<g, CHOOSE c \in SetAt(i, g, point) : TRUE>>
    BY <1>2, <2>2
  <2>5. j = i => groups'[j] = g
    BY <1>1 DEF RecInv, RecTypeOK
  <2>6. j # i => groups'[j] = groups[j] /\ <<"group", j>> \in current
    BY <1>1, <1>5 DEF RecInv, RecTypeOK
  <2>7. j # i => native.bound[point] = <<groups[j], b>>
    BY <2>6 DEF MetalInv, GroupIsSet
  <2> HIDE DEF point
  <2>8. native'.bound[point] = <<groups'[j], b>>
    BY <2>3, <2>4, <2>5, <2>6, <2>7
  <2>9. QED
    BY <2>8 DEF point
<1>6. (InPass =>
        /\ \A stage \in Stages : native.bound[PushConstantPoint(stage)] = constants[stage]
        /\ \A s \in VertexSlots : native.bound[VertexPoint(s)] = vertexBuffers[s]
        /\ native.dynamic = dynamic)'
  BY <1>1, <1>2, <1>3, <1>4 DEF MetalInv, InPass
<1>7. (\A j \in GroupIndices : <<"group", j>> \in current => GroupIsSet(j))'
  BY <1>1, <1>5 DEF GroupIsSet
<1>8. QED
  BY <1>2, <1>6, <1>7 DEF MetalInv, GroupIsSet

(* Pipelines whose layouts agree up to a group look for it at the same     *)
(* points.                                                                 *)
LEMMA SamePoints ==
  ASSUME NEW p \in Pipelines, NEW q \in Pipelines, NEW i \in GroupIndices,
         Agree(LayoutOf(p), LayoutOf(q), i), NEW stage, NEW b
  PROVE  MslBinding(p, stage, <<i, b>>) = MslBinding(q, stage, <<i, b>>)
<1> DEFINE u == <<i, b>>
<1>0. i \in Nat /\ u[1] = i
  BY LimitsAssumption DEF GroupIndices
<1>1. TypeAt(LayoutOf(p), u) = TypeAt(LayoutOf(q), u)
  BY <1>0, SamePlaces
<1>2. ASSUME NEW place
      PROVE  place \in MetalBefore(LayoutOf(p), u, stage)
               <=> place \in MetalBefore(LayoutOf(q), u, stage)
  <2>1. CASE place[1] \in 0 .. i
    BY <2>1, <1>1, SamePlaces DEF MetalBefore
  <2>2. CASE place[1] \notin 0 .. i
    <3>1. place \in PlacesOf(LayoutOf(p)) \/ place \in PlacesOf(LayoutOf(q)) => place \in Nat \X Nat
      BY PlacesOfPipeline
    <3>2. place \in Nat \X Nat => ~Before(place, u)
      BY <2>2, <1>0 DEF Before
    <3>3. QED
      BY <3>1, <3>2 DEF MetalBefore
  <2>3. QED
    BY <2>1, <2>2
<1>3. MetalBefore(LayoutOf(p), u, stage) = MetalBefore(LayoutOf(q), u, stage)
  BY <1>2
<1>4. MetalIndex(LayoutOf(p), u, stage) = MetalIndex(LayoutOf(q), u, stage)
  BY <1>1, <1>3 DEF MetalIndex, MetalBefore
<1>5. QED
  BY <1>1, <1>4 DEF MslBinding

(* A change of pipeline leaves current groups where the new one looks.     *)
LEMMA MetalPipelineKeeps ==
  ASSUME RecInv, MetalInv, NEW p \in Pipelines, MetalSetPipeline(p)
  PROVE  MetalInv'
<1>1. /\ pipeline' = p /\ current' = current \cap StaysCurrent(p)
      /\ UNCHANGED <<native, pass, groups, vertexBuffers, constants, dynamic>>
      /\ \/ pass = "compute" /\ p \in ComputePipelines
         \/ pass = "render" /\ p \in RenderPipelines
  BY DEF MetalSetPipeline, UsePipeline, SetPipeline, Keeps
<1>2. ASSUME NEW i \in GroupIndices, <<"group", i>> \in current'
      PROVE  GroupIsSet(i)'
  <2>1. /\ <<"group", i>> \in current /\ pipeline # None
        /\ i \in InheritedGroupsMask(LayoutOf(p), LayoutOf(pipeline))
    BY <1>1, <1>2 DEF StaysCurrent, InheritedGroups
  <2>2. Agree(LayoutOf(p), LayoutOf(pipeline), i) /\ pipeline \in Pipelines
    BY <2>1, InheritedAgree DEF RecInv, RecTypeOK
  <2>3. StagesOf(p) = StagesOf(pipeline)
    BY <1>1, <2>1, PipelinesAssumption DEF RecInv, PassesAreApart, StagesOf
  <2>4. LayoutOf(p)[i] = LayoutOf(pipeline)[i]
    BY <2>2, LimitsAssumption DEF Agree, GroupIndices
  <2>5. \A stage, b : MslBinding(p, stage, <<i, b>>) = MslBinding(pipeline, stage, <<i, b>>)
    BY <2>2, SamePoints
  <2>6. GroupIsSet(i)
    BY <2>1 DEF MetalInv
  <2>7. QED
    BY <1>1, <2>3, <2>4, <2>5, <2>6 DEF GroupIsSet
<1>3. QED
  BY <1>1, <1>2 DEF MetalInv, InPass

(* Vertex buffers and push constants go to their own points. *)
LEMMA MetalInputsKeep ==
  ASSUME NumbersFit, RecInv, MetalInv,
         \/ \E s \in VertexSlots, bufs \in BufferLists : MetalSetVertexBuffers(s, bufs)
         \/ \E stages \in SUBSET Stages, c \in ConstantIndices, n \in 1 .. kMaxPushConstants,
               v \in 0 .. 1 : MetalSetPushConstants(stages, c, n, v)
  PROVE  MetalInv'
<1> USE DEF Keeps
<1>0. \A i \in GroupIndices : <<"group", i>> \in current =>
        \A stage \in StagesOf(pipeline) : \A b \in VisibleTo(stage, LayoutOf(pipeline)[i]) :
          /\ MslBinding(pipeline, stage, <<i, b>>) \in MetalPoints
          /\ \A s \in Stages : MslBinding(pipeline, stage, <<i, b>>) # PushConstantPoint(s)
          /\ \A s \in VertexSlots : MslBinding(pipeline, stage, <<i, b>>) # VertexPoint(s)
  <2> SUFFICES ASSUME NEW i \in GroupIndices, <<"group", i>> \in current,
                      NEW stage \in StagesOf(pipeline),
                      NEW b \in VisibleTo(stage, LayoutOf(pipeline)[i])
               PROVE  /\ MslBinding(pipeline, stage, <<i, b>>) \in MetalPoints
                      /\ \A s \in Stages : MslBinding(pipeline, stage, <<i, b>>) # PushConstantPoint(s)
                      /\ \A s \in VertexSlots : MslBinding(pipeline, stage, <<i, b>>) # VertexPoint(s)
    OBVIOUS
  <2>1. pipeline \in Pipelines /\ i \in UsedGroups(pipeline) /\ stage \in Stages
    BY DEF RecInv, RecTypeOK, PassesAreApart, CurrentIsSet, StagesOf, Stages
  <2>2. QED
    BY <2>1, MetalPointsApart
<1>1. ASSUME NEW start \in VertexSlots, NEW bufs \in BufferLists, MetalSetVertexBuffers(start, bufs)
      PROVE  MetalInv'
  <2>1. /\ pass = "render" /\ UNCHANGED <<pass, pipeline, groups, constants, dynamic>>
        /\ \A k \in DOMAIN bufs : start + k \in VertexSlots
        /\ vertexBuffers' = [s \in VertexSlots |->
             IF s - start \in DOMAIN bufs THEN bufs[s - start] ELSE vertexBuffers[s]]
        /\ current' = current \cup {<<"slot", start + k>> : k \in DOMAIN bufs}
    BY <1>1 DEF MetalSetVertexBuffers, UseVertexBuffers, SetVertexBuffers
  <2>2. PICK n \in 0 .. kMaxVertexInputs : bufs \in [0 .. n - 1 -> Buffers]
    BY DEF BufferLists
  <2>3. /\ DOMAIN native' = {"bound", "dynamic"} /\ native'.dynamic = native.dynamic
        /\ native'.bound = [point \in MetalPoints |->
             IF \E k \in DOMAIN bufs : point = VertexPoint(start + k)
             THEN bufs[CHOOSE k \in DOMAIN bufs : point = VertexPoint(start + k)]
             ELSE native.bound[point]]
    BY <1>1 DEF MetalSetVertexBuffers, MetalInv
  <2>4. \A point \in MetalPoints : (\A s \in VertexSlots : point # VertexPoint(s)) =>
          native'.bound[point] = native.bound[point]
    BY <2>1, <2>3
  <2>5. ASSUME NEW s \in VertexSlots
        PROVE  native'.bound[VertexPoint(s)] = vertexBuffers'[s]
    <3>1. /\ s \in Int /\ start \in Int /\ DOMAIN bufs = 0 .. n - 1 /\ VertexPoint(s) \in MetalPoints
      BY <2>2, FixedPoints, LimitsAssumption DEF VertexSlots
    <3>2. \A k \in DOMAIN bufs : VertexPoint(s) = VertexPoint(start + k) <=> k = s - start
      <4>1. ASSUME NEW k \in DOMAIN bufs, VertexPoint(s) = VertexPoint(start + k)
            PROVE  s = start + k
        BY <4>1, <2>1, FixedPoints
      <4>2. QED
        BY <4>1, <3>1
    <3>3. CASE s - start \in DOMAIN bufs
      <4>1. (CHOOSE k \in DOMAIN bufs : VertexPoint(s) = VertexPoint(start + k)) = s - start
        BY <3>2, <3>3
      <4>2. native'.bound[VertexPoint(s)] = bufs[s - start]
        BY <2>3, <3>1, <3>2, <3>3, <4>1
      <4>3. QED
        BY <4>2, <2>1, <3>3
    <3>4. CASE s - start \notin DOMAIN bufs
      <4>1. native'.bound[VertexPoint(s)] = native.bound[VertexPoint(s)]
        BY <2>3, <3>1, <3>2, <3>4
      <4>2. QED
        BY <4>1, <2>1, <3>4 DEF MetalInv, InPass
    <3>5. QED
      BY <3>3, <3>4
  <2>6. \A stage \in Stages : native'.bound[PushConstantPoint(stage)] = constants'[stage]
    BY <2>1, <2>4, FixedPoints DEF MetalInv, InPass
  <2>7. ASSUME NEW i \in GroupIndices, <<"group", i>> \in current'
        PROVE  GroupIsSet(i)'
    <3>1. <<"group", i>> \in current
      BY <2>1, <2>7
    <3>2. GroupIsSet(i)
      BY <3>1 DEF MetalInv
    <3>3. QED
      BY <3>1, <3>2, <2>1, <2>4, <1>0 DEF GroupIsSet
  <2>8. native'.dynamic = dynamic'
    BY <2>1, <2>3 DEF MetalInv, InPass
  <2>9. QED
    BY <2>3, <2>5, <2>6, <2>7, <2>8 DEF MetalInv
<1>2. ASSUME NEW stages \in SUBSET Stages, NEW c \in ConstantIndices,
             NEW n \in 1 .. kMaxPushConstants, NEW v \in 0 .. 1, MetalSetPushConstants(stages, c, n, v)
      PROVE  MetalInv'
  <2>1. /\ InPass /\ UNCHANGED <<streamVars, dynamic, current>>
        /\ constants' = [s \in Stages |-> [d \in ConstantIndices |->
             IF s \in stages /\ d \in c .. c + n - 1 THEN v ELSE constants[s][d]]]
    BY <1>2 DEF MetalSetPushConstants, UsePushConstants
  <2>2. /\ DOMAIN native' = {"bound", "dynamic"} /\ native'.dynamic = native.dynamic
        /\ native'.bound = [point \in MetalPoints |->
             IF \E s \in stages : point = PushConstantPoint(s) THEN constants'[point[1]]
             ELSE native.bound[point]]
    BY <1>2 DEF MetalSetPushConstants, MetalInv
  <2>3. \A point \in MetalPoints : (\A s \in Stages : point # PushConstantPoint(s)) =>
          native'.bound[point] = native.bound[point]
    BY <2>2
  <2>4. ASSUME NEW s \in Stages
        PROVE  native'.bound[PushConstantPoint(s)] = constants'[s]
    <3>1. PushConstantPoint(s) \in MetalPoints /\ PushConstantPoint(s)[1] = s
      BY FixedPoints DEF PushConstantPoint
    <3>2. CASE s \in stages
      BY <3>1, <3>2, <2>2
    <3>3. CASE s \notin stages
      <4>1. \A t \in stages : PushConstantPoint(s) # PushConstantPoint(t)
        BY <3>3, FixedPoints
      <4>2. native'.bound[PushConstantPoint(s)] = native.bound[PushConstantPoint(s)]
        BY <4>1, <3>1, <2>2
      <4>3. constants'[s] = constants[s]
        BY <2>1, <3>3 DEF RecInv, RecTypeOK
      <4>4. QED
        BY <4>2, <4>3, <2>1 DEF MetalInv
    <3>4. QED
      BY <3>2, <3>3
  <2>5. \A s \in VertexSlots : native'.bound[VertexPoint(s)] = vertexBuffers'[s]
    BY <2>1, <2>3, FixedPoints DEF MetalInv, streamVars
  <2>6. ASSUME NEW i \in GroupIndices, <<"group", i>> \in current'
        PROVE  GroupIsSet(i)'
    <3>1. <<"group", i>> \in current /\ UNCHANGED <<pipeline, groups>>
      BY <2>1, <2>6 DEF streamVars
    <3>2. GroupIsSet(i)
      BY <3>1 DEF MetalInv
    <3>3. QED
      BY <3>1, <3>2, <2>3, <1>0 DEF GroupIsSet
  <2>7. native'.dynamic = dynamic'
    BY <2>1, <2>2 DEF MetalInv
  <2>8. QED
    BY <2>2, <2>4, <2>5, <2>6, <2>7 DEF MetalInv
<1>3. QED
  BY <1>1, <1>2

(* A new encoder has nothing but zeros for push constants. *)
LEMMA MetalStarts ==
  ASSUME native = NewEncoder, current = {}, vertexBuffers = NoVertexBuffers,
         constants = NoConstants, dynamic = DefaultState
  PROVE  MetalInv
<1>1. DOMAIN native = {"bound", "dynamic"} /\ native.dynamic = DefaultState
  BY DEF NewEncoder
<1>2. native.bound = [point \in MetalPoints |->
         IF point[2] = "buffer" /\ point[3] = 0 THEN NoConstants[point[1]] ELSE None]
  BY DEF NewEncoder
<1>3. \A stage \in Stages : native.bound[PushConstantPoint(stage)] = constants[stage]
  <2>1. \A stage \in Stages : /\ PushConstantPoint(stage) \in MetalPoints
                              /\ PushConstantPoint(stage)[1] = stage
                              /\ PushConstantPoint(stage)[2] = "buffer"
                              /\ PushConstantPoint(stage)[3] = 0
    BY FixedPoints DEF PushConstantPoint
  <2>2. QED
    BY <2>1, <1>2
<1>4. \A s \in VertexSlots : native.bound[VertexPoint(s)] = vertexBuffers[s]
  <2>1. \A s \in VertexSlots : VertexPoint(s) \in MetalPoints /\ VertexPoint(s)[3] # 0
    BY FixedPoints, LimitsAssumption DEF VertexPoint, VertexSlots
  <2>2. QED
    BY <2>1, <1>2 DEF NoVertexBuffers
<1>5. QED
  BY <1>1, <1>3, <1>4 DEF MetalInv

(* The other commands keep the invariant. *)
LEMMA MetalOthersKeep ==
  ASSUME RecInv, MetalInv,
         \/ \E kind \in {"compute", "render"} : MetalBegin(kind)
         \/ MetalEnd \/ MetalOperate
         \/ \E b \in Buffers : MetalSetIndexBuffer(b)
         \/ \E v \in 0 .. 1 : MetalSetDynamicState("stencil", v)
         \/ MetalSetDynamicState("scissor", "part")
         \/ UNCHANGED vars
  PROVE  MetalInv'
<1> USE DEF Keeps
<1>1. ASSUME NEW kind \in {"compute", "render"}, MetalBegin(kind)
      PROVE  MetalInv'
  <2>1. /\ native' = NewEncoder /\ current' = {} /\ dynamic' = DefaultState
        /\ constants' = NoConstants /\ vertexBuffers' = NoVertexBuffers
    BY <1>1 DEF MetalBegin, BeginPass, Begin, RecInv, PassesAreApart
  <2>2. (native = NewEncoder /\ current = {} /\ vertexBuffers = NoVertexBuffers
           /\ constants = NoConstants /\ dynamic = DefaultState => MetalInv)'
    BY MetalStarts, PTL
  <2>3. QED
    BY <2>1, <2>2
<1>2. CASE MetalEnd
  <2>1. native' = native /\ current' = {} /\ pass' = "outside"
    BY <1>2 DEF MetalEnd, EndPass, End
  <2>2. QED
    BY <2>1 DEF MetalInv, InPass
<1>3. CASE MetalOperate \/ UNCHANGED vars
  BY <1>3 DEF MetalOperate, Operate, vars, recVars, streamVars, MetalInv, GroupIsSet, InPass
<1>4. ASSUME NEW b \in Buffers, MetalSetIndexBuffer(b)
      PROVE  MetalInv'
  <2>1. /\ current' = current \cup {<<"index">>}
        /\ UNCHANGED <<native, pass, pipeline, groups, vertexBuffers, constants, dynamic>>
    BY <1>4 DEF MetalSetIndexBuffer, UseIndexBuffer, SetIndexBuffer
  <2>2. QED
    BY <2>1 DEF MetalInv, GroupIsSet, InPass
<1>5. ASSUME NEW field \in {"stencil", "scissor"}, NEW v, MetalSetDynamicState(field, v)
      PROVE  MetalInv'
  <2>1. /\ pass = "render" /\ UNCHANGED <<pass, pipeline, groups, vertexBuffers, constants, current>>
        /\ dynamic' = [dynamic EXCEPT ![field] = v]
    BY <1>5 DEF MetalSetDynamicState, UseDynamicState, streamVars
  <2>2. /\ DOMAIN native' = {"bound", "dynamic"} /\ native'.bound = native.bound
        /\ native'.dynamic = [native.dynamic EXCEPT ![field] = v]
    BY <1>5 DEF MetalSetDynamicState, MetalInv
  <2>3. native'.dynamic = dynamic'
    BY <2>1, <2>2 DEF MetalInv, InPass
  <2>4. \A i \in GroupIndices : GroupIsSet(i) => GroupIsSet(i)'
    BY <2>1, <2>2 DEF GroupIsSet
  <2>5. QED
    BY <2>1, <2>2, <2>3, <2>4 DEF MetalInv, InPass
<1>6. QED
  BY <1>1, <1>2, <1>3, <1>4, <1>5

(* The invariant says that draws find what was set. *)
LEMMA MetalInvSuffices ==
  ASSUME RecInv, backend = "metal" => MetalInv
  PROVE  MetalDrawsRight
<1> SUFFICES ASSUME backend = "metal", MetalInv
             PROVE  MetalDrawsRight
  BY DEF MetalDrawsRight
<1>1. ASSUME GroupsReady, NEW stage \in StagesOf(pipeline), NEW place \in ShaderUses[pipeline][stage]
      PROVE  native.bound[MslBinding(pipeline, stage, place)] = Wanted(place)
  <2>1. pipeline \in Pipelines
    BY <1>1 DEF GroupsReady, Ready, RecInv, RecTypeOK
  <2>2. /\ place \in PlacesOf(LayoutOf(pipeline))
        /\ stage \in Visibility[LayoutOf(pipeline)[place[1]]][place[2]]
    BY <2>1, <1>1, ShadersAssumption
  <2>3. /\ place = <<place[1], place[2]>> /\ place[1] \in UsedGroups(pipeline)
        /\ place[2] \in VisibleTo(stage, LayoutOf(pipeline)[place[1]])
    BY <2>1, <2>2, PlaceIs, PipelineFacts DEF VisibleTo
  <2>4. place[1] \in GroupIndices /\ <<"group", place[1]>> \in current
    BY <1>1, <2>1, <2>3, PipelineFacts DEF GroupsReady
  <2>5. GroupIsSet(place[1])
    BY <2>4 DEF MetalInv
  <2>6. QED
    BY <2>3, <2>5, <1>1 DEF GroupIsSet, Wanted
<1>2. Ready => \A stage \in StagesOf(pipeline) :
        native.bound[PushConstantPoint(stage)] = constants[stage]
  BY DEF Ready, MetalInv, StagesOf, Stages
<1>3. SlotsReady => \A s \in Inputs[pipeline] : native.bound[VertexPoint(s)] = vertexBuffers[s]
  <2> SUFFICES ASSUME SlotsReady, NEW s \in Inputs[pipeline]
               PROVE  native.bound[VertexPoint(s)] = vertexBuffers[s]
    OBVIOUS
  <2>1. pipeline \in RenderPipelines /\ InPass
    BY DEF SlotsReady, Ready, RecInv, PassesAreApart, InPass
  <2>2. s \in VertexSlots
    BY <2>1, PipelinesAssumption
  <2>3. QED
    BY <2>1, <2>2 DEF MetalInv
<1>4. pass = "render" => native.dynamic = dynamic
  BY DEF MetalInv, InPass
<1>5. QED
  BY <1>1, <1>2, <1>3, <1>4 DEF MetalDrawsRight

(* On Metal, draws find in the argument tables of each stage the bind      *)
(* groups of their pipeline, the push constants and the vertex buffers of  *)
(* the pass, as long as a layout leaves the numbers of vertex buffers free *)
(* and bind groups are set after a pipeline whose layout they fit          *)
(* (CommandBufferMTL.mm, PipelineLayoutMTL.mm).                            *)
THEOREM MetalReplayRight == Careful /\ NumbersFit => (ReplaySpec => []MetalDrawsRight)
<1> SUFFICES ASSUME Careful, NumbersFit PROVE ReplaySpec => []MetalDrawsRight
  OBVIOUS
<1> DEFINE Ind == RecInv /\ (backend = "metal" => MetalInv)
<1>1. ReplayInit => Ind
  <2> SUFFICES ASSUME ReplayInit PROVE Ind
    OBVIOUS
  <2>1. RecInv
    BY ListStarts DEF ReplayInit
  <2>2. backend = "metal" =>
          /\ native = NewEncoder /\ current = {} /\ vertexBuffers = NoVertexBuffers
          /\ constants = NoConstants /\ dynamic = DefaultState
    BY DEF ReplayInit, RecInit, Init, MetalStart
  <2>3. QED
    BY <2>1, <2>2, MetalStarts
<1>2. Ind /\ [ReplayNext]_vars => Ind'
  <2> SUFFICES ASSUME Ind, [ReplayNext]_vars PROVE Ind'
    OBVIOUS
  <2>1. RecInv' /\ backend' = backend
    BY StepTakesCommand, ListStep, BackendStays
  <2>2. ASSUME backend = "metal", MetalInv
        PROVE  MetalInv'
    <3>1. MetalNext \/ UNCHANGED vars
      BY <2>2 DEF ReplayNext
    <3>2. QED
      BY <2>2, <3>1, MetalGroupKeeps, MetalPipelineKeeps, MetalInputsKeep, MetalOthersKeep
         DEF MetalNext
  <2>3. QED
    BY <2>1, <2>2
<1>3. Ind => MetalDrawsRight
  BY MetalInvSuffices
<1>4. QED
  BY <1>1, <1>2, <1>3, PTL DEF ReplaySpec

-----------------------------------------------------------------------------
(* OpenGL: the points of places *)

(* Buffers of a type have numbers that grow from place to place. *)
LEMMA BindingNumbersGrow ==
  ASSUME NEW p \in Pipelines,
         NEW u \in PlacesOf(LayoutOf(p)), NEW v \in PlacesOf(LayoutOf(p)),
         TypeAt(LayoutOf(p), u) = TypeAt(LayoutOf(p), v), Before(u, v)
  PROVE  BindingIndexInfo(LayoutOf(p), u) # BindingIndexInfo(LayoutOf(p), v)
<1> DEFINE places(w) == {q \in PlacesOf(LayoutOf(p)) :
             Before(q, w) /\ TypeAt(LayoutOf(p), q) = TypeAt(LayoutOf(p), w)}
           A == places(u)
           B == places(v)
<1>1. /\ PlacesOf(LayoutOf(p)) \subseteq Nat \X Nat
      /\ IsFiniteSet(PlacesOf(LayoutOf(p)))
  BY PlacesOfPipeline
<1>2. IsFiniteSet(B)
  BY <1>1, FS_Subset
<1>3. A \in SUBSET B /\ u \in B /\ u \notin A
  BY <1>1, PlacesAreOrdered
<1>4. /\ BindingIndexInfo(LayoutOf(p), u) = Cardinality(A)
      /\ BindingIndexInfo(LayoutOf(p), v) = Cardinality(B)
  BY DEF BindingIndexInfo
<1> HIDE DEF A, B
<1>5. Cardinality(A) \in Nat /\ Cardinality(B) \in Nat /\ Cardinality(A) < Cardinality(B)
  BY <1>2, <1>3, CountGrows
<1>6. QED
  BY <1>4, <1>5

(* Combined samplers are ordered by their places. *)
CombinedBefore(d, c) ==
  \/ Before(d.sampler, c.sampler)
  \/ d.sampler = c.sampler /\ Before(d.texture, c.texture)

(* Each combined sampler of a pipeline has a unit of its own. *)
LEMMA UnitsDiffer ==
  ASSUME NEW p \in Pipelines, NEW c \in Combined[p], NEW d \in Combined[p], c # d
  PROVE  Unit(p, c) # Unit(p, d)
<1>1. /\ IsFiniteSet(Combined[p])
      /\ \A e \in Combined[p] : e \in [sampler : Nat \X Nat, texture : Nat \X Nat]
  <2>1. PlacesOf(LayoutOf(p)) \subseteq Nat \X Nat
    BY PlacesOfPipeline
  <2>2. QED
    BY <2>1, CombinedAssumption
<1>2. \A e \in Combined[p] : ~CombinedBefore(e, e)
  BY <1>1, PlacesAreOrdered DEF CombinedBefore
<1>3. \A e \in Combined[p], f \in Combined[p] : e # f => CombinedBefore(e, f) \/ CombinedBefore(f, e)
  <2> SUFFICES ASSUME NEW e \in Combined[p], NEW f \in Combined[p], e # f
               PROVE  CombinedBefore(e, f) \/ CombinedBefore(f, e)
    OBVIOUS
  <2>1. /\ e.sampler \in Nat \X Nat /\ f.sampler \in Nat \X Nat
        /\ e.texture \in Nat \X Nat /\ f.texture \in Nat \X Nat
    BY <1>1
  <2>2. e.sampler # f.sampler \/ e.texture # f.texture
    BY <1>1
  <2>3. QED
    BY <2>1, <2>2, PlacesAreOrdered DEF CombinedBefore
<1>4. \A e \in Combined[p], f \in Combined[p], h \in Combined[p] :
        CombinedBefore(e, f) /\ CombinedBefore(f, h) => CombinedBefore(e, h)
  <2> SUFFICES ASSUME NEW e \in Combined[p], NEW f \in Combined[p], NEW h \in Combined[p],
                      CombinedBefore(e, f), CombinedBefore(f, h)
               PROVE  CombinedBefore(e, h)
    OBVIOUS
  <2>1. /\ e.sampler \in Nat \X Nat /\ f.sampler \in Nat \X Nat /\ h.sampler \in Nat \X Nat
        /\ e.texture \in Nat \X Nat /\ f.texture \in Nat \X Nat /\ h.texture \in Nat \X Nat
    BY <1>1
  <2>2. QED
    BY <2>1, PlacesAreOrdered DEF CombinedBefore
<1> DEFINE below(e) == {f \in Combined[p] : CombinedBefore(f, e)}
<1>5. \A e : Unit(p, e) = Cardinality(below(e))
  BY DEF Unit, CombinedBefore
<1>6. ASSUME NEW e \in Combined[p], NEW f \in Combined[p], CombinedBefore(e, f)
      PROVE  Unit(p, e) # Unit(p, f)
  <2> DEFINE A == below(e)
             B == below(f)
  <2>1. IsFiniteSet(B)
    BY <1>1, FS_Subset
  <2>2. A \in SUBSET B /\ e \in B /\ e \notin A
    BY <1>2, <1>4, <1>6
  <2>3. Unit(p, e) = Cardinality(A) /\ Unit(p, f) = Cardinality(B)
    BY <1>5
  <2> HIDE DEF A, B
  <2>4. Cardinality(A) \in Nat /\ Cardinality(B) \in Nat /\ Cardinality(A) < Cardinality(B)
    BY <2>1, <2>2, CountGrows
  <2>5. QED
    BY <2>3, <2>4
<1>7. QED
  BY <1>3, <1>6

(* No two places of a pipeline share a point. *)
LEMMA GlPointsApart ==
  ASSUME NEW p \in Pipelines,
         NEW u \in PlacesOf(LayoutOf(p)), NEW v \in PlacesOf(LayoutOf(p)), u # v,
         NEW point \in PointsOf(p, u)
  PROVE  point \notin PointsOf(p, v)
<1> DEFINE tu == TypeAt(LayoutOf(p), u)
           tv == TypeAt(LayoutOf(p), v)
<1>1. tu \in BindingTypes /\ tv \in BindingTypes
  BY PlacesOfPipeline
<1>2. \A w \in PlacesOf(LayoutOf(p)) : \A q \in PointsOf(p, w) : q[1] = TypeAt(LayoutOf(p), w)
  <2> SUFFICES ASSUME NEW w \in PlacesOf(LayoutOf(p)), NEW q \in PointsOf(p, w)
               PROVE  q[1] = TypeAt(LayoutOf(p), w)
    OBVIOUS
  <2>1. TypeAt(LayoutOf(p), w) \in BindingTypes
    BY PlacesOfPipeline
  <2>2. QED
    BY <2>1 DEF PointsOf, BindingTypes, GlBufferTypes
<1>3. SUFFICES ASSUME tu = tv, point \in PointsOf(p, v)
               PROVE  FALSE
  BY <1>2
<1>4. CASE tu \in GlBufferTypes
  <2>1. /\ point = <<tu, BindingIndexInfo(LayoutOf(p), u)>>
        /\ point = <<tv, BindingIndexInfo(LayoutOf(p), v)>>
    <3>1. \A w \in PlacesOf(LayoutOf(p)) : TypeAt(LayoutOf(p), w) \in GlBufferTypes =>
            PointsOf(p, w) = {<<TypeAt(LayoutOf(p), w), BindingIndexInfo(LayoutOf(p), w)>>}
      BY DEF PointsOf, GlBufferTypes
    <3>2. QED
      BY <3>1, <1>3, <1>4
  <2>2. Before(u, v) \/ Before(v, u)
    BY PlacesOfPipeline, PlacesAreOrdered
  <2>3. BindingIndexInfo(LayoutOf(p), u) # BindingIndexInfo(LayoutOf(p), v)
    BY <2>2, <1>3, BindingNumbersGrow
  <2>4. QED
    BY <2>1, <2>3
<1>5. CASE tu = "Sampler"
  <2>1. PICK c \in Combined[p] : c.sampler = u /\ point = <<tu, Unit(p, c)>>
    BY <1>5 DEF PointsOf, GlBufferTypes
  <2>2. PICK d \in Combined[p] : d.sampler = v /\ point = <<tu, Unit(p, d)>>
    BY <1>3, <1>5 DEF PointsOf, GlBufferTypes
  <2>3. QED
    BY <2>1, <2>2, UnitsDiffer
<1>6. CASE tu = "SampledTexture"
  <2>1. PICK c \in Combined[p] : c.texture = u /\ point = <<tu, Unit(p, c)>>
    BY <1>6 DEF PointsOf, GlBufferTypes
  <2>2. PICK d \in Combined[p] : d.texture = v /\ point = <<tu, Unit(p, d)>>
    BY <1>3, <1>6 DEF PointsOf, GlBufferTypes
  <2>3. QED
    BY <2>1, <2>2, UnitsDiffer
<1>7. QED
  BY <1>1, <1>4, <1>5, <1>6 DEF BindingTypes, GlBufferTypes

(* A bind group is bound at the points of its own bindings only. *)
LEMMA BoundByItsBinding ==
  ASSUME RecInv, NEW i \in GroupIndices, NEW g \in Groups, Fits(i, g),
         NEW j \in UsedGroups(pipeline), NEW b \in DOMAIN BindingType[LayoutOf(pipeline)[j]],
         NEW point \in PointsOf(pipeline, <<j, b>>)
  PROVE  BoundBy(i, g, point) = IF j = i THEN {b} ELSE {}
<1>1. /\ pipeline \in Pipelines /\ i \in UsedGroups(pipeline)
      /\ LayoutOf(pipeline)[i] = GroupLayout[g]
  BY DEF Fits, RecInv, RecTypeOK
<1>2. \A k \in UsedGroups(pipeline) : \A c \in DOMAIN BindingType[LayoutOf(pipeline)[k]] :
        <<k, c>> \in PlacesOf(LayoutOf(pipeline))
  BY <1>1, PipelineFacts DEF PlacesOf
<1>3. ASSUME NEW c \in DOMAIN BindingType[LayoutOf(pipeline)[i]], point \in PointsOf(pipeline, <<i, c>>)
      PROVE  i = j /\ c = b
  <2>1. <<i, c>> = <<j, b>>
    BY <1>1, <1>2, <1>3, GlPointsApart
  <2>2. QED
    BY <2>1
<1>4. QED
  BY <1>1, <1>3 DEF BoundBy

-----------------------------------------------------------------------------
(* OpenGL: context and trackers *)

(* The members of the state of the context and the trackers of a pass *)
GlMembers ==
  {"mDirtyBits", "mIndexBufferDirty", "mDirtyVertexBuffers", "mLastInputState", "mStencilFunc",
   "bound", "uniforms", "attributes", "elements", "stencil", "scissor", "fullMasks",
   "partialClear"}
LEMMA GlDomain == DOMAIN GlStart = GlMembers
  BY DEF GlStart, GlLocals, GlState, GlMembers, GlEnter

(* A pass has trackers of its own and finds the context as it is. *)
LEMMA NewTrackers ==
  ASSUME NEW context, DOMAIN context = GlMembers
  PROVE  /\ DOMAIN GlEnter(context) = GlMembers
         /\ GlEnter(context).mDirtyBits = [s \in Stages |-> {}]
         /\ GlEnter(context).mIndexBufferDirty = FALSE
         /\ GlEnter(context).mStencilFunc = "always"
         /\ GlEnter(context).mLastInputState = None
         /\ GlEnter(context).uniforms = context.uniforms
         /\ GlEnter(context).attributes = context.attributes
         /\ GlEnter(context).elements = context.elements
         /\ GlEnter(context).stencil = context.stencil
         /\ GlEnter(context).scissor = context.scissor
         /\ GlEnter(context).partialClear = context.partialClear
  BY DEF GlLocals, GlMembers, GlEnter

(* The masks of push constants have constants that exist. *)
LEMMA MaskType ==
  ASSUME NEW p \in Pipelines
  PROVE  Mask(p) \in [Stages -> SUBSET ConstantIndices]
<1>1. \A s \in StagesOf(p) : \A variable \in PushConstants[p][s] : variable[1] \in ConstantIndices
  BY ShadersAssumption
<1>2. QED
  BY <1>1 DEF Mask

(* What a step that leaves a part of the state alone keeps *)
LEMMA UnitsFrame ==
  ASSUME UnitsHold, native'.bound = native.bound, UNCHANGED <<pipeline, groups>>,
         \A i \in GroupIndices : <<"group", i>> \in current' => <<"group", i>> \in current
  PROVE  UnitsHold'
  BY DEF UnitsHold
LEMMA ConstantsFrame ==
  ASSUME ConstantsHold, native'.mDirtyBits = native.mDirtyBits,
         native'.uniforms = native.uniforms, UNCHANGED <<pass, pipeline, constants>>
  PROVE  ConstantsHold'
  BY DEF ConstantsHold, Ready, InPass
LEMMA InputsFrame ==
  ASSUME InputsHold, native'.mLastInputState = native.mLastInputState,
         native'.mDirtyVertexBuffers = native.mDirtyVertexBuffers,
         native'.attributes = native.attributes,
         native'.mIndexBufferDirty = native.mIndexBufferDirty,
         native'.elements = native.elements,
         UNCHANGED <<pass, pipeline, vertexBuffers, indexBuffer>>,
         \A s : <<"slot", s>> \in current' => <<"slot", s>> \in current,
         <<"index">> \in current' => <<"index">> \in current
  PROVE  InputsHold'
  BY DEF InputsHold
LEMMA FixedFrame ==
  ASSUME FixedHold, native'.stencil = native.stencil, native'.scissor = native.scissor,
         native'.mStencilFunc = native.mStencilFunc, UNCHANGED <<pass, pipeline, dynamic>>
  PROVE  FixedHold'
  BY DEF FixedHold

(* The context of a new device fits the defaults. *)
LEMMA GlStarts ==
  ASSUME native = GlStart, current = {}, pipeline = None, pass = "outside"
  PROVE  GlInv
<1>1. /\ native.mDirtyBits = [s \in Stages |-> {}] /\ native.mIndexBufferDirty = FALSE
      /\ native.uniforms = [p \in Pipelines |-> NoConstants]
      /\ native.attributes = [is \in InputStates |-> [s \in VertexSlots |-> None]]
      /\ native.elements = [is \in InputStates |-> None]
      /\ native.partialClear = FALSE
  BY DEF GlStart, GlLocals, GlState, GlEnter
<1>2. NoConstants \in [Stages -> [ConstantIndices -> 0 .. 1]]
  BY DEF NoConstants
<1>3. GlTypeOK
  BY <1>1, <1>2 DEF GlTypeOK
<1>4. UnitsHold /\ ConstantsHold /\ InputsHold /\ FixedHold
  BY DEF UnitsHold, ConstantsHold, InputsHold, FixedHold, Ready, InPass
<1>5. QED
  BY <1>1, <1>3, <1>4 DEF GlInv

(* Clears at the start of a pass are not cut. *)
LEMMA GlPassKeeps ==
  ASSUME Careful, RecInv, GlInv, GlEnd \/ \E kind \in {"compute", "render"} : GlBegin(kind)
  PROVE  GlInv'
<1> USE DEF Keeps
<1>0. DOMAIN native = GlMembers
  BY GlDomain DEF GlInv, GlTypeOK
<1>1. CASE GlEnd
  <2>1. native' = native /\ current' = {} /\ pass' = "outside" /\ pipeline' = None
    BY <1>1 DEF GlEnd, EndPass, End
  <2>2. GlTypeOK' /\ ~native'.partialClear
    BY <2>1 DEF GlInv, GlTypeOK, GlStart, GlState, GlLocals
  <2>3. UnitsHold' /\ ConstantsHold' /\ InputsHold' /\ FixedHold'
    BY <2>1 DEF UnitsHold, ConstantsHold, InputsHold, FixedHold, Ready, InPass
  <2>4. QED
    BY <2>2, <2>3 DEF GlInv
<1>2. ASSUME NEW kind \in {"compute", "render"}, GlBegin(kind)
      PROVE  GlInv'
  <2>1. /\ current' = {} /\ dynamic' = DefaultState /\ pipeline' = None /\ pass' = kind
    BY <1>2 DEF GlBegin, BeginPass, Begin, RecInv, PassesAreApart
  <2> DEFINE context ==
        IF kind = "compute" THEN native
        ELSE [native EXCEPT !.stencil = <<"always", 0>>, !.scissor = "full",
                            !.partialClear = @ \/ ~ClearsFully]
  <2>2. native' = GlEnter(context)
    BY <1>2 DEF GlBegin
  <2>3. /\ DOMAIN context = GlMembers
        /\ context.uniforms = native.uniforms /\ context.attributes = native.attributes
        /\ context.elements = native.elements
        /\ kind = "render" => context.stencil = <<"always", 0>> /\ context.scissor = "full"
    BY <1>0 DEF GlMembers
  <2>4. ~context.partialClear
    <3>1. kind = "render" => ClearsFully
      BY <1>2 DEF GlBegin
    <3>2. QED
      BY <3>1, <1>0 DEF GlInv, GlMembers
  <2> HIDE DEF context
  <2>5. /\ DOMAIN native' = GlMembers
        /\ native'.mDirtyBits = [s \in Stages |-> {}]
        /\ native'.mIndexBufferDirty = FALSE
        /\ native'.mStencilFunc = "always" /\ native'.mLastInputState = None
        /\ native'.uniforms = context.uniforms
        /\ native'.attributes = context.attributes
        /\ native'.elements = context.elements
        /\ native'.stencil = context.stencil
        /\ native'.scissor = context.scissor
        /\ native'.partialClear = context.partialClear
    BY <2>2, <2>3, NewTrackers
  <2>6. GlTypeOK'
    BY <2>3, <2>5, GlDomain DEF GlInv, GlTypeOK
  <2>7. FixedHold'
    BY <2>1, <2>3, <2>5 DEF FixedHold, DefaultState
  <2>8. UnitsHold' /\ ConstantsHold' /\ InputsHold'
    BY <2>1, <2>5 DEF UnitsHold, ConstantsHold, InputsHold, Ready
  <2>9. QED
    BY <2>4, <2>5, <2>6, <2>7, <2>8 DEF GlInv
<1>3. QED
  BY <1>1, <1>2

(* A change of pipeline makes dirty what may have to be told again. *)
LEMMA GlPipelineKeeps ==
  ASSUME Careful, RecInv, GlInv, NEW p \in Pipelines, GlSetPipeline(p)
  PROVE  GlInv'
<1> USE DEF Keeps
<1>0. DOMAIN native = GlMembers
  BY GlDomain DEF GlInv, GlTypeOK
<1>1. /\ pipeline' = p /\ current' = current \cap StaysCurrent(p)
      /\ UNCHANGED <<pass, groups, vertexBuffers, indexBuffer, constants, dynamic>>
      /\ \/ pass = "compute" /\ p \in ComputePipelines
         \/ pass = "render" /\ p \in RenderPipelines /\ p \notin ComputePipelines
  BY PipelinesAssumption DEF GlSetPipeline, UsePipeline, SetPipeline
<1>2. p # None /\ Mask(p) \in [Stages -> SUBSET ConstantIndices]
  BY PipelineFacts, MaskType
<1>3. /\ DOMAIN native' = GlMembers /\ native'.mDirtyBits = Mask(p)
      /\ native'.bound = native.bound /\ native'.uniforms = native.uniforms
      /\ native'.attributes = native.attributes /\ native'.elements = native.elements
      /\ native'.scissor = native.scissor /\ native'.partialClear = native.partialClear
      /\ p \in ComputePipelines => native'.mIndexBufferDirty = native.mIndexBufferDirty
      /\ p \notin ComputePipelines =>
           /\ native'.mLastInputState = InputState[p]
           /\ native'.mDirtyVertexBuffers = OnSetPipelineVertices(p)
           /\ native'.mIndexBufferDirty =
                (native.mIndexBufferDirty \/ native.mLastInputState # InputState[p])
           /\ native'.mStencilFunc = StencilFunc[p]
           /\ native'.stencil = IF native.mStencilFunc = StencilFunc[p] THEN native.stencil
                                ELSE <<StencilFunc[p], dynamic.stencil>>
  BY <1>0 DEF GlSetPipeline, GlMembers
<1>4. GlTypeOK'
  BY <1>1, <1>2, <1>3, GlDomain DEF GlInv, GlTypeOK
<1>5. UnitsHold'
  <2> SUFFICES ASSUME NEW i \in GroupIndices, <<"group", i>> \in current'
               PROVE  \A b \in DOMAIN BindingType[LayoutOf(p)[i]] :
                        \A point \in PointsOf(p, <<i, b>>) : native'.bound[point] = <<groups'[i], b>>
    BY <1>1 DEF UnitsHold
  <2>1. /\ <<"group", i>> \in current /\ pipeline # None
        /\ i \in InheritedGroupsMask(LayoutOf(p), LayoutOf(pipeline))
    BY <1>1 DEF StaysCurrent, InheritedGroups
  <2>2. LayoutOf(p)[i] = LayoutOf(pipeline)[i]
    BY <2>1, InheritedAgree, LimitsAssumption DEF Agree, GroupIndices
  <2>3. \A b \in DOMAIN BindingType[LayoutOf(p)[i]] : PointsOf(p, <<i, b>>) = PointsOf(pipeline, <<i, b>>)
    BY <2>1 DEF GlSetPipeline, UsesSameUnits
  <2>4. QED
    BY <2>1, <2>2, <2>3, <1>1, <1>3 DEF GlInv, UnitsHold
<1>6. ConstantsHold'
  BY <1>1, <1>3 DEF ConstantsHold
<1>7. InputsHold'
  <2> SUFFICES ASSUME pass = "render"
               PROVE  /\ native'.mLastInputState = InputState[p]
                      /\ \A s \in Inputs[p] : <<"slot", s>> \in current' =>
                           \/ s \in native'.mDirtyVertexBuffers
                           \/ native'.attributes[InputState[p]][s] = vertexBuffers[s]
                      /\ <<"index">> \in current' =>
                           native'.mIndexBufferDirty \/ native'.elements[InputState[p]] = indexBuffer
    BY <1>1, <1>2 DEF InputsHold
  <2>1. p \in RenderPipelines /\ p \notin ComputePipelines
    BY <1>1
  <2>2. current' \subseteq current
    BY <1>1
  <2>3. pipeline \in RenderPipelines \cup {None}
    BY DEF RecInv, PassesAreApart
  <2>4. native.mLastInputState = IF pipeline = None THEN None ELSE InputState[pipeline]
    BY DEF GlInv, InputsHold
  <2>5. CASE native.mLastInputState = InputState[p]
    <3>1. native'.mDirtyVertexBuffers = native.mDirtyVertexBuffers
      BY <1>3, <2>1, <2>5 DEF OnSetPipelineVertices
    <3>2. pipeline # None /\ InputState[pipeline] = InputState[p]
      BY <2>1, <2>4, <2>5, PipelinesAssumption
    <3>3. Inputs[pipeline] = Inputs[p]
      BY <2>1, <2>3, <3>2, PipelinesAssumption
    <3>4. /\ \A s \in Inputs[p] : <<"slot", s>> \in current =>
               \/ s \in native.mDirtyVertexBuffers
               \/ native.attributes[InputState[p]][s] = vertexBuffers[s]
          /\ <<"index">> \in current =>
               native.mIndexBufferDirty \/ native.elements[InputState[p]] = indexBuffer
      BY <3>2, <3>3 DEF GlInv, InputsHold
    <3>5. native'.mIndexBufferDirty = native.mIndexBufferDirty
      BY <1>3, <2>1, <2>5 DEF GlInv, GlTypeOK
    <3>6. QED
      BY <3>1, <3>4, <3>5, <2>1, <2>2, <1>3
  <2>6. CASE native.mLastInputState # InputState[p]
    <3>1. native'.mDirtyVertexBuffers = native.mDirtyVertexBuffers \cup Inputs[p]
      BY <1>3, <2>1, <2>6 DEF OnSetPipelineVertices
    <3>2. QED
      BY <3>1, <2>1, <2>6, <1>3
  <2>7. QED
    BY <2>5, <2>6
<1>8. FixedHold'
  BY <1>1, <1>3 DEF GlInv, FixedHold
<1>9. QED
  BY <1>3, <1>4, <1>5, <1>6, <1>7, <1>8 DEF GlInv

(* A bind group goes to the units of its bindings and to no others. *)
LEMMA GlGroupKeeps ==
  ASSUME Careful, UnitsFit, RecInv, GlInv, NEW i \in GroupIndices, NEW g \in Groups,
         GlSetBindGroup(i, g)
  PROVE  GlInv'
<1> USE DEF Keeps
<1>0. DOMAIN native = GlMembers
  BY GlDomain DEF GlInv, GlTypeOK
<1>1. /\ Fits(i, g) /\ groups' = [groups EXCEPT ![i] = g]
      /\ current' = current \cup {<<"group", i>>}
      /\ UNCHANGED <<pass, pipeline, vertexBuffers, indexBuffer, constants, dynamic>>
  BY DEF GlSetBindGroup, UseBindGroup, SetBindGroup
<1>2. /\ DOMAIN native' = GlMembers
      /\ \A member \in GlMembers \ {"bound"} : native'[member] = native[member]
      /\ native'.bound = [point \in GlPoints |->
           IF BoundBy(i, g, point) = {} THEN native.bound[point]
           ELSE <<g, CHOOSE b \in BoundBy(i, g, point) : TRUE>>]
  BY <1>0 DEF GlSetBindGroup, GlMembers
<1>3. /\ native'.mDirtyBits = native.mDirtyBits /\ native'.uniforms = native.uniforms
      /\ native'.mIndexBufferDirty = native.mIndexBufferDirty
      /\ native'.mDirtyVertexBuffers = native.mDirtyVertexBuffers
      /\ native'.mLastInputState = native.mLastInputState
      /\ native'.mStencilFunc = native.mStencilFunc
      /\ native'.attributes = native.attributes /\ native'.elements = native.elements
      /\ native'.stencil = native.stencil /\ native'.scissor = native.scissor
      /\ native'.partialClear = native.partialClear
  BY <1>2 DEF GlMembers
<1>4. GlTypeOK'
  BY <1>2, <1>3, GlDomain DEF GlInv, GlTypeOK
<1>5. ConstantsHold' /\ InputsHold' /\ FixedHold'
  BY <1>1, <1>3, ConstantsFrame, InputsFrame, FixedFrame DEF GlInv
<1>6. ASSUME NEW j \in GroupIndices, <<"group", j>> \in current',
             NEW b \in DOMAIN BindingType[LayoutOf(pipeline)[j]],
             NEW point \in PointsOf(pipeline, <<j, b>>)
      PROVE  native'.bound[point] = <<groups'[j], b>>
  <2>1. j \in UsedGroups(pipeline) /\ pipeline \in Pipelines
    BY <1>1, <1>6 DEF Fits, RecInv, RecTypeOK, CurrentIsSet
  <2>2. point \in GlPoints
    <3>1. <<j, b>> \in PlacesOf(LayoutOf(pipeline))
      BY <2>1, PipelineFacts DEF PlacesOf
    <3>2. QED
      BY <3>1, <2>1 DEF UnitsFit
  <2>3. BoundBy(i, g, point) = IF j = i THEN {b} ELSE {}
    BY <1>1, <2>1, BoundByItsBinding
  <2>4. native'.bound[point] = IF BoundBy(i, g, point) = {} THEN native.bound[point]
                               ELSE <<g, CHOOSE c \in BoundBy(i, g, point) : TRUE>>
    BY <1>2, <2>2
  <2>5. j = i => groups'[j] = g
    BY <1>1 DEF RecInv, RecTypeOK
  <2>6. j # i => groups'[j] = groups[j] /\ <<"group", j>> \in current
    BY <1>1, <1>6 DEF RecInv, RecTypeOK
  <2>7. j # i => native.bound[point] = <<groups[j], b>>
    BY <2>6 DEF GlInv, UnitsHold
  <2>8. QED
    BY <2>3, <2>4, <2>5, <2>6, <2>7
<1>7. UnitsHold'
  BY <1>1, <1>6 DEF UnitsHold
<1>8. QED
  BY <1>3, <1>4, <1>5, <1>7 DEF GlInv

(* Buffers that are set are dirty until a draw. *)
LEMMA GlBuffersKeep ==
  ASSUME RecInv, GlInv,
         \/ \E b \in Buffers : GlSetIndexBuffer(b)
         \/ \E s \in VertexSlots, bufs \in BufferLists : GlSetVertexBuffers(s, bufs)
  PROVE  GlInv'
<1> USE DEF Keeps
<1>0. DOMAIN native = GlMembers
  BY GlDomain DEF GlInv, GlTypeOK
<1>1. ASSUME NEW b \in Buffers, GlSetIndexBuffer(b)
      PROVE  GlInv'
  <2>1. /\ current' = current \cup {<<"index">>}
        /\ UNCHANGED <<pass, pipeline, groups, vertexBuffers, constants, dynamic>>
    BY <1>1 DEF GlSetIndexBuffer, UseIndexBuffer, SetIndexBuffer
  <2>2. /\ DOMAIN native' = GlMembers /\ native'.mIndexBufferDirty = TRUE
        /\ native'.mDirtyBits = native.mDirtyBits /\ native'.uniforms = native.uniforms
        /\ native'.mDirtyVertexBuffers = native.mDirtyVertexBuffers
        /\ native'.mLastInputState = native.mLastInputState
        /\ native'.mStencilFunc = native.mStencilFunc /\ native'.bound = native.bound
        /\ native'.attributes = native.attributes /\ native'.elements = native.elements
        /\ native'.stencil = native.stencil /\ native'.scissor = native.scissor
        /\ native'.partialClear = native.partialClear
    BY <1>0, <1>1 DEF GlSetIndexBuffer, GlMembers
  <2>3. GlTypeOK'
    BY <2>2, GlDomain DEF GlInv, GlTypeOK
  <2>4. UnitsHold' /\ ConstantsHold' /\ FixedHold'
    BY <2>1, <2>2, UnitsFrame, ConstantsFrame, FixedFrame DEF GlInv
  <2>5. InputsHold'
    <3>1. \A s : <<"slot", s>> \in current' => <<"slot", s>> \in current
      BY <2>1
    <3>2. QED
      BY <3>1, <2>1, <2>2 DEF GlInv, InputsHold
  <2>6. QED
    BY <2>2, <2>3, <2>4, <2>5 DEF GlInv
<1>2. ASSUME NEW start \in VertexSlots, NEW bufs \in BufferLists, GlSetVertexBuffers(start, bufs)
      PROVE  GlInv'
  <2>1. /\ UNCHANGED <<pass, pipeline, groups, indexBuffer, constants, dynamic>>
        /\ vertexBuffers' = [s \in VertexSlots |->
             IF s - start \in DOMAIN bufs THEN bufs[s - start] ELSE vertexBuffers[s]]
        /\ current' = current \cup {<<"slot", start + k>> : k \in DOMAIN bufs}
    BY <1>2 DEF GlSetVertexBuffers, UseVertexBuffers, SetVertexBuffers
  <2>2. /\ DOMAIN native' = GlMembers
        /\ native'.mDirtyVertexBuffers =
             native.mDirtyVertexBuffers \cup {start + k : k \in DOMAIN bufs}
        /\ native'.mIndexBufferDirty = native.mIndexBufferDirty
        /\ native'.mDirtyBits = native.mDirtyBits /\ native'.uniforms = native.uniforms
        /\ native'.mLastInputState = native.mLastInputState
        /\ native'.mStencilFunc = native.mStencilFunc /\ native'.bound = native.bound
        /\ native'.attributes = native.attributes /\ native'.elements = native.elements
        /\ native'.stencil = native.stencil /\ native'.scissor = native.scissor
        /\ native'.partialClear = native.partialClear
    BY <1>0, <1>2 DEF GlSetVertexBuffers, GlMembers
  <2>3. PICK n \in 0 .. kMaxVertexInputs : bufs \in [0 .. n - 1 -> Buffers]
    BY DEF BufferLists
  <2>4. GlTypeOK'
    BY <2>2, GlDomain DEF GlInv, GlTypeOK
  <2>5. UnitsHold' /\ ConstantsHold' /\ FixedHold'
    <3>1. \A i \in GroupIndices : <<"group", i>> \in current' => <<"group", i>> \in current
      BY <2>1
    <3>2. QED
      BY <3>1, <2>1, <2>2, UnitsFrame, ConstantsFrame, FixedFrame DEF GlInv
  <2>6. ASSUME NEW s \in VertexSlots, <<"slot", s>> \in current', s \notin native'.mDirtyVertexBuffers
        PROVE  <<"slot", s>> \in current /\ vertexBuffers'[s] = vertexBuffers[s]
    <3>1. s \in Int /\ start \in Int /\ DOMAIN bufs = 0 .. n - 1
      BY <2>3, LimitsAssumption DEF VertexSlots
    <3>2. \A k \in DOMAIN bufs : s # start + k
      BY <2>2, <2>6
    <3>3. s - start \notin DOMAIN bufs
      <4>1. s = start + (s - start)
        BY <3>1
      <4>2. QED
        BY <3>2, <4>1
    <3>4. QED
      BY <3>2, <3>3, <2>1, <2>6
  <2>7. <<"index">> \in current' => <<"index">> \in current
    BY <2>1
  <2>8. InputsHold'
    <3>1. pass = "render" /\ pipeline # None => Inputs[pipeline] \subseteq VertexSlots
      BY PipelinesAssumption DEF RecInv, PassesAreApart
    <3>2. QED
      BY <3>1, <2>1, <2>2, <2>6, <2>7 DEF GlInv, InputsHold
  <2>9. QED
    BY <2>2, <2>4, <2>5, <2>8 DEF GlInv
<1>3. QED
  BY <1>1, <1>2

(* Push constants that are set are dirty until a draw, and the dynamic     *)
(* state is told at once.                                                  *)
LEMMA GlValuesKeep ==
  ASSUME RecInv, GlInv,
         \/ \E stages \in SUBSET Stages, c \in ConstantIndices, n \in 1 .. kMaxPushConstants,
               v \in 0 .. 1 : GlSetPushConstants(stages, c, n, v)
         \/ \E v \in 0 .. 1 : GlSetDynamicState("stencil", v)
         \/ \E v \in {"part", "full"} : GlSetDynamicState("scissor", v)
  PROVE  GlInv'
<1> USE DEF Keeps
<1>0. DOMAIN native = GlMembers
  BY GlDomain DEF GlInv, GlTypeOK
<1>1. ASSUME NEW stages \in SUBSET Stages, NEW c \in ConstantIndices,
             NEW n \in 1 .. kMaxPushConstants, NEW v \in 0 .. 1, GlSetPushConstants(stages, c, n, v)
      PROVE  GlInv'
  <2>1. /\ UNCHANGED <<pass, pipeline, groups, vertexBuffers, indexBuffer, dynamic, current>>
        /\ c + n <= kMaxPushConstants
        /\ constants' = [s \in Stages |-> [d \in ConstantIndices |->
             IF s \in stages /\ d \in c .. c + n - 1 THEN v ELSE constants[s][d]]]
    BY <1>1 DEF GlSetPushConstants, UsePushConstants, streamVars
  <2> DEFINE dirty == [s \in Stages |->
          IF s \in stages THEN native.mDirtyBits[s] \cup (c .. c + n - 1) ELSE native.mDirtyBits[s]]
  <2>2. /\ DOMAIN native' = GlMembers /\ native'.mDirtyBits = dirty
        /\ native'.mDirtyVertexBuffers = native.mDirtyVertexBuffers
        /\ native'.mIndexBufferDirty = native.mIndexBufferDirty
        /\ native'.uniforms = native.uniforms
        /\ native'.mLastInputState = native.mLastInputState
        /\ native'.mStencilFunc = native.mStencilFunc /\ native'.bound = native.bound
        /\ native'.attributes = native.attributes /\ native'.elements = native.elements
        /\ native'.stencil = native.stencil /\ native'.scissor = native.scissor
        /\ native'.partialClear = native.partialClear
    BY <1>0, <1>1 DEF GlSetPushConstants, GlMembers
  <2>3. c .. c + n - 1 \subseteq ConstantIndices
    BY <2>1, LimitsAssumption DEF ConstantIndices
  <2>4. dirty \in [Stages -> SUBSET ConstantIndices]
    BY <2>3 DEF GlInv, GlTypeOK
  <2>5. GlTypeOK'
    BY <2>2, <2>4, GlDomain DEF GlInv, GlTypeOK
  <2>6. UnitsHold' /\ InputsHold' /\ FixedHold'
    BY <2>1, <2>2, UnitsFrame, InputsFrame, FixedFrame DEF GlInv
  <2>7. ConstantsHold'
    <3> SUFFICES ASSUME Ready, NEW stage \in StagesOf(pipeline), NEW d \in Mask(pipeline)[stage]
                 PROVE  \/ d \in dirty[stage]
                        \/ native'.uniforms[pipeline][stage][d] = constants'[stage][d]
      BY <2>1, <2>2 DEF ConstantsHold, Ready, InPass
    <3>1. pipeline \in Pipelines /\ stage \in Stages /\ d \in ConstantIndices
      BY MaskType DEF Ready, RecInv, RecTypeOK, StagesOf, Stages
    <3>2. d \in native.mDirtyBits[stage] \/ native.uniforms[pipeline][stage][d] = constants[stage][d]
      BY DEF GlInv, ConstantsHold
    <3>3. CASE stage \in stages /\ d \in c .. c + n - 1
      BY <3>1, <3>3
    <3>4. CASE ~(stage \in stages /\ d \in c .. c + n - 1)
      BY <3>1, <3>2, <3>4, <2>1, <2>2
    <3>5. QED
      BY <3>3, <3>4
  <2>8. QED
    BY <2>2, <2>5, <2>6, <2>7 DEF GlInv
<1>2. ASSUME NEW field \in {"stencil", "scissor"}, NEW v, GlSetDynamicState(field, v)
      PROVE  GlInv'
  <2>1. /\ UNCHANGED <<pass, pipeline, groups, vertexBuffers, indexBuffer, constants, current>>
        /\ pass = "render" /\ dynamic' = [dynamic EXCEPT ![field] = v]
        /\ dynamic \in [stencil : 0 .. 1, scissor : {"full", "part"}]
    BY <1>2 DEF GlSetDynamicState, UseDynamicState, streamVars, RecInv, RecTypeOK
  <2>2. /\ DOMAIN native' = GlMembers
        /\ \A member \in GlMembers \ {"stencil", "scissor"} : native'[member] = native[member]
        /\ field = "scissor" => native'.scissor = v /\ native'.stencil = native.stencil
        /\ field = "stencil" =>
             /\ native'.scissor = native.scissor
             /\ native'.stencil = IF v = dynamic.stencil THEN native.stencil
                                  ELSE <<native.mStencilFunc, v>>
    <3>1. CASE field = "scissor"
      BY <1>0, <1>2, <3>1 DEF GlSetDynamicState, GlMembers
    <3>2. CASE field = "stencil" /\ v # dynamic.stencil
      BY <1>0, <1>2, <3>2 DEF GlSetDynamicState, GlMembers
    <3>3. CASE field = "stencil" /\ v = dynamic.stencil
      <4>1. native' = native
        BY <1>2, <3>3 DEF GlSetDynamicState
      <4>2. QED
        BY <4>1, <1>0, <3>3
    <3>4. QED
      BY <3>1, <3>2, <3>3
  <2>3. /\ native'.mDirtyBits = native.mDirtyBits /\ native'.uniforms = native.uniforms
        /\ native'.mIndexBufferDirty = native.mIndexBufferDirty
        /\ native'.mDirtyVertexBuffers = native.mDirtyVertexBuffers
        /\ native'.mLastInputState = native.mLastInputState
        /\ native'.mStencilFunc = native.mStencilFunc /\ native'.bound = native.bound
        /\ native'.attributes = native.attributes /\ native'.elements = native.elements
        /\ native'.partialClear = native.partialClear
    BY <2>2 DEF GlMembers
  <2>4. GlTypeOK'
    BY <2>2, <2>3, GlDomain DEF GlInv, GlTypeOK
  <2>5. UnitsHold' /\ ConstantsHold' /\ InputsHold'
    BY <2>1, <2>3, UnitsFrame, ConstantsFrame, InputsFrame DEF GlInv
  <2>6. FixedHold'
    <3>1. /\ field = "stencil" => dynamic'.stencil = v /\ dynamic'.scissor = dynamic.scissor
          /\ field = "scissor" => dynamic'.scissor = v /\ dynamic'.stencil = dynamic.stencil
      BY <2>1
    <3>2. native.stencil = <<native.mStencilFunc, dynamic.stencil>> /\ native.scissor = dynamic.scissor
      BY <2>1 DEF GlInv, FixedHold
    <3>3. native'.stencil = <<native'.mStencilFunc, dynamic'.stencil>>
      BY <3>1, <3>2, <2>2, <2>3
    <3>4. native'.scissor = dynamic'.scissor
      BY <3>1, <3>2, <2>2
    <3>5. QED
      BY <3>3, <3>4, <2>1, <2>3 DEF GlInv, FixedHold
  <2>7. QED
    BY <2>3, <2>4, <2>5, <2>6 DEF GlInv
<1>3. QED
  BY <1>1, <1>2

(* What a draw applies *)
LEMMA GlApplied ==
  ASSUME RecInv, GlInv, Ready
  PROVE  /\ AppliedUniforms \in [Stages -> [ConstantIndices -> 0 .. 1]]
         /\ \A stage \in StagesOf(pipeline) : \A c \in Mask(pipeline)[stage] :
              AppliedUniforms[stage][c] = constants[stage][c]
         /\ pass = "render" =>
              /\ \A s \in Inputs[pipeline] : <<"slot", s>> \in current =>
                   AppliedAttributes[s] = vertexBuffers[s]
              /\ <<"index">> \in current => AppliedElements = indexBuffer
<1>1. /\ pipeline \in Pipelines /\ Mask(pipeline) \in [Stages -> SUBSET ConstantIndices]
      /\ StagesOf(pipeline) \subseteq Stages
  BY MaskType DEF Ready, RecInv, RecTypeOK, StagesOf, Stages
<1>2. AppliedUniforms \in [Stages -> [ConstantIndices -> 0 .. 1]]
  BY <1>1 DEF AppliedUniforms, GlInv, GlTypeOK, RecInv, RecTypeOK
<1>3. ASSUME NEW stage \in StagesOf(pipeline), NEW c \in Mask(pipeline)[stage]
      PROVE  AppliedUniforms[stage][c] = constants[stage][c]
  <2>1. stage \in Stages /\ c \in ConstantIndices
    BY <1>1
  <2>2. AppliedUniforms[stage][c] =
          IF c \in native.mDirtyBits[stage] THEN constants[stage][c]
          ELSE native.uniforms[pipeline][stage][c]
    BY <2>1 DEF AppliedUniforms
  <2>3. QED
    BY <2>2 DEF GlInv, ConstantsHold
<1>4. ASSUME pass = "render", NEW s \in Inputs[pipeline], <<"slot", s>> \in current
      PROVE  AppliedAttributes[s] = vertexBuffers[s]
  <2>1. s \in VertexSlots /\ pipeline # None
    BY <1>4, PipelinesAssumption DEF RecInv, PassesAreApart, Ready
  <2>2. QED
    BY <2>1, <1>4 DEF AppliedAttributes, GlInv, InputsHold
<1>5. ASSUME pass = "render", <<"index">> \in current
      PROVE  AppliedElements = indexBuffer
  <2>1. indexBuffer # None
    BY <1>5, NoneAssumption DEF RecInv, CurrentIsSet
  <2>2. QED
    BY <2>1, <1>5 DEF AppliedElements, AppliesIndex, GlInv, InputsHold, Ready
<1>6. QED
  BY <1>2, <1>3, <1>4, <1>5

(* A draw leaves in the context what it applied. *)
LEMMA GlOperateKeeps ==
  ASSUME RecInv, GlInv, GlOperate
  PROVE  GlInv'
<1>0. DOMAIN native = GlMembers
  BY GlDomain DEF GlInv, GlTypeOK
<1>1. Ready /\ UNCHANGED recVars
  BY NoneAssumption DEF GlOperate, Operate, CanDispatch, CanDrawArrays, CanDrawElements, InPass,
                        Ready, Pipelines
<1>2. /\ UNCHANGED <<pass, pipeline, groups, vertexBuffers, indexBuffer, constants, dynamic, current>>
      /\ pipeline \in Pipelines /\ pass \in {"compute", "render"}
  BY <1>1 DEF recVars, streamVars, Ready, InPass, RecInv, RecTypeOK
<1>3. /\ AppliedUniforms \in [Stages -> [ConstantIndices -> 0 .. 1]]
      /\ \A stage \in StagesOf(pipeline) : \A c \in Mask(pipeline)[stage] :
           AppliedUniforms[stage][c] = constants[stage][c]
      /\ pass = "render" =>
           /\ \A s \in Inputs[pipeline] : <<"slot", s>> \in current =>
                AppliedAttributes[s] = vertexBuffers[s]
           /\ <<"index">> \in current => AppliedElements = indexBuffer
  BY <1>1, GlApplied
<1>4. /\ DOMAIN native' = GlMembers
      /\ native'.mDirtyBits = [s \in Stages |-> {}]
      /\ native'.uniforms = [native.uniforms EXCEPT ![pipeline] = AppliedUniforms]
      /\ native'.mLastInputState = native.mLastInputState
      /\ native'.mStencilFunc = native.mStencilFunc /\ native'.bound = native.bound
      /\ native'.stencil = native.stencil /\ native'.scissor = native.scissor
      /\ native'.partialClear = native.partialClear
      /\ pass = "compute" =>
           /\ native'.mIndexBufferDirty = native.mIndexBufferDirty
           /\ native'.elements = native.elements /\ native'.attributes = native.attributes
      /\ pass = "render" =>
           /\ native'.mIndexBufferDirty = (native.mIndexBufferDirty /\ ~AppliesIndex)
           /\ native'.elements = [native.elements EXCEPT ![native.mLastInputState] = AppliedElements]
           /\ native'.attributes =
                [native.attributes EXCEPT ![native.mLastInputState] = AppliedAttributes]
  <2> HIDE DEF AppliedUniforms, AppliedElements, AppliedAttributes, AppliesIndex
  <2>1. CASE pass = "compute"
    BY <1>0, <2>1 DEF GlOperate, GlMembers
  <2>2. CASE pass = "render"
    BY <1>0, <2>2 DEF GlOperate, GlMembers
  <2>3. QED
    BY <1>2, <2>1, <2>2
<1> HIDE DEF AppliedUniforms, AppliedElements, AppliedAttributes, AppliesIndex
<1>5. GlTypeOK'
  <2>1. native'.uniforms \in [Pipelines -> [Stages -> [ConstantIndices -> 0 .. 1]]]
    BY <1>3, <1>4 DEF GlInv, GlTypeOK
  <2>2. /\ native'.mIndexBufferDirty \in BOOLEAN
        /\ DOMAIN native'.attributes = InputStates /\ DOMAIN native'.elements = InputStates
    BY <1>2, <1>4 DEF GlInv, GlTypeOK
  <2>3. QED
    BY <2>1, <2>2, <1>4, GlDomain DEF GlTypeOK
<1>6. UnitsHold' /\ FixedHold'
  BY <1>2, <1>4, UnitsFrame, FixedFrame DEF GlInv
<1>7. ConstantsHold'
  <2>1. native'.uniforms[pipeline] = AppliedUniforms
    BY <1>2, <1>4 DEF GlInv, GlTypeOK
  <2>2. QED
    BY <2>1, <1>2, <1>3 DEF ConstantsHold
<1>8. InputsHold'
  <2> SUFFICES ASSUME pass = "render"
               PROVE  /\ native'.mLastInputState = InputState[pipeline]
                      /\ \A s \in Inputs[pipeline] : <<"slot", s>> \in current =>
                           native'.attributes[InputState[pipeline]][s] = vertexBuffers[s]
                      /\ <<"index">> \in current =>
                           native'.elements[InputState[pipeline]] = indexBuffer
    BY <1>1, <1>2 DEF InputsHold, Ready
  <2>1. native.mLastInputState = InputState[pipeline]
    BY <1>1 DEF GlInv, InputsHold, Ready
  <2>2. pipeline \in RenderPipelines
    BY <1>1 DEF RecInv, PassesAreApart, Ready
  <2>3. InputState[pipeline] \in InputStates
    BY <2>2 DEF InputStates
  <2>4. /\ native'.attributes[InputState[pipeline]] = AppliedAttributes
        /\ native'.elements[InputState[pipeline]] = AppliedElements
    BY <2>1, <2>3, <1>4 DEF GlInv, GlTypeOK
  <2>5. QED
    BY <2>1, <2>4, <1>3, <1>4
<1>9. QED
  BY <1>4, <1>5, <1>6, <1>7, <1>8 DEF GlInv

(* The invariant says that draws find what was set. *)
LEMMA GlInvSuffices ==
  ASSUME NoArrays, RecInv, backend = "opengl" => GlInv
  PROVE  OpenGLDrawsRight
<1> SUFFICES ASSUME backend = "opengl", GlInv
             PROVE  OpenGLDrawsRight
  BY DEF OpenGLDrawsRight
<1>1. ASSUME GroupsReady, NEW stage \in StagesOf(pipeline),
             NEW place \in ShaderUses[pipeline][stage], NEW point \in PointsOf(pipeline, place)
      PROVE  native.bound[point] = Wanted(place)
  <2>1. pipeline \in Pipelines
    BY <1>1 DEF GroupsReady, Ready, RecInv, RecTypeOK
  <2>2. place \in PlacesOf(LayoutOf(pipeline))
    BY <2>1, <1>1, ShadersAssumption
  <2>3. /\ place = <<place[1], place[2]>> /\ place[1] \in UsedGroups(pipeline)
        /\ place[2] \in DOMAIN BindingType[LayoutOf(pipeline)[place[1]]]
    BY <2>1, <2>2, PlaceIs, PipelineFacts
  <2>4. place[1] \in GroupIndices /\ <<"group", place[1]>> \in current
    BY <1>1, <2>1, <2>3, PipelineFacts DEF GroupsReady
  <2>5. point \in PointsOf(pipeline, <<place[1], place[2]>>)
    BY <1>1, <2>3
  <2>6. native.bound[point] = <<groups[place[1]], place[2]>>
    BY <2>3, <2>4, <2>5 DEF GlInv, UnitsHold
  <2>7. QED
    BY <2>6 DEF Wanted
<1>2. ASSUME Ready, NEW stage \in StagesOf(pipeline), NEW c \in ConstantsRead(pipeline, stage)
      PROVE  AppliedUniforms[stage][c] = constants[stage][c]
  <2>1. pipeline \in Pipelines /\ stage \in Stages
    BY <1>2 DEF Ready, RecInv, RecTypeOK, StagesOf, Stages
  <2>2. PICK variable \in PushConstants[pipeline][stage] :
          c \in variable[1] .. variable[1] + variable[2] - 1
    BY DEF ConstantsRead
  <2>3. variable[2] = 1 /\ variable[1] \in Int
    BY <2>1, ShadersAssumption, LimitsAssumption DEF NoArrays, ConstantIndices
  <2>4. c = variable[1]
    BY <2>2, <2>3
  <2>5. c \in Mask(pipeline)[stage]
    BY <2>1, <2>4 DEF Mask
  <2>6. QED
    BY <2>5, <1>2, GlApplied
<1>3. ASSUME SlotsReady, NEW s \in Inputs[pipeline]
      PROVE  AppliedAttributes[s] = vertexBuffers[s]
  <2>1. Ready /\ pass = "render" /\ pipeline \in RenderPipelines
    BY <1>3 DEF SlotsReady, Ready, RecInv, PassesAreApart
  <2>2. QED
    BY <2>1, <1>3, GlApplied DEF SlotsReady
<1>4. ASSUME IndexReady
      PROVE  AppliedElements = indexBuffer
  <2>1. Ready /\ <<"index">> \in current /\ pass = "render"
    BY <1>4 DEF IndexReady, RecInv, CurrentIsSet
  <2>2. QED
    BY <2>1, GlApplied
<1>5. Ready /\ pass = "render" => native.stencil = <<StencilFunc[pipeline], dynamic.stencil>>
  BY DEF Ready, GlInv, FixedHold
<1>6. pass = "render" => native.scissor = dynamic.scissor
  BY DEF GlInv, FixedHold
<1>7. ~native.partialClear
  BY DEF GlInv
<1>8. QED
  BY <1>1, <1>2, <1>3, <1>4, <1>5, <1>6, <1>7 DEF OpenGLDrawsRight, GlGroupsRight, GlConstantsRight

(* A step that changes nothing keeps the invariant. *)
LEMMA GlStutter ==
  ASSUME GlInv, UNCHANGED vars
  PROVE  GlInv'
<1>1. UNCHANGED <<native, pass, pipeline, groups, vertexBuffers, indexBuffer, constants, dynamic, current>>
  BY DEF vars, recVars, streamVars
<1>2. GlTypeOK' /\ ~native'.partialClear
  BY <1>1 DEF GlInv, GlTypeOK, GlStart, GlEnter, GlState, GlLocals
<1>3. UnitsHold' /\ ConstantsHold' /\ InputsHold' /\ FixedHold'
  BY <1>1, UnitsFrame, ConstantsFrame, InputsFrame, FixedFrame DEF GlInv
<1>4. QED
  BY <1>2, <1>3 DEF GlInv

(* On OpenGL, whose context remembers more than a pass, draws find at the  *)
(* units of their program what the bind groups say, in its uniforms the    *)
(* push constants, in its vertex array the buffers of the pass, and the    *)
(* stencil reference and scissor; no clear is cut (CommandBufferGL.cpp,    *)
(* InputStateGL.cpp, PersistentPipelineStateGL.cpp).  Careful assumes that *)
(* bind groups are set after a pipeline whose layout they fit, that a      *)
(* pipeline numbers the units of what it inherits as the last one did, and *)
(* that no earlier pass left a scissor or mask that cuts the clears.       *)
THEOREM OpenGLReplayRight ==
  Careful /\ UnitsFit /\ NoArrays => (ReplaySpec => []OpenGLDrawsRight)
<1> SUFFICES ASSUME Careful, UnitsFit, NoArrays PROVE ReplaySpec => []OpenGLDrawsRight
  OBVIOUS
<1> DEFINE Ind == RecInv /\ (backend = "opengl" => GlInv)
<1>1. ReplayInit => Ind
  <2> SUFFICES ASSUME ReplayInit PROVE Ind
    OBVIOUS
  <2>1. RecInv
    BY ListStarts DEF ReplayInit
  <2>2. backend = "opengl" =>
          native = GlStart /\ current = {} /\ pipeline = None /\ pass = "outside"
    BY DEF ReplayInit, RecInit, Init
  <2>3. QED
    BY <2>1, <2>2, GlStarts
<1>2. Ind /\ [ReplayNext]_vars => Ind'
  <2> SUFFICES ASSUME Ind, [ReplayNext]_vars PROVE Ind'
    OBVIOUS
  <2>1. RecInv' /\ backend' = backend
    BY StepTakesCommand, ListStep, BackendStays
  <2>2. ASSUME backend = "opengl", GlInv
        PROVE  GlInv'
    <3>1. GlNext \/ UNCHANGED vars
      BY <2>2 DEF ReplayNext
    <3>2. QED
      BY <2>2, <3>1, GlPassKeeps, GlPipelineKeeps, GlGroupKeeps, GlBuffersKeep, GlValuesKeep,
         GlOperateKeeps, GlStutter DEF GlNext
  <2>3. QED
    BY <2>1, <2>2
<1>3. Ind => OpenGLDrawsRight
  BY GlInvSuffices
<1>4. QED
  BY <1>1, <1>2, <1>3, PTL DEF ReplaySpec

-----------------------------------------------------------------------------
(* D3D12: where descriptors and root parameters are *)

(* The descriptors of a table come in the order of their types, then of    *)
(* their numbers.                                                          *)
TypeRank(type) ==
  IF type = "StorageBuffer" THEN 1 ELSE IF type = "SampledTexture" THEN 2 ELSE 0
OfKind(bgl, kind) == {b \in DOMAIN BindingType[bgl] : KindOf(BindingType[bgl][b]) = kind}
DescriptorsBefore(bgl, b) ==
  {c \in OfKind(bgl, KindOf(BindingType[bgl][b])) :
    \/ TypeRank(BindingType[bgl][c]) < TypeRank(BindingType[bgl][b])
    \/ BindingType[bgl][c] = BindingType[bgl][b] /\ c < b}

(* What the bindings of a layout are *)
LEMMA BindingsOfLayout ==
  ASSUME NEW bgl \in DOMAIN BindingType
  PROVE  /\ DOMAIN BindingType[bgl] \subseteq Nat /\ IsFiniteSet(DOMAIN BindingType[bgl])
         /\ \A b \in DOMAIN BindingType[bgl] : BindingType[bgl][b] \in BindingTypes
<1>1. /\ DOMAIN BindingType[bgl] \subseteq 0 .. kMaxBindingsPerGroup - 1
      /\ kMaxBindingsPerGroup \in Nat
      /\ \A b \in DOMAIN BindingType[bgl] : BindingType[bgl][b] \in BindingTypes
  BY LayoutsAssumption, LimitsAssumption
<1>2. IsFiniteSet(0 .. kMaxBindingsPerGroup - 1)
  BY <1>1, FS_Interval
<1>3. IsFiniteSet(DOMAIN BindingType[bgl])
  BY <1>1, <1>2, FS_Subset
<1>4. QED
  BY <1>1, <1>3

(* The types that come before a type in its table *)
LEMMA RangeOffsetIs ==
  ASSUME NEW bgl \in DOMAIN BindingType, NEW type \in BindingTypes
  PROVE  RangeOffset(bgl, type) =
           Cardinality({c \in OfKind(bgl, KindOf(type)) :
                          TypeRank(BindingType[bgl][c]) < TypeRank(type)})
<1> DEFINE types == TypesOf(KindOf(type))
           before == {n \in DOMAIN types : \E m \in DOMAIN types : types[m] = type /\ n < m}
           lower == {c \in OfKind(bgl, KindOf(type)) :
                       TypeRank(BindingType[bgl][c]) < TypeRank(type)}
<1>1. \A b \in DOMAIN BindingType[bgl] : BindingType[bgl][b] \in BindingTypes
  BY BindingsOfLayout
<1>2. UNION {BindingsOfType(bgl, types[n]) : n \in before} = lower
  <2>1. CASE type = "Sampler"
    <3>1. types = <<"Sampler">>
      BY <2>1 DEF KindOf, TypesOf
    <3>2. before = {} /\ lower = {}
      BY <1>1, <2>1, <3>1 DEF OfKind, KindOf, TypeRank, BindingTypes
    <3>3. QED
      BY <3>2
  <2>2. CASE type # "Sampler"
    <3>1. types = ViewTypes
      BY <2>2 DEF KindOf, TypesOf
    <3>2. CASE type = "UniformBuffer"
      <4>1. before = {}
        BY <3>1, <3>2 DEF ViewTypes
      <4>2. lower = {}
        BY <1>1, <3>2 DEF OfKind, KindOf, TypeRank, BindingTypes
      <4>3. QED
        BY <4>1, <4>2
    <3>3. CASE type = "StorageBuffer"
      <4>1. before = {1} /\ types[1] = "UniformBuffer"
        BY <3>1, <3>3 DEF ViewTypes
      <4>2. lower = BindingsOfType(bgl, "UniformBuffer")
        BY <1>1, <3>3 DEF OfKind, KindOf, TypeRank, BindingTypes, BindingsOfType
      <4>3. QED
        BY <4>1, <4>2
    <3>4. CASE type = "SampledTexture"
      <4>1. before = {1, 2} /\ types[1] = "UniformBuffer" /\ types[2] = "StorageBuffer"
        BY <3>1, <3>4 DEF ViewTypes
      <4>2. lower = BindingsOfType(bgl, "UniformBuffer") \cup BindingsOfType(bgl, "StorageBuffer")
        BY <1>1, <3>4 DEF OfKind, KindOf, TypeRank, BindingTypes, BindingsOfType
      <4>3. QED
        BY <4>1, <4>2
    <3>5. QED
      BY <2>2, <3>2, <3>3, <3>4 DEF BindingTypes
  <2>3. QED
    BY <2>1, <2>2
<1>3. QED
  BY <1>2 DEF RangeOffset

(* The offset of a binding counts what comes before it. *)
LEMMA BindingOffsetIs ==
  ASSUME NEW bgl \in DOMAIN BindingType, NEW b \in DOMAIN BindingType[bgl]
  PROVE  /\ BindingOffset(bgl, b) = Cardinality(DescriptorsBefore(bgl, b))
         /\ BindingOffset(bgl, b) \in Nat
<1> DEFINE type == BindingType[bgl][b]
           lower == {c \in OfKind(bgl, KindOf(type)) :
                       TypeRank(BindingType[bgl][c]) < TypeRank(type)}
           same == {c \in BindingsOfType(bgl, type) : c < b}
<1>0. /\ type \in BindingTypes /\ DOMAIN BindingType[bgl] \subseteq Nat
      /\ IsFiniteSet(DOMAIN BindingType[bgl])
      /\ \A c \in DOMAIN BindingType[bgl] : BindingType[bgl][c] \in BindingTypes
  BY BindingsOfLayout
<1>1. lower \in SUBSET DOMAIN BindingType[bgl] /\ same \in SUBSET DOMAIN BindingType[bgl]
  BY DEF OfKind, BindingsOfType
<1>2. IsFiniteSet(lower) /\ IsFiniteSet(same)
  BY <1>0, <1>1, FS_Subset
<1>3. lower \cap same = {}
  BY <1>0 DEF BindingsOfType, TypeRank, BindingTypes
<1>4. lower \cup same = DescriptorsBefore(bgl, b)
  BY <1>0 DEF DescriptorsBefore, OfKind, BindingsOfType
<1>5. BindingOffset(bgl, b) = Cardinality(lower) + Cardinality(same)
  BY <1>0, RangeOffsetIs DEF BindingOffset
<1> HIDE DEF lower, same
<1>6. /\ Cardinality(lower \cup same) = Cardinality(lower) + Cardinality(same)
      /\ Cardinality(lower) \in Nat /\ Cardinality(same) \in Nat
  <2>1. Cardinality(lower \cap same) = 0
    BY <1>3, FS_EmptySet
  <2>2. Cardinality(lower \cup same)
          = Cardinality(lower) + Cardinality(same) - Cardinality(lower \cap same)
    BY <1>2, FS_Union
  <2>3. Cardinality(lower) \in Nat /\ Cardinality(same) \in Nat
    BY <1>2, FS_CardinalityType
  <2>4. QED
    BY <2>1, <2>2, <2>3
<1>7. QED
  BY <1>4, <1>5, <1>6

(* Descriptors that follow one another have growing offsets. *)
LEMMA OffsetsGrow ==
  ASSUME NEW bgl \in DOMAIN BindingType, NEW kind \in D3Kinds,
         NEW b \in OfKind(bgl, kind), NEW c \in DescriptorsBefore(bgl, b)
  PROVE  BindingOffset(bgl, c) < BindingOffset(bgl, b)
<1>1. /\ DOMAIN BindingType[bgl] \subseteq Nat /\ IsFiniteSet(DOMAIN BindingType[bgl])
      /\ \A d \in DOMAIN BindingType[bgl] : BindingType[bgl][d] \in BindingTypes
  BY BindingsOfLayout
<1>2. /\ b \in DOMAIN BindingType[bgl] /\ c \in DOMAIN BindingType[bgl]
      /\ KindOf(BindingType[bgl][b]) = KindOf(BindingType[bgl][c])
  BY DEF OfKind, DescriptorsBefore
<1>3. DescriptorsBefore(bgl, b) \in SUBSET DOMAIN BindingType[bgl]
  BY DEF DescriptorsBefore, OfKind
<1>4. IsFiniteSet(DescriptorsBefore(bgl, b))
  BY <1>1, <1>3, FS_Subset
<1>5. \A d \in DOMAIN BindingType[bgl] : TypeRank(BindingType[bgl][d]) \in 0 .. 2
  BY DEF TypeRank
<1>6. DescriptorsBefore(bgl, c) \in SUBSET DescriptorsBefore(bgl, b)
  <2> SUFFICES ASSUME NEW d \in DescriptorsBefore(bgl, c)
               PROVE  d \in DescriptorsBefore(bgl, b)
    OBVIOUS
  <2>1. d \in OfKind(bgl, KindOf(BindingType[bgl][b])) /\ d \in DOMAIN BindingType[bgl]
    BY <1>2 DEF DescriptorsBefore, OfKind
  <2>2. \/ TypeRank(BindingType[bgl][d]) < TypeRank(BindingType[bgl][b])
        \/ BindingType[bgl][d] = BindingType[bgl][b] /\ d < b
    <3> DEFINE rd == TypeRank(BindingType[bgl][d])
               rc == TypeRank(BindingType[bgl][c])
               rb == TypeRank(BindingType[bgl][b])
    <3>1. rd < rc \/ (BindingType[bgl][d] = BindingType[bgl][c] /\ d < c)
      BY DEF DescriptorsBefore
    <3>2. rc < rb \/ (BindingType[bgl][c] = BindingType[bgl][b] /\ c < b)
      BY DEF DescriptorsBefore
    <3>3. rd \in 0 .. 2 /\ rc \in 0 .. 2 /\ rb \in 0 .. 2
      BY <1>5, <1>2, <2>1
    <3>4. d \in Nat /\ c \in Nat /\ b \in Nat
      BY <1>1, <1>2, <2>1
    <3>5. BindingType[bgl][c] = BindingType[bgl][b] => rc = rb
      OBVIOUS
    <3>6. BindingType[bgl][d] = BindingType[bgl][c] => rd = rc
      OBVIOUS
    <3> HIDE DEF rd, rc, rb
    <3>7. \/ rd < rb
          \/ BindingType[bgl][d] = BindingType[bgl][b] /\ d < b
      BY <3>1, <3>2, <3>3, <3>4, <3>5, <3>6
    <3>8. QED
      BY <3>7 DEF rd, rb
  <2>3. QED
    BY <2>1, <2>2 DEF DescriptorsBefore
<1>7. c \notin DescriptorsBefore(bgl, c)
  BY <1>1, <1>2, <1>5 DEF DescriptorsBefore
<1>8. Cardinality(DescriptorsBefore(bgl, c)) < Cardinality(DescriptorsBefore(bgl, b))
  BY <1>4, <1>6, <1>7, CountGrows
<1>9. QED
  BY <1>2, <1>8, BindingOffsetIs

(* The bindings of a table have the offsets from 0 up, each its own. *)
LEMMA OffsetsDiffer ==
  ASSUME NEW bgl \in DOMAIN BindingType, NEW kind \in D3Kinds
  PROVE  /\ DescriptorCount(bgl, kind) \in Nat
         /\ \A b \in OfKind(bgl, kind) : BindingOffset(bgl, b) \in 0 .. DescriptorCount(bgl, kind) - 1
         /\ \A b \in OfKind(bgl, kind), c \in OfKind(bgl, kind) :
              BindingOffset(bgl, b) = BindingOffset(bgl, c) => b = c
<1>1. /\ DOMAIN BindingType[bgl] \subseteq Nat /\ IsFiniteSet(DOMAIN BindingType[bgl])
      /\ \A d \in DOMAIN BindingType[bgl] : BindingType[bgl][d] \in BindingTypes
  BY BindingsOfLayout
<1>2. OfKind(bgl, kind) \in SUBSET DOMAIN BindingType[bgl]
  BY DEF OfKind
<1>3. IsFiniteSet(OfKind(bgl, kind)) /\ DescriptorCount(bgl, kind) = Cardinality(OfKind(bgl, kind))
  BY <1>1, <1>2, FS_Subset DEF DescriptorCount, OfKind
<1>4. DescriptorCount(bgl, kind) \in Nat
  BY <1>3, FS_CardinalityType
<1>5. ASSUME NEW b \in OfKind(bgl, kind)
      PROVE  BindingOffset(bgl, b) \in 0 .. DescriptorCount(bgl, kind) - 1
  <2>1. b \in DOMAIN BindingType[bgl] /\ KindOf(BindingType[bgl][b]) = kind
    BY DEF OfKind
  <2>2. DescriptorsBefore(bgl, b) \in SUBSET OfKind(bgl, kind)
    BY <2>1 DEF DescriptorsBefore
  <2>3. b \notin DescriptorsBefore(bgl, b)
    BY <1>1, <2>1 DEF DescriptorsBefore, TypeRank
  <2>4. Cardinality(DescriptorsBefore(bgl, b)) < Cardinality(OfKind(bgl, kind))
    BY <1>3, <2>2, <2>3, CountGrows
  <2>5. QED
    BY <1>3, <1>4, <2>1, <2>4, BindingOffsetIs
<1>6. ASSUME NEW b \in OfKind(bgl, kind), NEW c \in OfKind(bgl, kind), b # c
      PROVE  BindingOffset(bgl, b) # BindingOffset(bgl, c)
  <2>1. /\ BindingType[bgl][b] \in BindingTypes /\ BindingType[bgl][c] \in BindingTypes
        /\ b \in Nat /\ c \in Nat
        /\ KindOf(BindingType[bgl][b]) = kind /\ KindOf(BindingType[bgl][c]) = kind
    BY <1>1 DEF OfKind
  <2>2. c \in DescriptorsBefore(bgl, b) \/ b \in DescriptorsBefore(bgl, c)
    BY <1>6, <2>1 DEF DescriptorsBefore, TypeRank, BindingTypes, KindOf
  <2>3. \/ BindingOffset(bgl, c) < BindingOffset(bgl, b)
        \/ BindingOffset(bgl, b) < BindingOffset(bgl, c)
    BY <2>2, OffsetsGrow
  <2>4. BindingOffset(bgl, b) \in Nat /\ BindingOffset(bgl, c) \in Nat
    BY <1>4, <1>5
  <2>5. QED
    BY <2>3, <2>4
<1>7. QED
  BY <1>4, <1>5, <1>6

(* Each position of the table has its descriptor. *)
LEMMA DescriptorIs ==
  ASSUME NEW g \in Groups, NEW kind \in D3Kinds,
         NEW b \in OfKind(GroupLayout[g], kind)
  PROVE  /\ BindingOffset(GroupLayout[g], b) + 1 \in 1 .. DescriptorCount(GroupLayout[g], kind)
         /\ Descriptors(g, kind)[BindingOffset(GroupLayout[g], b) + 1] = <<g, b>>
<1> DEFINE bgl == GroupLayout[g]
           n == BindingOffset(bgl, b) + 1
           at(c) == c \in DOMAIN BindingType[bgl] /\ KindOf(BindingType[bgl][c]) = kind
                      /\ BindingOffset(bgl, c) = n - 1
<1>1. bgl \in DOMAIN BindingType
  BY LayoutsAssumption
<1>2. /\ DescriptorCount(bgl, kind) \in Nat
      /\ \A c \in OfKind(bgl, kind) : BindingOffset(bgl, c) \in 0 .. DescriptorCount(bgl, kind) - 1
      /\ \A c \in OfKind(bgl, kind) : BindingOffset(bgl, b) = BindingOffset(bgl, c) => b = c
  BY <1>1, OffsetsDiffer
<1>3. n \in 1 .. DescriptorCount(bgl, kind) /\ n - 1 = BindingOffset(bgl, b)
  BY <1>2
<1>4. \A c \in DOMAIN BindingType[bgl] :
        KindOf(BindingType[bgl][c]) = kind /\ BindingOffset(bgl, c) = n - 1 <=> c = b
  BY <1>2, <1>3 DEF OfKind
<1>5. (CHOOSE c \in DOMAIN BindingType[bgl] :
         KindOf(BindingType[bgl][c]) = kind /\ BindingOffset(bgl, c) = n - 1) = b
  BY <1>4 DEF OfKind
<1>6. QED
  BY <1>3, <1>5 DEF Descriptors

(* The descriptors of a group are a sequence of its resources. *)
LEMMA DescriptorsType ==
  ASSUME NEW g \in Groups, NEW kind \in D3Kinds
  PROVE  /\ Descriptors(g, kind) \in Seq(Groups \X Nat)
         /\ Len(Descriptors(g, kind)) = DescriptorCount(GroupLayout[g], kind)
<1> DEFINE bgl == GroupLayout[g]
           S == OfKind(bgl, kind)
           N == DescriptorCount(bgl, kind)
           T == 0 .. N - 1
           f == [b \in S |-> BindingOffset(bgl, b)]
<1>1. bgl \in DOMAIN BindingType
  BY LayoutsAssumption
<1>2. /\ N \in Nat /\ N = Cardinality(S)
      /\ \A b \in S : BindingOffset(bgl, b) \in T
      /\ \A b \in S, c \in S : BindingOffset(bgl, b) = BindingOffset(bgl, c) => b = c
  BY <1>1, OffsetsDiffer DEF DescriptorCount, OfKind
<1>3. f \in Injection(S, T)
  BY <1>2 DEF Injection, IsInjective
<1>4. IsFiniteSet(T) /\ Cardinality(T) = N
  <2>1. N \in Nat
    BY <1>2
  <2> HIDE DEF N
  <2>2. /\ IsFiniteSet(0 .. N - 1)
        /\ Cardinality(0 .. N - 1) = IF 0 > N - 1 THEN 0 ELSE N - 1 - 0 + 1
    BY <2>1, FS_Interval
  <2>3. QED
    BY <2>1, <2>2
<1>5. f \in Surjection(S, T)
  <2> HIDE DEF f, T, S, N
  <2>1. QED
    BY <1>2, <1>3, <1>4, FS_Injection
<1>6. ASSUME NEW n \in 1 .. N
      PROVE  Descriptors(g, kind)[n] \in Groups \X Nat
  <2>1. n - 1 \in T
    BY <1>2
  <2>2. PICK b \in S : f[b] = n - 1
    BY <1>5, <2>1 DEF Surjection
  <2>3. BindingOffset(bgl, b) + 1 = n
    BY <1>2, <2>2
  <2>4. Descriptors(g, kind)[n] = <<g, b>>
    BY <2>3, DescriptorIs
  <2>5. b \in Nat
    BY <1>1, BindingsOfLayout DEF OfKind
  <2>6. QED
    BY <2>4, <2>5
<1>7. Descriptors(g, kind) = [n \in 1 .. N |-> Descriptors(g, kind)[n]]
  BY DEF Descriptors
<1> HIDE DEF N
<1>8. QED
  BY <1>2, <1>6, <1>7 DEF N

(* Each table of a pipeline layout has a root parameter of its own. *)
TablesBefore(layout, i, kind) ==
  {t \in GroupIndices \X D3Kinds :
    /\ HasTable(layout, t[1], t[2])
    /\ t[1] < i \/ (t[1] = i /\ t[2] = "view" /\ kind = "sampler")}

(* Root parameters of different tables differ. *)
LEMMA RootParametersDiffer ==
  ASSUME NEW p \in Pipelines, NEW i \in GroupIndices, NEW j \in GroupIndices,
         NEW kind \in D3Kinds, NEW other \in D3Kinds,
         HasTable(LayoutOf(p), i, kind), HasTable(LayoutOf(p), j, other)
  PROVE  /\ RootParameterIndex(LayoutOf(p), i, kind) \in RootParameters
         /\ RootParameterIndex(LayoutOf(p), i, kind) = RootParameterIndex(LayoutOf(p), j, other)
              => i = j /\ kind = other
<1> DEFINE layout == LayoutOf(p)
           tables == GroupIndices \X D3Kinds
<1>1. kMaxBindGroups \in Nat /\ GroupIndices = 0 .. kMaxBindGroups - 1 /\ GroupIndices \subseteq Nat
  BY LimitsAssumption DEF GroupIndices
<1>2. IsFiniteSet(tables) /\ Cardinality(tables) = 2 * kMaxBindGroups
  <2>1. IsFiniteSet(GroupIndices) /\ Cardinality(GroupIndices) = kMaxBindGroups
    <3>1. /\ IsFiniteSet(0 .. kMaxBindGroups - 1)
          /\ Cardinality(0 .. kMaxBindGroups - 1)
               = IF 0 > kMaxBindGroups - 1 THEN 0 ELSE kMaxBindGroups - 1 - 0 + 1
      BY <1>1, FS_Interval
    <3>2. QED
      BY <1>1, <3>1
  <2>2. IsFiniteSet(D3Kinds) /\ Cardinality(D3Kinds) = 2
    <3>1. IsFiniteSet({"view"}) /\ Cardinality({"view"}) = 1
      BY FS_Singleton
    <3>2. D3Kinds = {"view"} \cup {"sampler"} /\ "sampler" \notin {"view"}
      BY DEF D3Kinds
    <3>3. /\ IsFiniteSet({"view"} \cup {"sampler"})
          /\ Cardinality({"view"} \cup {"sampler"})
               = IF "sampler" \in {"view"} THEN Cardinality({"view"}) ELSE Cardinality({"view"}) + 1
      BY <3>1, FS_AddElement
    <3>4. QED
      BY <3>1, <3>2, <3>3
  <2>3. IsFiniteSet(tables) /\ Cardinality(tables) = Cardinality(GroupIndices) * Cardinality(D3Kinds)
    BY <2>1, <2>2, FS_Product
  <2>4. QED
    BY <1>1, <2>1, <2>2, <2>3
<1>3. ASSUME NEW k \in GroupIndices, NEW of \in D3Kinds
      PROVE  /\ TablesBefore(layout, k, of) \in SUBSET tables
             /\ IsFiniteSet(TablesBefore(layout, k, of))
             /\ <<k, of>> \in tables /\ <<k, of>> \notin TablesBefore(layout, k, of)
             /\ RootParameterIndex(layout, k, of) = Cardinality(TablesBefore(layout, k, of))
             /\ RootParameterIndex(layout, k, of) \in Nat
  <2>1. /\ TablesBefore(layout, k, of) \in SUBSET tables
        /\ <<k, of>> \in tables
    BY DEF TablesBefore
  <2>2. IsFiniteSet(TablesBefore(layout, k, of))
    BY <1>2, <2>1, FS_Subset
  <2>3. <<k, of>> \notin TablesBefore(layout, k, of)
    BY <1>1 DEF TablesBefore
  <2>4. RootParameterIndex(layout, k, of) = Cardinality(TablesBefore(layout, k, of))
    BY DEF RootParameterIndex, TablesBefore
  <2>5. QED
    BY <2>1, <2>2, <2>3, <2>4, FS_CardinalityType
<1>4. ASSUME NEW k \in GroupIndices, NEW of \in D3Kinds, HasTable(layout, k, of),
             NEW m \in GroupIndices, NEW to \in D3Kinds, <<k, of>> \in TablesBefore(layout, m, to)
      PROVE  RootParameterIndex(layout, k, of) < RootParameterIndex(layout, m, to)
  <2>1. TablesBefore(layout, k, of) \in SUBSET TablesBefore(layout, m, to)
    BY <1>1, <1>4 DEF TablesBefore, D3Kinds
  <2>2. /\ IsFiniteSet(TablesBefore(layout, m, to))
        /\ <<k, of>> \notin TablesBefore(layout, k, of)
        /\ RootParameterIndex(layout, k, of) = Cardinality(TablesBefore(layout, k, of))
        /\ RootParameterIndex(layout, m, to) = Cardinality(TablesBefore(layout, m, to))
    BY <1>3
  <2> HIDE DEF layout
  <2>3. Cardinality(TablesBefore(layout, k, of)) < Cardinality(TablesBefore(layout, m, to))
    BY <1>4, <2>1, <2>2, CountGrows
  <2>4. QED
    BY <2>2, <2>3
<1>5. RootParameterIndex(layout, i, kind) \in RootParameters
  <2>1. /\ TablesBefore(layout, i, kind) \in SUBSET tables
        /\ <<i, kind>> \in tables /\ <<i, kind>> \notin TablesBefore(layout, i, kind)
        /\ RootParameterIndex(layout, i, kind) = Cardinality(TablesBefore(layout, i, kind))
        /\ RootParameterIndex(layout, i, kind) \in Nat
    BY <1>3
  <2> HIDE DEF layout, tables
  <2>2. Cardinality(TablesBefore(layout, i, kind)) < Cardinality(tables)
    BY <1>2, <2>1, CountGrows
  <2>3. QED
    BY <1>1, <1>2, <2>1, <2>2 DEF RootParameters
<1>6. ASSUME i # j \/ kind # other
      PROVE  RootParameterIndex(layout, i, kind) # RootParameterIndex(layout, j, other)
  <2>1. <<i, kind>> \in TablesBefore(layout, j, other) \/ <<j, other>> \in TablesBefore(layout, i, kind)
    BY <1>1, <1>6 DEF TablesBefore, D3Kinds
  <2>2. \/ RootParameterIndex(layout, i, kind) < RootParameterIndex(layout, j, other)
        \/ RootParameterIndex(layout, j, other) < RootParameterIndex(layout, i, kind)
    BY <1>4, <2>1
  <2>3. /\ RootParameterIndex(layout, i, kind) \in Nat
        /\ RootParameterIndex(layout, j, other) \in Nat
    BY <1>3
  <2> HIDE DEF layout
  <2>4. QED
    BY <2>2, <2>3
<1>7. QED
  BY <1>5, <1>6

-----------------------------------------------------------------------------
(* D3D12: tables *)

(* Setting the tables of a group points its root parameters to where its   *)
(* descriptors are and leaves the others alone.                            *)
LEMMA TablesAreSet ==
  ASSUME NEW p \in Pipelines, NEW i \in UsedGroups(p), NEW g \in Groups,
         GroupLayout[g] = LayoutOf(p)[i], NEW tables, NEW offsets
  PROVE  /\ \A kind \in D3Kinds : DescriptorCount(GroupLayout[g], kind) > 0 =>
              SetTables(tables, LayoutOf(p), i, g, offsets)[RootParameterIndex(LayoutOf(p), i, kind)]
                = offsets[g][kind]
         /\ \A j \in GroupIndices, kind \in D3Kinds : j # i /\ HasTable(LayoutOf(p), j, kind) =>
              SetTables(tables, LayoutOf(p), i, g, offsets)[RootParameterIndex(LayoutOf(p), j, kind)]
                = tables[RootParameterIndex(LayoutOf(p), j, kind)]
<1> DEFINE layout == LayoutOf(p)
           index(j, kind) == RootParameterIndex(layout, j, kind)
           new == SetTables(tables, layout, i, g, offsets)
<1>1. i \in GroupIndices /\ i \in DOMAIN layout
  BY PipelineFacts
<1>2. \A kind \in D3Kinds : DescriptorCount(GroupLayout[g], kind) > 0 <=> HasTable(layout, i, kind)
  BY <1>1 DEF HasTable
<1>3. ASSUME NEW kind \in D3Kinds, DescriptorCount(GroupLayout[g], kind) > 0
      PROVE  new[index(i, kind)] = offsets[g][kind]
  <2>1. index(i, kind) \in RootParameters
    BY <1>1, <1>2, <1>3, RootParametersDiffer
  <2>2. \A other \in D3Kinds :
          DescriptorCount(GroupLayout[g], other) > 0 /\ index(i, other) = index(i, kind)
            <=> other = kind
    <3>1. ASSUME NEW other \in D3Kinds, DescriptorCount(GroupLayout[g], other) > 0,
                 index(i, other) = index(i, kind)
          PROVE  other = kind
      <4>1. HasTable(layout, i, other) /\ HasTable(layout, i, kind)
        BY <1>2, <1>3, <3>1
      <4>2. QED
        BY <1>1, <3>1, <4>1, RootParametersDiffer
    <3>2. QED
      BY <1>3, <3>1
  <2> HIDE DEF index, layout
  <2>3. (CHOOSE other \in D3Kinds :
           DescriptorCount(GroupLayout[g], other) > 0 /\ index(i, other) = index(i, kind)) = kind
    BY <2>2
  <2>4. new[index(i, kind)] = offsets[g][CHOOSE other \in D3Kinds :
           DescriptorCount(GroupLayout[g], other) > 0 /\ index(i, other) = index(i, kind)]
    BY <2>1, <2>2 DEF SetTables, index
  <2>5. QED
    BY <2>3, <2>4
<1>4. ASSUME NEW j \in GroupIndices, NEW kind \in D3Kinds, j # i, HasTable(layout, j, kind)
      PROVE  new[index(j, kind)] = tables[index(j, kind)]
  <2>1. index(j, kind) \in RootParameters
    BY <1>4, RootParametersDiffer
  <2>2. \A other \in D3Kinds :
          DescriptorCount(GroupLayout[g], other) > 0 => index(i, other) # index(j, kind)
    BY <1>1, <1>2, <1>4, RootParametersDiffer
  <2>3. QED
    BY <2>1, <2>2 DEF SetTables
<1>5. QED
  BY <1>3, <1>4

(* The loop over inherited groups ends at a number, and it reaches the     *)
(* groups up to which the layouts agree.                                   *)
LEMMA InheritsWhileAgreed ==
  ASSUME NEW p \in Pipelines, pipeline # None, NEW i \in GroupIndices
  PROVE  /\ InheritUntil(p) \in Nat
         /\ i \in 0 .. InheritUntil(p) - 1 <=> Agree(LayoutOf(p), LayoutOf(pipeline), i)
<1> DEFINE new == LayoutOf(pipeline)
           old == LayoutOf(p)
           differ == {j \in GroupIndices :
             \/ j \notin DOMAIN new \/ j \notin DOMAIN old
             \/ (j \in DOMAIN new \cap DOMAIN old /\ new[j] # old[j])}
           upTo == GroupsInheritUpTo(new, old)
<1>1. /\ kMaxBindGroups \in Nat /\ i \in Nat
      /\ differ \in SUBSET Nat
  BY LimitsAssumption DEF GroupIndices
<1>2. upTo \in Nat
  <2>1. CASE differ = {}
    BY <1>1, <2>1 DEF GroupsInheritUpTo
  <2>2. CASE differ # {}
    <3>1. upTo = CHOOSE m \in differ : \A k \in differ : m <= k
      BY <2>2 DEF GroupsInheritUpTo
    <3> HIDE DEF differ, upTo
    <3>2. \E m \in differ : \A k \in differ : m <= k
      BY <1>1, <2>2, LeastNat
    <3>3. QED
      BY <1>1, <3>1, <3>2
  <2>3. QED
    BY <2>1, <2>2
<1>3. InheritUntil(p) = upTo
  BY DEF InheritUntil
<1>4. i \in InheritedGroupsMask(new, old) <=> i < upTo
  BY DEF InheritedGroupsMask
<1>5. i \in InheritedGroupsMask(new, old) <=> Agree(new, old, i)
  BY InheritedAgree
<1>6. Agree(new, old, i) <=> Agree(old, new, i)
  BY DEF Agree
<1> HIDE DEF new, old, upTo
<1>7. QED
  BY <1>1, <1>2, <1>3, <1>4, <1>5, <1>6 DEF new, old

(* After a pipeline is set, the tables of an inherited group are set. *)
LEMMA InheritedTables ==
  ASSUME NEW p \in Pipelines, pipeline # None, NEW i \in GroupIndices,
         Agree(LayoutOf(p), LayoutOf(pipeline), i), native.bindGroups[i] \in Groups,
         GroupLayout[native.bindGroups[i]] = LayoutOf(p)[i],
         NEW kind \in D3Kinds, DescriptorCount(GroupLayout[native.bindGroups[i]], kind) > 0
  PROVE  TablesAfter(p)[RootParameterIndex(LayoutOf(p), i, kind)]
           = native.offsets[native.bindGroups[i]][kind]
<1> DEFINE layout == LayoutOf(p)
           n == RootParameterIndex(layout, i, kind)
           kept == IF native.signature[pass] = PipelineLayout[p] THEN native.tables[pass] ELSE NoTables
           owner == {j \in 0 .. InheritUntil(p) - 1 : \E of \in D3Kinds :
                       HasTable(layout, j, of) /\ RootParameterIndex(layout, j, of) = n}
<1>1. i \in DOMAIN layout /\ i \in UsedGroups(p) /\ DOMAIN layout \subseteq GroupIndices
  BY PipelineFacts, LimitsAssumption DEF Agree, GroupIndices
<1>2. HasTable(layout, i, kind)
  BY <1>1 DEF HasTable
<1>3. n \in RootParameters
  BY <1>2, RootParametersDiffer
<1>4. owner = {i}
  <2>1. i \in owner
    BY <1>2, InheritsWhileAgreed
  <2>2. ASSUME NEW j \in owner
        PROVE  j = i
    <3>1. PICK of \in D3Kinds : HasTable(layout, j, of) /\ RootParameterIndex(layout, j, of) = n
      BY <2>2
    <3>2. j \in GroupIndices
      BY <1>1, <3>1 DEF HasTable
    <3>3. QED
      BY <1>2, <3>1, <3>2, RootParametersDiffer
  <2>3. QED
    BY <2>1, <2>2
<1>5. TablesAfter(p)[n]
        = SetTables(kept, layout, CHOOSE j \in owner : TRUE,
                    native.bindGroups[CHOOSE j \in owner : TRUE], native.offsets)[n]
  <2>1. owner # {}
    BY <1>4
  <2>2. QED
    BY <1>3, <2>1 DEF TablesAfter
<1>6. (CHOOSE j \in owner : TRUE) = i
  <2> HIDE DEF owner
  <2>1. QED
    BY <1>4
<1> HIDE DEF owner, kept
<1>7. TablesAfter(p)[n] = SetTables(kept, layout, i, native.bindGroups[i], native.offsets)[n]
  BY <1>5, <1>6
<1>8. QED
  BY <1>1, <1>7, TablesAreSet

-----------------------------------------------------------------------------
(* D3D12: the invariant *)

(* The members of tracker and command list *)
D3Members ==
  {"bindGroups", "offsets", "heaps", "earlier", "failed", "signature", "tables", "vertex",
   "index", "dynamic"}
LEMMA D3Domain == DOMAIN D3Start = D3Members
  BY DEF D3Start, D3Members

(* The command buffer starts with nothing recorded. *)
LEMMA D3Starts ==
  ASSUME native = D3Start, current = {}, dynamic = DefaultState
  PROVE  D3Inv
<1>1. /\ native.bindGroups = NoGroups /\ native.offsets = NeverRecorded
      /\ native.heaps = NoHeaps /\ DOMAIN native.tables = {"compute", "render"}
      /\ native.earlier = {} /\ native.failed = FALSE
      /\ DOMAIN native.vertex = VertexSlots /\ native.dynamic = DefaultState
  BY DEF D3Start
<1>2. NoHeaps \in [D3Kinds -> Seq(Groups \X Nat)]
  <2>1. <<>> \in Seq(Groups \X Nat)
    OBVIOUS
  <2>2. QED
    BY <2>1 DEF NoHeaps
<1>3. D3TypeOK
  <2>1. DOMAIN native = DOMAIN D3Start
    OBVIOUS
  <2>2. /\ native.earlier \subseteq Groups /\ native.failed \in BOOLEAN
        /\ native.heaps \in [D3Kinds -> Seq(Groups \X Nat)]
    BY <1>1, <1>2
  <2>3. /\ native.bindGroups \in [GroupIndices -> Groups \cup {None}]
        /\ native.offsets \in [Groups -> {None} \cup [D3Kinds -> Nat]]
    BY <1>1 DEF NoGroups, NeverRecorded
  <2>4. native.dynamic \in [stencil : 0 .. 1, scissor : {"full", "part"}]
    BY <1>1 DEF DefaultState
  <2>5. QED
    BY <1>1, <2>1, <2>2, <2>3, <2>4 DEF D3TypeOK
<1>4. DescriptorsHold /\ TrackedAreRecorded
  BY <1>1 DEF DescriptorsHold, TrackedAreRecorded, NeverRecorded, NoGroups
<1>5. QED
  BY <1>1, <1>3, <1>4 DEF D3Inv, BuffersHold

(* A pipeline keeps the tables of inherited groups, and buffers that it    *)
(* reads the same way.                                                     *)
LEMMA D3PipelineKeeps ==
  ASSUME Careful, backend = "d3d12", RecInv, D3Inv, NEW p \in Pipelines, D3SetPipeline(p)
  PROVE  D3Inv'
<1> USE DEF Keeps
<1>1. /\ pass \in {"compute", "render"} /\ pipeline' = p
      /\ current' = current \cap StaysCurrent(p)
      /\ UNCHANGED <<pass, groups, vertexBuffers, indexBuffer, dynamic>>
  BY DEF D3SetPipeline, UsePipeline, SetPipeline
<1>2. /\ DOMAIN native' = DOMAIN native
      /\ native'.bindGroups = native.bindGroups /\ native'.offsets = native.offsets
      /\ native'.heaps = native.heaps /\ native'.vertex = native.vertex
      /\ native'.index = native.index /\ native'.dynamic = native.dynamic
      /\ native'.earlier = native.earlier /\ native'.failed = native.failed
      /\ native'.tables = [native.tables EXCEPT ![pass] = TablesAfter(p)]
  <2>1. native' = [native EXCEPT !.signature[pass] = PipelineLayout[p],
                                 !.tables[pass] = TablesAfter(p)]
    BY DEF D3SetPipeline
  <2>2. DOMAIN native = D3Members
    BY D3Domain DEF D3Inv, D3TypeOK
  <2>3. QED
    BY <2>1, <2>2 DEF D3Members
<1>3. D3TypeOK'
  BY <1>2, D3Domain DEF D3Inv, D3TypeOK
<1>4. DescriptorsHold' /\ TrackedAreRecorded'
  BY <1>2 DEF D3Inv, DescriptorsHold, TrackedAreRecorded
<1>5. BuffersHold'
  <2>1. ASSUME NEW s \in VertexSlots, <<"slot", s>> \in current'
        PROVE  /\ s \in Inputs[p]
               /\ native'.vertex[s] = <<vertexBuffers'[s], Stride[InputState[p]][s]>>
    <3>1. <<"slot", s>> \in current /\ SlotStays(p, s)
      BY <1>1, <2>1 DEF StaysCurrent
    <3>2. s \in Inputs[p] /\ Stride[InputState[p]][s] = Stride[InputState[pipeline]][s]
      BY <3>1 DEF SlotStays, CapturesStrides, KeepsStride
    <3>3. QED
      BY <1>1, <1>2, <3>1, <3>2 DEF D3Inv, BuffersHold
  <2>2. ASSUME <<"index">> \in current'
        PROVE  native'.index = <<indexBuffer', IndexFormat[p]>>
    <3>1. <<"index">> \in current /\ IndexStays(p)
      BY <1>1, <2>2 DEF StaysCurrent
    <3>2. IndexFormat[p] = IndexFormat[pipeline]
      BY <3>1 DEF IndexStays, CapturesFormat, KeepsFormat
    <3>3. QED
      BY <1>1, <1>2, <3>1, <3>2 DEF D3Inv, BuffersHold
  <2>3. p # None
    BY PipelineFacts
  <2>4. QED
    BY <1>1, <2>1, <2>2, <2>3 DEF BuffersHold
<1>6. ASSUME NEW i \in GroupIndices, <<"group", i>> \in current'
      PROVE  TablesHold(i)'
  <2>1. <<"group", i>> \in current /\ <<"group", i>> \in StaysCurrent(p)
    BY <1>1, <1>6
  <2>2. pipeline # None /\ i \in InheritedGroupsMask(LayoutOf(p), LayoutOf(pipeline))
    BY <2>1 DEF StaysCurrent, InheritedGroups
  <2>3. Agree(LayoutOf(p), LayoutOf(pipeline), i)
    BY <2>2, InheritedAgree
  <2>4. LayoutOf(p)[i] = LayoutOf(pipeline)[i]
    BY <2>3, LimitsAssumption DEF Agree, GroupIndices
  <2>5. /\ groups[i] \in Groups /\ GroupLayout[groups[i]] = LayoutOf(p)[i]
        /\ native.bindGroups[i] = groups[i]
    BY <2>1, <2>4 DEF RecInv, CurrentIsSet, D3Inv, TablesHold
  <2>6. ASSUME NEW kind \in D3Kinds, DescriptorCount(GroupLayout[groups[i]], kind) > 0
        PROVE  TablesAfter(p)[RootParameterIndex(LayoutOf(p), i, kind)]
                 = native.offsets[groups[i]][kind]
    BY <2>2, <2>3, <2>5, <2>6, InheritedTables
  <2>7. native'.tables[pass] = TablesAfter(p)
    BY <1>1, <1>2 DEF D3Inv, D3TypeOK
  <2>8. QED
    BY <1>1, <1>2, <2>5, <2>6, <2>7 DEF TablesHold
<1>7. QED
  BY <1>1, <1>2, <1>3, <1>4, <1>5, <1>6 DEF D3Inv

(* What recording the descriptors of g changes.                            *)
AddsDescriptors(state, g) ==
  /\ DOMAIN state = DOMAIN native
  /\ state.bindGroups = native.bindGroups /\ state.tables = native.tables
  /\ state.vertex = native.vertex /\ state.index = native.index
  /\ state.dynamic = native.dynamic
  /\ state.earlier = native.earlier /\ state.failed = native.failed
  /\ state.offsets \in [Groups -> {None} \cup [D3Kinds -> Nat]]
  /\ state.heaps \in [D3Kinds -> Seq(Groups \X Nat)]
  /\ state.offsets[g] # None
  /\ \A h \in Groups : native.offsets[h] # None => state.offsets[h] = native.offsets[h]
  /\ \A h \in Groups \ native.earlier : state.offsets[h] # None =>
       \A kind \in D3Kinds : \A n \in 1 .. DescriptorCount(GroupLayout[h], kind) :
         /\ state.offsets[h][kind] + n <= Len(state.heaps[kind])
         /\ state.heaps[kind][state.offsets[h][kind] + n] = Descriptors(h, kind)[n]
(* Recording the descriptors of a group leaves those of other groups where *)
(* they are.                                                               *)
LEMMA RecordedHold ==
  ASSUME D3Inv, NEW g \in Groups, NEW state, state = Recorded(native, g)
  PROVE  AddsDescriptors(state, g)
<1> USE DEF AddsDescriptors
<1>0. /\ DOMAIN native = D3Members
      /\ native.offsets \in [Groups -> {None} \cup [D3Kinds -> Nat]]
      /\ native.heaps \in [D3Kinds -> Seq(Groups \X Nat)]
  BY D3Domain DEF D3Inv, D3TypeOK
<1>1. CASE native.offsets[g] # None
  <2>1. state = native
    BY <1>1 DEF Recorded
  <2>2. QED
    BY <1>0, <1>1, <2>1 DEF D3Inv, DescriptorsHold
<1>2. CASE native.offsets[g] = None
  <2> DEFINE start == [kind \in D3Kinds |-> Len(native.heaps[kind])]
             heaps == [kind \in D3Kinds |-> native.heaps[kind] \o Descriptors(g, kind)]
  <2>1. state = [native EXCEPT !.offsets[g] = start, !.heaps = heaps]
    BY <1>2 DEF Recorded
  <2>2. /\ DOMAIN state = DOMAIN native
        /\ state.bindGroups = native.bindGroups /\ state.tables = native.tables
        /\ state.vertex = native.vertex /\ state.index = native.index
        /\ state.dynamic = native.dynamic
        /\ state.earlier = native.earlier /\ state.failed = native.failed
        /\ state.offsets = [native.offsets EXCEPT ![g] = start]
        /\ state.heaps = heaps
    BY <1>0, <2>1 DEF D3Members
  <2>3. start \in [D3Kinds -> Nat]
    BY <1>0
  <2>4. \A kind \in D3Kinds :
          /\ native.heaps[kind] \in Seq(Groups \X Nat)
          /\ Descriptors(g, kind) \in Seq(Groups \X Nat)
          /\ Len(Descriptors(g, kind)) = DescriptorCount(GroupLayout[g], kind)
    BY <1>0, DescriptorsType
  <2>5. heaps \in [D3Kinds -> Seq(Groups \X Nat)]
    BY <2>4
  <2>6. /\ state.offsets \in [Groups -> {None} \cup [D3Kinds -> Nat]]
        /\ state.offsets[g] = start
        /\ \A h \in Groups : h # g => state.offsets[h] = native.offsets[h]
    BY <1>0, <2>2, <2>3
  <2>7. start # None
    BY <2>3, OffsetsAssumption
  <2>8. ASSUME NEW h \in Groups \ native.earlier, state.offsets[h] # None, NEW kind \in D3Kinds,
               NEW n \in 1 .. DescriptorCount(GroupLayout[h], kind)
        PROVE  /\ state.offsets[h][kind] + n <= Len(heaps[kind])
               /\ heaps[kind][state.offsets[h][kind] + n] = Descriptors(h, kind)[n]
    <3>1. heaps[kind] = native.heaps[kind] \o Descriptors(g, kind)
      OBVIOUS
    <3>2. CASE h = g
      <4>1. state.offsets[h][kind] = Len(native.heaps[kind])
        BY <2>6, <3>2
      <4>2. n \in 1 .. Len(Descriptors(g, kind))
        BY <2>4, <2>8, <3>2
      <4> HIDE DEF heaps, start
      <4>3. QED
        BY <2>4, <3>1, <3>2, <4>1, <4>2
    <3>3. CASE h # g
      <4>1. state.offsets[h] = native.offsets[h] /\ native.offsets[h] # None
        BY <2>6, <2>8, <3>3
      <4>2. /\ native.offsets[h][kind] + n <= Len(native.heaps[kind])
            /\ native.heaps[kind][native.offsets[h][kind] + n] = Descriptors(h, kind)[n]
        BY <2>8, <4>1 DEF D3Inv, DescriptorsHold
      <4>3. native.offsets[h][kind] \in Nat /\ n \in Nat /\ n >= 1
        <5>1. native.offsets[h] \in [D3Kinds -> Nat]
          BY <1>0, <4>1
        <5>2. QED
          BY <5>1
      <4>4. native.offsets[h][kind] + n \in 1 .. Len(native.heaps[kind])
        <5>1. \A o, m, l \in Nat : m >= 1 /\ o + m <= l => o + m \in 1 .. l
          OBVIOUS
        <5>2. Len(native.heaps[kind]) \in Nat
          BY <2>4
        <5>3. QED
          BY <4>2, <4>3, <5>1, <5>2
      <4> HIDE DEF heaps, start
      <4>5. /\ Len(heaps[kind]) >= Len(native.heaps[kind])
            /\ \A k \in 1 .. Len(native.heaps[kind]) : heaps[kind][k] = native.heaps[kind][k]
        BY <2>4, <3>1
      <4>6. heaps[kind] \in Seq(Groups \X Nat)
        BY <2>5
      <4> DEFINE k == native.offsets[h][kind] + n
      <4>7. k <= Len(heaps[kind]) /\ heaps[kind][k] = Descriptors(h, kind)[n]
        <5>1. k \in Int /\ Len(heaps[kind]) \in Nat /\ Len(native.heaps[kind]) \in Nat
          <6>1. k \in Int
            BY <4>3
          <6>2. Len(heaps[kind]) \in Nat
            BY <4>6
          <6>3. Len(native.heaps[kind]) \in Nat
            BY <2>4
          <6>4. QED
            BY <6>1, <6>2, <6>3
        <5>2. k <= Len(native.heaps[kind]) /\ native.heaps[kind][k] = Descriptors(h, kind)[n]
          BY <4>2
        <5>3. heaps[kind][k] = native.heaps[kind][k]
          BY <4>4, <4>5
        <5> HIDE DEF k
        <5>4. QED
          BY <4>5, <5>1, <5>2, <5>3
      <4>8. QED
        BY <4>1, <4>7
    <3>4. QED
      BY <3>2, <3>3
  <2> HIDE DEF heaps, start
  <2>9. QED
    BY <1>2, <2>2, <2>5, <2>6, <2>7, <2>8
<1>3. QED
  BY <1>1, <1>2

(* A bind group that is set has its tables; one that the tracker has       *)
(* already is skipped, and its tables are set if the application is        *)
(* careful.                                                                *)
LEMMA D3GroupKeeps ==
  ASSUME Careful, RecInv, D3Inv, NEW i \in GroupIndices, NEW g \in Groups, D3SetBindGroup(i, g)
  PROVE  D3Inv'
<1> USE DEF Keeps
<1>1. /\ pipeline # None /\ i \in UsedGroups(pipeline) /\ LayoutOf(pipeline)[i] = GroupLayout[g]
      /\ InPass /\ current' = current \cup {<<"group", i>>} /\ groups' = [groups EXCEPT ![i] = g]
      /\ UNCHANGED <<pass, pipeline, vertexBuffers, indexBuffer, dynamic>>
      /\ g \notin native.earlier
  BY DEF D3SetBindGroup, UseBindGroup, SetBindGroup, Fits
<1>2. pipeline \in Pipelines
  BY <1>1 DEF RecInv, RecTypeOK
<1>3. /\ groups'[i] = g
      /\ \A j \in GroupIndices : j # i => groups'[j] = groups[j]
      /\ \A j \in GroupIndices : j # i /\ <<"group", j>> \in current' => <<"group", j>> \in current
  BY <1>1 DEF RecInv, RecTypeOK
<1>4. /\ \A s \in VertexSlots : <<"slot", s>> \in current' => <<"slot", s>> \in current
      /\ <<"index">> \in current' => <<"index">> \in current
  BY <1>1
<1> DEFINE new(offsets) == TablesFor(i, g, offsets)
<1>5. \A offsets :
        /\ \A kind \in D3Kinds : DescriptorCount(GroupLayout[g], kind) > 0 =>
             new(offsets)[RootParameterIndex(LayoutOf(pipeline), i, kind)] = offsets[g][kind]
        /\ \A j \in GroupIndices, kind \in D3Kinds : j # i /\ HasTable(LayoutOf(pipeline), j, kind) =>
             new(offsets)[RootParameterIndex(LayoutOf(pipeline), j, kind)]
               = native.tables[pass][RootParameterIndex(LayoutOf(pipeline), j, kind)]
  BY <1>1, <1>2, TablesAreSet DEF TablesFor
<1>6. CASE native.bindGroups[i] = g
  <2>1. native' = native /\ new(native.offsets) = native.tables[pass]
    BY <1>6 DEF D3SetBindGroup
  <2>2. TablesHold(i)'
    BY <1>1, <1>3, <1>5, <1>6, <2>1 DEF TablesHold
  <2>3. ASSUME NEW j \in GroupIndices, j # i, <<"group", j>> \in current'
        PROVE  TablesHold(j)'
    <3>1. TablesHold(j) /\ groups'[j] = groups[j]
      BY <1>3, <2>3 DEF D3Inv
    <3>2. QED
      BY <1>1, <2>1, <3>1 DEF TablesHold
  <2>4. BuffersHold'
    BY <1>1, <1>4, <2>1 DEF D3Inv, BuffersHold
  <2>5. D3TypeOK'
    BY <2>1 DEF D3Inv, D3TypeOK
  <2>6. DescriptorsHold'
    BY <2>1 DEF D3Inv, DescriptorsHold
  <2>7. TrackedAreRecorded'
    BY <2>1 DEF D3Inv, TrackedAreRecorded
  <2>8. QED
    BY <1>1, <2>1, <2>2, <2>3, <2>4, <2>5, <2>6, <2>7 DEF D3Inv
<1>7. CASE native.bindGroups[i] # g
  <2> DEFINE state == Recorded(native, g)
  <2>0. state = Recorded(native, g)
    OBVIOUS
  <2>1. native' = [state EXCEPT !.bindGroups[i] = g, !.tables[pass] = new(state.offsets)]
    BY <1>1, <1>7 DEF D3SetBindGroup
  <2>2. /\ DOMAIN state = DOMAIN native
        /\ state.bindGroups = native.bindGroups /\ state.tables = native.tables
        /\ state.vertex = native.vertex /\ state.index = native.index
        /\ state.dynamic = native.dynamic
        /\ state.earlier = native.earlier /\ state.failed = native.failed
        /\ state.offsets \in [Groups -> {None} \cup [D3Kinds -> Nat]]
        /\ state.heaps \in [D3Kinds -> Seq(Groups \X Nat)]
        /\ state.offsets[g] # None
        /\ \A h \in Groups : native.offsets[h] # None => state.offsets[h] = native.offsets[h]
        /\ \A h \in Groups \ native.earlier : state.offsets[h] # None =>
             \A kind \in D3Kinds : \A n \in 1 .. DescriptorCount(GroupLayout[h], kind) :
               /\ state.offsets[h][kind] + n <= Len(state.heaps[kind])
               /\ state.heaps[kind][state.offsets[h][kind] + n] = Descriptors(h, kind)[n]
    <3> HIDE DEF state
    <3>1. AddsDescriptors(state, g)
      BY <2>0, RecordedHold
    <3>2. QED
      BY <3>1 DEF AddsDescriptors
  <2> HIDE DEF state, new
  <2>3. DOMAIN native = D3Members
    BY D3Domain DEF D3Inv, D3TypeOK
  <2>4. /\ DOMAIN native' = DOMAIN native
        /\ native'.bindGroups = [native.bindGroups EXCEPT ![i] = g]
        /\ native'.tables = [native.tables EXCEPT ![pass] = new(state.offsets)]
        /\ native'.offsets = state.offsets /\ native'.heaps = state.heaps
        /\ native'.vertex = native.vertex /\ native'.index = native.index
        /\ native'.dynamic = native.dynamic
        /\ native'.earlier = native.earlier /\ native'.failed = native.failed
    BY <2>1, <2>2, <2>3 DEF D3Members
  <2>5. /\ native.bindGroups \in [GroupIndices -> Groups \cup {None}]
        /\ DOMAIN native.tables = {"compute", "render"} /\ pass \in {"compute", "render"}
    BY <1>1 DEF D3Inv, D3TypeOK, InPass
  <2>6. native'.tables[pass] = new(state.offsets)
    BY <2>4, <2>5
  <2>7. D3TypeOK'
    <3>1. native'.bindGroups \in [GroupIndices -> Groups \cup {None}]
      BY <2>4, <2>5
    <3>2. QED
      BY <2>2, <2>4, <3>1 DEF D3Inv, D3TypeOK
  <2>8. DescriptorsHold'
    BY <2>2, <2>4 DEF DescriptorsHold
  <2>9. TrackedAreRecorded'
    <3>1. \A j \in GroupIndices : native.bindGroups[j] # None =>
            /\ native.bindGroups[j] \in Groups
            /\ native.offsets[native.bindGroups[j]] # None
            /\ native.bindGroups[j] \notin native.earlier
      BY <2>5 DEF D3Inv, TrackedAreRecorded
    <3>2. \A j \in GroupIndices :
            native'.bindGroups[j] = IF j = i THEN g ELSE native.bindGroups[j]
      BY <2>4, <2>5
    <3>3. ASSUME NEW j \in GroupIndices, native'.bindGroups[j] # None
          PROVE  /\ native'.offsets[native'.bindGroups[j]] # None
                 /\ native'.bindGroups[j] \notin native'.earlier
      <4>1. CASE j = i
        BY <1>1, <2>2, <2>4, <3>2, <4>1
      <4>2. CASE j # i
        BY <2>2, <2>4, <3>1, <3>2, <3>3, <4>2
      <4>3. QED
        BY <4>1, <4>2
    <3>4. QED
      BY <3>3 DEF TrackedAreRecorded
  <2>10. TablesHold(i)'
    <3>1. native'.bindGroups[i] = g
      BY <2>4, <2>5
    <3>2. \A kind \in D3Kinds : DescriptorCount(GroupLayout[g], kind) > 0 =>
            new(state.offsets)[RootParameterIndex(LayoutOf(pipeline), i, kind)]
              = state.offsets[g][kind]
      BY <1>5
    <3>3. QED
      BY <1>1, <1>3, <2>4, <2>6, <3>1, <3>2 DEF TablesHold
  <2>11. ASSUME NEW j \in GroupIndices, j # i, <<"group", j>> \in current'
         PROVE  TablesHold(j)'
    <3>1. /\ TablesHold(j) /\ groups'[j] = groups[j]
          /\ groups[j] \in Groups /\ GroupLayout[groups[j]] = LayoutOf(pipeline)[j]
          /\ j \in DOMAIN LayoutOf(pipeline)
      BY <1>2, <1>3, <2>11, PipelineFacts DEF D3Inv, RecInv, CurrentIsSet
    <3>2. native.bindGroups[j] = groups[j] /\ native'.bindGroups[j] = groups[j]
      BY <2>4, <2>5, <2>11, <3>1 DEF TablesHold
    <3>3. native.offsets[groups[j]] # None
      BY <3>1, <3>2, NoneAssumption DEF D3Inv, TrackedAreRecorded
    <3>4. native'.offsets[groups[j]] = native.offsets[groups[j]]
      BY <2>2, <2>4, <3>1, <3>3
    <3>5. ASSUME NEW kind \in D3Kinds, DescriptorCount(GroupLayout[groups[j]], kind) > 0
          PROVE  native'.tables[pass][RootParameterIndex(LayoutOf(pipeline), j, kind)]
                   = native.offsets[groups[j]][kind]
      <4>1. HasTable(LayoutOf(pipeline), j, kind)
        BY <3>1, <3>5 DEF HasTable
      <4>2. new(state.offsets)[RootParameterIndex(LayoutOf(pipeline), j, kind)]
              = native.tables[pass][RootParameterIndex(LayoutOf(pipeline), j, kind)]
        BY <1>5, <2>11, <4>1
      <4>3. QED
        BY <2>6, <3>1, <3>5, <4>2 DEF TablesHold
    <3>6. QED
      BY <1>1, <3>1, <3>2, <3>4, <3>5 DEF TablesHold
  <2>12. BuffersHold'
    BY <1>1, <1>4, <2>4 DEF D3Inv, BuffersHold
  <2>13. QED
    BY <1>1, <2>4, <2>7, <2>8, <2>9, <2>10, <2>11, <2>12 DEF D3Inv
<1>8. QED
  BY <1>6, <1>7

(* Buffers and dynamic state that are set are those of the list. *)
LEMMA D3BuffersKeep ==
  ASSUME Careful, RecInv, D3Inv,
         \/ \E b \in Buffers : D3SetIndexBuffer(b)
         \/ \E s \in VertexSlots, bufs \in BufferLists : D3SetVertexBuffers(s, bufs)
         \/ \E v \in 0 .. 1 : D3SetDynamicState("stencil", v)
         \/ D3SetDynamicState("scissor", "part")
  PROVE  D3Inv'
<1> USE DEF Keeps
<1>0. DOMAIN native = D3Members
  BY D3Domain DEF D3Inv, D3TypeOK
<1>1. ASSUME NEW b \in Buffers, D3SetIndexBuffer(b)
      PROVE  D3Inv'
  <2>1. /\ current' = current \cup {<<"index">>} /\ indexBuffer' = b
        /\ UNCHANGED <<pass, pipeline, groups, vertexBuffers, dynamic>>
    BY <1>1 DEF D3SetIndexBuffer, UseIndexBuffer, SetIndexBuffer
  <2>2. pipeline # None /\ native' = [native EXCEPT !.index = <<b, IndexFormat[pipeline]>>]
    BY <1>1 DEF D3SetIndexBuffer
  <2>3. /\ DOMAIN native' = DOMAIN native
        /\ native'.bindGroups = native.bindGroups /\ native'.offsets = native.offsets
        /\ native'.heaps = native.heaps /\ native'.tables = native.tables
        /\ native'.vertex = native.vertex /\ native'.dynamic = native.dynamic
        /\ native'.earlier = native.earlier /\ native'.failed = native.failed
        /\ native'.index = <<b, IndexFormat[pipeline]>>
    BY <1>0, <2>2 DEF D3Members
  <2>4. D3TypeOK' /\ DescriptorsHold' /\ TrackedAreRecorded'
    BY <2>3 DEF D3Inv, D3TypeOK, DescriptorsHold, TrackedAreRecorded
  <2>5. BuffersHold'
    <3>1. \A s \in VertexSlots : <<"slot", s>> \in current' => <<"slot", s>> \in current
      BY <2>1
    <3>2. QED
      BY <2>1, <2>2, <2>3, <3>1 DEF D3Inv, BuffersHold
  <2>6. ASSUME NEW i \in GroupIndices, <<"group", i>> \in current'
        PROVE  TablesHold(i)'
    BY <2>1, <2>3, <2>6 DEF D3Inv, TablesHold
  <2>7. QED
    BY <2>1, <2>3, <2>4, <2>5, <2>6 DEF D3Inv
<1>2. ASSUME NEW start \in VertexSlots, NEW bufs \in BufferLists, D3SetVertexBuffers(start, bufs)
      PROVE  D3Inv'
  <2> DEFINE vertex == [s \in VertexSlots |->
               IF s - start \in DOMAIN bufs
               THEN <<bufs[s - start], Stride[InputState[pipeline]][s]>> ELSE native.vertex[s]]
  <2>0. HasSlots(start, bufs)
    BY <1>2 DEF D3SetVertexBuffers
  <2>1. /\ current' = current \cup {<<"slot", start + k>> : k \in DOMAIN bufs}
        /\ vertexBuffers' = [s \in VertexSlots |->
             IF s - start \in DOMAIN bufs THEN bufs[s - start] ELSE vertexBuffers[s]]
        /\ UNCHANGED <<pass, pipeline, groups, indexBuffer, dynamic>>
    BY <1>2 DEF D3SetVertexBuffers, UseVertexBuffers, SetVertexBuffers
  <2>2. native' = [native EXCEPT !.vertex = vertex]
    BY <1>2, <2>0 DEF D3SetVertexBuffers
  <2>3. /\ DOMAIN native' = DOMAIN native
        /\ native'.bindGroups = native.bindGroups /\ native'.offsets = native.offsets
        /\ native'.heaps = native.heaps /\ native'.tables = native.tables
        /\ native'.index = native.index /\ native'.dynamic = native.dynamic
        /\ native'.earlier = native.earlier /\ native'.failed = native.failed
        /\ native'.vertex = vertex
    BY <1>0, <2>2 DEF D3Members
  <2>4. D3TypeOK' /\ DescriptorsHold' /\ TrackedAreRecorded'
    BY <2>3 DEF D3Inv, D3TypeOK, DescriptorsHold, TrackedAreRecorded
  <2>5. ASSUME NEW s \in VertexSlots, <<"slot", s>> \in current'
        PROVE  /\ s \in Inputs[pipeline]
               /\ vertex[s] = <<vertexBuffers'[s], Stride[InputState[pipeline]][s]>>
    <3>0. PICK n \in 0 .. kMaxVertexInputs : bufs \in [0 .. n - 1 -> Buffers]
      BY DEF BufferLists
    <3>1. CASE s - start \in DOMAIN bufs
      <4>1. start + (s - start) = s
        BY LimitsAssumption DEF VertexSlots
      <4>2. s \in Inputs[pipeline]
        BY <2>0, <3>1, <4>1 DEF HasSlots
      <4>3. QED
        BY <2>1, <3>1, <4>2
    <3>2. CASE s - start \notin DOMAIN bufs
      <4>2. <<"slot", s>> \in current
        <5>1. ASSUME NEW k \in DOMAIN bufs
              PROVE  s # start + k
          <6>1. k \in Int /\ start \in Int /\ s \in Int
            BY <3>0, LimitsAssumption DEF VertexSlots
          <6>2. s = start + k => s - start = k
            BY <6>1
          <6>3. QED
            BY <3>2, <6>2
        <5>2. <<"slot", s>> \notin {<<"slot", start + k>> : k \in DOMAIN bufs}
          BY <5>1
        <5>3. QED
          BY <2>1, <2>5, <5>2
      <4>3. /\ s \in Inputs[pipeline]
            /\ native.vertex[s] = <<vertexBuffers[s], Stride[InputState[pipeline]][s]>>
        BY <4>2 DEF D3Inv, BuffersHold
      <4>4. QED
        BY <2>1, <3>2, <4>3
    <3>3. QED
      BY <3>1, <3>2
  <2>6. BuffersHold'
    <3>1. <<"index">> \in current' => <<"index">> \in current
      BY <2>1
    <3> HIDE DEF vertex
    <3>2. QED
      BY <2>0, <2>1, <2>3, <2>5, <3>1 DEF D3Inv, BuffersHold, HasSlots
  <2>7. ASSUME NEW i \in GroupIndices, <<"group", i>> \in current'
        PROVE  TablesHold(i)'
    <3>1. <<"group", i>> \in current
      BY <2>1, <2>7
    <3>2. QED
      BY <2>1, <2>3, <3>1 DEF D3Inv, TablesHold
  <2>8. QED
    BY <2>1, <2>3, <2>4, <2>6, <2>7 DEF D3Inv
<1>3. ASSUME NEW field \in {"stencil", "scissor"}, NEW v, D3SetDynamicState(field, v),
             IF field = "stencil" THEN v \in 0 .. 1 ELSE v \in {"part", "full"}
      PROVE  D3Inv'
  <2>1. /\ pass = "render" /\ dynamic' = [dynamic EXCEPT ![field] = v]
        /\ UNCHANGED <<pass, pipeline, groups, vertexBuffers, indexBuffer, current>>
    BY <1>3 DEF D3SetDynamicState, UseDynamicState, streamVars
  <2>2. native' = [native EXCEPT !.dynamic[field] = v]
    BY <1>3 DEF D3SetDynamicState
  <2>3. /\ DOMAIN native' = DOMAIN native
        /\ native'.bindGroups = native.bindGroups /\ native'.offsets = native.offsets
        /\ native'.heaps = native.heaps /\ native'.tables = native.tables
        /\ native'.vertex = native.vertex /\ native'.index = native.index
        /\ native'.earlier = native.earlier /\ native'.failed = native.failed
        /\ native'.dynamic = [native.dynamic EXCEPT ![field] = v]
    BY <1>0, <2>2 DEF D3Members
  <2>4. native'.dynamic = dynamic'
    BY <2>1, <2>3 DEF D3Inv
  <2>5. D3TypeOK'
    <3>1. native'.dynamic \in [stencil : 0 .. 1, scissor : {"full", "part"}]
      BY <1>3, <2>3 DEF D3Inv, D3TypeOK
    <3>2. QED
      BY <2>3, <3>1 DEF D3Inv, D3TypeOK
  <2>6. DescriptorsHold' /\ TrackedAreRecorded' /\ BuffersHold'
    BY <2>1, <2>3 DEF D3Inv, DescriptorsHold, TrackedAreRecorded, BuffersHold
  <2>7. ASSUME NEW i \in GroupIndices, <<"group", i>> \in current'
        PROVE  TablesHold(i)'
    BY <2>1, <2>3, <2>7 DEF D3Inv, TablesHold
  <2>8. QED
    BY <2>3, <2>4, <2>5, <2>6, <2>7 DEF D3Inv
<1>4. QED
  BY <1>1, <1>2, <1>3

(* Passes and command buffers begin with nothing set. *)
LEMMA D3PassKeeps ==
  ASSUME Careful, RecInv, D3Inv,
         \/ \E kind \in {"compute", "render"} : D3Begin(kind)
         \/ D3End \/ D3Operate
         \/ \E same \in BOOLEAN : D3NextCommandBuffer(same)
         \/ UNCHANGED vars
  PROVE  D3Inv'
<1> USE DEF Keeps
<1>0. DOMAIN native = D3Members
  BY D3Domain DEF D3Inv, D3TypeOK
<1>1. ASSUME NEW kind \in {"compute", "render"}, D3Begin(kind)
      PROVE  D3Inv'
  <2>1. current' = {} /\ dynamic' = DefaultState /\ pass' = kind
    BY <1>1 DEF D3Begin, BeginPass, Begin
  <2>2. /\ native' = IF kind = "render" THEN [native EXCEPT !.dynamic.scissor = "full"] ELSE native
        /\ kind = "render" => native.dynamic.stencil = 0
    BY <1>1 DEF D3Begin
  <2>3. /\ DOMAIN native' = DOMAIN native
        /\ native'.bindGroups = native.bindGroups /\ native'.offsets = native.offsets
        /\ native'.heaps = native.heaps /\ native'.tables = native.tables
        /\ native'.vertex = native.vertex /\ native'.index = native.index
        /\ native'.earlier = native.earlier /\ native'.failed = native.failed
        /\ native'.dynamic = IF kind = "render" THEN [native.dynamic EXCEPT !.scissor = "full"]
                             ELSE native.dynamic
    BY <1>0, <2>2 DEF D3Members
  <2>4. native.dynamic \in [stencil : 0 .. 1, scissor : {"full", "part"}]
    BY DEF D3Inv, D3TypeOK
  <2>5. /\ native'.dynamic \in [stencil : 0 .. 1, scissor : {"full", "part"}]
        /\ kind = "render" => native'.dynamic = DefaultState
    BY <2>2, <2>3, <2>4 DEF DefaultState
  <2>6. D3TypeOK' /\ DescriptorsHold' /\ TrackedAreRecorded'
    BY <2>3, <2>5 DEF D3Inv, D3TypeOK, DescriptorsHold, TrackedAreRecorded
  <2>7. QED
    BY <2>1, <2>3, <2>5, <2>6 DEF D3Inv, BuffersHold
<1>2. CASE D3End
  <2>1. native' = native /\ current' = {} /\ pass' = "outside"
    BY <1>2 DEF D3End, EndPass, End
  <2>2. QED
    BY <2>1 DEF D3Inv, D3TypeOK, DescriptorsHold, TrackedAreRecorded, BuffersHold
<1>3. CASE D3Operate \/ UNCHANGED vars
  <2>1. UNCHANGED <<native, pass, pipeline, groups, vertexBuffers, indexBuffer, dynamic, current>>
    BY <1>3 DEF D3Operate, Operate, vars, recVars, streamVars
  <2>2. D3TypeOK' /\ DescriptorsHold' /\ TrackedAreRecorded'
    BY <2>1 DEF D3Inv, D3TypeOK, DescriptorsHold, TrackedAreRecorded
  <2>3. BuffersHold'
    BY <2>1 DEF D3Inv, BuffersHold
  <2>4. QED
    BY <2>1, <2>2, <2>3 DEF D3Inv, TablesHold
<1>4. ASSUME NEW same \in BOOLEAN, D3NextCommandBuffer(same)
      PROVE  D3Inv'
  <2>1. /\ pass = "outside" /\ current = {}
        /\ UNCHANGED <<pass, pipeline, groups, vertexBuffers, indexBuffer, dynamic, current>>
    BY <1>4 DEF D3NextCommandBuffer, recVars, streamVars, RecInv, PassesAreApart
  <2> DEFINE recorded == {g \in Groups : native.offsets[g] # None}
  <2>2. native' = [native EXCEPT
          !.bindGroups = NoGroups, !.heaps = NoHeaps,
          !.offsets = IF same THEN @ ELSE NeverRecorded,
          !.earlier = IF same THEN recorded ELSE {},
          !.tables = [compute |-> NoTables, render |-> NoTables]]
    BY <1>4 DEF D3NextCommandBuffer
  <2>3. /\ DOMAIN native' = DOMAIN native
        /\ native'.bindGroups = NoGroups /\ native'.heaps = NoHeaps
        /\ native'.offsets = IF same THEN native.offsets ELSE NeverRecorded
        /\ native'.earlier = IF same THEN recorded ELSE {}
        /\ native'.failed = native.failed
        /\ DOMAIN native'.tables = {"compute", "render"}
        /\ native'.vertex = native.vertex /\ native'.dynamic = native.dynamic
    BY <1>0, <2>2 DEF D3Members
  <2>4. NoHeaps \in [D3Kinds -> Seq(Groups \X Nat)]
    <3>1. <<>> \in Seq(Groups \X Nat)
      OBVIOUS
    <3>2. QED
      BY <3>1 DEF NoHeaps
  <2>5. D3TypeOK'
    BY <2>3, <2>4 DEF D3Inv, D3TypeOK, NoGroups, NeverRecorded
  <2>6. DescriptorsHold' /\ TrackedAreRecorded'
    <3>1. \A g \in Groups \ native'.earlier : native'.offsets[g] = None
      BY <2>3 DEF NeverRecorded
    <3>2. QED
      BY <2>3, <3>1 DEF DescriptorsHold, TrackedAreRecorded, NoGroups
  <2>7. QED
    BY <2>1, <2>3, <2>5, <2>6 DEF D3Inv, BuffersHold
<1>5. QED
  BY <1>1, <1>2, <1>3, <1>4

(* The register of a place is where the layout has its descriptor. *)
LEMMA RegisterIs ==
  ASSUME RegistersMatch, NEW p \in Pipelines, NEW stage \in StagesOf(p),
         NEW place \in ShaderUses[p][stage]
  PROVE  LET bgl == LayoutOf(p)[place[1]]
         IN  RangeOffset(bgl, TypeAt(LayoutOf(p), place)) + ShaderRegister(p, stage, place)
               = BindingOffset(bgl, place[2])
<1> DEFINE layout == LayoutOf(p)
           bgl == layout[place[1]]
           type == TypeAt(layout, place)
           below == {c \in BindingsOfType(bgl, type) : c < place[2]}
           uses == {q \in ShaderUses[p][stage] :
                     q[1] = place[1] /\ q[2] < place[2] /\ TypeAt(layout, q) = type}
           f == [c \in below |-> <<place[1], c>>]
<1>1. /\ \A q \in ShaderUses[p][stage] : q \in PlacesOf(layout)
      /\ place \in PlacesOf(layout)
  BY ShadersAssumption
<1>2. \A q \in ShaderUses[p][stage] :
        q = <<q[1], q[2]>> /\ q[1] \in DOMAIN layout /\ q[2] \in DOMAIN BindingType[layout[q[1]]]
  BY <1>1, PlaceIs
<1>3. bgl \in DOMAIN BindingType
  BY <1>2, PipelineFacts
<1>4. IsFiniteSet(below)
  <2>1. below \in SUBSET DOMAIN BindingType[bgl] /\ IsFiniteSet(DOMAIN BindingType[bgl])
    BY <1>3, BindingsOfLayout DEF BindingsOfType
  <2>2. QED
    BY <2>1, FS_Subset
<1>5. \A c \in below : <<place[1], c>> \in uses
  <2> SUFFICES ASSUME NEW c \in below PROVE <<place[1], c>> \in uses
    OBVIOUS
  <2>1. <<place[1], c>> \in ShaderUses[p][stage] /\ BindingType[bgl][c] = type
    BY DEF RegistersMatch, BindingsOfType
  <2>2. TypeAt(layout, <<place[1], c>>) = BindingType[bgl][c]
    BY DEF TypeAt
  <2>3. QED
    BY <2>1, <2>2
<1>6. \A q \in uses : q[2] \in below /\ q = <<place[1], q[2]>>
  BY <1>2 DEF BindingsOfType, TypeAt
<1>7. f \in Bijection(below, uses)
  <2>1. f \in [below -> uses]
    BY <1>5
  <2>2. \A c \in below, d \in below : f[c] = f[d] => c = d
    OBVIOUS
  <2>3. \A q \in uses : \E c \in below : f[c] = q
    BY <1>6
  <2> HIDE DEF f, below, uses
  <2>4. f \in Injection(below, uses) /\ f \in Surjection(below, uses)
    BY <2>1, <2>2, <2>3 DEF Injection, IsInjective, Surjection
  <2>5. QED
    BY <2>4 DEF Bijection
<1>8. Cardinality(uses) = Cardinality(below)
  <2> HIDE DEF f, below, uses
  <2>1. QED
    BY <1>4, <1>7, FS_Bijection DEF ExistsBijection
<1>9. ShaderRegister(p, stage, place) = Cardinality(uses)
  BY DEF ShaderRegister
<1>10. BindingOffset(bgl, place[2]) = RangeOffset(bgl, type) + Cardinality(below)
  BY DEF BindingOffset, TypeAt
<1> HIDE DEF below, uses
<1>11. QED
  BY <1>8, <1>9, <1>10

(* The invariant says that draws find what was set. *)
LEMMA D3InvSuffices ==
  ASSUME RegistersMatch, RecInv, backend = "d3d12" => D3Inv
  PROVE  D3D12DrawsRight
<1> SUFFICES ASSUME backend = "d3d12", D3Inv
             PROVE  D3D12DrawsRight
  BY DEF D3D12DrawsRight
<1>1. ASSUME GroupsReady, NEW stage \in StagesOf(pipeline), NEW place \in ShaderUses[pipeline][stage]
      PROVE  ReadsDescriptor(stage, place) = Wanted(place)
  <2> DEFINE layout == LayoutOf(pipeline)
             i == place[1]
             g == groups[i]
             b == place[2]
             bgl == layout[i]
             type == TypeAt(layout, place)
             kind == KindOf(type)
             table == native.offsets[g][kind]
             n == BindingOffset(bgl, b) + 1
  <2>1. pipeline \in Pipelines
    BY <1>1 DEF GroupsReady, Ready, RecInv, RecTypeOK
  <2>2. place = <<i, b>> /\ i \in UsedGroups(pipeline) /\ b \in DOMAIN BindingType[bgl]
    BY <2>1, <1>1, ShadersAssumption, PlaceIs, PipelineFacts
  <2>3. i \in GroupIndices /\ <<"group", i>> \in current
    BY <1>1, <2>1, <2>2, PipelineFacts DEF GroupsReady
  <2>4. g \in Groups /\ GroupLayout[g] = bgl /\ bgl \in DOMAIN BindingType /\ TablesHold(i)
    BY <2>1, <2>2, <2>3, PipelineFacts DEF RecInv, CurrentIsSet, D3Inv
  <2>5. kind \in D3Kinds /\ b \in OfKind(bgl, kind)
    BY <2>2 DEF KindOf, D3Kinds, OfKind, TypeAt
  <2>6. n \in 1 .. DescriptorCount(bgl, kind) /\ Descriptors(g, kind)[n] = <<g, b>>
    <3> HIDE DEF g, b, bgl, kind
    <3>1. b \in OfKind(GroupLayout[g], kind) /\ kind \in D3Kinds /\ g \in Groups
      BY <2>4, <2>5
    <3>2. /\ BindingOffset(GroupLayout[g], b) + 1 \in 1 .. DescriptorCount(GroupLayout[g], kind)
          /\ Descriptors(g, kind)[BindingOffset(GroupLayout[g], b) + 1] = <<g, b>>
      BY <3>1, DescriptorIs
    <3>3. QED
      BY <2>4, <3>2
  <2>7. DescriptorCount(bgl, kind) > 0 /\ DescriptorCount(bgl, kind) \in Nat
    BY <2>4, <2>5, <2>6, OffsetsDiffer
  <2>8. native.tables[pass][RootParameterIndex(layout, i, kind)] = table
    BY <2>4, <2>5, <2>7 DEF TablesHold
  <2>9. native.offsets[g] \in [D3Kinds -> Nat] /\ native.offsets[g] # None
    BY <2>3, <2>4, NoneAssumption DEF D3Inv, D3TypeOK, TrackedAreRecorded, TablesHold
  <2>10. table \in Nat /\ table # None
    BY <2>5, <2>9, OffsetsAssumption
  <2>11. native.heaps[kind][table + n] = <<g, b>> /\ table + n <= Len(native.heaps[kind])
    <3>1. g \notin native.earlier
      BY <2>3, <2>4, NoneAssumption DEF D3Inv, TrackedAreRecorded, TablesHold
    <3>2. /\ native.offsets[g][kind] + n <= Len(native.heaps[kind])
          /\ native.heaps[kind][native.offsets[g][kind] + n] = Descriptors(g, kind)[n]
      <4> HIDE DEF g, kind, n, bgl
      <4>1. QED
        BY <2>4, <2>5, <2>6, <2>9, <3>1 DEF D3Inv, DescriptorsHold
    <3>3. QED
      BY <2>6, <3>2
  <2>12. RangeOffset(bgl, type) + ShaderRegister(pipeline, stage, place) = BindingOffset(bgl, b)
    BY <1>1, <2>1, RegisterIs
  <2>13. RangeOffset(bgl, type) \in Nat /\ ShaderRegister(pipeline, stage, place) \in Nat
    <3>1. /\ IsFiniteSet(DOMAIN BindingType[bgl])
          /\ \A c \in DOMAIN BindingType[bgl] : BindingType[bgl][c] \in BindingTypes
      BY <2>4, BindingsOfLayout
    <3>2. type \in BindingTypes
      BY <2>2, <3>1 DEF TypeAt
    <3>3. RangeOffset(bgl, type) \in Nat
      <4> DEFINE lower == {c \in OfKind(bgl, kind) :
                             TypeRank(BindingType[bgl][c]) < TypeRank(type)}
      <4>1. lower \in SUBSET DOMAIN BindingType[bgl]
        BY DEF OfKind
      <4>2. Cardinality(lower) \in Nat
        BY <3>1, <4>1, FS_Subset, FS_CardinalityType
      <4>3. QED
        BY <2>4, <3>2, <4>2, RangeOffsetIs
    <3>4. ShaderRegister(pipeline, stage, place) \in Nat
      <4> DEFINE uses == {q \in ShaderUses[pipeline][stage] :
                           q[1] = i /\ q[2] < b /\ TypeAt(layout, q) = type}
      <4>1. uses \in SUBSET PlacesOf(layout)
        BY <2>1, <1>1, ShadersAssumption
      <4>2. IsFiniteSet(PlacesOf(layout))
        BY <2>1, PlacesOfPipeline
      <4>3. Cardinality(uses) \in Nat
        BY <4>1, <4>2, FS_Subset, FS_CardinalityType
      <4>4. QED
        BY <4>3 DEF ShaderRegister
    <3>5. QED
      BY <3>3, <3>4
  <2> DEFINE position == 1 + table + RangeOffset(bgl, type) + ShaderRegister(pipeline, stage, place)
  <2>14. ReadsDescriptor(stage, place)
           = IF position > Len(native.heaps[kind]) THEN None ELSE native.heaps[kind][position]
    BY <2>8, <2>10 DEF ReadsDescriptor
  <2> HIDE DEF bgl, type, table, kind
  <2>15. position = table + n
    BY <2>10, <2>12, <2>13
  <2>16. position \in Int /\ Len(native.heaps[kind]) \in Int
    <3>1. position \in Int
      BY <2>10, <2>13
    <3>2. native.heaps[kind] \in Seq(Groups \X Nat)
      BY <2>5 DEF D3Inv, D3TypeOK
    <3>3. QED
      BY <3>1, <3>2
  <2>17. ~(position > Len(native.heaps[kind]))
    <3>1. position <= Len(native.heaps[kind])
      BY <2>11, <2>15
    <3> HIDE DEF position
    <3>2. QED
      BY <2>16, <3>1
  <2>18. QED
    BY <2>11, <2>14, <2>15, <2>17 DEF Wanted
<1>2. SlotsReady => \A s \in Inputs[pipeline] :
        native.vertex[s] = <<vertexBuffers[s], Stride[InputState[pipeline]][s]>>
  <2> SUFFICES ASSUME SlotsReady, NEW s \in Inputs[pipeline]
               PROVE  native.vertex[s] = <<vertexBuffers[s], Stride[InputState[pipeline]][s]>>
    OBVIOUS
  <2>1. pipeline \in RenderPipelines
    BY DEF SlotsReady, Ready, RecInv, PassesAreApart
  <2>2. s \in VertexSlots
    BY <2>1, PipelinesAssumption
  <2>3. QED
    BY <2>2 DEF D3Inv, BuffersHold, SlotsReady
<1>3. IndexReady => native.index = <<indexBuffer, IndexFormat[pipeline]>>
  BY DEF D3Inv, BuffersHold, IndexReady
<1>4. pass = "render" => native.dynamic = dynamic
  BY DEF D3Inv
<1>5. QED
  BY <1>1, <1>2, <1>3, <1>4 DEF D3D12DrawsRight, D3Inv

(* On D3D12, draws read through their root tables the descriptors of the   *)
(* bind groups that were set for their pipeline or are inherited by it,    *)
(* wherever command buffers, other groups and other root signatures put    *)
(* them, have the buffers with the formats and strides of their pipeline   *)
(* and the dynamic state of the pass, and no null is accessed on the way   *)
(* (CommandBufferD3D12.cpp, BindGroupD3D12.cpp, PipelineLayoutD3D12.cpp,   *)
(* BindGroupLayoutD3D12.cpp).                                              *)
(* RegistersMatch assumes that a shader leaves out no binding below one of *)
(* the same type.  Careful assumes, beyond what the frontend checks:       *)
(* - bind groups are set after a pipeline whose layout they fit, and none  *)
(*   that an earlier command buffer of the same Submit recorded;           *)
(* - a group that the tracker skips because it has it at this index finds  *)
(*   the tables of this bind point and root signature set to it already;   *)
(* - a pipeline inherits, at each index up to the first where its layout   *)
(*   differs from the last one (past the array if none does), a group that *)
(*   the tracker has and that has no tables the layout lacks;              *)
(* - index and vertex buffers are set after a pipeline, whose input state  *)
(*   has the slots, and again after one of another format or strides;      *)
(* - no earlier pass leaves a stencil reference other than 0.              *)
THEOREM D3D12ReplayRight == Careful /\ RegistersMatch => (ReplaySpec => []D3D12DrawsRight)
<1> SUFFICES ASSUME Careful, RegistersMatch PROVE ReplaySpec => []D3D12DrawsRight
  OBVIOUS
<1> DEFINE Ind == RecInv /\ (backend = "d3d12" => D3Inv)
<1>1. ReplayInit => Ind
  <2> SUFFICES ASSUME ReplayInit PROVE Ind
    OBVIOUS
  <2>1. RecInv
    BY ListStarts DEF ReplayInit
  <2>2. backend = "d3d12" => native = D3Start /\ current = {} /\ dynamic = DefaultState
    BY DEF ReplayInit, RecInit
  <2>3. QED
    BY <2>1, <2>2, D3Starts
<1>2. Ind /\ [ReplayNext]_vars => Ind'
  <2> SUFFICES ASSUME Ind, [ReplayNext]_vars PROVE Ind'
    OBVIOUS
  <2>1. RecInv' /\ backend' = backend
    BY StepTakesCommand, ListStep, BackendStays
  <2>2. ASSUME backend = "d3d12", D3Inv
        PROVE  D3Inv'
    <3>1. D3Next \/ UNCHANGED vars
      BY <2>2 DEF ReplayNext
    <3>2. QED
      BY <2>2, <3>1, D3PipelineKeeps, D3GroupKeeps, D3BuffersKeep, D3PassKeeps DEF D3Next
  <2>3. QED
    BY <2>1, <2>2
<1>3. Ind => D3D12DrawsRight
  BY D3InvSuffices
<1>4. QED
  BY <1>1, <1>2, <1>3, PTL DEF ReplaySpec
=============================================================================
