----------------------------- MODULE Recording -----------------------------
(***************************************************************************)
(* What the backends share when they replay an accepted list of commands:  *)
(* the list itself (CommandStream), the state that the frontend does not   *)
(* validate (push constants and dynamic state), and what the layouts and   *)
(* shaders of pipelines say of the resources that a draw reads.  native is *)
(* the state of the backend that replays: its trackers and what it told    *)
(* the graphics API so far.                                                *)
(*                                                                         *)
(* A list is replayed pass after pass without bound.  An element of        *)
(* Buffers stands for a buffer with an offset.  A resource is <<g, b>>,    *)
(* binding b of the bind group g; a place is <<i, b>>, binding b of the    *)
(* group at index i.                                                       *)
(***************************************************************************)
EXTENDS CommandStream, Integers, TLC

CONSTANTS
  Backends,
  GroupLayout,       \* of each bind group
  BindingType,       \* by bind group layout and binding number
  Visibility,        \* stages, by bind group layout and binding number
  ShaderUses,        \* places that the shaders use, by pipeline and stage
  Combined,          \* [sampler, texture] places used together, by pipeline
  InputState,        \* of each render pipeline
  Stride,            \* by input state and vertex input
  IndexFormat,       \* of each render pipeline
  PushConstants,     \* <<offset, size>> of variables, by pipeline and stage
  StencilFunc,       \* compare function and read mask of each pipeline
  WritesAll,         \* render pipelines whose write masks are full
  kMaxPushConstants, kMaxBindingsPerGroup,
  Lists,             \* bound: [pipelines, commands], what a list may contain
  Careful            \* Does the application stay clear of what the backends
                     \* are known to get wrong?

VARIABLES
  backend, list,     \* which backend replays what kind of list
  constants, dynamic,
  current,           \* what has been set for the pipeline, or is inherited
  native

ASSUME LimitsAssumption ==
  /\ kMaxBindGroups \in Nat /\ kMaxVertexInputs \in Nat
  /\ kMaxPushConstants \in Nat /\ kMaxBindingsPerGroup \in Nat \ {0}

(* Layouts have no holes (ValidatePipelineLayoutDescriptor).               *)
BindingTypes == {"UniformBuffer", "StorageBuffer", "SampledTexture", "Sampler"}
ASSUME LayoutsAssumption ==
  /\ \A bgl \in DOMAIN BindingType :
       BindingType[bgl] \in [DOMAIN BindingType[bgl] -> BindingTypes]
         /\ DOMAIN BindingType[bgl] \subseteq 0 .. kMaxBindingsPerGroup - 1
  /\ \A l \in DOMAIN SetLayouts : \E n \in 0 .. kMaxBindGroups :
       SetLayouts[l] \in [0 .. n - 1 -> DOMAIN BindingType]
  /\ GroupLayout \in [Groups -> DOMAIN BindingType]

ASSUME PipelinesAssumption ==
  /\ ComputePipelines \cap RenderPipelines = {}
  /\ PipelineLayout \in [Pipelines -> DOMAIN SetLayouts]
  /\ Inputs \in [RenderPipelines -> SUBSET VertexSlots]
  /\ \A p \in RenderPipelines : InputState[p] # None
  /\ \A p, q \in RenderPipelines : InputState[p] = InputState[q] => Inputs[p] = Inputs[q]

ASSUME NoneAssumption ==
  None \notin Pipelines \cup Groups \cup Buffers \cup DOMAIN SetLayouts

recVars == <<streamVars, backend, list, constants, dynamic, current>>

Stages == {"vertex", "fragment", "compute"}
ConstantIndices == 0 .. kMaxPushConstants - 1
NoConstants == [s \in Stages |-> [c \in ConstantIndices |-> 0]]
DefaultState == [stencil |-> 0, scissor |-> "full"]

RecInit ==
  /\ Init
  /\ backend \in Backends /\ list \in Lists
  /\ constants = NoConstants /\ dynamic = DefaultState /\ current = {}

Allowed(command) == command \in list.commands
Keeps(changes) == changes /\ UNCHANGED <<backend, list>>
-----------------------------------------------------------------------------
(* Layouts *)

LayoutOf(p) == SetLayouts[PipelineLayout[p]]
TypeAt(layout, place) == BindingType[layout[place[1]]][place[2]]
PlacesOf(layout) ==
  UNION {{<<i, b>> : b \in DOMAIN BindingType[layout[i]]} : i \in DOMAIN layout}
Before(p, q) == p[1] < q[1] \/ (p[1] = q[1] /\ p[2] < q[2])

(* The first index whose layouts differ.                                   *)
GroupsInheritUpTo(new, old) ==
  LET differ == {i \in GroupIndices : i \notin DOMAIN new \/ i \notin DOMAIN old
                                        \/ (i \in DOMAIN new \cap DOMAIN old /\ new[i] # old[i])}
  IN IF differ = {} THEN kMaxBindGroups + 1
     ELSE CHOOSE i \in differ : \A j \in differ : i <= j
InheritedGroupsMask(new, old) == {i \in GroupIndices : i < GroupsInheritUpTo(new, old)}
-----------------------------------------------------------------------------
(* The commands *)

BeginPass(kind) ==
  /\ Allowed(kind) /\ Begin(kind)
  /\ Keeps(constants' = NoConstants /\ dynamic' = DefaultState /\ current' = {})

EndPass ==
  /\ InPass /\ End("outside")
  /\ Keeps(constants' = NoConstants /\ dynamic' = DefaultState /\ current' = {})

(* Bind groups stay for the indices that a layout inherits from the one    *)
(* before it, index and vertex buffers stay.  A careful application sets   *)
(* the buffers again of which a backend has captured the format or stride  *)
(* of another pipeline.                                                    *)
InheritedGroups(p) ==
  IF pipeline = None THEN {} ELSE InheritedGroupsMask(LayoutOf(p), LayoutOf(pipeline))
CapturesFormat == backend \in {"vulkan", "d3d12"}
KeepsFormat(p) == pipeline # None /\ IndexFormat[p] = IndexFormat[pipeline]
CapturesStrides == backend = "d3d12"
KeepsStride(p, s) ==
  /\ pipeline # None /\ s \in Inputs[p] \cap Inputs[pipeline]
  /\ Stride[InputState[p]][s] = Stride[InputState[pipeline]][s]
IndexStays(p) == pass = "render" /\ (Careful /\ CapturesFormat => KeepsFormat(p))
SlotStays(p, s) == pass = "render" /\ (Careful /\ CapturesStrides => KeepsStride(p, s))
StaysCurrent(p) ==
  {<<"group", i>> : i \in InheritedGroups(p)}
    \cup (IF IndexStays(p) THEN {<<"index">>} ELSE {})
    \cup {<<"slot", s>> : s \in {t \in VertexSlots : SlotStays(p, t)}}
UsePipeline(p) ==
  /\ p \in list.pipelines /\ SetPipeline(p)
  /\ Keeps(current' = current \cap StaysCurrent(p) /\ UNCHANGED <<constants, dynamic>>)

(* Groups fit the pipeline when they are set.                              *)
Fits(i, g) ==
  pipeline # None /\ i \in UsedGroups(pipeline) /\ LayoutOf(pipeline)[i] = GroupLayout[g]
UseBindGroup(i, g) ==
  /\ Allowed("SetBindGroup") /\ SetBindGroup(i, g)
  /\ Careful => Fits(i, g)
  /\ Keeps(current' = current \cup {<<"group", i>>} /\ UNCHANGED <<constants, dynamic>>)

UseIndexBuffer(b) ==
  /\ Allowed("SetIndexBuffer") /\ SetIndexBuffer(b)
  /\ Keeps(current' = current \cup {<<"index">>} /\ UNCHANGED <<constants, dynamic>>)

UseVertexBuffers(start, bufs) ==
  /\ Allowed("SetVertexBuffers") /\ SetVertexBuffers(start, bufs)
  /\ Keeps(/\ current' = current \cup {<<"slot", start + k>> : k \in DOMAIN bufs}
           /\ UNCHANGED <<constants, dynamic>>)

UsePushConstants(stages, offset, count, value) ==
  /\ Allowed("SetPushConstants") /\ InPass
  /\ stages \subseteq (IF pass = "compute" THEN {"compute"} ELSE {"vertex", "fragment"})
  /\ offset + count <= kMaxPushConstants
  /\ constants' = [s \in Stages |-> [c \in ConstantIndices |->
       IF s \in stages /\ c \in offset .. offset + count - 1 THEN value ELSE constants[s][c]]]
  /\ Keeps(UNCHANGED <<streamVars, dynamic, current>>)

UseDynamicState(field, value) ==
  /\ Allowed(field) /\ pass = "render"
  /\ dynamic' = [dynamic EXCEPT ![field] = value]
  /\ Keeps(UNCHANGED <<streamVars, constants, current>>)

Operate ==
  /\ CanDispatch \/ CanDrawArrays \/ CanDrawElements
  /\ UNCHANGED recVars
-----------------------------------------------------------------------------
(* What a draw or dispatch may rely on now *)

Ready == InPass /\ pipeline # None
GroupsReady == Ready /\ \A i \in UsedGroups(pipeline) : <<"group", i>> \in current
SlotsReady ==
  Ready /\ pass = "render" /\ \A s \in Inputs[pipeline] : <<"slot", s>> \in current
IndexReady == Ready /\ <<"index">> \in current
StagesOf(p) == IF p \in ComputePipelines THEN {"compute"} ELSE {"vertex", "fragment"}
Wanted(place) == <<groups[place[1]], place[2]>>
ConstantsRead(p, stage) ==
  UNION {variable[1] .. variable[1] + variable[2] - 1 : variable \in PushConstants[p][stage]}
-----------------------------------------------------------------------------
(* Shaders use places of the layout that their stage can see, as           *)
(* IsCompatibleWithPipelineLayout has it, and push constants that exist.   *)
ASSUME ShadersAssumption == \A p \in Pipelines : \A stage \in StagesOf(p) :
  /\ \A place \in ShaderUses[p][stage] :
       /\ place \in PlacesOf(LayoutOf(p))
       /\ stage \in Visibility[LayoutOf(p)[place[1]]][place[2]]
  /\ \A variable \in PushConstants[p][stage] :
       variable \in ConstantIndices \X (1 .. kMaxPushConstants)

(* The invariant of the list that is replayed, for the proofs about the    *)
(* backends                                                                *)

RecTypeOK ==
  /\ pass \in {"outside", "compute", "render"}
  /\ pipeline \in Pipelines \cup {None}
  /\ groups \in [GroupIndices -> Groups \cup {None}]
  /\ vertexBuffers \in [VertexSlots -> Buffers \cup {None}]
  /\ indexBuffer \in Buffers \cup {None}
  /\ backend \in Backends /\ list \in Lists
  /\ constants \in [Stages -> [ConstantIndices -> 0 .. 1]]
  /\ dynamic \in [stencil : 0 .. 1, scissor : {"full", "part"}]
  /\ current \subseteq ({"group"} \X GroupIndices) \cup {<<"index">>} \cup ({"slot"} \X VertexSlots)

(* Nothing of a pass outlives it, and pipelines are of the kind of pass.   *)
PassesAreApart ==
  /\ pass = "outside" =>
       /\ pipeline = None /\ indexBuffer = None
       /\ groups = NoGroups /\ vertexBuffers = NoVertexBuffers
  /\ pass = "compute" => pipeline \in ComputePipelines \cup {None}
  /\ pass = "render" => pipeline \in RenderPipelines \cup {None}
  /\ pass # "render" => dynamic = DefaultState
  /\ pass = "outside" => current = {}

(* What is current was set, groups in a way that the pipeline can use.     *)
CurrentIsSet ==
  /\ \A i \in GroupIndices : <<"group", i>> \in current =>
       /\ pipeline # None /\ i \in UsedGroups(pipeline)
       /\ groups[i] \in Groups /\ GroupLayout[groups[i]] = LayoutOf(pipeline)[i]
  /\ \A s \in VertexSlots : <<"slot", s>> \in current =>
       pass = "render" /\ vertexBuffers[s] \in Buffers
  /\ <<"index">> \in current => pass = "render" /\ indexBuffer \in Buffers

RecInv == RecTypeOK /\ PassesAreApart /\ CurrentIsSet
=============================================================================
