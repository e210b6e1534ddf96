---------------------------- MODULE OpenGLReplay ----------------------------
(***************************************************************************)
(* The OpenGL backend executes an accepted list at once                    *)
(* (src/src/dawn_native/opengl/CommandBufferGL.cpp).                       *)
(*                                                                         *)
(* What it tells OpenGL outlives the pass: buffers and textures stay bound *)
(* to their units, uniforms belong to the program, vertex and index        *)
(* buffers to the vertex array object of an input state, and the scissor   *)
(* and the write masks also apply to the clears of the next pass.          *)
(* The values that PushConstantTracker, InputBufferTracker and             *)
(* PersistentPipelineState keep are those of constants, vertexBuffers,     *)
(* indexBuffer and dynamic; native has their dirty bits.                   *)
(***************************************************************************)
EXTENDS Recording

CONSTANT MaxUnits    \* bound: binding points of each kind

GlBufferTypes == {"UniformBuffer", "StorageBuffer"}
GlPoints == (GlBufferTypes \cup {"Sampler", "SampledTexture"}) \X (0 .. MaxUnits - 1)
InputStates == {InputState[p] : p \in RenderPipelines}

(* The locals of a pass                                                    *)
GlLocals ==
  [mDirtyBits |-> [s \in Stages |-> {}], mIndexBufferDirty |-> FALSE,
   mDirtyVertexBuffers |-> {}, mLastInputState |-> None, mStencilFunc |-> "always"]
GlState ==
  [bound |-> [point \in GlPoints |-> None],
   uniforms |-> [p \in Pipelines |-> NoConstants],
   attributes |-> [is \in InputStates |-> [s \in VertexSlots |-> None]],
   elements |-> [is \in InputStates |-> None],
   stencil |-> <<"always", 0>>, scissor |-> "full", fullMasks |-> TRUE, partialClear |-> FALSE]
(* A pass has trackers of its own and finds the context as it is.          *)
GlEnter(context) == [member \in DOMAIN GlLocals \cup DOMAIN context |->
  IF member \in DOMAIN GlLocals THEN GlLocals[member] ELSE context[member]]
GlStart == GlEnter(GlState)

(* Buffers have an index among the bindings of their type in the layout.   *)
BindingIndexInfo(layout, place) ==
  Cardinality({q \in PlacesOf(layout) :
    Before(q, place) /\ TypeAt(layout, q) = TypeAt(layout, place)})

(* A pipeline gives each combined sampler of its shaders a texture unit.   *)
Unit(p, c) ==
  Cardinality({d \in Combined[p] :
    Before(d.sampler, c.sampler)
      \/ (d.sampler = c.sampler /\ Before(d.texture, c.texture))})

PointsOf(p, place) ==
  LET type == TypeAt(LayoutOf(p), place) IN
  CASE type \in GlBufferTypes -> {<<type, BindingIndexInfo(LayoutOf(p), place)>>}
    [] type = "Sampler" -> {<<type, Unit(p, c)>> : c \in {d \in Combined[p] : d.sampler = place}}
    [] type = "SampledTexture" ->
         {<<type, Unit(p, c)>> : c \in {d \in Combined[p] : d.texture = place}}
-----------------------------------------------------------------------------
(* The framebuffer is made and cleared before the defaults of the dynamic  *)
(* state are set.                                                          *)
ClearsFully == native.scissor = "full" /\ native.fullMasks
GlBegin(kind) ==
  /\ Careful /\ kind = "render" => ClearsFully
  /\ BeginPass(kind)
  /\ native' = GlEnter(IF kind = "compute" THEN native
                       ELSE [native EXCEPT !.stencil = <<"always", 0>>, !.scissor = "full",
                                           !.partialClear = @ \/ ~ClearsFully])

GlEnd == EndPass /\ UNCHANGED native

OnSetPipelineVertices_FaultSlots(p) ==
  IF native.mLastInputState = InputState[p] THEN native.mDirtyVertexBuffers
  ELSE native.mDirtyVertexBuffers \cap Inputs[p]
OnSetPipelineVertices(p) ==
  IF native.mLastInputState = InputState[p] THEN native.mDirtyVertexBuffers
  ELSE native.mDirtyVertexBuffers \cup Inputs[p]

(* Only the first constant of each variable is in the mask.                *)
Mask(p) == [s \in Stages |->
  IF s \in StagesOf(p) THEN {variable[1] : variable \in PushConstants[p][s]} ELSE {}]

UsesSameUnits(p) ==
  \A i \in InheritedGroupsMask(LayoutOf(p), LayoutOf(pipeline)) :
    \A b \in DOMAIN BindingType[LayoutOf(p)[i]] : PointsOf(p, <<i, b>>) = PointsOf(pipeline, <<i, b>>)

GlSetPipeline(p) ==
  /\ Careful /\ pipeline # None => UsesSameUnits(p)
  /\ UsePipeline(p)
  /\ native' =
       IF p \in ComputePipelines THEN [native EXCEPT !.mDirtyBits = Mask(p)]
       ELSE [native EXCEPT
              !.mDirtyBits = Mask(p),
              !.mIndexBufferDirty = @ \/ native.mLastInputState # InputState[p],
              !.mDirtyVertexBuffers = OnSetPipelineVertices(p),
              !.mLastInputState = InputState[p],
              !.mStencilFunc = StencilFunc[p],
              !.stencil = IF native.mStencilFunc = StencilFunc[p] THEN @
                          ELSE <<StencilFunc[p], dynamic.stencil>>,
              !.fullMasks = p \in WritesAll]

(* ApplyBindGroup asks the last pipeline for units.                        *)
BoundBy(i, g, point) ==
  {b \in DOMAIN BindingType[GroupLayout[g]] : point \in PointsOf(pipeline, <<i, b>>)}
GlSetBindGroup(i, g) ==
  /\ UseBindGroup(i, g)
  /\ native' = [native EXCEPT !.bound = [point \in GlPoints |->
       IF BoundBy(i, g, point) = {} THEN @[point]
       ELSE <<g, CHOOSE b \in BoundBy(i, g, point) : TRUE>>]]

GlSetIndexBuffer(b) == UseIndexBuffer(b) /\ native' = [native EXCEPT !.mIndexBufferDirty = TRUE]

GlSetVertexBuffers(start, bufs) ==
  /\ UseVertexBuffers(start, bufs)
  /\ native' = [native EXCEPT !.mDirtyVertexBuffers = @ \cup {start + k : k \in DOMAIN bufs}]

GlSetPushConstants(stages, offset, count, value) ==
  /\ UsePushConstants(stages, offset, count, value)
  /\ native' = [native EXCEPT !.mDirtyBits = [s \in Stages |->
       IF s \in stages THEN @[s] \cup (offset .. offset + count - 1) ELSE @[s]]]

(* SetStencilReference returns early when nothing changes.                 *)
GlSetDynamicState(field, value) ==
  /\ UseDynamicState(field, value)
  /\ native' = CASE field = "scissor" -> [native EXCEPT !.scissor = value]
                 [] field = "stencil" /\ value # dynamic.stencil ->
                      [native EXCEPT !.stencil = <<native.mStencilFunc, value>>]
                 [] OTHER -> native

(* PushConstantTracker::Apply and InputBufferTracker::Apply                *)
AppliedUniforms == [s \in Stages |-> [c \in ConstantIndices |->
  IF c \in native.mDirtyBits[s] \cap Mask(pipeline)[s] THEN constants[s][c]
  ELSE native.uniforms[pipeline][s][c]]]
AppliesIndex == native.mIndexBufferDirty /\ indexBuffer # None
AppliedElements ==
  IF AppliesIndex THEN indexBuffer ELSE native.elements[native.mLastInputState]
AppliedAttributes == [s \in VertexSlots |->
  IF s \in native.mDirtyVertexBuffers \cap Inputs[pipeline] THEN vertexBuffers[s]
  ELSE native.attributes[native.mLastInputState][s]]

GlOperate ==
  /\ Operate
  /\ native' =
       IF pass = "compute"
       THEN [native EXCEPT !.uniforms[pipeline] = AppliedUniforms,
                           !.mDirtyBits = [s \in Stages |-> {}]]
       ELSE [native EXCEPT !.uniforms[pipeline] = AppliedUniforms,
                           !.mDirtyBits = [s \in Stages |-> {}],
                           !.mIndexBufferDirty = @ /\ ~AppliesIndex,
                           !.elements[native.mLastInputState] = AppliedElements,
                           !.mDirtyVertexBuffers = {},
                           !.attributes[native.mLastInputState] = AppliedAttributes]

GlNext ==
  \/ \E kind \in {"compute", "render"} : GlBegin(kind)
  \/ GlEnd \/ GlOperate
  \/ \E p \in Pipelines : GlSetPipeline(p)
  \/ \E i \in GroupIndices, g \in Groups : GlSetBindGroup(i, g)
  \/ \E b \in Buffers : GlSetIndexBuffer(b)
  \/ \E s \in VertexSlots, bufs \in BufferLists : GlSetVertexBuffers(s, bufs)
  \/ \E stages \in SUBSET Stages, c \in ConstantIndices, n \in 1 .. kMaxPushConstants, v \in 0 .. 1 :
       GlSetPushConstants(stages, c, n, v)
  \/ \E v \in 0 .. 1 : GlSetDynamicState("stencil", v)
  \/ \E v \in {"part", "full"} : GlSetDynamicState("scissor", v)
-----------------------------------------------------------------------------
GlGroupsRight ==
  \A stage \in StagesOf(pipeline) : \A place \in ShaderUses[pipeline][stage] :
    \A point \in PointsOf(pipeline, place) : native.bound[point] = Wanted(place)
GlConstantsRight ==
  \A stage \in StagesOf(pipeline) : \A c \in ConstantsRead(pipeline, stage) :
    AppliedUniforms[stage][c] = constants[stage][c]

(* A draw or dispatch that comes now finds at the units of its program     *)
(* what the bind groups say, in its uniforms the push constants of the     *)
(* pass, in its vertex array the buffers of the pass, and the stencil      *)
(* reference and scissor of the pass; no clear was cut by a scissor or a   *)
(* mask left by an earlier pass.                                           *)
OpenGLDrawsRight ==
  backend = "opengl" =>
    /\ GroupsReady => GlGroupsRight
    /\ Ready => GlConstantsRight
    /\ SlotsReady => \A s \in Inputs[pipeline] : AppliedAttributes[s] = vertexBuffers[s]
    /\ IndexReady => AppliedElements = indexBuffer
    /\ Ready /\ pass = "render" => native.stencil = <<StencilFunc[pipeline], dynamic.stencil>>
    /\ pass = "render" => native.scissor = dynamic.scissor
    /\ ~native.partialClear
-----------------------------------------------------------------------------
ASSUME CombinedAssumption == \A p \in Pipelines :
  /\ IsFiniteSet(Combined[p])
  /\ \A c \in Combined[p] :
       c \in [sampler : PlacesOf(LayoutOf(p)), texture : PlacesOf(LayoutOf(p))]

(* The bound on units is no limit.                                         *)
UnitsFit == \A p \in Pipelines : \A place \in PlacesOf(LayoutOf(p)) :
  PointsOf(p, place) \subseteq GlPoints
(* Push constants are no arrays, of which the mask has the first elements. *)
NoArrays == \A p \in Pipelines : \A stage \in StagesOf(p) :
  \A variable \in PushConstants[p][stage] : variable[2] = 1

(* The invariant of context and trackers: what is current is where a       *)
(* program looks for it, or dirty.                                         *)
GlTypeOK ==
  /\ DOMAIN native = DOMAIN GlStart
  /\ native.mDirtyBits \in [Stages -> SUBSET ConstantIndices]
  /\ native.uniforms \in [Pipelines -> [Stages -> [ConstantIndices -> 0 .. 1]]]
  /\ DOMAIN native.attributes = InputStates
  /\ DOMAIN native.elements = InputStates
  /\ native.mIndexBufferDirty \in BOOLEAN

UnitsHold == \A i \in GroupIndices : <<"group", i>> \in current =>
  \A b \in DOMAIN BindingType[LayoutOf(pipeline)[i]] :
    \A point \in PointsOf(pipeline, <<i, b>>) : native.bound[point] = <<groups[i], b>>
ConstantsHold == Ready =>
  \A stage \in StagesOf(pipeline) : \A c \in Mask(pipeline)[stage] :
    c \in native.mDirtyBits[stage] \/ native.uniforms[pipeline][stage][c] = constants[stage][c]
InputsHold == pass = "render" =>
  /\ native.mLastInputState = IF pipeline = None THEN None ELSE InputState[pipeline]
  /\ pipeline # None =>
       /\ \A s \in Inputs[pipeline] : <<"slot", s>> \in current =>
            \/ s \in native.mDirtyVertexBuffers
            \/ native.attributes[InputState[pipeline]][s] = vertexBuffers[s]
       /\ <<"index">> \in current =>
            native.mIndexBufferDirty \/ native.elements[InputState[pipeline]] = indexBuffer
FixedHold == pass = "render" =>
  /\ native.stencil = <<native.mStencilFunc, dynamic.stencil>>
  /\ native.scissor = dynamic.scissor
  /\ pipeline # None => native.mStencilFunc = StencilFunc[pipeline]
GlInv ==
  GlTypeOK /\ UnitsHold /\ ConstantsHold /\ InputsHold /\ FixedHold /\ ~native.partialClear
=============================================================================
