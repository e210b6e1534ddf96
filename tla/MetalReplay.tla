---------------------------- MODULE MetalReplay ----------------------------
(***************************************************************************)
(* The Metal backend encodes an accepted list into an MTLCommandBuffer     *)
(* (src/src/dawn_native/metal/CommandBufferMTL.mm).  Every pass has an     *)
(* encoder of its own and every command takes effect at once.  The index   *)
(* buffer is an argument of the draw, which takes it and its format from   *)
(* what was set last.                                                      *)
(***************************************************************************)
EXTENDS Recording

MetalKind(type) ==
  CASE type \in {"UniformBuffer", "StorageBuffer"} -> "buffer"
    [] type = "Sampler" -> "sampler"
    [] type = "SampledTexture" -> "texture"

(* Each stage and kind has its own numbers, in which buffer 0 is for push  *)
(* constants.                                                              *)
MetalIndex_FaultNoReserved(layout, place, stage) ==
  Cardinality({q \in PlacesOf(layout) :
    /\ Before(q, place) /\ stage \in Visibility[layout[q[1]]][q[2]]
    /\ MetalKind(TypeAt(layout, q)) = MetalKind(TypeAt(layout, place))})
MetalIndex(layout, place, stage) ==
  (IF MetalKind(TypeAt(layout, place)) = "buffer" THEN 1 ELSE 0)
    + Cardinality({q \in PlacesOf(layout) :
        /\ Before(q, place) /\ stage \in Visibility[layout[q[1]]][q[2]]
        /\ MetalKind(TypeAt(layout, q)) = MetalKind(TypeAt(layout, place))})

MetalPoints ==
  Stages \X {"buffer", "sampler", "texture"} \X (0 .. kMaxBindingsPerGroup + kMaxVertexInputs)
PushConstantPoint(stage) == <<stage, "buffer", 0>>
(* Where a compiled function looks for a place                             *)
MslBinding(p, stage, place) ==
  <<stage, MetalKind(TypeAt(LayoutOf(p), place)), MetalIndex(LayoutOf(p), place, stage)>>
(* Where the vertex descriptor of an input state looks for a vertex input  *)
VertexPoint(s) == <<"vertex", "buffer", kMaxBindingsPerGroup + s>>

NewEncoder ==
  [bound |-> [point \in MetalPoints |->
     IF point[2] = "buffer" /\ point[3] = 0 THEN NoConstants[point[1]] ELSE None],
   dynamic |-> DefaultState]
MetalStart == NewEncoder

MetalBegin(kind) == BeginPass(kind) /\ native' = NewEncoder
MetalEnd == EndPass /\ UNCHANGED native
MetalSetPipeline(p) == UsePipeline(p) /\ UNCHANGED native

SetAt(i, g, point) ==
  {b \in DOMAIN BindingType[GroupLayout[g]] :
     /\ point[1] \in Visibility[GroupLayout[g]][b] \cap StagesOf(pipeline)
     /\ point[2] = MetalKind(BindingType[GroupLayout[g]][b])
     /\ point[3] = MetalIndex(LayoutOf(pipeline), <<i, b>>, point[1])}
MetalSetBindGroup(i, g) ==
  /\ UseBindGroup(i, g)
  /\ native' = [native EXCEPT !.bound = [point \in MetalPoints |->
       IF SetAt(i, g, point) = {} THEN @[point] ELSE <<g, CHOOSE b \in SetAt(i, g, point) : TRUE>>]]

MetalSetIndexBuffer(b) == UseIndexBuffer(b) /\ UNCHANGED native

MetalSetVertexBuffers(start, bufs) ==
  /\ UseVertexBuffers(start, bufs)
  /\ native' = [native EXCEPT !.bound = [point \in MetalPoints |->
       IF \E k \in DOMAIN bufs : point = VertexPoint(start + k)
       THEN bufs[CHOOSE k \in DOMAIN bufs : point = VertexPoint(start + k)] ELSE @[point]]]

(* The copies of all push constants of a stage are sent again.             *)
MetalSetPushConstants(stages, offset, count, value) ==
  /\ UsePushConstants(stages, offset, count, value)
  /\ native' = [native EXCEPT !.bound = [point \in MetalPoints |->
       IF \E s \in stages : point = PushConstantPoint(s) THEN constants'[point[1]] ELSE @[point]]]

MetalSetDynamicState(field, value) ==
  UseDynamicState(field, value) /\ native' = [native EXCEPT !.dynamic[field] = value]
MetalOperate == Operate /\ UNCHANGED native

MetalNext ==
  \/ \E kind \in {"compute", "render"} : MetalBegin(kind)
  \/ MetalEnd \/ MetalOperate
  \/ \E p \in Pipelines : MetalSetPipeline(p)
  \/ \E i \in GroupIndices, g \in Groups : MetalSetBindGroup(i, g)
  \/ \E b \in Buffers : MetalSetIndexBuffer(b)
  \/ \E s \in VertexSlots, bufs \in BufferLists : MetalSetVertexBuffers(s, bufs)
  \/ \E stages \in SUBSET Stages, c \in ConstantIndices, n \in 1 .. kMaxPushConstants, v \in 0 .. 1 :
       MetalSetPushConstants(stages, c, n, v)
  \/ \E v \in 0 .. 1 : MetalSetDynamicState("stencil", v)
  \/ MetalSetDynamicState("scissor", "part")
-----------------------------------------------------------------------------
(* A draw or dispatch that comes now finds in the argument tables of each  *)
(* stage what the bind groups say, the push constants of the pass and,     *)
(* after the numbers that a bind group can use, the vertex buffers.        *)
MetalDrawsRight ==
  backend = "metal" =>
    /\ GroupsReady => \A stage \in StagesOf(pipeline) : \A place \in ShaderUses[pipeline][stage] :
         native.bound[MslBinding(pipeline, stage, place)] = Wanted(place)
    /\ Ready => \A stage \in StagesOf(pipeline) :
         native.bound[PushConstantPoint(stage)] = constants[stage]
    /\ SlotsReady => \A s \in Inputs[pipeline] : native.bound[VertexPoint(s)] = vertexBuffers[s]
    /\ pass = "render" => native.dynamic = dynamic
-----------------------------------------------------------------------------
(* Fewer bindings of a kind than a group can have: from there on are the   *)
(* numbers of vertex buffers.                                              *)
VisibleTo(stage, bgl) == {b \in DOMAIN BindingType[bgl] : stage \in Visibility[bgl][b]}
NumbersFit ==
  \A p \in Pipelines, stage \in Stages : \A i \in UsedGroups(p) :
    \A b \in VisibleTo(stage, LayoutOf(p)[i]) :
      MetalIndex(LayoutOf(p), <<i, b>>, stage) < kMaxBindingsPerGroup

(* The invariant of the encoder: what is current is in its argument table. *)
GroupIsSet(i) ==
  \A stage \in StagesOf(pipeline) : \A b \in VisibleTo(stage, LayoutOf(pipeline)[i]) :
    native.bound[MslBinding(pipeline, stage, <<i, b>>)] = <<groups[i], b>>
MetalInv ==
  /\ DOMAIN native = {"bound", "dynamic"}
  /\ InPass =>
       /\ \A stage \in Stages : native.bound[PushConstantPoint(stage)] = constants[stage]
       /\ \A s \in VertexSlots : native.bound[VertexPoint(s)] = vertexBuffers[s]
       /\ native.dynamic = dynamic
  /\ \A i \in GroupIndices : <<"group", i>> \in current => GroupIsSet(i)
=============================================================================
