---------------------------- MODULE D3D12Replay ----------------------------
(***************************************************************************)
(* The D3D12 backend records an accepted list into the command list of the *)
(* device (src/src/dawn_native/d3d12/CommandBufferD3D12.cpp).              *)
(*                                                                         *)
(* A first reading writes the descriptors of every bind group that is set  *)
(* into the descriptor heaps of the command buffer, in the order in which  *)
(* they are first set; the second tells D3D12 where they are.  Both do so  *)
(* command by command, so a step reads a command for both.                 *)
(* BindGroupStateTracker lives as long as the command buffer.              *)
(***************************************************************************)
EXTENDS Recording

D3Kinds == {"view", "sampler"}
ViewTypes == <<"UniformBuffer", "StorageBuffer", "SampledTexture">>
KindOf(type) == IF type = "Sampler" THEN "sampler" ELSE "view"
TypesOf(kind) == IF kind = "sampler" THEN <<"Sampler">> ELSE ViewTypes
BindingsOfType(bgl, type) == {b \in DOMAIN BindingType[bgl] : BindingType[bgl][b] = type}

(* The tables of a bind group: ranges of descriptors, one per type.        *)
DescriptorCount(bgl, kind) ==
  Cardinality({b \in DOMAIN BindingType[bgl] : KindOf(BindingType[bgl][b]) = kind})
RangeOffset(bgl, type) ==
  LET types == TypesOf(KindOf(type))
      before == {n \in DOMAIN types : \E m \in DOMAIN types : types[m] = type /\ n < m}
  IN Cardinality(UNION {BindingsOfType(bgl, types[n]) : n \in before})
BindingOffset(bgl, b) ==
  RangeOffset(bgl, BindingType[bgl][b])
    + Cardinality({c \in BindingsOfType(bgl, BindingType[bgl][b]) : c < b})

(* The root parameters of a pipeline layout, in the order of the groups,   *)
(* with the table of views of a group before its table of samplers.        *)
HasTable(layout, i, kind) == i \in DOMAIN layout /\ DescriptorCount(layout[i], kind) > 0
RootParameterIndex(layout, i, kind) ==
  Cardinality({t \in GroupIndices \X D3Kinds :
    /\ HasTable(layout, t[1], t[2])
    /\ t[1] < i \/ (t[1] = i /\ t[2] = "view" /\ kind = "sampler")})
RootParameters == 0 .. 2 * kMaxBindGroups - 1

(* The register that the compiled shader uses for a place: numbered by     *)
(* type among the bindings that the shader uses.                           *)
ShaderRegister(p, stage, place) ==
  Cardinality({q \in ShaderUses[p][stage] :
    /\ q[1] = place[1] /\ q[2] < place[2]
    /\ TypeAt(LayoutOf(p), q) = TypeAt(LayoutOf(p), place)})
-----------------------------------------------------------------------------
NoTables == [n \in RootParameters |-> None]
NoHeaps == [kind \in D3Kinds |-> <<>>]
NeverRecorded == [g \in Groups |-> None]

(* offsets: where the descriptors of a group were recorded in this serial; *)
(* earlier: the groups recorded for an earlier command buffer of it;       *)
(* failed: null or an element past the end of an array was accessed.       *)
D3Start ==
  [bindGroups |-> NoGroups, offsets |-> NeverRecorded, heaps |-> NoHeaps,
   earlier |-> {}, failed |-> FALSE,
   signature |-> [compute |-> None, render |-> None],
   tables |-> [compute |-> NoTables, render |-> NoTables],
   vertex |-> [s \in VertexSlots |-> None], index |-> None, dynamic |-> DefaultState]

(* The next command buffer, possibly of the same Submit: it has heaps of   *)
(* its own, and a group that was recorded in this serial is not recorded   *)
(* again.                                                                  *)
D3NextCommandBuffer(sameSerial) ==
  /\ pass = "outside" /\ UNCHANGED recVars
  /\ native' = [native EXCEPT
       !.bindGroups = NoGroups, !.heaps = NoHeaps,
       !.offsets = IF sameSerial THEN @ ELSE NeverRecorded,
       !.earlier = IF sameSerial THEN {g \in Groups : native.offsets[g] # None} ELSE {},
       !.tables = [compute |-> NoTables, render |-> NoTables]]

(* The stencil reference is not set at the start of a pass.                *)
D3Begin(kind) ==
  /\ Careful /\ kind = "render" => native.dynamic.stencil = 0
  /\ BeginPass(kind)
  /\ native' = IF kind = "render" THEN [native EXCEPT !.dynamic.scissor = "full"] ELSE native

D3End == EndPass /\ UNCHANGED native

(* RecordDescriptors, when the group is not recorded yet                   *)
Descriptors(g, kind) ==
  [n \in 1 .. DescriptorCount(GroupLayout[g], kind) |->
     <<g, CHOOSE b \in DOMAIN BindingType[GroupLayout[g]] :
            /\ KindOf(BindingType[GroupLayout[g]][b]) = kind
            /\ BindingOffset(GroupLayout[g], b) = n - 1>>]
Recorded(state, g) ==
  IF state.offsets[g] # None THEN state
  ELSE [state EXCEPT
         !.offsets[g] = [kind \in D3Kinds |-> Len(state.heaps[kind])],
         !.heaps = [kind \in D3Kinds |-> @[kind] \o Descriptors(g, kind)]]

SetTables(tables, layout, i, g, offsets) ==
  [n \in RootParameters |->
     IF \E kind \in D3Kinds :
          DescriptorCount(GroupLayout[g], kind) > 0 /\ RootParameterIndex(layout, i, kind) = n
     THEN offsets[g][CHOOSE kind \in D3Kinds :
            DescriptorCount(GroupLayout[g], kind) > 0 /\ RootParameterIndex(layout, i, kind) = n]
     ELSE tables[n]]

(* Inherited groups are set again for the new root signature: the loop     *)
(* follows null groups, takes those left by an earlier pass for groups of  *)
(* the layout, and runs past the array when all layouts agree.  (In the    *)
(* first reading it compares a group with itself and records nothing.)     *)
InheritUntil_FaultNothing(p) == 0
InheritUntil(p) ==
  IF pipeline = None THEN 0 ELSE GroupsInheritUpTo(LayoutOf(pipeline), LayoutOf(p))
TablesAfter(p) ==
  LET kept == IF native.signature[pass] = PipelineLayout[p] THEN native.tables[pass] ELSE NoTables
      owner(n) == {i \in 0 .. InheritUntil(p) - 1 : \E kind \in D3Kinds :
                     HasTable(LayoutOf(p), i, kind) /\ RootParameterIndex(LayoutOf(p), i, kind) = n}
  IN [n \in RootParameters |->
        IF owner(n) = {} THEN kept[n]
        ELSE LET i == CHOOSE j \in owner(n) : TRUE
             IN SetTables(kept, LayoutOf(p), i, native.bindGroups[i], native.offsets)[n]]
CanSetAgain(p, i) ==
  /\ i \in GroupIndices /\ native.bindGroups[i] # None
  /\ \A kind \in D3Kinds : DescriptorCount(GroupLayout[native.bindGroups[i]], kind) > 0 =>
       HasTable(LayoutOf(p), i, kind)
CanInherit(p) == \A i \in 0 .. InheritUntil(p) - 1 : CanSetAgain(p, i)
D3SetPipeline(p) ==
  /\ UsePipeline(p)
  /\ Careful => CanInherit(p)
  /\ native' = IF CanInherit(p)
               THEN [native EXCEPT !.signature[pass] = PipelineLayout[p],
                                   !.tables[pass] = TablesAfter(p)]
               ELSE [native EXCEPT !.failed = TRUE]

TablesFor(i, g, offsets) == SetTables(native.tables[pass], LayoutOf(pipeline), i, g, offsets)

(* A group that the tracker already has at i is not set again; setting     *)
(* another one takes the layout of the last pipeline, if there is one.     *)
D3SetBindGroup(i, g) ==
  /\ UseBindGroup(i, g)
  /\ Careful => g \notin native.earlier
  /\ Careful /\ native.bindGroups[i] = g =>
       TablesFor(i, g, native.offsets) = native.tables[pass]
  /\ native' = IF native.bindGroups[i] = g THEN native
               ELSE IF pipeline = None THEN [native EXCEPT !.failed = TRUE]
               ELSE LET recorded == Recorded(native, g)
                    IN [recorded EXCEPT !.bindGroups[i] = g,
                                        !.tables[pass] = TablesFor(i, g, recorded.offsets)]

(* Index format and strides are those of the last pipeline, if there is    *)
(* one and its input state has the slots.                                  *)
D3SetIndexBuffer(b) ==
  /\ UseIndexBuffer(b)
  /\ Careful => pipeline # None
  /\ native' = IF pipeline = None THEN [native EXCEPT !.failed = TRUE]
               ELSE [native EXCEPT !.index = <<b, IndexFormat[pipeline]>>]
HasSlots(start, bufs) ==
  pipeline # None /\ \A k \in DOMAIN bufs : start + k \in Inputs[pipeline]
D3SetVertexBuffers(start, bufs) ==
  /\ UseVertexBuffers(start, bufs)
  /\ Careful => HasSlots(start, bufs)
  /\ native' = IF ~HasSlots(start, bufs) THEN [native EXCEPT !.failed = TRUE]
               ELSE [native EXCEPT !.vertex = [s \in VertexSlots |->
                      IF s - start \in DOMAIN bufs
                      THEN <<bufs[s - start], Stride[InputState[pipeline]][s]>> ELSE @[s]]]
D3SetDynamicState(field, value) ==
  UseDynamicState(field, value) /\ native' = [native EXCEPT !.dynamic[field] = value]
D3Operate == Operate /\ UNCHANGED native

D3Next ==
  \/ \E kind \in {"compute", "render"} : D3Begin(kind)
  \/ D3End \/ D3Operate \/ \E same \in BOOLEAN : D3NextCommandBuffer(same)
  \/ \E p \in Pipelines : D3SetPipeline(p)
  \/ \E i \in GroupIndices, g \in Groups : D3SetBindGroup(i, g)
  \/ \E b \in Buffers : D3SetIndexBuffer(b)
  \/ \E s \in VertexSlots, bufs \in BufferLists : D3SetVertexBuffers(s, bufs)
  \/ \E v \in 0 .. 1 : D3SetDynamicState("stencil", v)
  \/ D3SetDynamicState("scissor", "part")
-----------------------------------------------------------------------------
(* What a shader finds at the register that it uses for a place            *)
ReadsDescriptor(stage, place) ==
  LET layout == LayoutOf(pipeline)
      type == TypeAt(layout, place)
      table == native.tables[pass][RootParameterIndex(layout, place[1], KindOf(type))]
      heap == native.heaps[KindOf(type)]
      position == 1 + table + RangeOffset(layout[place[1]], type)
                    + ShaderRegister(pipeline, stage, place)
  IN IF table = None \/ position > Len(heap) THEN None ELSE heap[position]

(* A draw or dispatch that comes now reads through its root tables the     *)
(* descriptors of the bind groups that were set for its pipeline or are    *)
(* inherited, and has vertex buffers with the strides and an index buffer  *)
(* with the format of its pipeline and the dynamic state of the pass; no   *)
(* null was accessed on the way to it.                                     *)
D3D12DrawsRight ==
  backend = "d3d12" =>
    /\ ~native.failed
    /\ GroupsReady =>
         \A stage \in StagesOf(pipeline) : \A place \in ShaderUses[pipeline][stage] :
           ReadsDescriptor(stage, place) = Wanted(place)
    /\ SlotsReady => \A s \in Inputs[pipeline] :
         native.vertex[s] = <<vertexBuffers[s], Stride[InputState[pipeline]][s]>>
    /\ IndexReady => native.index = <<indexBuffer, IndexFormat[pipeline]>>
    /\ pass = "render" => native.dynamic = dynamic

-----------------------------------------------------------------------------
ASSUME OffsetsAssumption == None \notin Nat \cup [D3Kinds -> Nat]

(* A shader leaves out no binding of a type below one that it uses, so     *)
(* that its registers are where the layout has the descriptors.            *)
RegistersMatch == \A p \in Pipelines : \A stage \in StagesOf(p) :
  \A place \in ShaderUses[p][stage] :
    \A b \in BindingsOfType(LayoutOf(p)[place[1]], TypeAt(LayoutOf(p), place)) :
      b < place[2] => <<place[1], b>> \in ShaderUses[p][stage]

(* The invariant of tracker, heaps and tables: what is recorded stays      *)
(* where it is, and the tables of what is current point to it.             *)
D3TypeOK ==
  /\ DOMAIN native = DOMAIN D3Start
  /\ native.bindGroups \in [GroupIndices -> Groups \cup {None}]
  /\ native.offsets \in [Groups -> {None} \cup [D3Kinds -> Nat]]
  /\ native.heaps \in [D3Kinds -> Seq(Groups \X Nat)]
  /\ native.earlier \subseteq Groups /\ native.failed \in BOOLEAN
  /\ DOMAIN native.tables = {"compute", "render"} /\ DOMAIN native.vertex = VertexSlots
  /\ native.dynamic \in [stencil : 0 .. 1, scissor : {"full", "part"}]

DescriptorsHold == \A g \in Groups \ native.earlier : native.offsets[g] # None =>
  \A kind \in D3Kinds : \A n \in 1 .. DescriptorCount(GroupLayout[g], kind) :
    /\ native.offsets[g][kind] + n <= Len(native.heaps[kind])
    /\ native.heaps[kind][native.offsets[g][kind] + n] = Descriptors(g, kind)[n]
TrackedAreRecorded == \A i \in GroupIndices :
  native.bindGroups[i] # None =>
    native.offsets[native.bindGroups[i]] # None /\ native.bindGroups[i] \notin native.earlier
TablesHold(i) ==
  /\ native.bindGroups[i] = groups[i]
  /\ \A kind \in D3Kinds : DescriptorCount(GroupLayout[groups[i]], kind) > 0 =>
       native.tables[pass][RootParameterIndex(LayoutOf(pipeline), i, kind)]
         = native.offsets[groups[i]][kind]
BuffersHold ==
  /\ \A s \in VertexSlots : <<"slot", s>> \in current =>
       /\ pipeline # None /\ s \in Inputs[pipeline]
       /\ native.vertex[s] = <<vertexBuffers[s], Stride[InputState[pipeline]][s]>>
  /\ <<"index">> \in current =>
       pipeline # None /\ native.index = <<indexBuffer, IndexFormat[pipeline]>>
D3Inv ==
  /\ D3TypeOK /\ ~native.failed /\ DescriptorsHold /\ TrackedAreRecorded /\ BuffersHold
  /\ \A i \in GroupIndices : <<"group", i>> \in current => TablesHold(i)
  /\ pass = "render" => native.dynamic = dynamic
=============================================================================
