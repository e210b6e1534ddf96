--------------------------- MODULE FrontendObjects ---------------------------
(***************************************************************************)
(* The objects of the frontend that a draw or a dispatch needs: bind group *)
(* layouts and their cache, pipeline layouts, bind groups, shader modules, *)
(* pipelines, input, blend and depth stencil states, views and render pass *)
(* descriptors, with the builders that make them, the Refs between them    *)
(* and the references of the application.                                  *)
(*                                                                         *)
(* Every object lives in the memory of RefCounted.  What an object was     *)
(* made from is in its Refs; its other members are its value.  A builder   *)
(* has the value [errors, mIsConsumed, props]: how often HandleError was   *)
(* called, whether HandleResult was, and what its functions have set.      *)
(* The factories are those of the null backend.                            *)
(*                                                                         *)
(* A scenario says which objects the application creates: the ids there    *)
(* are for them, their values, and how many references the application may *)
(* have in all (handles), so that an instance need not have every kind at  *)
(* once.                                                                   *)
(***************************************************************************)
EXTENDS RefCounted, Sequences

CONSTANTS
    Scenarios,             \* what the application creates, with bounds
    kMaxBindGroups, kMaxBindingsPerGroup,
    kMaxVertexAttributes, kMaxVertexInputs, kMaxColorAttachments,
    UnsetMatches,          \* what comparing an uninitialized entry may say
    Careful                \* the application avoids what NullOrOverrun names

ASSUME ObjectsAssumption ==
    /\ {kMaxBindGroups, kMaxBindingsPerGroup, kMaxVertexAttributes,
        kMaxVertexInputs, kMaxColorAttachments} \subseteq Nat \ {0}
    /\ UnsetMatches \subseteq BOOLEAN /\ UnsetMatches # {}
    /\ Careful \in BOOLEAN

VARIABLES
    objects, mCaches,   \* the memory
    handles,            \* how many references the application has to each id
    scenario,           \* the scenario of this behavior
    crashed             \* a null layout was read or an array left

vars == <<objects, mCaches, handles, scenario, crashed>>

Memory == [objects |-> objects, mCaches |-> mCaches]
Become(m) == objects' = m.objects /\ mCaches' = m.mCaches

Slot(name) == <<name, 0>>
Of(kind) == {i \in Ids(Memory) : objects[i].kind = kind}
Mine(kind) == {i \in Of(kind) : handles[i] > 0}

-----------------------------------------------------------------------------
(* The references of the application.                                      *)

AllHandles == MapThenSumSet(LAMBDA i : handles[i], Ids(Memory))

\* An action that makes an object of each of these kinds and gives the
\* application one more reference.
Room(kinds) == /\ ~crashed /\ AllHandles < scenario.handles
               /\ \A kind \in kinds : Pool(Memory, kind) # {}
MayCreate(kind) == Room({kind})

GiveToApplication(i) == handles' = [handles EXCEPT ![i] = @ + 1]

ReferenceObject(i) ==
    /\ Room({}) /\ handles[i] = 1 /\ objects[i].kind = "BindGroupLayout"
    /\ Become(Reference(Memory, i)) /\ GiveToApplication(i)
    /\ UNCHANGED <<scenario, crashed>>

\* A careful application presents the texture it got before it lets go of it.
KeepsLastTexture(i) ==
    handles[i] = 1 => \A s \in Of("SwapChain") : objects[s].val.mLastNextTexture # i

ReleaseObject(i) ==
    /\ handles[i] > 0 /\ ~crashed
    /\ Careful => KeepsLastTexture(i)
    /\ Become(Release(Memory, i))
    /\ handles' = [handles EXCEPT ![i] = @ - 1]
    /\ UNCHANGED <<scenario, crashed>>

\* An object made from a descriptor by the device.
Create(kind, val) ==
    LET i == FreshId(Memory, kind)
    IN  /\ MayCreate(kind)
        /\ Become(New(Memory, i, val)) /\ GiveToApplication(i)
        /\ UNCHANGED <<scenario, crashed>>

-----------------------------------------------------------------------------
(* Bind group layouts.  A descriptor is a sequence of records of binding,  *)
(* type and visibility, a layout's value a function from bindings.         *)

LayoutValue(descriptor) ==
    [b \in {descriptor[j].binding : j \in DOMAIN descriptor} |->
        LET j == CHOOSE j \in DOMAIN descriptor : descriptor[j].binding = b
        IN  [type |-> descriptor[j].type, visibility |-> descriptor[j].visibility]]

\* The limit itself passes, and is beyond the end of the arrays.
ValidateBindGroupLayoutDescriptor(descriptor) ==
    \A j \in DOMAIN descriptor :
        /\ descriptor[j].binding <= kMaxBindingsPerGroup
        /\ \A k \in DOMAIN descriptor :
               descriptor[j].binding = descriptor[k].binding => j = k

Overruns(descriptor) ==
    \E j \in DOMAIN descriptor : descriptor[j].binding = kMaxBindingsPerGroup

HitOf_FaultNoReference(m, i) == m
HitOf(m, i) == Reference(m, i)

\* The blueprint that is looked up is a local variable that is not counted.
GetOrCreateBindGroupLayout(value) ==
    LET hits == {c \in mCaches : objects[c].val = value}
        i == IF hits = {} THEN FreshId(Memory, "BindGroupLayout") ELSE CHOOSE c \in hits : TRUE
        created == New(Memory, i, value)
    IN  /\ Become(IF hits = {} THEN [created EXCEPT !.mCaches = @ \cup {i}]
                  ELSE HitOf(Memory, i))
        /\ GiveToApplication(i)

CreateBindGroupLayout(descriptor) ==
    /\ MayCreate("BindGroupLayout")
    /\ ValidateBindGroupLayoutDescriptor(descriptor)
    /\ IF Overruns(descriptor)
       THEN ~Careful /\ crashed' = TRUE /\ UNCHANGED <<objects, mCaches, handles>>
       ELSE /\ GetOrCreateBindGroupLayout(LayoutValue(descriptor))
            /\ UNCHANGED crashed
    /\ UNCHANGED scenario

\* Pipeline layouts keep their bind group layouts by group.
RECURSIVE WithGroups(_, _, _)
WithGroups(m, i, groups) ==
    IF groups = <<>> THEN m
    ELSE LET n == Len(groups)
         IN  WithGroups(Assign(m, i, <<"group", n - 1>>, groups[n]), i,
                        SubSeq(groups, 1, n - 1))

CreatePipelineLayout(groups) ==
    LET i == FreshId(Memory, "PipelineLayout")
    IN  /\ MayCreate("PipelineLayout")
        /\ Len(groups) <= kMaxBindGroups
        /\ \A g \in DOMAIN groups : groups[g] \in Mine("BindGroupLayout")
        /\ Become(WithGroups(New(Memory, i, <<>>), i, groups))
        /\ GiveToApplication(i)
        /\ UNCHANGED <<scenario, crashed>>

-----------------------------------------------------------------------------
(* Shader modules.  What is reflected of one is its stage, the bindings it *)
(* uses, as records of group, binding and type, and its attributes.        *)

\* A binding over the limits is an error of the device, and the module lives
\* on without it.
ExtractSpirvInfo(spirv) ==
    [spirv EXCEPT !.uses = {u \in spirv.uses : /\ u.binding < kMaxBindingsPerGroup
                                               /\ u.group < kMaxBindGroups}]

CreateShaderModule(spirv) == Create("ShaderModule", ExtractSpirvInfo(spirv))

\* A use that layout pl of memory m has for another type or other stages.
Mismatches(m, pl, stage, u) ==
    /\ Holds(m, pl, <<"group", u.group>>)
    /\ LET value == HeldObject(m, pl, <<"group", u.group>>).val
       IN  /\ u.binding \in DOMAIN value
           /\ \/ value[u.binding].type # u.type
              \/ stage \notin value[u.binding].visibility

\* A use that the layout does not have: its entry was never initialized.
Unset(m, pl, u) ==
    /\ Holds(m, pl, <<"group", u.group>>)
    /\ u.binding \notin DOMAIN HeldObject(m, pl, <<"group", u.group>>).val

\* A use of a group without a layout reads the layout through null, unless a
\* lower group was incompatible already.
ReadsNull(m, pl, module) ==
    \E u \in module.uses :
        /\ ~Holds(m, pl, <<"group", u.group>>)
        /\ \A w \in module.uses : w.group < u.group => ~Mismatches(m, pl, module.stage, w)

\* `luck` says how the uninitialized entries compare.
IsCompatibleWithPipelineLayout(m, pl, module, luck) ==
    \A u \in module.uses : /\ ~Mismatches(m, pl, module.stage, u)
                           /\ Unset(m, pl, u) => luck

CreateComputePipeline(pl, s, luck) ==
    LET module == objects[s].val
        i == FreshId(Memory, "ComputePipeline")
        created == New(Memory, i,
                       [uses |-> module.uses, attributes |-> {}, colors |-> {}])
    IN  /\ MayCreate("ComputePipeline")
        /\ pl \in Mine("PipelineLayout") /\ s \in Mine("ShaderModule")
        /\ module.stage = "Compute"
        /\ IF ReadsNull(Memory, pl, module)
           THEN ~Careful /\ crashed' = TRUE /\ UNCHANGED <<objects, mCaches, handles>>
           ELSE /\ IsCompatibleWithPipelineLayout(Memory, pl, module, luck)
                /\ Become(Assign(created, i, Slot("layout"), pl))
                /\ GiveToApplication(i)
                /\ UNCHANGED crashed
        /\ UNCHANGED scenario

-----------------------------------------------------------------------------
(* Builders.                                                               *)

Builders ==
    {i \in Ids(Memory) : objects[i].kind \in
        {"BindGroupBuilder", "BlendStateBuilder", "DepthStencilStateBuilder",
         "InputStateBuilder", "RenderPassDescriptorBuilder", "RenderPipelineBuilder",
         "BufferViewBuilder", "TextureViewBuilder"}}

NewBuilder == [errors |-> 0, mIsConsumed |-> FALSE, props |-> {}]

\* The entry points refuse a builder with an error and one that was consumed.
Usable(kind) == {b \in Mine(kind) : ~crashed /\ objects[b].val.errors = 0
                                             /\ ~objects[b].val.mIsConsumed}

CreateBuilder(kind) == Create(kind, NewBuilder)

\* The builder of a view is made by its buffer or texture and holds it.
CreateViewBuilder(kind, slot, resource) ==
    LET i == FreshId(Memory, kind)
    IN  /\ MayCreate(kind) /\ handles[resource] > 0
        /\ Become(Assign(New(Memory, i, NewBuilder), i, slot, resource))
        /\ GiveToApplication(i)
        /\ UNCHANGED <<scenario, crashed>>

HandleError(m, b) == [m EXCEPT !.objects[b].val.errors = @ + 1]
WithProps(m, b, props) == [m EXCEPT !.objects[b].val.props = @ \cup props]

\* A function of builder b that either has an effect or is an error.
SetOn(b, allowed, effect) ==
    /\ Become(IF allowed THEN effect ELSE HandleError(Memory, b))
    /\ UNCHANGED <<handles, scenario, crashed>>

\* The setters that refuse what was set before: the states and the extent of
\* a buffer view.  SetStencilFunction sets both faces at once; one property
\* stands for the others.
SetProperties(b, props) ==
    SetOn(b, objects[b].val.props \cap props = {}, WithProps(Memory, b, props))

StateBuilders == {"BlendStateBuilder", "DepthStencilStateBuilder", "BufferViewBuilder"}
StateProperties(kind) ==
    CASE kind = "BlendStateBuilder" -> {{"ColorWriteMask"}}
      [] kind = "DepthStencilStateBuilder" -> {{"StencilBack", "StencilFront"}}
      [] kind = "BufferViewBuilder" -> {{"Extent"}}

\* InputStateBuilder: attributes by location with their input, and inputs.
SetAttribute(b, location, input) ==
    SetOn(b, /\ location < kMaxVertexAttributes /\ input < kMaxVertexInputs
             /\ \A p \in objects[b].val.props : ~(p[1] = "attribute" /\ p[2] = location),
          WithProps(Memory, b, {<<"attribute", location, input>>}))

SetInput(b, input) ==
    SetOn(b, input < kMaxVertexInputs /\ <<"input", input, 0>> \notin objects[b].val.props,
          WithProps(Memory, b, {<<"input", input, 0>>}))

AttributesOf(props) == {p[2] : p \in {q \in props : q[1] = "attribute"}}
AttributesHaveInputs(props) ==
    \A p \in props : p[1] = "attribute" => <<"input", p[3], 0>> \in props

-----------------------------------------------------------------------------
(* Bind groups.                                                            *)

SetLayout(b, layout) ==
    SetOn(b, ~Holds(Memory, b, Slot("layout")), Assign(Memory, b, Slot("layout"), layout))

\* Whether a view or a sampler can be bound where the layout has a type; a
\* buffer must have the usage, a texture that of being sampled.
Fits(m, type, o) ==
    CASE o.kind = "BufferView" ->
            /\ type \in {"UniformBuffer", "StorageBuffer"}
            /\ type \in m.objects[o.refs[Slot("buffer")]].val.usage
      [] o.kind = "TextureView" ->
            /\ type = "SampledTexture"
            /\ type \in m.objects[o.refs[Slot("texture")]].val.usage
      [] OTHER -> type = "Sampler" /\ o.kind = "Sampler"

RECURSIVE SetBindingsBase(_, _, _, _)
SetBindingsBase(m, b, start, views) ==
    IF views = <<>> THEN m
    ELSE SetBindingsBase(Assign(m, b, <<"binding", start>>, Head(views)), b,
                         start + 1, Tail(views))

\* SetBufferViews, SetSamplers and SetTextureViews: all the checks come
\* before the first assignment.
SetBindings(b, start, views) ==
    LET bindings == start..(start + Len(views) - 1)
        allowed ==
            /\ start + Len(views) <= kMaxBindingsPerGroup
            /\ Holds(Memory, b, Slot("layout"))
            /\ LET value == HeldObject(Memory, b, Slot("layout")).val
               IN  \A i \in bindings :
                       /\ ~Holds(Memory, b, <<"binding", i>>)
                       /\ i \in DOMAIN value
                       /\ Fits(Memory, value[i].type, objects[views[i - start + 1]])
    IN  SetOn(b, allowed, SetBindingsBase(Memory, b, start, views))

\* GetResultImpl of each builder gives a memory and what it made, NoResult
\* for nullptr.
NoResult == <<"none", 0>>
Failed(m, b) == [m |-> HandleError(m, b), result |-> NoResult]

RECURSIVE MoveAll(_, _, _, _), CopyAll(_, _, _, _)
MoveAll(m, from, to, slots) ==
    IF slots = {} THEN m
    ELSE LET s == CHOOSE s \in slots : TRUE
         IN  MoveAll(Move(m, from, to, s), from, to, slots \ {s})
CopyAll(m, from, to, slots) ==
    IF slots = {} THEN m
    ELSE LET s == CHOOSE s \in slots : TRUE
         IN  CopyAll(Copy(m, from, to, s), from, to, slots \ {s})

SlotsOf(m, b) == DOMAIN m.objects[b].refs

\* An object that takes over the Refs of its builder.
Taking(m, b, kind, val) ==
    LET i == FreshId(m, kind)
    IN  [m |-> MoveAll(New(m, i, val), b, i, SlotsOf(m, b)), result |-> i]

\* One that has the same Refs as its builder.
Sharing(m, b, kind, val) ==
    LET i == FreshId(m, kind)
    IN  [m |-> CopyAll(New(m, i, val), b, i, SlotsOf(m, b)), result |-> i]

BindingsSet(m, b) == {s[2] : s \in {t \in SlotsOf(m, b) : t[1] = "binding"}}

BindGroupResult_FaultSubset(m, b) ==
    IF /\ Holds(m, b, Slot("layout"))
       /\ BindingsSet(m, b) \subseteq DOMAIN HeldObject(m, b, Slot("layout")).val
    THEN Taking(m, b, "BindGroup", <<>>) ELSE Failed(m, b)
BindGroupResult(m, b) ==
    IF /\ Holds(m, b, Slot("layout"))
       /\ BindingsSet(m, b) = DOMAIN HeldObject(m, b, Slot("layout")).val
    THEN Taking(m, b, "BindGroup", <<>>) ELSE Failed(m, b)

-----------------------------------------------------------------------------
(* Render pass descriptors.                                                *)

SetColorAttachment(b, attachment, view) ==
    SetOn(b, /\ attachment < kMaxColorAttachments
             /\ ~HeldObject(Memory, view, Slot("texture")).val.depthStencil,
          Assign(Memory, b, <<"color", attachment>>, view))

SetDepthStencilAttachment(b, view) ==
    SetOn(b, HeldObject(Memory, view, Slot("texture")).val.depthStencil,
          Assign(Memory, b, Slot("depthStencil"), view))

\* The sizes of the textures behind the attachments of object i.
AttachmentSizes(m, i) ==
    {HeldObject(m, Held(m, i, s), Slot("texture")).val.size : s \in SlotsOf(m, i)}

\* CheckOrSetSize: the first attachment decides, the others must agree.
RenderPassDescriptorResult(m, b) ==
    IF Cardinality(AttachmentSizes(m, b)) # 1 THEN Failed(m, b)
    ELSE Sharing(m, b, "RenderPassDescriptor", <<>>)

-----------------------------------------------------------------------------
(* Render pipelines.                                                       *)

SetPipelineLayout(b, layout) ==
    SetOn(b, TRUE, Assign(Memory, b, Slot("layout"), layout))

\* A stage is set once, with a module of that stage.
SetStage(b, stage, s) ==
    SetOn(b, objects[s].val.stage = stage /\ ~Holds(Memory, b, Slot(stage)),
          Assign(Memory, b, Slot(stage), s))

SetColorAttachmentFormat(b, attachment) ==
    SetOn(b, attachment < kMaxColorAttachments, WithProps(Memory, b, {attachment}))

SetColorAttachmentBlendState(b, attachment, state) ==
    SetOn(b, attachment < kMaxColorAttachments /\ ~Holds(Memory, b, <<"blend", attachment>>),
          Assign(Memory, b, <<"blend", attachment>>, state))

SetInputState(b, state) == SetOn(b, TRUE, Assign(Memory, b, Slot("inputState"), state))

BlendStatesSet(m, b) == {s[2] : s \in {t \in SlotsOf(m, b) : t[1] = "blend"}}

\* A default state: its builder is made and asked for it, the state is kept
\* and the external reference it was made with given back.
DefaultState(m, b, slot, kind) ==
    LET i == FreshId(m, kind)
    IN  Release(Assign(New(m, i, {}), b, slot, i), i)

\* The builders of the default input and depth stencil states are released,
\* the one of a default blend state is not.
WithDefault(m, b, slot, kind) ==
    IF Holds(m, b, slot) THEN m ELSE DefaultState(m, b, slot, kind)

WithDefaultBlendState(m, b, attachment) ==
    LET leaked == New(m, FreshId(m, "BlendStateBuilder"),
                      [NewBuilder EXCEPT !.mIsConsumed = TRUE])
    IN  IF Holds(m, b, <<"blend", attachment>>) THEN m
        ELSE DefaultState(leaked, b, <<"blend", attachment>>, "BlendState")

RECURSIVE WithDefaultBlendStates(_, _, _)
WithDefaultBlendStates(m, b, attachments) ==
    IF attachments = {} THEN m
    ELSE LET a == CHOOSE a \in attachments : TRUE
         IN  WithDefaultBlendStates(WithDefaultBlendState(m, b, a), b, attachments \ {a})

\* PipelineBase takes the layout of the builder or makes an empty one.
WithPipelineLayout(m, b, i) ==
    LET pl == FreshId(m, "PipelineLayout")
    IN  IF Holds(m, b, Slot("layout")) THEN Move(m, b, i, Slot("layout"))
        ELSE Release(Assign(New(m, pl, <<>>), i, Slot("layout"), pl), pl)

Stages == {"Vertex", "Fragment"}
ModulesOf(m, b) == {HeldObject(m, b, Slot(s)).val : s \in {t \in Stages : Holds(m, b, Slot(t))}}

\* The constructors of PipelineBase and RenderPipelineBase: each may call
\* HandleError once, and the object exists all the same.
CreateRenderPipeline(m, b, luck) ==
    LET i == FreshId(m, "RenderPipeline")
        modules == ModulesOf(m, b)
        props == m.objects[b].val.props
        val == [uses |-> UNION {s.uses : s \in modules},
                attributes |-> UNION {s.attributes : s \in modules},
                colors |-> props]
        withLayout == WithPipelineLayout(New(m, i, val), b, i)
        compatible == \A s \in modules :
            IsCompatibleWithPipelineLayout(withLayout, Held(withLayout, i, Slot("layout")), s, luck)
        checked == IF compatible THEN withLayout ELSE HandleError(withLayout, b)
        blends == {<<"blend", a>> : a \in BlendStatesSet(m, b)}
        filled == CopyAll(MoveAll(checked, b, i, {Slot("inputState"), Slot("depthStencilState")}),
                          b, i, blends)
        complete == /\ Cardinality(modules) = 2
                    /\ val.attributes \subseteq
                           AttributesOf(HeldObject(filled, i, Slot("inputState")).val)
                    /\ props # {}
    IN  [m |-> IF complete THEN filled ELSE HandleError(filled, b), result |-> i]

RenderPipelineResult(m, b, luck) ==
    LET colors == m.objects[b].val.props
        defaults == WithDefault(WithDefault(m, b, Slot("inputState"), "InputState"),
                                b, Slot("depthStencilState"), "DepthStencilState")
    IN  IF ~(BlendStatesSet(m, b) \subseteq colors) THEN Failed(defaults, b)
        ELSE CreateRenderPipeline(WithDefaultBlendStates(defaults, b, colors), b, luck)

PipelineReadsNull(b) ==
    \E s \in ModulesOf(Memory, b) :
        IF Holds(Memory, b, Slot("layout"))
        THEN ReadsNull(Memory, Held(Memory, b, Slot("layout")), s) ELSE s.uses # {}

-----------------------------------------------------------------------------
(* GetResult.                                                              *)

ResultOf(m, b, luck) ==
    LET kind == m.objects[b].kind
        props == m.objects[b].val.props
    IN  CASE kind = "BindGroupBuilder" -> BindGroupResult(m, b)
          [] kind = "BufferViewBuilder" ->
                IF props = {} THEN Failed(m, b) ELSE Taking(m, b, "BufferView", <<>>)
          [] kind = "TextureViewBuilder" -> Sharing(m, b, "TextureView", <<>>)
          [] kind = "BlendStateBuilder" -> Taking(m, b, "BlendState", props)
          [] kind = "DepthStencilStateBuilder" -> Taking(m, b, "DepthStencilState", props)
          [] kind = "InputStateBuilder" ->
                IF AttributesHaveInputs(props) THEN Taking(m, b, "InputState", props)
                ELSE Failed(m, b)
          [] kind = "RenderPassDescriptorBuilder" -> RenderPassDescriptorResult(m, b)
          [] kind = "RenderPipelineBuilder" -> RenderPipelineResult(m, b, luck)

\* HandleResult: after an error the application never sees the object, whose
\* external reference is given back.
HandleResult(r, b) ==
    LET consumed == [r.m EXCEPT !.objects[b].val.mIsConsumed = TRUE]
        failed == consumed.objects[b].val.errors > 0
    IN  /\ Become(IF failed /\ r.result # NoResult THEN Release(consumed, r.result)
                  ELSE consumed)
        /\ IF failed THEN UNCHANGED handles ELSE GiveToApplication(r.result)

\* The objects that GetResult of builder b makes.
PipelineKinds(b) ==
    LET Has(slot) == Holds(Memory, b, slot)
        Default(slot, kinds) == IF Has(slot) THEN {} ELSE kinds
    IN  {"RenderPipeline"}
        \cup Default(Slot("layout"), {"PipelineLayout"})
        \cup Default(Slot("inputState"), {"InputState"})
        \cup Default(Slot("depthStencilState"), {"DepthStencilState"})
        \cup UNION {Default(<<"blend", a>>, {"BlendStateBuilder", "BlendState"}) :
                        a \in objects[b].val.props}

ResultKinds(b) ==
    LET kind == objects[b].kind
    IN  CASE kind = "BindGroupBuilder" -> {"BindGroup"}
          [] kind = "BufferViewBuilder" -> {"BufferView"}
          [] kind = "TextureViewBuilder" -> {"TextureView"}
          [] kind = "BlendStateBuilder" -> {"BlendState"}
          [] kind = "DepthStencilStateBuilder" -> {"DepthStencilState"}
          [] kind = "InputStateBuilder" -> {"InputState"}
          [] kind = "RenderPassDescriptorBuilder" -> {"RenderPassDescriptor"}
          [] kind = "RenderPipelineBuilder" -> PipelineKinds(b)

\* GetResult, which the application calls once.  With an error it only hands
\* the error on.
GetResult(b, luck) ==
    /\ handles[b] > 0 /\ ~objects[b].val.mIsConsumed
    /\ Room(ResultKinds(b))
    /\ IF objects[b].val.errors > 0
       THEN HandleResult([m |-> Memory, result |-> NoResult], b) /\ UNCHANGED crashed
       ELSE IF objects[b].kind = "RenderPipelineBuilder" /\ PipelineReadsNull(b)
       THEN ~Careful /\ crashed' = TRUE /\ UNCHANGED <<objects, mCaches, handles>>
       ELSE HandleResult(ResultOf(Memory, b, luck), b) /\ UNCHANGED crashed
    /\ UNCHANGED scenario

-----------------------------------------------------------------------------
(* The swap chain, its last texture and the native implementation.         *)

CreateSwapChain == Create("SwapChain", [configured |-> FALSE, mLastNextTexture |-> NoResult,
                                        presented |-> {}])

Configure(s) ==
    /\ ~crashed
    /\ objects' = [objects EXCEPT ![s].val.configured = TRUE]
    /\ UNCHANGED <<mCaches, handles, scenario, crashed>>

\* The last texture is a plain pointer: it keeps nothing alive.
GetNextTexture(s) ==
    LET i == FreshId(Memory, "Texture")
        created == New(Memory, i,
                       [usage |-> {"Present"}, size |-> 1, depthStencil |-> FALSE])
    IN  /\ objects[s].val.configured /\ Room({"Texture"})
        /\ Careful => objects[s].val.mLastNextTexture = NoResult
        /\ Become([created EXCEPT !.objects[s].val.mLastNextTexture = i])
        /\ GiveToApplication(i)
        /\ UNCHANGED <<scenario, crashed>>

Presentable(s, t) == objects[s].val.mLastNextTexture = t

\* Only the last texture is accepted.  It stays the last one; the model ends
\* its turn, so that a careful application presents it once.
Present(s, t) ==
    /\ ~crashed /\ Presentable(s, t)
    /\ objects' = [objects EXCEPT ![s].val.presented = objects[t].val.usage,
                                  ![s].val.mLastNextTexture = NoResult]
    /\ UNCHANGED <<mCaches, handles, scenario, crashed>>

-----------------------------------------------------------------------------
Init == /\ scenario \in Scenarios
        /\ objects = EmptyMemory(scenario.ids).objects
        /\ mCaches = EmptyMemory(scenario.ids).mCaches
        /\ handles = [i \in scenario.ids |-> 0]
        /\ crashed = FALSE

\* The views and samplers that one call of a builder may set.
Bindable == Mine("BufferView") \cup Mine("TextureView") \cup Mine("Sampler")
BindingCalls == UNION {[1..n -> Bindable] : n \in 1..scenario.bindings}

LayoutCalls == UNION {[1..n -> Mine("BindGroupLayout")] : n \in 0..scenario.groups}

CreateObjects ==
    \/ \E kind \in {"Buffer", "Texture", "Sampler"} :
           \E val \in scenario.resources[kind] : Create(kind, val)
    \/ \E descriptor \in scenario.layouts : CreateBindGroupLayout(descriptor)
    \/ \E groups \in LayoutCalls : CreatePipelineLayout(groups)
    \/ \E spirv \in scenario.modules : CreateShaderModule(spirv)
    \/ \E pl \in Mine("PipelineLayout"), s \in Mine("ShaderModule"), luck \in UnsetMatches :
           CreateComputePipeline(pl, s, luck)
    \/ CreateSwapChain

CreateBuilders ==
    \/ \E kind \in {"BindGroupBuilder", "BlendStateBuilder", "DepthStencilStateBuilder",
                    "InputStateBuilder", "RenderPassDescriptorBuilder",
                    "RenderPipelineBuilder"} : CreateBuilder(kind)
    \/ \E buffer \in Mine("Buffer") : CreateViewBuilder("BufferViewBuilder", Slot("buffer"), buffer)
    \/ \E texture \in Mine("Texture") :
           CreateViewBuilder("TextureViewBuilder", Slot("texture"), texture)

SetStates ==
    \/ \E kind \in StateBuilders : \E b \in Usable(kind) :
           \E props \in StateProperties(kind) : SetProperties(b, props)
    \/ \E b \in Usable("InputStateBuilder") :
           \/ \E location \in 0..kMaxVertexAttributes, input \in 0..kMaxVertexInputs :
                  SetAttribute(b, location, input)
           \/ \E input \in 0..kMaxVertexInputs : SetInput(b, input)

SetGroups ==
    \E b \in Usable("BindGroupBuilder") :
        \/ \E layout \in Mine("BindGroupLayout") : SetLayout(b, layout)
        \/ \E start \in 0..kMaxBindingsPerGroup : \E views \in BindingCalls :
               SetBindings(b, start, views)

SetPasses ==
    \E b \in Usable("RenderPassDescriptorBuilder"), view \in Mine("TextureView") :
        \/ \E attachment \in 0..kMaxColorAttachments : SetColorAttachment(b, attachment, view)
        \/ SetDepthStencilAttachment(b, view)

SetPipelines ==
    \E b \in Usable("RenderPipelineBuilder") :
        \/ \E layout \in Mine("PipelineLayout") : SetPipelineLayout(b, layout)
        \/ \E stage \in Stages, s \in Mine("ShaderModule") : SetStage(b, stage, s)
        \/ \E attachment \in 0..kMaxColorAttachments :
               \/ SetColorAttachmentFormat(b, attachment)
               \/ \E state \in Mine("BlendState") :
                      SetColorAttachmentBlendState(b, attachment, state)
        \/ \E state \in Mine("InputState") : SetInputState(b, state)

Next == \/ \E i \in Ids(Memory) : ReferenceObject(i)
        \/ \E i \in Ids(Memory) : ReleaseObject(i)
        \/ CreateObjects
        \/ CreateBuilders
        \/ SetStates
        \/ SetGroups
        \/ SetPasses
        \/ SetPipelines
        \/ \E b \in Builders, luck \in UnsetMatches : GetResult(b, luck)
        \/ \E s \in Mine("SwapChain") : Configure(s)
        \/ \E s \in Mine("SwapChain") : GetNextTexture(s)
        \/ \E s \in Mine("SwapChain"), t \in Mine("Texture") : Present(s, t)

Spec == Init /\ [][Next]_vars

-----------------------------------------------------------------------------
(* The builder of a default blend state, which nobody releases.            *)
Leaked(i) == objects[i].kind = "BlendStateBuilder" /\ handles[i] = 0

HoldersOf(i) ==
    MapThenSumSet(LAMBDA j : Cardinality({s \in SlotsOf(Memory, j) :
                                             Held(Memory, j, s) = i}), Live(Memory))

\* The cache holds exactly the bind group layouts that exist, one for each
\* value: that two layouts are the same object, which is how bind groups are
\* matched with pipelines, is that they are equal.
LayoutsAreShared ==
    /\ mCaches = Of("BindGroupLayout")
    /\ \A c, d \in mCaches : objects[c].val = objects[d].val => c = d

\* The counters of every object are those of its users: the external one
\* counts the references of the application, the internal one the Refs that
\* hold the object and one for all external references.  No Ref, no entry of
\* the cache and no handle of the application dangles, and what nobody can
\* reach is gone.
CountsMatchHolders ==
    /\ \A i \in Live(Memory) :
        LET o == objects[i]
        IN  /\ o.mExternalRefs = (IF Leaked(i) THEN 1 ELSE handles[i])
            /\ o.mInternalRefs = HoldersOf(i) + (IF o.mExternalRefs > 0 THEN 1 ELSE 0)
            /\ o.mInternalRefs > 0
            /\ \A s \in DOMAIN o.refs : o.refs[s] \in Live(Memory)
    /\ \A i \in FreeIds(Memory) : handles[i] = 0
    /\ LayoutsAreShared

\* What a pipeline's shaders use they find: in a bind group that has the
\* layout of the pipeline for its group, each binding used is set, to an
\* object of the binding's type with the usage for it; each attribute has its
\* input, and each color attachment its blend state.
ShadersGetTheirInputs ==
    /\ \A p \in Of("RenderPipeline") \cup Of("ComputePipeline"), g \in Of("BindGroup") :
        LET layout == Held(Memory, p, Slot("layout"))
        IN  \A u \in objects[p].val.uses :
                Holds(Memory, layout, <<"group", u.group>>)
                /\ Held(Memory, layout, <<"group", u.group>>) = Held(Memory, g, Slot("layout"))
                => /\ Holds(Memory, g, <<"binding", u.binding>>)
                   /\ Fits(Memory, u.type, HeldObject(Memory, g, <<"binding", u.binding>>))
    /\ \A p \in Of("RenderPipeline") :
        LET props == HeldObject(Memory, p, Slot("inputState")).val
        IN  /\ objects[p].val.attributes \subseteq AttributesOf(props)
            /\ AttributesHaveInputs(props)
            /\ \A a \in objects[p].val.colors : Holds(Memory, p, <<"blend", a>>)

\* A swap chain presents only textures that it made for that, although it
\* knows its last texture by an address alone.
PresentsItsTextures ==
    \A s \in Of("SwapChain") : objects[s].val.presented \in {{}, {"Present"}}

=============================================================================
