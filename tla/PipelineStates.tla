--------------------------- MODULE PipelineStates ---------------------------
(***************************************************************************)
(* The fixed state that a render pipeline asks for, as Vulkan, D3D12 and   *)
(* OpenGL are told of it: depth and stencil tests, blending and vertex     *)
(* fetch (BlendState*.cpp, DepthStencilState*.cpp, InputState*.cpp,        *)
(* RenderPipeline*.cpp), and samplers (Sampler*.cpp).                      *)
(*                                                                         *)
(* Vulkan and D3D12 pipelines are immutable; OpenGL has one context, which *)
(* ApplyNow changes step by step and which outlives pipelines and passes,  *)
(* with a cache of its own in PersistentPipelineState.  Enumerators have   *)
(* the names of their API.  Pipelines are made when they are first set:    *)
(* what they are made of does not change.                                  *)
(* A definition named X_Fault is X with a plausible bug: nothing uses it.  *)
(***************************************************************************)
EXTENDS Naturals, FiniteSets, Bitwise, TLC

CONSTANTS
  Backends,           \* among "Vulkan", "D3D12" and "OpenGL"
  Pipelines,          \* what render pipeline builders were given
  SamplerDescriptors,
  References,         \* stencil references
  MaxPipelines,       \* how often a pipeline is set
  kMaxColorAttachments,
  StencilBits,        \* of the stencil attachment, for 8
  Word,               \* the values of a mask, for 2^32
  Draws,              \* the vertices and instances looked at
  Careful             \* pipelines that all backends can draw with (Unfaithful)

VARIABLES
  backend,
  pass,       \* the color attachments of the open render pass, or {}
  bound,      \* the pipeline last set in it, or <<>>
  reference,  \* the stencil reference last set in it
  native,     \* what the API works with: see NativeInit
  cache,      \* PersistentPipelineState of OpenGL's render pass
  sampler,    \* the sampler created, or <<>>
  setCount    \* pipelines set so far

vars == <<backend, pass, bound, reference, native, cache, sampler, setCount>>

Slots == 0 .. kMaxColorAttachments - 1
Faces == {"front", "back"}
StencilValues == 0 .. 2 ^ StencilBits - 1
-----------------------------------------------------------------------------
(* What the builders fill in, and what they refuse.                        *)
DefaultBlend ==
  LET keep == [operation |-> "Add", srcFactor |-> "One", dstFactor |-> "Zero"]
  IN [enabled |-> FALSE, color |-> keep, alpha |-> keep, writeMask |-> {"R", "G", "B", "A"}]
DefaultDepth == [compare |-> "Always", write |-> FALSE]
DefaultFace ==
  [compare |-> "Always", stencilFail |-> "Keep", depthFail |-> "Keep", pass |-> "Keep"]
DefaultStencil ==
  [front |-> DefaultFace, back |-> DefaultFace, readMask |-> 2 ^ StencilBits - 1,
   writeMask |-> 2 ^ StencilBits - 1]

Buildable(p) == p.colors # {} /\ DOMAIN p.blends \subseteq p.colors
GetBlendState(p, slot) == IF slot \in DOMAIN p.blends THEN p.blends[slot] ELSE DefaultBlend

StencilTestEnabled(s) == \E f \in Faces : s[f] # DefaultFace

(* What not every backend can do.  Vulkan takes the triangles for front    *)
(* facing that the others take for back facing.  D3D12 allows no factor of *)
(* a color in the blending of alpha.  Vulkan and D3D12 count the color     *)
(* attachments and number them from 0.  OpenGL emulates a stride of zero   *)
(* with a divisor, to whose result the first instance is added, and turns  *)
(* integers into floating point numbers.                                   *)
ColorFactors == {"SrcColor", "OneMinusSrcColor", "DstColor", "OneMinusDstColor"}
Unfaithful(p) ==
  \/ backend = "Vulkan" /\ p.stencil.front # p.stencil.back
  \/ /\ backend = "D3D12"
     /\ \E s \in DOMAIN p.blends :
          {p.blends[s].alpha.srcFactor, p.blends[s].alpha.dstFactor} \cap ColorFactors # {}
  \/ backend # "OpenGL" /\ p.colors # 0 .. Cardinality(p.colors) - 1
  \/ /\ backend = "OpenGL"
     /\ \/ \E d \in Draws, b \in DOMAIN p.inputs : d.firstInstance > 0 /\ p.inputs[b].stride = 0
        \/ \E a \in DOMAIN p.attributes : p.attributes[a].format.type \in {"Int", "Ushort"}
-----------------------------------------------------------------------------
(* Vulkan.                                                                 *)
VulkanCompareOp ==
  [Always |-> "ALWAYS", Equal |-> "EQUAL", Greater |-> "GREATER",
   GreaterEqual |-> "GREATER_OR_EQUAL", Less |-> "LESS", LessEqual |-> "LESS_OR_EQUAL",
   Never |-> "NEVER", NotEqual |-> "NOT_EQUAL"]
VulkanStencilOp ==
  [Keep |-> "KEEP", Zero |-> "ZERO", Replace |-> "REPLACE", Invert |-> "INVERT",
   IncrementClamp |-> "INCREMENT_AND_CLAMP", DecrementClamp |-> "DECREMENT_AND_CLAMP",
   IncrementWrap |-> "INCREMENT_AND_WRAP", DecrementWrap |-> "DECREMENT_AND_WRAP"]
VulkanBlendFactor ==
  [Zero |-> "ZERO", One |-> "ONE", SrcColor |-> "SRC_COLOR",
   OneMinusSrcColor |-> "ONE_MINUS_SRC_COLOR", SrcAlpha |-> "SRC_ALPHA",
   OneMinusSrcAlpha |-> "ONE_MINUS_SRC_ALPHA", DstColor |-> "DST_COLOR",
   OneMinusDstColor |-> "ONE_MINUS_DST_COLOR", DstAlpha |-> "DST_ALPHA",
   OneMinusDstAlpha |-> "ONE_MINUS_DST_ALPHA", SrcAlphaSaturated |-> "SRC_ALPHA_SATURATE",
   BlendColor |-> "CONSTANT_COLOR", OneMinusBlendColor |-> "ONE_MINUS_CONSTANT_COLOR"]
VulkanBlendOperation ==
  [Add |-> "ADD", Subtract |-> "SUBTRACT", ReverseSubtract |-> "REVERSE_SUBTRACT",
   Min |-> "MIN", Max |-> "MAX"]
VulkanVertexFormat ==
  [Float |-> "SFLOAT", Int |-> "SINT", Ushort |-> "UINT", Unorm |-> "UNORM"]

VulkanFace(info, s) ==
  [func |-> VulkanCompareOp[info.compare], fail |-> VulkanStencilOp[info.stencilFail],
   depthFail |-> VulkanStencilOp[info.depthFail], pass |-> VulkanStencilOp[info.pass],
   readMask |-> s.readMask]
VulkanDepthStencil(depth, s) ==
  [depthTest |-> TRUE, depthWrite |-> depth.write,
   depthFunc |-> VulkanCompareOp[depth.compare], stencilTest |-> StencilTestEnabled(s),
   face |-> [f \in Faces |-> VulkanFace(s[f], s)], stencilMask |-> s.writeMask]

VulkanEquation(e) ==
  [op |-> VulkanBlendOperation[e.operation], src |-> VulkanBlendFactor[e.srcFactor],
   dst |-> VulkanBlendFactor[e.dstFactor]]
VulkanBlend(info) ==
  [enabled |-> info.enabled, color |-> VulkanEquation(info.color),
   alpha |-> VulkanEquation(info.alpha), writeMask |-> info.writeMask]

(* Elements of the array of attachments that no loop assigned.             *)
Unassigned == [enabled |-> FALSE, writeMask |-> {}]
VulkanAttachments(p) ==
  [i \in 0 .. Cardinality(p.colors) - 1 |->
     IF i \in p.colors THEN VulkanBlend(GetBlendState(p, i)) ELSE Unassigned]

(* Bindings and attributes are listed one after the other, each with its   *)
(* number.                                                                 *)
VulkanInput(p) ==
  [bindings |-> {[binding |-> b, stride |-> p.inputs[b].stride,
                  inputRate |-> p.inputs[b].stepMode] : b \in DOMAIN p.inputs},
   attributes |-> {[location |-> a, binding |-> p.attributes[a].bindingSlot,
                    format |-> [p.attributes[a].format EXCEPT !.type = VulkanVertexFormat[@]],
                    offset |-> p.attributes[a].offset] : a \in DOMAIN p.attributes}]
-----------------------------------------------------------------------------
(* D3D12.                                                                  *)
D3D12ComparisonFunc ==
  [Always |-> "ALWAYS", Equal |-> "EQUAL", Greater |-> "GREATER",
   GreaterEqual |-> "GREATER_EQUAL", Less |-> "LESS", LessEqual |-> "LESS_EQUAL",
   Never |-> "NEVER", NotEqual |-> "NOT_EQUAL"]
D3D12StencilOp ==
  [Keep |-> "KEEP", Zero |-> "ZERO", Replace |-> "REPLACE", Invert |-> "INVERT",
   IncrementClamp |-> "INCR_SAT", DecrementClamp |-> "DECR_SAT",
   IncrementWrap |-> "INCR", DecrementWrap |-> "DECR"]
D3D12BlendFactor ==
  [Zero |-> "ZERO", One |-> "ONE", SrcColor |-> "SRC_COLOR",
   OneMinusSrcColor |-> "INV_SRC_COLOR", SrcAlpha |-> "SRC_ALPHA",
   OneMinusSrcAlpha |-> "INV_SRC_ALPHA", DstColor |-> "DEST_COLOR",
   OneMinusDstColor |-> "INV_DEST_COLOR", DstAlpha |-> "DEST_ALPHA",
   OneMinusDstAlpha |-> "INV_DEST_ALPHA", SrcAlphaSaturated |-> "SRC_ALPHA_SAT",
   BlendColor |-> "BLEND_FACTOR", OneMinusBlendColor |-> "INV_BLEND_FACTOR"]
D3D12BlendOperation ==
  [Add |-> "ADD", Subtract |-> "SUBTRACT", ReverseSubtract |-> "REV_SUBTRACT",
   Min |-> "MIN", Max |-> "MAX"]
D3D12VertexFormat ==
  [Float |-> "FLOAT", Int |-> "SINT", Ushort |-> "UINT", Unorm |-> "UNORM"]

(* StencilOpDesc; the masks are cast to UINT8.                             *)
D3D12Face(info, s) ==
  [func |-> D3D12ComparisonFunc[info.compare], fail |-> D3D12StencilOp[info.stencilFail],
   depthFail |-> D3D12StencilOp[info.depthFail], pass |-> D3D12StencilOp[info.pass],
   readMask |-> s.readMask % 2 ^ StencilBits]
D3D12DepthStencil(depth, s) ==
  [depthTest |-> TRUE, depthWrite |-> depth.write,
   depthFunc |-> D3D12ComparisonFunc[depth.compare], stencilTest |-> StencilTestEnabled(s),
   face |-> [f \in Faces |-> D3D12Face(s[f], s)], stencilMask |-> s.writeMask % 2 ^ StencilBits]

D3D12Equation(e) ==
  [op |-> D3D12BlendOperation[e.operation], src |-> D3D12BlendFactor[e.srcFactor],
   dst |-> D3D12BlendFactor[e.dstFactor]]
D3D12Blend(info) ==
  [enabled |-> info.enabled, color |-> D3D12Equation(info.color),
   alpha |-> D3D12Equation(info.alpha), writeMask |-> info.writeMask]

(* The descriptor starts as zeros, and NumRenderTargets cuts it off.       *)
D3D12RenderTargets(p) ==
  [i \in 0 .. Cardinality(p.colors) - 1 |->
     IF i \in p.colors THEN D3D12Blend(GetBlendState(p, i)) ELSE Unassigned]

(* One element for each attribute, with the rate of its input; strides are *)
(* those of the views that SetVertexBuffers makes for the pipeline.        *)
D3D12Elements(p) ==
  {[SemanticIndex |-> a, InputSlot |-> p.attributes[a].bindingSlot,
    format |-> [p.attributes[a].format EXCEPT !.type = D3D12VertexFormat[@]],
    AlignedByteOffset |-> p.attributes[a].offset,
    InstanceDataStepRate |->
      IF p.inputs[p.attributes[a].bindingSlot].stepMode = "Vertex" THEN 0 ELSE 1]
     : a \in DOMAIN p.attributes}
D3D12Strides(p) == [b \in DOMAIN p.inputs |-> p.inputs[b].stride]
-----------------------------------------------------------------------------
(* OpenGL.                                                                 *)
OpenGLCompareFunction ==
  [Always |-> "ALWAYS", Equal |-> "EQUAL", Greater |-> "GREATER", GreaterEqual |-> "GEQUAL",
   Less |-> "LESS", LessEqual |-> "LEQUAL", Never |-> "NEVER", NotEqual |-> "NOTEQUAL"]
OpenGLStencilOperation ==
  [Keep |-> "KEEP", Zero |-> "ZERO", Replace |-> "REPLACE", Invert |-> "INVERT",
   IncrementClamp |-> "INCR", DecrementClamp |-> "DECR",
   IncrementWrap |-> "INCR_WRAP", DecrementWrap |-> "DECR_WRAP"]
GLBlendFactor(factor, alpha) ==
  CASE factor = "BlendColor" -> IF alpha THEN "CONSTANT_ALPHA" ELSE "CONSTANT_COLOR"
    [] factor = "OneMinusBlendColor" ->
         IF alpha THEN "ONE_MINUS_CONSTANT_ALPHA" ELSE "ONE_MINUS_CONSTANT_COLOR"
    [] OTHER ->
         [Zero |-> "ZERO", One |-> "ONE", SrcColor |-> "SRC_COLOR",
          OneMinusSrcColor |-> "ONE_MINUS_SRC_COLOR", SrcAlpha |-> "SRC_ALPHA",
          OneMinusSrcAlpha |-> "ONE_MINUS_SRC_ALPHA", DstColor |-> "DST_COLOR",
          OneMinusDstColor |-> "ONE_MINUS_DST_COLOR", DstAlpha |-> "DST_ALPHA",
          OneMinusDstAlpha |-> "ONE_MINUS_DST_ALPHA",
          SrcAlphaSaturated |-> "SRC_ALPHA_SATURATE"][factor]
GLBlendMode ==
  [Add |-> "ADD", Subtract |-> "SUBTRACT", ReverseSubtract |-> "REVERSE_SUBTRACT",
   Min |-> "MIN", Max |-> "MAX"]
VertexFormatType ==
  [Float |-> "FLOAT", Int |-> "INT", Ushort |-> "UNSIGNED_SHORT", Unorm |-> "UNSIGNED_BYTE"]
VertexFormatComponentSize ==
  [Float |-> 4, Int |-> 4, Ushort |-> 2, Unorm |-> 1]
VertexFormatSize(format) == format.components * VertexFormatComponentSize[format.type]

(* PersistentPipelineState, a local of the render pass.                    *)
CacheInit == [front |-> "ALWAYS", back |-> "ALWAYS", readMask |-> Word - 1, reference |-> 0]
CallGLStencilFunc(n, c) ==
  [n EXCEPT !.face = [f \in Faces |-> [n.face[f] EXCEPT
     !.func = c[f], !.reference = c.reference, !.readMask = c.readMask]]]

WithStencilFuncsAndMask(c, s) ==
  [c EXCEPT !.front = OpenGLCompareFunction[s.front.compare],
            !.back = OpenGLCompareFunction[s.back.compare], !.readMask = s.readMask]
SetStencilFuncsAndMask_Fault(n, c, s) ==
  LET d == WithStencilFuncsAndMask(c, s)
  IN IF d.front = c.front /\ d.back = c.back THEN n ELSE CallGLStencilFunc(n, d)
SetStencilFuncsAndMask(n, c, s) ==
  LET d == WithStencilFuncsAndMask(c, s) IN IF d = c THEN n ELSE CallGLStencilFunc(n, d)

(* DepthStencilState::ApplyNow: depth writes need the test enabled.        *)
SetStencilOps(n, s) ==
  [n EXCEPT !.face = [f \in Faces |-> [n.face[f] EXCEPT
     !.fail = OpenGLStencilOperation[s[f].stencilFail],
     !.depthFail = OpenGLStencilOperation[s[f].depthFail],
     !.pass = OpenGLStencilOperation[s[f].pass]]]]
ApplyDepthStencil(n, c, depth, s) ==
  [SetStencilOps(SetStencilFuncsAndMask(n, c, s), s) EXCEPT
     !.depthTest = depth.compare # "Always" \/ depth.write,
     !.depthWrite = depth.write,
     !.depthFunc = OpenGLCompareFunction[depth.compare],
     !.stencilTest = StencilTestEnabled(s),
     !.stencilMask = s.writeMask]

(* BlendState::ApplyNow: disabled blending keeps the last equation.        *)
GLEquation(e, alpha) ==
  [op |-> GLBlendMode[e.operation], src |-> GLBlendFactor(e.srcFactor, alpha),
   dst |-> GLBlendFactor(e.dstFactor, alpha)]
ApplyBlend(info, before) ==
  IF info.enabled
  THEN [enabled |-> TRUE, color |-> GLEquation(info.color, FALSE),
        alpha |-> GLEquation(info.alpha, TRUE), writeMask |-> info.writeMask]
  ELSE [before EXCEPT !.enabled = FALSE, !.writeMask = info.writeMask]

(* The vertex array of an input state, and what InputBufferTracker::Apply  *)
(* puts into it.                                                           *)
VertexArray(p) ==
  [a \in DOMAIN p.attributes |->
     LET attribute == p.attributes[a]
         input == p.inputs[attribute.bindingSlot]
     IN [slot |-> attribute.bindingSlot, offset |-> attribute.offset, stride |-> input.stride,
         divisor |-> IF input.stride = 0 THEN Word - 1
                     ELSE IF input.stepMode = "Instance" THEN 1 ELSE 0,
         type |-> VertexFormatType[attribute.format.type],
         components |-> attribute.format.components,
         normalized |-> attribute.format.type = "Unorm",
         packed |-> VertexFormatSize(attribute.format)]]

(* RenderPipeline::ApplyNow.                                               *)
ApplyNow(n, c, p) ==
  [ApplyDepthStencil(n, c, p.depth, p.stencil) EXCEPT
     !.blend = [i \in Slots |-> IF i \in p.colors THEN ApplyBlend(GetBlendState(p, i), n.blend[i])
                                ELSE n.blend[i]],
     !.input = VertexArray(p)]

(* The context that Device::Device leaves.                                 *)
GLContext ==
  LET keep == [op |-> "ADD", src |-> "ONE", dst |-> "ZERO"]
      face == [func |-> "ALWAYS", reference |-> 0, readMask |-> Word - 1,
               fail |-> "KEEP", depthFail |-> "KEEP", pass |-> "KEEP"]
  IN [depthTest |-> TRUE, depthWrite |-> TRUE, depthFunc |-> "LESS", stencilTest |-> FALSE,
      face |-> [f \in Faces |-> face], stencilMask |-> Word - 1,
      blend |-> [i \in Slots |-> [enabled |-> FALSE, color |-> keep, alpha |-> keep,
                                  writeMask |-> {"R", "G", "B", "A"}]],
      input |-> <<>>]
-----------------------------------------------------------------------------
(* Samplers.                                                               *)
ValidateSamplerDescriptor(d) ==
  /\ {d.minFilter, d.magFilter, d.mipmapFilter} \subseteq {"Nearest", "Linear"}
  /\ {d.addressModeU, d.addressModeV, d.addressModeW}
       \subseteq {"Repeat", "MirroredRepeat", "ClampToEdge"}

VulkanSampler(d) ==
  LET filter == [Linear |-> "LINEAR", Nearest |-> "NEAREST"]
      mode == [Repeat |-> "REPEAT", MirroredRepeat |-> "MIRRORED_REPEAT",
               ClampToEdge |-> "CLAMP_TO_EDGE"]
  IN [magFilter |-> filter[d.magFilter], minFilter |-> filter[d.minFilter],
      mipmapMode |-> filter[d.mipmapFilter], u |-> mode[d.addressModeU],
      v |-> mode[d.addressModeV], w |-> mode[d.addressModeW]]

(* A filter of D3D12 is a sum.                                             *)
D3D12Sampler(d) ==
  LET mode == [Repeat |-> "WRAP", MirroredRepeat |-> "MIRROR", ClampToEdge |-> "CLAMP"]
      If(filter, n) == IF filter = "Linear" THEN n ELSE 0
  IN [Filter |-> If(d.minFilter, 16) + If(d.magFilter, 4) + If(d.mipmapFilter, 1),
      u |-> mode[d.addressModeU], v |-> mode[d.addressModeV], w |-> mode[d.addressModeW]]

MinFilterMode(min, mip) ==
  [Nearest |-> [Nearest |-> "NEAREST_MIPMAP_NEAREST", Linear |-> "NEAREST_MIPMAP_LINEAR"],
   Linear |-> [Nearest |-> "LINEAR_MIPMAP_NEAREST", Linear |-> "LINEAR_MIPMAP_LINEAR"]][min][mip]
OpenGLSampler(d) ==
  LET WrapMode == [Repeat |-> "REPEAT", MirroredRepeat |-> "MIRRORED_REPEAT",
                   ClampToEdge |-> "CLAMP_TO_EDGE"]
  IN [MAG_FILTER |-> [Nearest |-> "NEAREST", Linear |-> "LINEAR"][d.magFilter],
      MIN_FILTER |-> MinFilterMode(d.minFilter, d.mipmapFilter),
      u |-> WrapMode[d.addressModeU], v |-> WrapMode[d.addressModeV],
      w |-> WrapMode[d.addressModeW]]
-----------------------------------------------------------------------------
(* What becomes of the state on its way.                                   *)
Init ==
  /\ backend \in Backends /\ pass = {} /\ bound = <<>> /\ reference = 0
  /\ native = IF backend = "OpenGL" THEN GLContext ELSE [reference |-> 0]
  /\ cache = CacheInit /\ sampler = <<>> /\ setCount = 0

(* Vulkan and OpenGL reset the stencil reference; D3D12 does not (Replay). *)
BeginRenderPass(colors) ==
  /\ pass = {} /\ sampler = <<>> /\ colors # {}
  /\ Careful /\ backend = "D3D12" => native.reference = 0
  /\ pass' = colors /\ reference' = 0 /\ cache' = CacheInit
  /\ native' = CASE backend = "OpenGL" -> CallGLStencilFunc(native, CacheInit)
                 [] backend = "Vulkan" -> [native EXCEPT !.reference = 0]
                 [] backend = "D3D12" -> native
  /\ UNCHANGED <<backend, bound, sampler, setCount>>

(* CommandBufferBuilder::SetRenderPipeline accepts what IsCompatibleWith   *)
(* the pass; then the backend replays it.                                  *)
VulkanPipeline(p) ==
  VulkanDepthStencil(p.depth, p.stencil)
    @@ [blend |-> VulkanAttachments(p), input |-> VulkanInput(p)]
D3D12Pipeline(p) ==
  D3D12DepthStencil(p.depth, p.stencil)
    @@ [blend |-> D3D12RenderTargets(p), input |-> D3D12Elements(p), strides |-> D3D12Strides(p)]
SetRenderPipeline(p) ==
  /\ pass = p.colors /\ Buildable(p) /\ setCount < MaxPipelines
  /\ Careful => ~Unfaithful(p)
  /\ bound' = p /\ setCount' = setCount + 1
  /\ native' = CASE backend = "OpenGL" -> ApplyNow(native, cache, p)
                 [] backend = "Vulkan" -> VulkanPipeline(p) @@ native
                 [] backend = "D3D12" -> D3D12Pipeline(p) @@ native
  /\ cache' = IF backend = "OpenGL" THEN WithStencilFuncsAndMask(cache, p.stencil) ELSE cache
  /\ UNCHANGED <<backend, pass, reference, sampler>>

(* OpenGL clamps a reference that does not fit the stencil, the others     *)
(* drop its high bits: Careful keeps to those that fit.                    *)
SetStencilReference(r) ==
  /\ pass # {}
  /\ Careful => r \in StencilValues
  /\ reference' = r
  /\ IF backend = "OpenGL"
     THEN /\ cache' = [cache EXCEPT !.reference = r]
          /\ native' = IF cache.reference = r THEN native ELSE CallGLStencilFunc(native, cache')
     ELSE /\ native' = [native EXCEPT !.reference = r]
          /\ UNCHANGED cache
  /\ UNCHANGED <<backend, pass, bound, sampler, setCount>>

(* A pass starts without a pipeline; OpenGL's context stays as it is.      *)
EndRenderPass ==
  /\ pass # {}
  /\ pass' = {} /\ bound' = <<>> /\ reference' = 0
  /\ native' = IF backend = "OpenGL" THEN native ELSE [reference |-> native.reference]
  /\ UNCHANGED <<backend, cache, sampler, setCount>>

CreateSampler(d) ==
  /\ pass = {} /\ sampler = <<>> /\ ValidateSamplerDescriptor(d)
  /\ sampler' = [asked |-> d, made |-> CASE backend = "Vulkan" -> VulkanSampler(d)
                                         [] backend = "D3D12" -> D3D12Sampler(d)
                                         [] backend = "OpenGL" -> OpenGLSampler(d)]
  /\ UNCHANGED <<backend, pass, bound, reference, native, cache, setCount>>

Next ==
  \/ \E p \in Pipelines : BeginRenderPass(p.colors) \/ SetRenderPipeline(p)
  \/ \E r \in References : SetStencilReference(r)
  \/ EndRenderPass
  \/ \E d \in SamplerDescriptors : CreateSampler(d)
Spec == Init /\ [][Next]_vars
-----------------------------------------------------------------------------
(* The GPU's side.  Relations: of the fragment to what is stored.          *)
Relations(op) ==
  CASE op \in {"NEVER", "Never"} -> {}
    [] op \in {"LESS", "Less"} -> {"<"}
    [] op \in {"EQUAL", "Equal"} -> {"="}
    [] op \in {"GREATER", "Greater"} -> {">"}
    [] op \in {"LEQUAL", "LESS_EQUAL", "LESS_OR_EQUAL", "LessEqual"} -> {"<", "="}
    [] op \in {"GEQUAL", "GREATER_EQUAL", "GREATER_OR_EQUAL", "GreaterEqual"} -> {">", "="}
    [] op \in {"NOTEQUAL", "NOT_EQUAL", "NotEqual"} -> {"<", ">"}
    [] op \in {"ALWAYS", "Always"} -> {"<", "=", ">"}
Relation(a, b) == IF a < b THEN "<" ELSE IF a = b THEN "=" ELSE ">"

(* INCR and DECR clamp in OpenGL and wrap in D3D12.                        *)
Operated(api, op, stored, ref) ==
  LET top == 2 ^ StencilBits
      clamps == {"INCREMENT_AND_CLAMP", "DECREMENT_AND_CLAMP", "INCR_SAT", "DECR_SAT",
                 "IncrementClamp", "DecrementClamp"}
                  \cup (IF api = "OpenGL" THEN {"INCR", "DECR"} ELSE {})
      up == {"INCREMENT_AND_CLAMP", "INCREMENT_AND_WRAP", "INCR_SAT", "INCR", "INCR_WRAP",
             "IncrementClamp", "IncrementWrap"}
  IN CASE op \in {"KEEP", "Keep"} -> stored
       [] op \in {"ZERO", "Zero"} -> 0
       [] op \in {"REPLACE", "Replace"} -> ref % top
       [] op \in {"INVERT", "Invert"} -> top - 1 - stored
       [] op \in up -> IF op \in clamps /\ stored = top - 1 THEN stored ELSE (stored + 1) % top
       [] OTHER -> IF op \in clamps /\ stored = 0 THEN 0 ELSE (stored + top - 1) % top

(* A fragment whose depth has relation f.depth to the depth stored, over   *)
(* the stencil f.stored: whether it is drawn, and what is stored.          *)
Outcome(api, tests, face, f) ==
  LET passes == \/ ~tests.stencilTest
                \/ Relation(face.reference & face.readMask, f.stored & face.readMask)
                     \in Relations(face.func)
      nearer == ~tests.depthTest \/ f.depth \in Relations(tests.depthFunc)
      op == IF ~passes THEN face.fail ELSE IF ~nearer THEN face.depthFail ELSE face.pass
      new == Operated(api, op, f.stored, face.reference)
  IN [drawn |-> passes /\ nearer,
      depthWritten |-> passes /\ nearer /\ tests.depthTest /\ tests.depthWrite,
      stencil |-> IF tests.stencilTest
                  THEN f.stored - (f.stored & tests.stencilMask) + (new & tests.stencilMask)
                  ELSE f.stored]

(* Counter-clockwise triangles of the shader's coordinates face the front. *)
(* The y axis points down in Vulkan, and D3D12's vertex shaders turn it.   *)
Facing(winding) ==
  LET turned == backend \in {"Vulkan", "D3D12"}
      front == [Vulkan |-> "ccw", OpenGL |-> "ccw", D3D12 |-> "cw"][backend]
  IN IF (winding = front) # turned THEN "front" ELSE "back"

Fragments == [depth : {"<", "=", ">"}, stored : StencilValues]
NativeFace(f) ==
  IF backend = "OpenGL" THEN native.face[f] ELSE native.face[f] @@ [reference |-> native.reference]
AskedFace(p, f) ==
  [func |-> p.stencil[f].compare, reference |-> reference, readMask |-> p.stencil.readMask,
   fail |-> p.stencil[f].stencilFail, depthFail |-> p.stencil[f].depthFail,
   pass |-> p.stencil[f].pass]
AskedTests(p) ==
  [depthTest |-> TRUE, depthWrite |-> p.depth.write, depthFunc |-> p.depth.compare,
   stencilTest |-> TRUE, stencilMask |-> p.stencil.writeMask]

(* A fragment of either winding passes the tests and changes depth and     *)
(* stencil as the pipeline and the reference ask.                          *)
FragmentsAreAsAsked ==
  bound # <<>> =>
    \A winding \in {"ccw", "cw"}, f \in Fragments :
      Outcome(backend, native, NativeFace(Facing(winding)), f)
        = Outcome("Dawn", AskedTests(bound),
                  AskedFace(bound, IF winding = "ccw" THEN "front" ELSE "back"), f)

(* Factors: what they multiply with, for colors or for alpha.              *)
Of(what, inverted) == [what |-> what, inverted |-> inverted]
Multiplies(factor, alpha) ==
  LET component(of) == <<of, IF alpha THEN "alpha" ELSE "color">>
  IN CASE factor \in {"ZERO", "Zero"} -> Of("one", TRUE)
       [] factor \in {"ONE", "One"} -> Of("one", FALSE)
       [] factor \in {"SRC_COLOR", "SrcColor"} -> Of(component("source"), FALSE)
       [] factor \in {"ONE_MINUS_SRC_COLOR", "INV_SRC_COLOR", "OneMinusSrcColor"} ->
            Of(component("source"), TRUE)
       [] factor \in {"SRC_ALPHA", "SrcAlpha"} -> Of(<<"source", "alpha">>, FALSE)
       [] factor \in {"ONE_MINUS_SRC_ALPHA", "INV_SRC_ALPHA", "OneMinusSrcAlpha"} ->
            Of(<<"source", "alpha">>, TRUE)
       [] factor \in {"DST_COLOR", "DEST_COLOR", "DstColor"} -> Of(component("target"), FALSE)
       [] factor \in {"ONE_MINUS_DST_COLOR", "INV_DEST_COLOR", "OneMinusDstColor"} ->
            Of(component("target"), TRUE)
       [] factor \in {"DST_ALPHA", "DEST_ALPHA", "DstAlpha"} -> Of(<<"target", "alpha">>, FALSE)
       [] factor \in {"ONE_MINUS_DST_ALPHA", "INV_DEST_ALPHA", "OneMinusDstAlpha"} ->
            Of(<<"target", "alpha">>, TRUE)
       [] factor \in {"SRC_ALPHA_SATURATE", "SRC_ALPHA_SAT", "SrcAlphaSaturated"} ->
            IF alpha THEN Of("one", FALSE) ELSE Of("saturated", FALSE)
       [] factor \in {"CONSTANT_COLOR", "BLEND_FACTOR", "BlendColor"} ->
            Of(component("constant"), FALSE)
       [] factor \in {"ONE_MINUS_CONSTANT_COLOR", "INV_BLEND_FACTOR", "OneMinusBlendColor"} ->
            Of(component("constant"), TRUE)
       [] factor = "CONSTANT_ALPHA" -> Of(<<"constant", "alpha">>, FALSE)
       [] factor = "ONE_MINUS_CONSTANT_ALPHA" -> Of(<<"constant", "alpha">>, TRUE)

(* Minimum and maximum take no factors.                                    *)
Computes(op, src, dst, alpha) ==
  LET sum(o) == [op |-> o, source |-> Multiplies(src, alpha), target |-> Multiplies(dst, alpha)]
  IN CASE op \in {"ADD", "Add"} -> sum("source + target")
       [] op \in {"SUBTRACT", "Subtract"} -> sum("source - target")
       [] op \in {"REVERSE_SUBTRACT", "REV_SUBTRACT", "ReverseSubtract"} -> sum("target - source")
       [] op \in {"MIN", "Min"} -> [op |-> "min"]
       [] op \in {"MAX", "Max"} -> [op |-> "max"]
NativeBlend(b) ==
  <<b.writeMask, IF ~b.enabled THEN "source"
                 ELSE <<Computes(b.color.op, b.color.src, b.color.dst, FALSE),
                        Computes(b.alpha.op, b.alpha.src, b.alpha.dst, TRUE)>> >>
AskedBlend(b) ==
  <<b.writeMask, IF ~b.enabled THEN "source"
                 ELSE <<Computes(b.color.operation, b.color.srcFactor, b.color.dstFactor, FALSE),
                        Computes(b.alpha.operation, b.alpha.srcFactor, b.alpha.dstFactor, TRUE)>> >>
RefusedByD3D12(b) ==
  {"SRC_COLOR", "INV_SRC_COLOR", "DEST_COLOR", "INV_DEST_COLOR"} \cap {b.alpha.src, b.alpha.dst} # {}

(* Every color attachment is blended as asked, by factors the API takes.   *)
BlendingIsAsAsked ==
  bound # <<>> =>
    \A i \in bound.colors :
      /\ i \in DOMAIN native.blend
      /\ NativeBlend(native.blend[i]) = AskedBlend(GetBlendState(bound, i))
      /\ backend = "D3D12" => ~RefusedByD3D12(native.blend[i])

(* Where an attribute of a vertex is read from, and as what.               *)
Kind(type) ==
  CASE type \in {"Float", "SFLOAT", "FLOAT"} -> "real"
    [] type \in {"Int", "SINT"} -> "int"
    [] type \in {"Ushort", "UINT"} -> "uint"
    [] type \in {"Unorm", "UNORM"} -> "normalized"
GLKind(v) ==
  IF v.type = "FLOAT" THEN "real" ELSE IF v.normalized THEN "normalized" ELSE "converted"
From(slot, address, kind, components) ==
  [slot |-> slot, address |-> address, kind |-> kind, components |-> components]
Index(d, perVertex) ==
  IF perVertex THEN d.firstVertex + d.vertex ELSE d.firstInstance + d.instance

AskedFetch(p, a, d) ==
  LET attribute == p.attributes[a]
      input == p.inputs[attribute.bindingSlot]
  IN From(attribute.bindingSlot,
          attribute.offset + input.stride * Index(d, input.stepMode = "Vertex"),
          Kind(attribute.format.type), attribute.format.components)
VulkanFetch(a, d) ==
  LET attribute == CHOOSE x \in native.input.attributes : x.location = a
      binding == CHOOSE x \in native.input.bindings : x.binding = attribute.binding
  IN From(attribute.binding,
          attribute.offset + binding.stride * Index(d, binding.inputRate = "Vertex"),
          Kind(attribute.format.type), attribute.format.components)
D3D12Fetch(a, d) ==
  LET element == CHOOSE x \in native.input : x.SemanticIndex = a
  IN From(element.InputSlot,
          element.AlignedByteOffset
            + native.strides[element.InputSlot] * Index(d, element.InstanceDataStepRate = 0),
          Kind(element.format.type), element.format.components)
(* A stride of zero says that elements are packed.                         *)
GLFetch(a, d) ==
  LET v == native.input[a]
      index == IF v.divisor = 0 THEN d.firstVertex + d.vertex
               ELSE (d.instance \div v.divisor) + d.firstInstance
  IN From(v.slot, v.offset + (IF v.stride = 0 THEN v.packed ELSE v.stride) * index,
          GLKind(v), v.components)

(* Every attribute comes from the bytes its input state says, as its type. *)
VerticesAreAsAsked ==
  bound # <<>> =>
    \A a \in DOMAIN bound.attributes, d \in Draws :
      AskedFetch(bound, a, d) =
        CASE backend = "Vulkan" -> VulkanFetch(a, d)
          [] backend = "D3D12" -> D3D12Fetch(a, d)
          [] backend = "OpenGL" -> GLFetch(a, d)

(* What a sampler does: its three filters and three modes.                 *)
Does(min, mag, mip, u, v, w) ==
  LET filter(f) == IF f \in {"LINEAR", "Linear"} THEN "linear" ELSE "nearest"
      mode(m) == CASE m \in {"REPEAT", "WRAP", "Repeat"} -> "repeat"
                   [] m \in {"MIRRORED_REPEAT", "MIRROR", "MirroredRepeat"} -> "mirror"
                   [] m \in {"CLAMP_TO_EDGE", "CLAMP", "ClampToEdge"} -> "clamp"
  IN <<filter(min), filter(mag), filter(mip), mode(u), mode(v), mode(w)>>
Bit(n, value) == IF (n \div value) % 2 = 1 THEN "LINEAR" ELSE "NEAREST"
Made(s) ==
  CASE backend = "Vulkan" -> Does(s.minFilter, s.magFilter, s.mipmapMode, s.u, s.v, s.w)
    [] backend = "D3D12" -> Does(Bit(s.Filter, 16), Bit(s.Filter, 4), Bit(s.Filter, 1),
                                 s.u, s.v, s.w)
    [] backend = "OpenGL" ->
         Does(IF s.MIN_FILTER \in {"LINEAR_MIPMAP_NEAREST", "LINEAR_MIPMAP_LINEAR"}
              THEN "LINEAR" ELSE "NEAREST", s.MAG_FILTER,
              IF s.MIN_FILTER \in {"NEAREST_MIPMAP_LINEAR", "LINEAR_MIPMAP_LINEAR"}
              THEN "LINEAR" ELSE "NEAREST", s.u, s.v, s.w)
SamplersAreAsAsked ==
  sampler # <<>> =>
    LET d == sampler.asked
    IN Made(sampler.made) = Does(d.minFilter, d.magFilter, d.mipmapFilter,
                                 d.addressModeU, d.addressModeV, d.addressModeW)

(* On every backend and after whatever came before, a draw tests, blends,  *)
(* fetches and samples as the pipeline in force asks.                      *)
DrawsAreAsAsked ==
  FragmentsAreAsAsked /\ BlendingIsAsAsked /\ VerticesAreAsAsked /\ SamplersAreAsAsked
=============================================================================
