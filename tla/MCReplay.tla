------------------------------ MODULE MCReplay ------------------------------
(* What draws find on each backend: behaviours are about one list of       *)
(* commands and what it sets (Replay), or about the fixed state of         *)
(* pipelines and about samplers (PipelineStates).                          *)
EXTENDS Replay

CONSTANTS
  buf, other,                                   \* buffers
  a1, a2, b1,                                   \* bind groups
  material, storage,                            \* bind group layouts
  one, two, swapped, empty,                     \* pipeline layouts
  draw, drawBoth, compute,                      \* pipelines that use groups
  drawSlots, drawWide, drawValues, drawMore,    \* and that use none
  slots, wide, noInputs                         \* input states

MCGroupLayout == a1 :> material @@ a2 :> material @@ b1 :> storage
MCBindingType ==
  material :> (0 :> "UniformBuffer" @@ 1 :> "SampledTexture" @@ 2 :> "Sampler")
    @@ storage :> (0 :> "StorageBuffer" @@ 2 :> "UniformBuffer")
MCVisibility ==
  material :> (0 :> {"vertex", "compute"} @@ 1 :> {"fragment", "compute"}
                 @@ 2 :> {"fragment", "compute"})
    @@ storage :> (0 :> Stages @@ 2 :> {"fragment", "compute"})
MCSetLayouts ==
  one :> (0 :> material) @@ two :> (0 :> material @@ 1 :> storage)
    @@ swapped :> (0 :> storage @@ 1 :> material) @@ empty :> <<>>
MCPipelineLayout ==
  draw :> one @@ drawBoth :> two @@ compute :> swapped
    @@ [p \in {drawSlots, drawWide, drawValues, drawMore} |-> empty]

NoUses == [s \in Stages |-> {}]
MCShaderUses ==
  draw :> [NoUses EXCEPT !["vertex"] = {<<0, 0>>}, !["fragment"] = {<<0, 1>>, <<0, 2>>}]
    @@ drawBoth :> [NoUses EXCEPT !["vertex"] = {<<0, 0>>, <<1, 0>>},
                                  !["fragment"] = {<<0, 1>>, <<0, 2>>, <<1, 2>>}]
    @@ compute :> [NoUses EXCEPT
         !["compute"] = {<<0, 0>>, <<0, 2>>, <<1, 0>>, <<1, 1>>, <<1, 2>>}]
    @@ [p \in {drawSlots, drawWide, drawValues, drawMore} |-> NoUses]
MCCombined ==
  [p \in {draw, drawBoth} |-> {[sampler |-> <<0, 2>>, texture |-> <<0, 1>>]}]
    @@ compute :> {[sampler |-> <<1, 2>>, texture |-> <<1, 1>>]}
    @@ [p \in {drawSlots, drawWide, drawValues, drawMore} |-> {}]

MCInputs ==
  [p \in {drawSlots, drawWide} |-> {0, 1}] @@ [p \in RenderPipelines \ {drawSlots, drawWide} |-> {}]
MCInputState ==
  drawSlots :> slots @@ drawWide :> wide
    @@ [p \in RenderPipelines \ {drawSlots, drawWide} |-> noInputs]
MCStride == slots :> (0 :> 4 @@ 1 :> 4) @@ wide :> (0 :> 4 @@ 1 :> 8) @@ noInputs :> <<>>
MCIndexFormat == drawWide :> "Uint16" @@ [p \in RenderPipelines \ {drawWide} |-> "Uint32"]
MCPushConstants ==
  drawValues :> [s \in Stages |-> IF s = "compute" THEN {} ELSE {<<0, 1>>}]
    @@ drawMore :> [s \in Stages |->
         CASE s = "vertex" -> {<<0, 1>>, <<1, 1>>} [] s = "fragment" -> {<<1, 1>>} [] OTHER -> {}]
    @@ [p \in Pipelines \ {drawValues, drawMore} |-> NoUses]
MCStencilFunc ==
  drawMore :> "less" @@ [p \in RenderPipelines \ {drawMore} |-> "always"]
MCWritesAll == RenderPipelines \ {drawWide}

MCLists ==
  {[pipelines |-> {draw, drawBoth, compute},
    commands |-> {"compute", "render", "SetBindGroup"}],
   [pipelines |-> {drawSlots, drawWide, drawValues},
    commands |-> {"render", "SetVertexBuffers", "SetIndexBuffer"}],
   [pipelines |-> {drawValues, drawMore}, commands |-> {"render", "stencil", "scissor"}],
   [pipelines |-> {drawValues, drawMore}, commands |-> {"render", "SetPushConstants"}]}
-----------------------------------------------------------------------------
CONSTANTS FixedStates, SamplerDescriptors, References, MaxPipelines, kMaxColorAttachments,
          StencilBits, Draws
VARIABLES subject, api, open, bound, reference, given, cache, sampler, setCount
stateVars == <<api, open, bound, reference, given, cache, sampler, setCount>>
P == INSTANCE PipelineStates WITH
       Backends <- {"Vulkan", "D3D12", "OpenGL"}, Pipelines <- FixedStates,
       Word <- 2 ^ (StencilBits + 1), backend <- api, pass <- open, native <- given

(* The names of enumerators and defaults, without the pipelines below.     *)
Enums == INSTANCE PipelineStates WITH
           Backends <- {}, Pipelines <- {}, Word <- 8, backend <- api, pass <- open,
           native <- given

(* Pipelines that differ from Plain in one aspect.                         *)
Plain == [colors |-> {0}, blends |-> <<>>, depth |-> Enums!DefaultDepth, stencil |-> Enums!DefaultStencil,
          attributes |-> <<>>, inputs |-> <<>>]
Compares == DOMAIN Enums!VulkanCompareOp
Depths ==
    {[Plain EXCEPT !.depth.compare = c] : c \in Compares}
      \cup {[Plain EXCEPT !.depth = [compare |-> c, write |-> TRUE]] : c \in {"Always", "Less"}}

Face(compare, stencilFail, depthFail, pass_) ==
  [compare |-> compare, stencilFail |-> stencilFail, depthFail |-> depthFail, pass |-> pass_]
Stencil(front, back, readMask, writeMask) ==
  [Plain EXCEPT !.stencil = [front |-> front, back |-> back, readMask |-> readMask,
                             writeMask |-> writeMask], !.depth.compare = "Less"]
BothFaces(face, readMask, writeMask) == Stencil(face, face, readMask, writeMask)
Stencils ==
    {BothFaces(Face(c, "Keep", "Keep", "Replace"), 3, 3) : c \in Compares}
      \cup {BothFaces(Face("Always", op, op, op), 3, 3) : op \in DOMAIN Enums!VulkanStencilOp}
      \cup {BothFaces(Face("Equal", "Zero", "Invert", "Replace"), r, w)
              : r \in {0, 6}, w \in {2, 7}}
      \cup {Stencil(Face("Less", "Keep", "Invert", "Zero"),
                    Face("Less", "Keep", "Keep", "IncrementWrap"), 1, 3),
            Stencil(Enums!DefaultFace, Face("Always", "Keep", "Keep", "IncrementClamp"), 3, 3)}

Equation(operation, src, dst) == [operation |-> operation, srcFactor |-> src, dstFactor |-> dst]
Blend(color, alpha, writeMask) ==
  [enabled |-> TRUE, color |-> color, alpha |-> alpha, writeMask |-> writeMask]
FactorBlends ==
    {Blend(Equation("Add", f, "One"), Equation("Add", "Zero", f), {"R", "G", "B", "A"})
       : f \in DOMAIN Enums!VulkanBlendFactor}
OtherBlends ==
    {Blend(Equation(op, "One", "SrcAlpha"), Equation(op, "DstAlpha", "One"), {"R"})
       : op \in DOMAIN Enums!VulkanBlendOperation}
      \cup {Blend(Equation("Add", "SrcColor", "DstColor"), Equation("Add", "One", "One"), {"A"}),
            [Enums!DefaultBlend EXCEPT !.writeMask = {}]}
Blends ==
    {[Plain EXCEPT !.blends = 0 :> b] : b \in FactorBlends \cup OtherBlends}
      \cup {[Plain EXCEPT !.colors = {0, 1}, !.blends = 1 :> b] : b \in OtherBlends}
      \cup {[Plain EXCEPT !.colors = {1}], [Plain EXCEPT !.blends = 1 :> Enums!DefaultBlend]}

Attribute(slot, type, components, offset) ==
  [bindingSlot |-> slot, format |-> [type |-> type, components |-> components], offset |-> offset]
Input(stride, stepMode) == [stride |-> stride, stepMode |-> stepMode]
Fetches ==
  {[Plain EXCEPT !.attributes = 1 :> Attribute(0, f[1], f[2], 4) @@ 2 :> Attribute(2, "Float", 1, 0),
                 !.inputs = 0 :> Input(s, m) @@ 2 :> Input(8, "Instance")]
     : f \in {<<"Float", 2>>, <<"Int", 4>>, <<"Unorm", 4>>}, s \in {0, 12},
       m \in {"Vertex", "Instance"}}
MCPipelineStates == Depths \cup Stencils \cup Blends \cup Fetches

MCSamplers ==
  [minFilter : {"Nearest", "Linear"}, magFilter : {"Nearest", "Linear"},
   mipmapFilter : {"Nearest", "Linear"}, addressModeU : {"Repeat", "MirroredRepeat"},
   addressModeV : {"MirroredRepeat", "ClampToEdge"},
   addressModeW : {"Repeat", "ClampToEdge", "Border"}]
Draw(vertex, instance, firstVertex, firstInstance) ==
  [vertex |-> vertex, instance |-> instance, firstVertex |-> firstVertex,
   firstInstance |-> firstInstance]
MCDraws == {Draw(0, 0, 0, 0), Draw(2, 1, 1, 0), Draw(1, 2, 0, 1)}

(* What a behaviour is not about stays as it starts.                       *)
DrawsInit ==
  /\ ReplayInit /\ P!Init
  /\ \/ subject = "commands" /\ api = "Vulkan"
     \/ subject = "states" /\ backend = "vulkan" /\ list = CHOOSE l \in Lists : TRUE
DrawsNext ==
  /\ UNCHANGED subject
  /\ \/ subject = "commands" /\ ReplayNext /\ UNCHANGED stateVars
     \/ subject = "states" /\ P!Next /\ UNCHANGED vars
DrawsSpec == DrawsInit /\ [][DrawsNext]_<<subject, vars, stateVars>>

(* On every backend, and after whatever came before, a draw tests, blends, *)
(* fetches and samples as its pipeline asks (PipelineStates).              *)
DrawsAreAsAsked == P!DrawsAreAsAsked
=============================================================================
