CONSTANTS
  buf = buf
  other = other
  a1 = a1
  a2 = a2
  b1 = b1
  material = material
  storage = storage
  one = one
  two = two
  swapped = swapped
  empty = empty
  draw = draw
  drawBoth = drawBoth
  compute = compute
  drawSlots = drawSlots
  drawWide = drawWide
  drawValues = drawValues
  drawMore = drawMore
  slots = slots
  wide = wide
  noInputs = noInputs
  None = None
  Buffers = {buf, other}
  Groups = {a1, a2, b1}
  SetLayouts <- MCSetLayouts
  ComputePipelines = {compute}
  RenderPipelines = {draw, drawBoth, drawSlots, drawWide, drawValues, drawMore}
  PipelineLayout <- MCPipelineLayout
  Inputs <- MCInputs
  kMaxBindGroups = 3
  kMaxVertexInputs = 2
  Backends = {"vulkan", "opengl", "d3d12", "metal"}
  GroupLayout <- MCGroupLayout
  BindingType <- MCBindingType
  Visibility <- MCVisibility
  ShaderUses <- MCShaderUses
  Combined <- MCCombined
  InputState <- MCInputState
  Stride <- MCStride
  IndexFormat <- MCIndexFormat
  PushConstants <- MCPushConstants
  StencilFunc <- MCStencilFunc
  WritesAll <- MCWritesAll
  kMaxPushConstants = 2
  kMaxBindingsPerGroup = 4
  Lists <- MCLists
  Careful = TRUE
  MaxUnits = 2
  FixedStates <- MCPipelineStates
  SamplerDescriptors <- MCSamplers
  References = {0, 2}
  MaxPipelines = 2
  kMaxColorAttachments = 2
  StencilBits = 2
  Draws <- MCDraws
SPECIFICATION DrawsSpec
INVARIANTS VulkanDrawsRight OpenGLDrawsRight D3D12DrawsRight MetalDrawsRight DrawsAreAsAsked
CHECK_DEADLOCK FALSE
