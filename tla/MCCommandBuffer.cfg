CONSTANTS
  vb = vb
  sb = sb
  tex = tex
  uniform = uniform
  storage = storage
  both = both
  one = one
  two = two
  three = three
  compute = compute
  computeMore = computeMore
  draw = draw
  drawMore = drawMore
  target = target
  None = None
  Buffers = {vb, sb}
  Textures = {tex}
  Usage <- MCUsage
  Groups = {uniform, storage, both}
  GroupLayout <- MCGroupLayout
  Bindings <- MCBindings
  PipelineLayouts = {one, two, three}
  SetLayouts <- MCSetLayouts
  ComputePipelines = {compute, computeMore}
  RenderPipelines = {draw, drawMore}
  PipelineLayout <- MCPipelineLayout
  Inputs <- MCInputs
  RenderPasses = {target}
  Attachments <- MCAttachments
  CompatibleWith <- MCCompatibleWith
  kMaxBindGroups = 2
  kMaxVertexInputs = 1
  MaxPasses = 1
SPECIFICATION Spec
INVARIANTS PassUsagesCoverAccesses PassesAreRaceFree
PROPERTIES DrawsAreComplete ImplementsCommandStream
CHECK_DEADLOCK FALSE
