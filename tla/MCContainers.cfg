CONSTANTS
  b1 = b1
  b2 = b2
  Objects = {b1, b2}
  Types <- MCTypes
  Commands <- MCCommands
  SizeOf <- MCSizeOf
  AlignOf <- MCAlignOf
  DataOf <- MCDataOf
  kFirstBlock = 16
  kMaxBlock = 64
  MaxCommands = 3
  MaxReads = 1
  MaxItems = 5
  Serials = {1, 2, 3}
  Reentrant = FALSE
  EntryPoints = {"CreateTexture", "CreateQueue", "CreateBindGroupLayout",
                 "CreateBlendStateBuilder", "SetSubData", "Submit", "Device"}
  MaxCalls = 3
  BindGroups = {b1, b2}
  DescriptorCount <- MCDescriptorCount
  Pipelines = {p1}
  RenderPasses <- MCRenderPasses
  CpuHeapSize <- MCCpuHeapSize
  GpuHeapSize <- MCGpuHeapSize
  Word = 64
  ApiSerials = 3
  MaxHeaps = 7
  Careful = TRUE
SPECIFICATION StorageSpec
INVARIANTS
  ReadsWhatWasRecorded
  ReferencesAreHeld
  IteratesUpTo
  ErrorsAreHandledOnce
  DescriptorsAreIntact
\* A command buffer need not be destroyed, and a D3D12 device without its
\* functions aborts.
CHECK_DEADLOCK FALSE
