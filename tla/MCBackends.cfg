CONSTANTS
  APIs = {"Vulkan", "OpenGL", "D3D12", "Metal"}
  Word = 64
  RowPitchAlignment = 4
  Textures <- MCTextures
  BufferSize = 20
  Offsets = {0, 1, 2, 3, 4, 6, 7, 8, 10, 14}
  RowPitches = {0, 4, 6, 8, 12}
  Origins = {0, 1}
  Extents = {0, 1, 2, 3, 4}
  Careful = TRUE
  Backends = {"vulkan", "d3d12"}
  Kinds = {"buffer", "color", "depth", "swapchain"}
  Descriptors <- MCDescriptors
  Drivers <- MCDrivers
  Builds <- MCBuilds
  Requirements <- MCRequirements
  Requests <- MCRequests
  b1 = b1
  b2 = b2
  ApiSerials = 2
SPECIFICATION BackendsSpec
INVARIANTS
  CopiesAreRight
  BarriersSuffice
  OnlyWhatIsThere
  ChildrenFirst
  MemoryIsSuitable
PROPERTY EverythingEnds
\* A device that failed, and an application that has copied enough, stop.
CHECK_DEADLOCK FALSE
