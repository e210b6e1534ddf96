CONSTANTS
  Resources = {r1, r2}
  Allocators = {a1, a2}
  NoAllocator = NoAllocator
  AbandonRecording = FALSE
  ApiSerials = 3
  MaxSerial = 7
SPECIFICATION FairSpec
PROPERTIES ReuseIsSafe EverythingEnds ImplementsGpuResources
