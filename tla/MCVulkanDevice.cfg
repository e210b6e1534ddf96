SPECIFICATION FairSpec
CONSTANTS
  Buffers = {b1, b2}
  Semaphores = {s1}
  Pools = {p1, p2, p3}
  Fences = {f1, f2}
  NoPool = NoPool
  ApiSerials = 2
  MaxSerial = 5
INVARIANTS
  NoUseAfterDestroy
  CompletedIsFinished
  RecycledOnlyWhenFinished
  MapSeesFinishedWork
  NothingLeftInFlight
PROPERTIES
  ImplementsGpuResources
  EverythingEnds
