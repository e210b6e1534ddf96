\* Four requests: two cancelled ones can be in flight beside the current one.
CONSTANTS
  Requests = {r1, r2, r3, r4}
  NoRequest = NoRequest
  SerialModulus = 4
  MaxDepth = 3
  RemapInUnmap = FALSE
SPECIFICATION FairSpec
INVARIANT RequestsAreServed
PROPERTY ImplementsMapPromise
CHECK_DEADLOCK FALSE
