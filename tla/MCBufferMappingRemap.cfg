\* The application may map again from the callback of Unmap.
CONSTANTS
  Requests = {r1, r2}
  NoRequest = NoRequest
  SerialModulus = 3
  MaxDepth = 2
  RemapInUnmap = TRUE
SPECIFICATION FairSpec
PROPERTIES EveryRequestAnswered
CHECK_DEADLOCK FALSE
