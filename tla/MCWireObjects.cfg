\* Two builders, the first with a callback, and two objects, alive at once or
\* with the same id; data only for objects that are known to exist.
CONSTANTS
  MaxBuilders = 2
  WithCallback = {1}
  MaxObjects = 2
  MaxCreated = 2
  MaxRefs = 2
  MaxCalls = 2
  DataOnErrorObjects = FALSE
SPECIFICATION Spec
INVARIANTS CallsArriveIntact TablesAgree BuildersAreAnswered
CHECK_DEADLOCK FALSE
