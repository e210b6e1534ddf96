CONSTANTS
    Scenarios <- AllScenarios
    kMaxBindGroups = 2
    kMaxBindingsPerGroup = 2
    kMaxVertexAttributes = 1
    kMaxVertexInputs = 1
    kMaxColorAttachments = 1
    UnsetMatches = {FALSE}
    Careful = TRUE
SPECIFICATION Spec
INVARIANTS CountsMatchHolders ShadersGetTheirInputs
CHECK_DEADLOCK FALSE
