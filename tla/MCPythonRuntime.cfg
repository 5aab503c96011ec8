CONSTANTS
    NCalls = 2
    Timeouts = TRUE
SPECIFICATION Spec
INVARIANTS
    InStep
    RunsOnce
PROPERTIES
    AllAnswered
