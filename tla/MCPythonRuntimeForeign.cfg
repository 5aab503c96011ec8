CONSTANTS
    NCalls = 2
    Timeouts = TRUE
SPECIFICATION Spec
INVARIANTS
    NoForeignAnswer
