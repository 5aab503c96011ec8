CONSTANTS
    MaxOut = 3
    MaxErr = 3
    Window = 2
SPECIFICATION ExecSpec
INVARIANTS
    PipesWithoutError
    OutputComplete
PROPERTIES
    ExecReturns
