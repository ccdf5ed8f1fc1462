SPECIFICATION Spec
CONSTANTS
    f = f g = g
    CompensationFuncs = {f, g}
    MaxCalls = 4
    Programs <- MCPrograms
    MaxAttempts = 3
CHECK_DEADLOCK FALSE
INVARIANTS TypeOK RegisteredAsWritten IdsAreTheirs
PROPERTIES ImplementsCompensationStack
