SPECIFICATION DispatchSpec
CONSTANTS
    Workers = {w1}
    Engine = engine
    Invs = {i1}
    LocalErrs <- MCLocalErrs
    MaxAttempts = 2
    MaxSeq = 1
    MaxCalls = 2
    Rehydrate = FALSE
CHECK_DEADLOCK FALSE
INVARIANTS OutcomeDecidedOnce
