SPECIFICATION FairSpec
CONSTANTS
    Workers = {w1}
    Engine = engine
    Invs = {i1, i2}
    LocalErrs <- MCLocalErrs
    MaxAttempts = 3
    MaxSeq = 2
    MaxCalls = 2
CHECK_DEADLOCK FALSE
INVARIANTS CallAppliedOnce AckedIsOwnEntry
PROPERTIES SettledStaysSettled RetriesRunOut CallReturns
