SPECIFICATION Spec
CONSTANTS
    Workers = {w1, w2}
    Engine = engine
    Invs = {i1}
    LocalErrs <- MCLocalErrs
    MaxAttempts = 3
    MaxSeq = 3
    MaxCalls = 1
SYMMETRY Symmetry
CHECK_DEADLOCK FALSE
INVARIANTS TypeOK CallAppliedOnce AckedIsOwnEntry JournalBeginsWithStart
PROPERTIES SettledStaysSettled ImplementsFencedLog
