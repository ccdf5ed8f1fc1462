SPECIFICATION DispatchSpec
CONSTANTS
    Workers = {w1, w2}
    Engine = engine
    Invs = {i1}
    LocalErrs <- MCDeadlines
    MaxAttempts = 2
    MaxSeq = 2
    MaxCalls = 2
    Rehydrate = TRUE
SYMMETRY Symmetry
CHECK_DEADLOCK FALSE
INVARIANTS DispatchTypeOK OutcomeDecidedOnce ConflictMeansMoved
PROPERTIES ImplementsJournalOutcome
