SPECIFICATION FairSpec
CONSTANTS
    Bytes = {a, b}
    MaxLen = 5
CHECK_DEADLOCK FALSE
INVARIANTS TypeOK Correct
PROPERTIES Terminates
