SPECIFICATION Spec
CONSTANTS
    c1 = c1 c2 = c2 b1 = b1 t1 = t1 t2 = t2 x = x y = y
    Clients = {c1, c2}
    Bindings = {b1}
    Tenants = {t1, t2}
    Configs = {x, y}
    NoEntry = none
    Calls <- MCCalls
    MaxCalls <- MCMaxCalls
CHECK_DEADLOCK FALSE
INVARIANTS TypeOK RefusedMeansUntouched ConfirmedMeansDone ConflictIsForeign
PROPERTIES CredentialFresh
