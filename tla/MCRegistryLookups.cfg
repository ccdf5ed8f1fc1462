SPECIFICATION Spec
CONSTANTS
    s1 = s1 s2 = s2 v1 = v1 w1 = w1 nm = nm fa = fa fb = fb g1 = g1 g2 = g2
    Services = {s1, s2}
    VirtualObjects = {v1}
    Workflows = {w1}
    Names = {nm}
    EmptyName = empty
    NameOf <- MCNameOf
    Gives <- MCGives
    HandlerNames = {run, h}
    RunName = run
    Fns = {fa, fb}
    NilFn = nil
    Absent = absent
    NoObj = none
    Registrars = {g1, g2}
    Callers = {c1}
    MaxCalls = 3
SYMMETRY Symmetry
CHECK_DEADLOCK FALSE
INVARIANTS TypeOK
PROPERTIES NotFoundIsTrue FoundWasThere LookupExact BoundOnce GivenOnce
