SPECIFICATION Spec
CONSTANTS
    sa = sa sb = sb sc = sc oa = oa ob = ob n1 = n1 n2 = n2
    ServiceBuilders = {sa, sb, sc}
    ObjectBuilders = {oa, ob}
    Names = {n1, n2}
    NameOf <- MCNameOf
    HandlerNames = {h}
    Fns = {fa}
    NoFn = nil
    NoBuilder = none
    MaxOptions = 4
CHECK_DEADLOCK FALSE
SYMMETRY Symmetry
INVARIANTS TypeOK BuildReportsFirst EveryOptionAnswers
