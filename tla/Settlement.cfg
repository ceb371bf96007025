SPECIFICATION Spec
CONSTANTS
    i1 = i1
    i2 = i2
    Intents = {i1, i2}
    Callers = {c1, c2, c3}
    BpsUnit = 20
    Gross <- MCGross
    TenantConfigs <- AllConfigs
INVARIANT DuplicateOnlyFromOverlap
INVARIANT CollectedClears
INVARIANT RefundUnwindsCapture
CHECK_DEADLOCK FALSE
