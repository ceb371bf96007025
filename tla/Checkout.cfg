SPECIFICATION Spec
CONSTANTS
    Requests = {r1, r2}
    MaxAttempts = 1
    ExpiresAt = 0
    Recurring = FALSE
    LinkCents = 1
    Thresholds <- MCThresholds
    Amounts = {1, 9}
    Holds = {FALSE}
    Providers = {"STRIPE", "VPS"}
    DedupWindow = 0
    RiskWindow = 0
    MaxClock = 1
    MaxIntents = 3
    Operators = {o1, o2}
    Kinds = {"direct", "preauth"}
INVARIANT AttemptsBounded
INVARIANT RepeatsAreCached
INVARIANT VelocityOvershoot
INVARIANT HoldWaitsForOperator
SYMMETRY MCSymmetry
CHECK_DEADLOCK FALSE
