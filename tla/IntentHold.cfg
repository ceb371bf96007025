SPECIFICATION Spec
CONSTANTS
    Provider = "VPS"
    Preauth = TRUE
    Verdict = "ALLOW"
    EventStatus <- vpsHoldEvents
    Outages = TRUE
    Merchants = {m1, m2}
    Queries = {q1}
    Refunders = {}
INVARIANT MoneyFollowsCapture
INVARIANT HoldNotTerminal
SYMMETRY MCSymmetry
CHECK_DEADLOCK FALSE
