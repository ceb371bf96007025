SPECIFICATION Spec
CONSTANTS
    Provider = "STRIPE"
    Preauth = FALSE
    Verdict = "ALLOW"
    EventStatus <- stripeEvents
    Outages = TRUE
    Merchants = {}
    Queries = {}
    Refunders = {r1}
INVARIANT MoneyFollowsCapture
CHECK_DEADLOCK FALSE
