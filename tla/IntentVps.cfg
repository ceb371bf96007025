SPECIFICATION Spec
CONSTANTS
    Provider = "VPS"
    Preauth = FALSE
    Verdict = "ALLOW"
    EventStatus <- vpsEvents
    Outages = FALSE
    Merchants = {}
    Queries = {q1}
    Refunders = {r1, r2}
INVARIANT RefundRowMatchesProvider
PROPERTY PollerSelfHeals
CHECK_DEADLOCK FALSE
