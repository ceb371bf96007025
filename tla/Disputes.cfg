SPECIFICATION Spec
CONSTANTS
    d1 = d1
    d2 = d2
    DisputeIds = {d1, d2}
    Resolvers = {r1, r2}
    DisputedCents <- MCCents
    Funding = "DEBIT_RESERVE"
    Credits <- MCCredits
    MaxCredits = 2
    BpsUnit = 20
INVARIANT LostIsCovered
PROPERTY ResolutionIsFinal
CHECK_DEADLOCK FALSE
