SPECIFICATION Spec
CONSTANTS
    Keys = {k1, k2}
    Requests = {r1, r2}
    Rail = "STRIPE_CONNECT"
    OtherPostings <- MCOtherPostings
    MaxPostings = 3
    MaxTransfers = 2
    Free = Free
INVARIANT SettledAtMostOnce
INVARIANT EntryReservedOnce
INVARIANT OpenPayoutIsFunded
PROPERTY TerminalIsFinal
PROPERTY PayoutWithinFunds
SYMMETRY MCSymmetry
CHECK_DEADLOCK FALSE
