SPECIFICATION Spec
CONSTANTS
    WalletIds = {w1, w2}
    Amounts = {1, 4}
    Schedules <- MCSchedules
    Configs <- MCConfigs
    MaxMovements = 2
    Releasers = {r1, r2}
    Rules <- MCRules
    MaxSplits = 1
    BpsUnit = 7
INVARIANT SnapshotIsDerived
INVARIANT EscrowCoversPending
PROPERTY PurseSpec
SYMMETRY MCSymmetry
CHECK_DEADLOCK FALSE
