SPECIFICATION Spec
CONSTANTS
    Writers = {w1, w2, w3}
    MaxVersions = 3
    Industries = {"saas", "marketplace", "retail", "travel", "escrow", "lending", "on_demand", "bakery"}
    Clerks = {c1, c2}
    Editors = {o1, o2}
    MaxSaves = 2
    Calls = {q1, q2}
    TTL = 2
    Delay = 1
    MaxNow = 6
    Members = {u1, u2}
    Sources = {s1, s2}
    Postings <- MCPostings
    Reports <- MCReports
    EntryAmounts = {1}
    Runners = {a1, a2}
    MaxEntries = 4
    LastDay = 1
    DefaultLimit = 2
    MaxLimit = 3
    Limits = {0, 1, 4}
    FirstRows = 3
    MaxTableRows = 1
    Events = {e1, e2}
    Handled = {e1}
    Deliveries = {d1, d2}
    MaxRepeats = 2
    Notices = {n1, n2}
    Retries = 2
    Patches = {p1, p2}
    MaxSecrets = 3
    Currencies = {"MAD", "EUR"}
    Precision = 100
    Drafts = {k1, k2}
    Deposits = {2, 5}
    MaxDeposits = 2
    TakenBack = {3}
    MaxTakenBack = 1
    Leftovers = {0, 2, 22}
    MaxSwitches = 2
    BpsUnit = 7
    MaxCents = 15
    Parties = {1, 2, 3}
INVARIANT NewestIsActive
INVARIANT PoliciesHold
INVARIANT LagIsBounded
INVARIANT StatementsChain
INVARIANT MatchedIsEqual
INVARIANT UntouchedIsListed
INVARIANT HandledOnce
INVARIANT TakenIsSigned
INVARIANT SplitIsExact
PROPERTY FinalUnlessOverlapped
PROPERTY DisabledUntilEnabled
PROPERTY OwnerLostOnlyByRace
PROPERTY SweepKeepsMoney
PROPERTY WebhookLands
CHECK_DEADLOCK FALSE
