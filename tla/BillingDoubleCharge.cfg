SPECIFICATION Spec
CONSTANTS
    Runs = {1, 2}
    Trials = {0, 2}
    Interval = 1
    Outcomes = {"CHARGED", "DECLINED"}
    MaxRequests = 0
    MaxDay = 5
INVARIANT
    ChargedOncePerPeriod
CHECK_DEADLOCK FALSE
