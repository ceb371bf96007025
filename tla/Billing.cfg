SPECIFICATION Spec
CONSTANTS
    Runs = {1}
    Trials = {0, 2}
    Interval = 6
    Outcomes = {"CHARGED", "DECLINED"}
    MaxRequests = 2
    MaxDay = 8
PROPERTIES
    StopIsFinal
    LadderEnds
CHECK_DEADLOCK FALSE
