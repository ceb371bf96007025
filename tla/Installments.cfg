SPECIFICATION InstallmentsSpec
CONSTANTS
    Runs = {1}
    Total = 3
    Sandbox = TRUE
INVARIANTS
    ChargedAsPlanned
PROPERTY
    AgreementEnds
CHECK_DEADLOCK FALSE
