SPECIFICATION DiagSpec
CONSTANTS
    Claimant = {c1, c2}
    NoClaimant = NoClaimant
    Skew <- SameClock
    MaxSkew = 0
    LeaseDuration = 2
    RenewGrace = 1
    TicksPerSecond = 1
    TicksPerMicro = 1
    U16 = 2
    Faults = {"fail", "touch"}
    LateKinds = {"vacate"}
    MaxTime = 4
    MaxVersion = 5
    MaxLate = 1
    MaxRetries = 1
    Timely = TRUE
INVARIANTS DiagnosticsFollow Exclusive
PROPERTIES NoLapse DropCompletes
CHECK_DEADLOCK FALSE
