SPECIFICATION TaskSpec
CONSTANTS
    Claimant = {c1, c2}
    NoClaimant = NoClaimant
    Skew <- SameClock
    MaxSkew = 0
    LeaseDuration = 2
    RenewGrace = 1
    TicksPerSecond = 1
    TicksPerMicro = 1
    U16 = 2
    Faults = {"fail", "crash"}
    LateKinds = {"acquire", "renew"}
    MaxTime = 3
    MaxVersion = 4
    MaxLate = 1
    MaxRetries = 1
    Timely = FALSE
SYMMETRY Symmetry
INVARIANTS TaskTypeOK EndedReleased Settled
PROPERTIES ImplementsLock
CHECK_DEADLOCK FALSE
