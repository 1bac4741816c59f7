SPECIFICATION Spec
CONSTANTS
    Claimant = {c1, c2}
    NoClaimant = NoClaimant
    Skew <- SameClock
    MaxSkew = 0
    LeaseDuration = 3
    RenewGrace = 1
    TicksPerSecond = 2
    TicksPerMicro = 1
    U16 = 2
    Faults = {}
    LateKinds = {}
    MaxTime = 3
    MaxVersion = 4
    MaxLate = 1
INVARIANT Exclusive
