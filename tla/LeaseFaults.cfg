SPECIFICATION Spec
CONSTANTS
    Claimant = {c1, c2}
    NoClaimant = NoClaimant
    Skew <- OneAhead
    MaxSkew = 1
    LeaseDuration = 3
    RenewGrace = 1
    TicksPerSecond = 2
    TicksPerMicro = 1
    U16 = 3
    Faults = {"fail", "crash", "touch"}
    LateKinds = {"renew"}
    MaxTime = 2
    MaxVersion = 4
    MaxLate = 1
INVARIANTS TypeOK Inv BoundedOverlap
PROPERTIES NoSteal RenewalExtends CountsTransitions
