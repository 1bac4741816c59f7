SPECIFICATION FairSpec
CONSTANTS
    c1 = c1
    c2 = c2
    Client = {c1, c2}
    Loopback = {c1, c2}
    Watches = {w1}
    Leases = {l1}
    MaxEvents = 1
    Workers = 2
    Blocking = 1
    Request <- MCRequest
INVARIANTS AdminTypeOK Complete Collected Untorn
PROPERTIES Answered ListsReleased
