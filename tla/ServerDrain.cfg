\* Three connections, two signals.  A shutdown that has ended stops here.
CONSTANTS
    Conn = {c1, c2, c3}
    Main = Main
    Loop = Loop
    MaxSignals = 2
    Holder <- AllHolders
SPECIFICATION FairSpec
INVARIANTS ServerTypeOK RequestsComplete
PROPERTIES ServerDrains
CHECK_DEADLOCK FALSE
