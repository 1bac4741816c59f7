\* The signal comes before a watch has yielded anything.
CONSTANTS
    Stream = {s1}
    Task = {}
    Main = Main
    MaxSignals = 1
    MaxEvents = 0
    Holder <- AllHolders
SPECIFICATION FairSpec
PROPERTIES NotReadyAfterShutdown
CHECK_DEADLOCK FALSE
