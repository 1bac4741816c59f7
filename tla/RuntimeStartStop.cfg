\* A stream and two tasks or futures; a second signal may abort the shutdown.
\* A runtime that has shut down stops.
CONSTANTS
    Stream = {s1}
    Task = {t1, t2}
    Main = Main
    MaxSignals = 2
    MaxEvents = 2
    Holder <- AllHolders
SPECIFICATION FairSpec
INVARIANTS RuntimeTypeOK ReadyWhenInitialized AllTerminated
PROPERTIES BecomesReady BecomesUnready ShutdownCompletes
CHECK_DEADLOCK FALSE
