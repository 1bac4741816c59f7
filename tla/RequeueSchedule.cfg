\* A stream that has ended stops.
SPECIFICATION FairSpec
CONSTANTS
    Obj = {a, b}
    Slot = {1, 2}
    Never = Never
    Capacity = 2
    MaxSenders = 2
    MaxTime = 2
INVARIANTS TypeOK Paired
PROPERTIES ImplementsSchedule DrainsAndEnds SendersProceed
CHECK_DEADLOCK FALSE
