SPECIFICATION FairSpec
CONSTANTS
    Actors = {a, b}
    Timeouts = {0, 1}
    MaxRequests = 2
    MaxSignals = 1
    MaxTime = 2
INVARIANTS TypeOK CallCorrelated HandledInOrder SleepersHaveNothing
PROPERTIES CallEnds RequestHandled
CHECK_DEADLOCK FALSE
