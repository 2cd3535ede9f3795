CONSTANTS
    Workers = {0, 1}
    Actors = {a1, a2, a3}
    NoActor = NoActor
    MaxWaits = 2
SPECIFICATION FairSpec
INVARIANTS TypeOK HandleHeldOnce
PROPERTIES ReturnsWhenDone ReadyRuns TimedWaitEnds
CHECK_DEADLOCK FALSE
