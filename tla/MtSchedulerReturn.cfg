CONSTANTS
    Workers = {0, 1}
    Actors = {a1}
    NoActor = NoActor
    MaxWaits = 0
SPECIFICATION FairSpec
PROPERTIES RunReturns
CHECK_DEADLOCK FALSE
