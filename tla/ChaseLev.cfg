CONSTANTS
    Thieves = {w1, w2}
    InitialCapacity = 1
    MaxPushes = 4
    MaxPops = 3
    MaxSteals = 4
SPECIFICATION Spec
INVARIANTS TypeOK TakenOnce NothingLost
CHECK_DEADLOCK FALSE
