SPECIFICATION FairSpec
CONSTANTS
    MaxFrames = 4
    Delays = {1, 2}
    MaxTimers = 2
    MaxTime = 3
INVARIANTS TypeOK NoFrameMisused OwnedOnce AwaitedRuns
PROPERTIES ReadyResumed
CHECK_DEADLOCK FALSE
