SPECIFICATION FairSpec
CONSTANTS
    Coroutines = {c1, c2}
    MaxAwaits = 3
    MaxTimers = 1
    MaxStops = 1
INVARIANTS TypeOK ResumedOnceWithResult NoUseAfterFree
PROPERTIES RunKeepsWaiting CompletedResumes
CHECK_DEADLOCK FALSE
