CONSTANTS
    Strategies = {"one_for_one", "one_for_all", "rest_for_one", "simple_one_for_one"}
    NumSpecs = 3
    Permanent = {1}
    Transient = {3}
    MaxRestarts = 1
    Within = 1
    MaxFaults = 2
    MaxAdmin = 2
    MaxTime = 2
SPECIFICATION FairSpec
INVARIANTS TypeOK EntriesAccounted GroupCanFinish IntensityRespected StartOrderKept HaltedLeftAlone
PROPERTIES PermanentComesBack
\* A supervisor without faults, or one that has stopped, has nothing to do.
CHECK_DEADLOCK FALSE
