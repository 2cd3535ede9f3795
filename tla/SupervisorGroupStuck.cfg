CONSTANTS
    Strategies = {"one_for_all"}
    NumSpecs = 2
    Permanent = {1, 2}
    Transient = {}
    MaxRestarts = 3
    Within = 1
    MaxFaults = 3
    MaxAdmin = 0
    MaxTime = 0
SPECIFICATION FairSpec
PROPERTY GroupFinishes
\* A supervisor without faults, or one that has stopped, has nothing to do.
CHECK_DEADLOCK FALSE
