CONSTANTS
    MaxActors = 3
    InitialActors = 2
    MaxTopology = 4
SPECIFICATION Spec
INVARIANTS TypeOK SignalsReachSurvivors NoSpuriousSignals ShutdownMeansEmpty
