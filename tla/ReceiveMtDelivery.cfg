CONSTANTS
    Senders = {s1, s2}
    MsgTypes = {Data, ExitSignal}
    ExitSignal = ExitSignal
    MaxMessages = 2
    MaxReceives = 2
    Concurrent = TRUE
SPECIFICATION FairSpec
PROPERTY MatchingDeliveryResumes
\* The actor may wait for ever for a message nobody sends.
CHECK_DEADLOCK FALSE
