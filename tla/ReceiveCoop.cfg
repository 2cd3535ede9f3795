CONSTANTS
    Senders = {s1, s2}
    MsgTypes = {Data, ExitSignal}
    ExitSignal = ExitSignal
    MaxMessages = 4
    MaxReceives = 3
    Concurrent = FALSE
SPECIFICATION FairSpec
INVARIANT NoAccessAfterDestroy
PROPERTY ImplementsMailbox
\* The actor may wait for ever for a message nobody sends.
CHECK_DEADLOCK FALSE
