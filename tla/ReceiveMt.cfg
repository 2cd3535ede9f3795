CONSTANTS
    Senders = {s1, s2}
    MsgTypes = {Data, ExitSignal}
    ExitSignal = ExitSignal
    MaxMessages = 3
    MaxReceives = 2
    Concurrent = TRUE
SPECIFICATION Spec
INVARIANTS TypeOK EveryMessageOnce SameTypeInOrder
\* The actor may wait for ever for a message nobody sends.
CHECK_DEADLOCK FALSE
