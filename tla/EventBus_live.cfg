SPECIFICATION LiveSpec
CONSTANTS
    Subscribers = 2
    QueueSize = 2
    MaxEvents = 5
    MaxStarts = 2
CHECK_DEADLOCK FALSE
INVARIANTS
    TypeOK
    DrainedOnJoin
    OneTask
PROPERTIES
    ImplementsChannel
    StopReturns
    AcceptedDispatched
