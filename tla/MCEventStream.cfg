SPECIFICATION MCSpec
CONSTANTS
    Handlers = {1, 2}
    SESSION_QUEUE_MAXSIZE = 2
    MaxEvents = 3
    MaxRequests = 1
INVARIANTS
    QueueInv
    ShownInOrder
    RunnerEventsGapless
PROPERTY
    OnlyHandlerEnds
