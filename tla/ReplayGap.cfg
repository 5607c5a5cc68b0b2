SPECIFICATION MCSpec
CONSTANTS
    Handlers = {1}
    SESSION_QUEUE_MAXSIZE = 4
    MaxEvents = 4
    MaxRequests = 1
INVARIANT NothingMissed
