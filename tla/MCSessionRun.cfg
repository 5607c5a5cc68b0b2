SPECIFICATION MCSpec
CONSTANTS
    MAX_REPLANS = 1
    MaxTurns = 2
    MaxRequests = 3
INVARIANTS
    BlockedIsPaused
    TerminalEndsWork
    RowFollowsSession
    ControlTakesEffect
    NoResultLost
PROPERTIES
    ImplementsLifecycle
    StopEnds
    EndsUnlessPaused
