CONSTANTS
    N = 2
    Statements = 2
    MaxBoots = 3
SPECIFICATION Spec
INVARIANTS
    AppliedOnce
    ServesMigrated
    NoStaleRow
PROPERTY
    BootEnds
CHECK_DEADLOCK FALSE
