SPECIFICATION Spec
CONSTANTS
    Sessions = {s1}
    Deletes = {d1, d2}
    MaxShots = 2
INVARIANTS
    StoreInv
    AnswerIsFinal
PROPERTIES
    GracefulDeleteIsLast
    DeleteEnds
