CONSTANTS
    Elements = {1, 2}
    MaxIndex = 1
    Ops = {"click"}
    TargetWords = {{}}
    MaxCount = 0
    MaxPages = 2
    MaxChanges = 2
    MaxTurns = 1
SPECIFICATION Spec
INVARIANT NotFoundIsUntouched
CHECK_DEADLOCK FALSE
