SPECIFICATION Spec
CONSTANTS
    Elements = {1, 2}
    MaxIndex = 1
    Ops <- AllOps
    TargetWords <- Targets
    MaxCount = 2
    MaxPages = 2
    MaxChanges = 2
    MaxTurns = 2
INVARIANT
    IndexInv
PROPERTIES
    OnlyClicksSwitch
    ActionEnds
CHECK_DEADLOCK FALSE
