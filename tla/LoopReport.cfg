SPECIFICATION ReportSpec
CONSTANTS
    a1 = a1
    a2 = a2
    Actions = {a1, a2}
    NoAction = NoAction
    MaxSubtasks = 2
    MAX_REPLANS = 1
    MAX_LOOP_ITERATIONS = 5
    MAX_CONSECUTIVE_ERRORS = 2
    LOOP_WARN_THRESHOLD = 2
    LOOP_STOP_THRESHOLD = 3
    ACTION_HISTORY_MAX = 4
    SUBTASK_STUCK_ITER_THRESHOLD = 3
    RecursionLimit = 20
INVARIANTS
    ShownActionIsExecuted
    StepLabelsDistinct
PROPERTIES
    ActiveStepShown
    ImplementsStream
