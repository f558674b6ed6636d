CONSTANTS
    Params = 3
    Attempts = 2
    Wait = 1
    Boot = 1
    Systems = {0, 1, 255}
    Autopilot = 1
    Fixed = {}
    Unasked = {0}
    MaxHeard = 2
    MaxLost = 3
SPECIFICATION Spec
INVARIANTS ReportIsTrue
PROPERTIES TakesEffect Finishes
CHECK_DEADLOCK FALSE
