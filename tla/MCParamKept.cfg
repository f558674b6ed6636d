CONSTANTS
    Params = 3
    Attempts = 2
    Wait = 1
    Boot = 1
    Systems = {0, 1, 255}
    Autopilot = 1
    Fixed = {2}
    Unasked = {1}
    MaxHeard = 1
    MaxLost = 0
SPECIFICATION Spec
INVARIANTS ReportIsTrue ConfirmedByAnswer
CHECK_DEADLOCK FALSE
