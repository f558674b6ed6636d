CONSTANTS
    M = 24
    Margin = 4
    Burst = 3
    Limit = 11
    Cuts = {2}
    Flash = FALSE
    Key = {k1}
    NoKey = none
    DemoKey = k1
SPECIFICATION Spec
INVARIANTS NonceUnique ResumeAhead
PROPERTIES ImplementsDurable
