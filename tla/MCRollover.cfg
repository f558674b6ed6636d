CONSTANTS
    W = 2
    H = 3
    Quota = 6
    Seeds = {0, 1, 2, 3, 4, 5}
SPECIFICATION Spec
PROPERTIES RolloverFresh
