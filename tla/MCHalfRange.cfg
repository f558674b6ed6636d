CONSTANTS
    W = 2
    H = 5
    Quota = 9
    Seeds = {0}
SPECIFICATION Spec
INVARIANTS NonWrappingProtection
