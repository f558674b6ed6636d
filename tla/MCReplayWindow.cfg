CONSTANTS
    W = 3
    H = 7
    Quota = 5
    Seeds = {0, 1, 2, 3, 4, 5, 6, 7, 8, 9, 10, 11, 12, 13}
SPECIFICATION Spec
INVARIANTS AtMostOnce HighestKept ReorderTolerated
PROPERTIES ImplementsLink
