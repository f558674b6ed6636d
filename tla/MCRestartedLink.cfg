CONSTANTS
    W = 3
    H = 9
    Streams = {enc}
    Encrypted = {enc}
    Batched = {}
    Fragmented = {}
    Parts = 2
    Wrap = 6
    Durable = {}
    Margin = 2
    MaxRestarts = 1
    MaxLost = 2
SPECIFICATION Spec
INVARIANTS NoFalseReplay
