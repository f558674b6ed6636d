CONSTANTS
    W = 3
    H = 8
    Streams = {enc, plain}
    Encrypted = {enc}
    Batched = {}
    Fragmented = {}
    Parts = 2
    Wrap = 6
    Durable = {}
    Margin = 2
    MaxRestarts = 0
    MaxLost = 2
SPECIFICATION Spec
INVARIANTS NoFalseReplay
