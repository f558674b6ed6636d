CONSTANTS
    W = 3
    H = 9
    Streams = {enc}
    Encrypted = {enc}
    Batched = {}
    Fragmented = {enc}
    Parts = 2
    Wrap = 6
    Durable = {enc}
    Margin = 2
    MaxRestarts = 2
    MaxLost = 2
SPECIFICATION Spec
INVARIANTS NoFalseReplay
PROPERTIES KeepsHearing
