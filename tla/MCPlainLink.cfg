CONSTANTS
    W = 3
    H = 8
    Streams = {plain}
    Encrypted = {}
    Batched = {}
    Fragmented = {}
    Parts = 2
    Wrap = 6
    Durable = {}
    Margin = 2
    MaxRestarts = 0
    MaxLost = 2
SPECIFICATION Spec
PROPERTIES KeepsHearing
