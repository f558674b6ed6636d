CONSTANTS
    W = 3
    H = 8
    Streams = {batches}
    Encrypted = {}
    Batched = {batches}
    Fragmented = {}
    Parts = 2
    Wrap = 6
    Durable = {}
    Margin = 2
    MaxRestarts = 0
    MaxLost = 0
SPECIFICATION Spec
INVARIANTS BatchesAccepted
