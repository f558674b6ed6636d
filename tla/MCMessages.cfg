CONSTANTS
    Words <- Samples
    IntBits = 32
    Exemplar <- Flipped
    Bursts <- Close
    Links <- AllLinks
SPECIFICATION MessagesSpec
INVARIANTS NothingStale RoundTrip HalfExact ChecksumTells
CHECK_DEADLOCK FALSE
