CONSTANTS
    Words <- Samples
    IntBits = 32
    Exemplar <- Flipped
    Bursts <- Close
    Links <- StrayLinks
SPECIFICATION MessagesSpec
INVARIANTS RoundTrip ChecksumTells
CHECK_DEADLOCK FALSE
