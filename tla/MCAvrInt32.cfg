CONSTANTS
    Words <- Samples
    IntBits = 16
    Exemplar <- Flipped
    Bursts <- Close
    Links <- LibraryLinks
SPECIFICATION MessagesSpec
INVARIANTS RoundTrip
CHECK_DEADLOCK FALSE
