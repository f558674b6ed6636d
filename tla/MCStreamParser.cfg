CONSTANTS
    W = 1
    H = 2
    MaxPayload = 1
    MaxWireLen = 2
    BufSize = 9
    Base = 2
    Ext = 1
    Target = 1
    FragInfo = 1
    NonceLen = 1
    MacLen = 1
    CrcLen = 1
    Links <- TwoLinks
SPECIFICATION Spec
INVARIANTS BufferFits WholeFrameDecided AcceptedInOrder Resynchronised
PROPERTIES ErrorsKeepWindow AbandonedCounted
