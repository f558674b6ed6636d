CONSTANTS
    M = 3
    Key = {k1, k2}
    NoKey = none
    MsgIds = {heartbeat, command, batch}
    Batch = batch
    NeverEncrypted = {heartbeat}
    AlwaysEncrypted = {command}
    OverrideMax = 2
    MaxBatch = 1
    CryptoDisabled = {TRUE, FALSE}
    MaxPackets = 2
SPECIFICATION Spec
INVARIANTS LastRequestCounts NoSilentDowngrade KeyMatchesLifetime NonceFresh
