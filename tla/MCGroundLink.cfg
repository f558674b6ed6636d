CONSTANTS
    W = 2
    H = 4
    Encrypts = {TRUE, FALSE}
    Commands = {"ARM", "DISARM", "TAKEOFF"}
    Clock = 4
    Heartbeat = 2
    Attitude = 1
    Gps = 1
    BeatPeriod = 1
    SeqWrap = 8
    MaxLine = 2
    LoopTime = 1
    MaxSent = 3
    MaxKeys = 2
    MaxFaults = 1
    MaxStarts = 1
SPECIFICATION GroundSpec
INVARIANTS ToldAsDone
PROPERTIES ViewConverges
