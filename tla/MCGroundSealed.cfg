CONSTANTS
    W = 2
    H = 4
    Encrypts = {TRUE}
    Commands = {"ARM", "DISARM", "TAKEOFF"}
    Clock = 4
    Heartbeat = 2
    Attitude = 1
    Gps = 1
    BeatPeriod = 1
    SeqWrap = 8
    MaxLine = 2
    LoopTime = 1
    MaxSent = 3
    MaxKeys = 2
    MaxFaults = 0
    MaxStarts = 0
SPECIFICATION GroundSpec
PROPERTIES Answered
