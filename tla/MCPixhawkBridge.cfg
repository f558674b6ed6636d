CONSTANTS
    SysIds = {1, 255}
    CompIds = {1, 100}
    Kinds = {"attitude"}
    OtherKinds = {"other"}
    Interval = 2
    TimeMod = 5
    LoopTime = 2
    MaxArrivals = 2
SPECIFICATION BridgeSpec
INVARIANTS RelayedFaithfully
PROPERTIES SelfTestForever
