CONSTANTS
    SysIds = {1, 255}
    CompIds = {1, 100}
    Kinds = {"attitude"}
    OtherKinds = {"other"}
    Interval = 2
    TimeMod = 5
    LoopTime = 2
    MaxArrivals = 1
SPECIFICATION BridgeSpec
INVARIANTS IdsTold
PROPERTIES PixhawkWoken CommandTranslated
