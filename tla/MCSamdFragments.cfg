CONSTANTS
    Keys = {a, b}
    FragMax = 2
    MaxFragments = 2
    Slots = {1, 2}
    Timeout = 1
    TimeMod = 6
    MaxPayload = 1
    Lengths = {3}
    Tags = {1, 2}
    Delay = 1
    Period = 3
    Quiet = 4
    MaxMessages = 3
    StartTime = {4}
SPECIFICATION Spec
INVARIANTS FragmentsFit
