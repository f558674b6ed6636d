CONSTANTS
    MaxMessages = 2
    MaxData = 2
    MaxPayload = 10
    Ids <- SomeIds
    Byte = {0, 1, 2, 3}
    Texts <- SomeTexts
    Foreign = 7
SPECIFICATION Spec
INVARIANTS InBounds FailedShowsNothing ReadAsPacked
CHECK_DEADLOCK FALSE
