SPECIFICATION KeyboardsSpec
CONSTANTS
    Events <- MCEvents
    NoEvent = 0
    MaxEvents = 2
    Size = 4
    Keys = {"a", "b"}
    MaxPrograms = 2
    SerialKeys = {"x"}
    Enters <- MCEnters
    MaxKeys = 1
    UartDepth = 2
    PerUpdate = 2
    LineModes = {FALSE}
INVARIANT OneEventPerPresent
