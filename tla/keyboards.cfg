SPECIFICATION KeyboardsSpec
CONSTANTS
    Events <- MCEvents
    NoEvent = 0
    MaxEvents = 5
    Size = 4
    Keys = {"a", "b"}
    MaxPrograms = 2
    SerialKeys = {"x", "enter", "up", "delete", "ctrl-left", "escape", "["}
    Enters <- MCEnters
    MaxKeys = 3
    UartDepth = 2
    PerUpdate = 2
    LineModes = {TRUE, FALSE}
INVARIANTS
    FramesTrue
    SerialTrue
PROPERTIES
    TypeAheadKept
    ImplementsFifo
    EveryKeyArrives
