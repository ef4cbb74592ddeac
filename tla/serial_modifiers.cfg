SPECIFICATION KeyboardsSpec
CONSTANTS
    Events <- MCEvents
    NoEvent = 0
    MaxEvents = 1
    Size = 4
    Keys = {"a"}
    MaxPrograms = 1
    SerialKeys = {"ctrl-left", "ctrl-delete"}
    Enters <- MCEnters
    MaxKeys = 1
    UartDepth = 2
    PerUpdate = 2
    LineModes = {FALSE}
INVARIANT DecodesWhatWasTyped
