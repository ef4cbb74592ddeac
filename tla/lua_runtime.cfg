\* A closed state, a finished call and an ended program stop.
CHECK_DEADLOCK FALSE
SPECIFICATION RuntimeSpec
CONSTANTS
    LuaObjects = {"o1", "o2", "o3", "o4", "main"}
    MainThread = "main"
    SweepMax = 1
    Casts <- MCCasts
    ObjectKeys = {"ephemeron", "allweak"}
    TableKeys <- MCTableKeys
    TableValues = {"v"}
    MaxInteger = 7
    Seeds = {0, 1, 2, 3, 5}
    FirstSizes <- MCFirstSizes
    LimForLast = 4
    Main = "main"
    Coroutines = {"a"}
    MaxFrames = 4
    MaxDepth = 8
    MaxVariables = 2
    MaxErrors = 2
    Programs <- MCPrograms
    Compiled <- MCCompiled
    Parameters <- MCParameters
    Arguments <- MCArguments
    Globals <- MCGlobals
    MaxEvents = 6
    MaxToStore = 2
    MaxRegister = 15
INVARIANTS
    GcSound
    TableSound
    CallsSound
    CompilerSound
PROPERTIES
    EntriesKept
    CodeMeansProgram
