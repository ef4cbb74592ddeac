\* Finalizers of a closing program may exit and change the directory; an exit
\* without a program halts the machine, and the shell gets three lines.
CHECK_DEADLOCK FALSE
SPECIFICATION PromptSpec
CONSTANTS
    Dirs = {root, docs}
    Root = root
    MaxFrames = 4
    MaxScriptDepth = 2
    FinalizerCalls = {"exit", "cd"}
    Columns = 6
    Rows = 2
    Glyphs = {a, b, Gt}
    Gt = Gt
    Space = Space
    LF = LF
    CR = CR
    BufferSize = 5
    TypedChars = {a, b}
    PrintedChars = {a, LF, CR}
    MaxPrinted = 5
    MaxDepth = 2
    PathMax = 16
    LineMax = 14
    MaxArgs = 4
    MaxPathEntries = 4
    LowerOf <- MCLowerOf
    Trees <- MCTrees
    Removable <- MCRemovable
    StartList <- MCStartList
    StartPlaces <- MCStartPlaces
    TypedLines <- MCLines
    ScriptLines <- MCScriptLines
INVARIANTS
    GlobalsTracked
    EditorTrue
    PlacesTrue
    CommandsTrue
PROPERTIES
    PromptDirectoryKept
    CloseNotInherited
