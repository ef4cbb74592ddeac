\* A walk ends with its last year, a call with its answer, an editor closes.
CHECK_DEADLOCK FALSE
SPECIFICATION LibrarySpec
CONSTANTS
    Alignment = 2
    Header = 4
    HeapStart = 2
    HeapEnd = 38
    SizeMax = 63
    SearchLimit = 3
    Requests <- MCRequests
    Keys <- MCKeys
    Values = {"u", "v"}
    BadKey = "bad"
    LongValue = "long"
    MaxEntries = 2
    LongMax = 63
    IntMax = 31
    ShortMax = 15
    CharMax = 7
    NumberTexts <- MCNumberTexts
    Bases = {0, 1, 2, 8, 10, 16, 36}
    Directives <- MCDirectives
    FormatValues <- MCFormatValues
    BufferSizes = {0, 1, 4, 12}
    Walks <- MCWalks
    TimeSpan = 24000
    TextSizes = {0, 15, 16}
    MaxCaptures = 2
    MaxCalls = 7
    Searches <- MCSearches
    MaxUndo = 2
    TabWidth = 2
    Rows = 2
    Columns = 3
    PathNamed <- MCPathNamed
    NotesStarts <- MCNotesStarts
    TypedCharacters = {"a"}
INVARIANTS
    HeapSound
    NumbersTrue
    CalendarTrue
    PatternsTrue
    EditingTrue
    NotesKept
PROPERTY ImplementsMap
