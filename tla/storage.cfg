SPECIFICATION StorageSpec
CONSTANTS
    Extensions = {txt, lua}
    Applications = {edit, run}
    Remark = Remark
    MaxLines = 3
    Absent = Absent
    AliasFaults = {"open", "read", "write", "close", "delete", "rename"}
    bin = bin
    binaries = binaries
    gone = gone
    Directories = {bin, binaries, gone}
    Beginnings <- MCBeginnings
    Missing = {gone}
    Note = Note
    MaxEntries = 2
    PathFaults = {"read", "open", "write", "close"}
    AppCount = 2
    BootFaults = {"stat", "mkdir", "open", "write", "close"}
    a = a
    b = b
    Names = {a, b}
    MaxRecursion = 2
    MaxPath = 4
    MaxNames = 4
    TreeFaults = {"stat", "mkdir", "opendir", "readdir", "closedir", "open", "write",
                  "unlink", "rename"}
    ArchiveName = a
    ZipEntries <- MCZipEntries
    MaxArchived = 2
    ZipFaults = {"open", "init", "write", "source", "finalize", "sync", "close",
                 "mkdir", "extract"}
    Files = {f, t}
    ClusterCount = 2
    Values = {x, y}
    Slots = 2
    Temporary = t
    MaxSize = 2
    StreamFaults = {"open", "read", "close", "unlink"}
SYMMETRY Symmetry
INVARIANTS
    AliasTrue
    PathListTrue
    MarkerMeansInstalled
    TreesTrue
    ZipTrue
    StreamsTrue
PROPERTIES
    UserFilesKept
