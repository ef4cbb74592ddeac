\* Two names share nothing but the operation slot; one archive of each layout.
CONSTANTS
    Names = {editor, clock}
    Archives = {flat, nested}
    Nested = {nested}
    Faults = {"prepare", "rename", "delete", "unpack", "readdir"}
    Absent = Absent
    File = File
    Damaged = Damaged
    NoCall = NoCall
SPECIFICATION Spec
INVARIANTS NeverErasesLastCopy OkMeansDone Phases
PROPERTIES ImplementsStore FileSurvives
