CONSTANTS
    Handles = {h1}
    Files = {f1, f2}
    Fds = {3, 4}
    Dirs = {d1}
    FileLen = 3
    ReadSizes = {2, 5, 9}
    Offsets <- AllOffsets
    Whences = {"SET", "CUR", "END"}
    MaxQueue = 1
    MayUnlink = FALSE
    MayFailIO = TRUE
    MayDie = TRUE
    HalfWord = 4
    NoFile = NoFile
    NoDir = NoDir
    Torn = Torn
    Wild = Wild
SPECIFICATION Spec
INVARIANT ReadsRightData
INVARIANT AbortHasCause
PROPERTY ImplementsFileService
