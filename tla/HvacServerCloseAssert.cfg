CONSTANTS
    Handles = {h1}
    Files = {f1}
    Fds = {3}
    Dirs = {d1}
    FileLen = 1
    ReadSizes = {1}
    Offsets <- SeqOnly
    Whences = {}
    MaxQueue = 2
    MayUnlink = TRUE
    MayFailIO = FALSE
    MayDie = FALSE
    HalfWord = 4
    NoFile = NoFile
    NoDir = NoDir
    Torn = Torn
    Wild = Wild
SPECIFICATION Spec
INVARIANT CloseAssertHolds
