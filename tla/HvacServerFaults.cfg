CONSTANTS
    Handles = {h1, h2}
    Files = {f1, f2}
    Fds = {3, 4}
    Dirs = {d1, d2}
    FileLen = 1
    ReadSizes = {}
    Offsets <- SeqOnly
    Whences = {}
    MaxQueue = 2
    MayUnlink = TRUE
    MayFailIO = TRUE
    MayDie = FALSE
    HalfWord = 4
    NoFile = NoFile
    NoDir = NoDir
    Torn = Torn
    Wild = Wild
SPECIFICATION Spec
SYMMETRY Symm
INVARIANT TypeOK
INVARIANT DescriptorAccounting
PROPERTY PendingIsFifo
INVARIANT HandleSeesItsFile
INVARIANT RedirectComplete
