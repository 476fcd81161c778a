CONSTANTS
    Threads = {t1, t2}
    Tracked = {p1}
    Untracked = {}
    Fds = {3, 4}
    ServerFds = {7}
    NoPath = NoPath
    None = None
SPECIFICATION FairSpec
PROPERTY CallsReturn
