CONSTANTS
    Threads = {t1, t2}
    Tracked = {p1}
    Untracked = {}
    Fds = {3, 4}
    ServerFds = {7, 8}
    NoPath = NoPath
    None = None
SPECIFICATION Spec
INVARIANT InitOnce
