CONSTANTS
    Threads = {t1}
    Tracked = {p1, p2}
    Untracked = {q1}
    Fds = {3, 4}
    ServerFds = {7, 8}
    NoPath = NoPath
    None = None
SPECIFICATION FairSpec
INVARIANT TypeOK
INVARIANT BlocksUntilDone
INVARIANT ReadsOwnAnswer
INVARIANT TrackingMatchesKernel
INVARIANT RedirectionConsistent
PROPERTY CallsReturn
