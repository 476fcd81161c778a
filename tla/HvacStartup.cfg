CONSTANTS
    Clients = {c1}
    Count = 2
    Hashes = {4, 5}
    EmptyHash = 3
    MaxInc = 2
    MaxOpens = 2
    Mortal = {0}
    None = None
SPECIFICATION FairSpec
INVARIANT TypeOK
INVARIANT FirstLineWins
INVARIANT RpcToOpener
INVARIANT OneStreamPerRank
INVARIANT ReadyClientsServed
INVARIANT NoOrphans
PROPERTY PostedLinesSurvive
PROPERTY ServersComeUp
PROPERTY CallsEnd
CHECK_DEADLOCK FALSE
