SPECIFICATION FairSpec
CONSTANTS
    e1 = e1
    Envs <- OneEnv
    Requests <- NoRequests
    MaxConns = 3
    MaxRestarts = 0
    Faults <- Late
PROPERTIES
    ConnectedEndsOnline
    GoneEndsOffline
CHECK_DEADLOCK FALSE
