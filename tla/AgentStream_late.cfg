SPECIFICATION Spec
CONSTANTS
    e1 = e1
    Envs <- OneEnv
    Requests <- NoRequests
    MaxConns = 2
    MaxRestarts = 0
    Faults <- Late
INVARIANT
    RegistryServes
CHECK_DEADLOCK FALSE
