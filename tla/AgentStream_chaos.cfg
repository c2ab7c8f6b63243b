SPECIFICATION Spec
CONSTANTS
    e1 = e1
    Envs <- OneEnv
    Requests <- CreateDelete
    MaxConns = 2
    MaxRestarts = 1
    Faults <- Chaos
INVARIANTS
    TypeOK
    RegistryNotStale
PROPERTY
    NoResurrection
CHECK_DEADLOCK FALSE
