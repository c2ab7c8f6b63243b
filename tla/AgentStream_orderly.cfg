SPECIFICATION Spec
CONSTANTS
    e1 = e1
    Envs <- OneEnv
    Requests <- OneLife
    MaxConns = 2
    MaxRestarts = 0
    Faults <- Orderly
INVARIANTS
    RowsAgree
    FailedCreateLeavesNothing
PROPERTY
    HandlersSpec
CHECK_DEADLOCK FALSE
