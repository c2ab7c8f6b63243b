SPECIFICATION Spec
CONSTANTS
    e1 = e1
    e2 = e2
    NoCommand = NoCommand
    Envs <- TwoEnvs
    GPUs <- TwoGPUs
    Counts <- UpToTwo
    Commands <- TwoCreates
    Faults <- Restarts
    MaxRestarts = 1
INVARIANT
    RunningIsReserved
CHECK_DEADLOCK FALSE
