SPECIFICATION Spec
CONSTANTS
    e1 = e1
    e2 = e2
    NoCommand = NoCommand
    Envs <- TwoEnvs
    GPUs <- TwoGPUs
    Counts <- UpToTwo
    Commands <- TwoLives
    Faults <- DockerFails
    MaxRestarts = 0
INVARIANTS
    RunningIsReserved
    DevHasNetwork
    ReadyIsRunning
    FailedHoldsNothing
    DeletedLeavesNothing
PROPERTY
    HandlersSpec
CHECK_DEADLOCK FALSE
