SPECIFICATION FairSpec
CONSTANTS
    e1 = e1
    e2 = e2
    NoCommand = NoCommand
    Envs <- TwoEnvs
    GPUs <- TwoGPUs
    Counts <- UpToTwo
    Commands <- Contention
    Faults <- Everything
    MaxRestarts = 1
INVARIANTS
    TypeOK
    NoGPULeak
    LabelKeepsCount
    AllocatedDisjoint
    PicksLowest
PROPERTIES
    AllocatorSpec
    EveryCommandAnswered
CHECK_DEADLOCK FALSE
