SPECIFICATION Spec
CONSTANTS
    m1 = m1
    m2 = m2
    n1 = n1
    n2 = n2
    n3 = n3
    k1 = k1
    u = u
    None = None
    Machines <- TwoMachines
    Names <- ThreeNames
    NamesOf <- OwnNames
    Keys <- OneKey
    KeysOf <- SharedKeys
    FilesOf <- SomeFiles
    NewWords <- OneWord
    Commands <- FewCommands
    Faults <- Hazards
INVARIANTS
    TypeOK
    LoggedInIsKnown
    CleanLogout
    UserTextKept
    UpdatedHasBlock
PROPERTY
    QuietLoginUploads
CHECK_DEADLOCK FALSE
