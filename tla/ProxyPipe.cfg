SPECIFICATION FairSpec
CONSTANTS
    MaxIn = 3
    MaxOut = 2
    Buffer = 1
INVARIANTS
    TypeOK
    FirstReportIsCause
    SuccessIsComplete
PROPERTY
    StdinEndEndsProxy
CHECK_DEADLOCK FALSE
