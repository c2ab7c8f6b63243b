SPECIFICATION FairSpec
CONSTANTS
    MaxIn = 0
    MaxOut = 1
    Buffer = 1
PROPERTY
    RemoteEndEndsProxy
CHECK_DEADLOCK FALSE
