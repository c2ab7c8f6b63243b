SPECIFICATION FairSpec
CONSTANTS
    t1 = t1
    t2 = t2
    u1 = u1
    Tokens <- MCTokens
    Users <- MCUsers
    Owner <- MCOwner
    Joins <- MCJoins
    NoJoin = NoJoin
INVARIANTS
    TokenSpentOnce
    JoinedIsPaired
PROPERTIES
    LedgerSpec
    EveryJoinAnswered
