CONSTANTS
    Clients = {c1, c2}
    c1 = c1
    c2 = c2
    Keys = {k1, k2}
    Absent = Absent
    StringValue = StringValue
    Nil = Nil
    ErrWrongType = ErrWrongType
    ErrNotFound = ErrNotFound
    Idle = Idle
    NoKey = NoKey
    NoClient = NoClient
    Placeholder = Placeholder
    Members <- OneMember
    LexOrder <- OneLexOrder
    Scores <- OneScore
    Ops = {"zadd", "zscore", "zmpop"}
    ZAddPolicies = {"none"}
    MaxSrcs = 2
    DistinctSources = TRUE
    DestMayBeSource = FALSE
    InitValues <- AnyValues
    ReaperOn = TRUE
    ClientOps <- LockOps
SPECIFICATION FairSpec
INVARIANT NoLeakedLocks
PROPERTY WritesUnderLock CommandsComplete
