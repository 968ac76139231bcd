CONSTANTS
    Clients = {c1, c2}
    c1 = c1
    c2 = c2
    Keys = {k1, k2, k3}
    Absent = Absent
    StringValue = StringValue
    Nil = Nil
    ErrWrongType = ErrWrongType
    ErrNotFound = ErrNotFound
    Idle = Idle
    NoKey = NoKey
    NoClient = NoClient
    Placeholder = Placeholder
    Members <- OneMember
    LexOrder <- OneLexOrder
    Scores <- OneScore
    Ops = {"zadd", "zrem", "zpopmin", "zpopmax", "zscore", "zcard", "zunionstore", "zrangestore"}
    ZAddPolicies = {"none"}
    MaxSrcs = 2
    DistinctSources = TRUE
    DestMayBeSource = FALSE
    InitValues <- SetOrString
    ReaperOn = FALSE
    ClientOps <- AtomicOps
SPECIFICATION Spec
CONSTRAINT ScoreBound
INVARIANT TypeOK NoLeakedLocks
PROPERTY Linearizable WritesUnderLock
SYMMETRY KeySymmetry
