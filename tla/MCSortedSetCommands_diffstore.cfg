CONSTANTS
    Clients = {c1, c2}
    c1 = c1
    c2 = c2
    Keys = {k1, k2, k3}
    Absent = Absent
    StringValue = StringValue
    Nil = Nil
    ErrWrongType = ErrWrongType
    ErrNotFound = ErrNotFound
    Idle = Idle
    NoKey = NoKey
    NoClient = NoClient
    Placeholder = Placeholder
    Members <- OneMember
    LexOrder <- OneLexOrder
    Scores <- OneScore
    Ops = {"zadd", "zrem", "zpopmin", "zpopmax", "zscore", "zcard", "zdiffstore"}
    ZAddPolicies = {"none"}
    MaxSrcs = 2
    DistinctSources = TRUE
    DestMayBeSource = FALSE
    InitValues <- SetOrString
    ReaperOn = FALSE
    ClientOps <- DiffStoreOps
SPECIFICATION Spec
CONSTRAINT ReadHoldBound
PROPERTY Linearizable
SYMMETRY KeySymmetry
CHECK_DEADLOCK FALSE
