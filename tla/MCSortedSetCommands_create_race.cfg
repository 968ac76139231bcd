CONSTANTS
    Clients = {c1, c2}
    c1 = c1
    c2 = c2
    Keys = {k1}
    Absent = Absent
    StringValue = StringValue
    Nil = Nil
    ErrWrongType = ErrWrongType
    ErrNotFound = ErrNotFound
    Idle = Idle
    NoKey = NoKey
    NoClient = NoClient
    Placeholder = Placeholder
    Members <- MCMembers
    LexOrder <- MCLexOrder
    Scores <- OneScore
    Ops = {"zadd"}
    ZAddPolicies = {"none"}
    MaxSrcs = 2
    DistinctSources = TRUE
    DestMayBeSource = FALSE
    InitValues <- AbsentOnly
    ReaperOn = FALSE
    ClientOps <- ZAddOnly
SPECIFICATION Spec
PROPERTY Linearizable
