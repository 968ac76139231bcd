\* AOF restore under noeviction: one SetValue in the preamble may fail.
CONSTANTS
    k1 = k1
    k2 = k2
    k3 = k3
    m1 = m1
    m2 = m2
    Keys = {k1, k2, k3}
    Members = {m1, m2}
    LexOrder <- MCLexOrder
    Scores = {1, 2}
    Absent = Absent
    StringValue = StringValue
    Nil = Nil
    ErrWrongType = ErrWrongType
    ErrNotFound = ErrNotFound
    Ops = {"zadd"}
    ZAddPolicies = {"none"}
    MaxSrcs = 1
    DistinctSources = TRUE
    DestMayBeSource = FALSE
    Clients = {Main}
    Main = Main
    NoClient = NoClient
    Placeholder = Placeholder
    Configs <- AofOnly
    Entries <- MCEntries
    Log <- MCLog
    NoEviction = TRUE
SPECIFICATION Spec
PROPERTY StartupCompletes
CHECK_DEADLOCK FALSE
