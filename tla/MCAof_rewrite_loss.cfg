CONSTANTS
    c1 = c1
    c2 = c2
    k1 = k1
    k2 = k2
    Clients = {c1}
    Keys = {k1, k2}
    ClientKeys <- OwnKeys
    ValMod = 2
    Ops = {"set", "incr"}
    MaxWrites = 2
    ChanCap = 2
    Rewriters = {r1}
    NoCommand = NoCommand
    NoRewriter = NoRewriter
SPECIFICATION Spec
INVARIANT Recoverable
CHECK_DEADLOCK FALSE
