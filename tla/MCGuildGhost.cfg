SPECIFICATION Spec
CONSTANTS
    Commands = {c1, c2}
    Users = {u1}
    Nobody = Nobody
    Bot = Bot
    Channels = {a, b}
    Nowhere = Nowhere
    Conns = {k1, k2}
    NoConn = NoConn
    NoFile = NoFile
    MaxRegistered = 2
    MaxAsked = 2
    MaxFailed = 1
SYMMETRY Symmetry
INVARIANT CanLeave
PROPERTY JoinsAfresh
CHECK_DEADLOCK FALSE
