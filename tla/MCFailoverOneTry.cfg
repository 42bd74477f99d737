SPECIFICATION Spec
CONSTANTS
    Length = 2
    BenchScore = 10
    Reward = 1
    Punish = 2
    Kill = 3
    Parole = 10
    Latencies = {1, 2, 3}
    Users = {c1, c2}
    NoEntry = NoEntry
    PerClient = 3
    Steady = {}
SYMMETRY CallerSymmetry
INVARIANT OneTryEach
