SPECIFICATION RotationSpec
CONSTANTS
    Length = 3
    BenchScore = 10
    Reward = 1
    Punish = 2
    Kill = 3
    Parole = 2
    Latencies = {1, 2, 3}
    Users = {u1, u2}
    NoEntry = NoEntry
SYMMETRY UserSymmetry
INVARIANT SelectedInService
PROPERTY LastResort
PROPERTY LongestBenchedFirst
