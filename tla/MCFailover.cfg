SPECIFICATION FairSpec
CONSTANTS
    Length = 3
    BenchScore = 4
    Reward = 1
    Punish = 2
    Kill = 3
    Parole = 3
    Latencies = {1, 2, 3}
    Users = {c1, c2}
    NoEntry = NoEntry
    PerClient = 2
    Steady = {2}
INVARIANT TypeOK
INVARIANT SteadyClientAnswers
PROPERTY OnlyBenchedIsLeft
PROPERTY CallsEnd
