SPECIFICATION Spec
CONSTANTS
    Length = 2
    BenchScore = 1
    Reward = 0
    Punish = 0
    Kill = 0
    Parole = 1
    Latencies = {}
    Users = {m1, m2}
    NoEntry = NoEntry
    Keys = {"channel", "short_term"}
    Channel = "channel"
    ShortTerm = "short_term"
    HistorySize = 1
    NoHolder = NoHolder
    Mentions = {m1, m2}
    MaxToolRounds = 2
    CallNames = {"x"}
    MaxNotes = 1
    Completions <- OneByOne
    Personalities = {"default", "other"}
    Default = "default"
    NoPersonality = NoPersonality
    Talkative = {1}
SYMMETRY MessageSymmetry
INVARIANT KeepsNewest
