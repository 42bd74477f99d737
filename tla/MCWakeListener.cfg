SPECIFICATION FairSpec
CONSTANTS
    Speakers = {a, b}
    Keep = 5
    Context = 2
    CommandQuiet = 2
    CommandMax = 1
    Debounce = 2
    UtteranceGap = 1
    MaxSilence = 3
    WakesCap = 1
    Horizon = 8
    MaxPackets = 4
INVARIANT NoSpeechSkipped
INVARIANT TurnsInOrder
PROPERTY NothingTwice
PROPERTY WakesAnswered
CHECK_DEADLOCK FALSE
