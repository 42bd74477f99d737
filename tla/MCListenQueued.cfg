SPECIFICATION Spec
CONSTANTS
    Speakers = {a, b}
    Keep = 4
    Context = 2
    CommandQuiet = 1
    CommandMax = 1
    Debounce = 2
    UtteranceGap = 1
    MaxSilence = 3
    WakesCap = 1
    Horizon = 9
    MaxPackets = 5
SYMMETRY SpeakerSymmetry
INVARIANT WindowSuffices
CHECK_DEADLOCK FALSE
