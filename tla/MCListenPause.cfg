SPECIFICATION Spec
CONSTANTS
    Speakers = {a, b}
    Keep = 5
    Context = 2
    CommandQuiet = 2
    CommandMax = 1
    Debounce = 2
    UtteranceGap = 1
    MaxSilence = 3
    WakesCap = 1
    Horizon = 10
    MaxPackets = 5
SYMMETRY SpeakerSymmetry
INVARIANT ConversationInOrder
CHECK_DEADLOCK FALSE
