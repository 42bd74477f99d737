SPECIFICATION FairStartupSpec
CONSTANTS
    None = None
    Names = {"citizen", "butler"}
    VoiceNames = {"deep", "high"}
    Prompts = {"citizen.md", "butler.md"}
    MaxEdits = 2
    NoName = NoName
INVARIANT AcceptedStarts
INVARIANT SpeakHasVoice
PROPERTY ShutdownEnds
