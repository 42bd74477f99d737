SPECIFICATION Spec
CONSTANTS
    Music = music
    Speech = speech
    Ids = {music, speech}
    Songs = {s1, s2, s3}
    Clips = {}
    Layers = {s1, s2, s3}
    NoLayer = NoLayer
    BufferFrames = 1
    QueueCapacity = 2
    Askers = {a1, a2}
    Controls = {"skip", "stop", "leave"}
SYMMETRY Symmetry
INVARIANT OneChain
INVARIANT NoStrandedSong
INVARIANT RegisterSucceeds
INVARIANT StopMissesAtMostOne
PROPERTY ImplementsJukebox
