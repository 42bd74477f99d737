SPECIFICATION Spec
CONSTANTS
    Music = music
    Speech = speech
    Ids = {music, speech}
    Songs = {s1, s2}
    Clips = {}
    Layers = {s1, s2}
    NoLayer = NoLayer
    BufferFrames = 1
    QueueCapacity = 2
    Askers = {a1}
    Controls = {"skip", "stop", "leave"}
PROPERTY OnlyDrySongsEvicted
