SPECIFICATION FairSpec
CONSTANTS
    Music = music
    Speech = speech
    Ids = {music, speech}
    Songs = {s1, s2}
    Clips = {clip}
    Layers = {s1, s2, clip}
    NoLayer = NoLayer
    BufferFrames = 1
    QueueCapacity = 1
    Askers = {a1}
    Controls = {"skip"}
PROPERTY SongsGetTheirTurn
PROPERTY LayersEnd
