SPECIFICATION FairSpec
CONSTANTS
    Tools = {t1}
    Streams = {st1, st2}
    NoStream = NoStream
    Ids = {i1}
    MaxRestarts = 1
    MaxFaults = 0
PROPERTY ToolsComeBack
CHECK_DEADLOCK FALSE
