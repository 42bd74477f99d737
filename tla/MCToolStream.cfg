SPECIFICATION FairSpec
CONSTANTS
    Tools = {t1}
    Streams = {st1, st2}
    NoStream = NoStream
    Ids = {i1, i2}
    MaxRestarts = 1
    MaxFaults = 2
INVARIANTS NewestStreamGetsCalls ResultsMatch
PROPERTIES CallsEnd BotComesBack
CHECK_DEADLOCK FALSE
