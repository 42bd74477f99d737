SPECIFICATION CacheSpec
CONSTANTS
    Queries = {1, 2, 3, 4}
    Files = {2, 3, 4}
    SongOf <- Twins
    MaxTracks = 1
    Callers = {c1}
    NoCaller = NoCaller
    NoQuery = NoQuery
INVARIANT KeptIsThere
