SPECIFICATION FairCacheSpec
CONSTANTS
    Queries = {1, 2, 3}
    Files = {1, 2, 3}
    SongOf <- Distinct
    MaxTracks = 2
    Callers = {c1, c2, c3}
    NoCaller = NoCaller
    NoQuery = NoQuery
INVARIANTS SingleFlight CacheAgrees
PROPERTY SearchesEnd
