------------------------------ MODULE SongCache ------------------------------
(***************************************************************************)
(* The song download service of discord-bot/music/ytdl.go, shared by every *)
(* guild's player.  A query is looked up in the cache, downloaded by one   *)
(* caller while the others wait for it, and stored; the eviction queue     *)
(* holds the queries in the order they were stored and names the one whose *)
(* file goes when there are more than max_tracks.                          *)
(*                                                                         *)
(* Two locks: clock over the cache and the eviction queue, lock over the   *)
(* downloads under way.  A section under either is one action; the lookup  *)
(* under lock cannot be overtaken by the end of a download, which needs    *)
(* lock too, so it is one action with its cache lookup.                    *)
(*                                                                         *)
(* A song stands for its file, named after its title: different queries    *)
(* may find the same song.  Nothing empties the download folder, so it     *)
(* holds what earlier runs left; a download that fails may leave its file, *)
(* whole or in part; and os.Remove may fail for reasons of its own.        *)
(***************************************************************************)
EXTENDS Integers, Sequences, FiniteSets

CONSTANTS
    Queries,        \* formatted queries
    Files,          \* of songs, by their titles
    SongOf,         \* what yt-dlp finds for a query
    MaxTracks,      \* music.cache.max_tracks
    Callers,        \* goroutines in Search
    NoCaller, NoQuery

ASSUME SongCacheAssumption ==
    /\ SongOf \in [Queries -> Files]
    /\ MaxTracks \in Nat \ {0}
    /\ NoCaller \notin Callers /\ NoQuery \notin Queries

VARIABLES
    cache,          \* queries s.cache has an entry for
    evictionQueue,  \* queries, oldest first
    downloading,    \* per query the caller whose WaitGroup is registered
    disk,           \* songs whose file exists
    strays,         \* history: of these, those of an earlier run or a failed search
    pc,             \* where each Search is
    query,          \* what it looks for, if it is in one
    waitsFor        \* the caller whose WaitGroup it waits on

storeVars == <<cache, evictionQueue, disk, strays>>
cacheVars == <<storeVars, downloading, pc, query, waitsFor>>

CacheInit ==
    /\ cache = {} /\ evictionQueue = <<>>
    /\ disk \in SUBSET Files /\ strays = disk
    /\ downloading = [q \in Queries |-> NoCaller]
    /\ pc = [c \in Callers |-> "idle"]
    /\ query = [c \in Callers |-> NoQuery]
    /\ waitsFor = [c \in Callers |-> NoCaller]

-----------------------------------------------------------------------------
(* The search returns, with a song or an error: what it kept is gone. *)
Return(c) ==
    /\ pc' = [pc EXCEPT ![c] = "idle"]
    /\ query' = [query EXCEPT ![c] = NoQuery]

(* Search tries the cache before it takes the lock; a hit changes nothing. *)
Search(c, q) ==
    /\ pc[c] = "idle" /\ q \notin cache
    /\ pc' = [pc EXCEPT ![c] = "missed"]
    /\ query' = [query EXCEPT ![c] = q]
    /\ UNCHANGED <<storeVars, downloading, waitsFor>>

JoinOrLead(c) ==
    IF downloading[query[c]] # NoCaller
    THEN /\ pc' = [pc EXCEPT ![c] = "waiting"]
         /\ waitsFor' = [waitsFor EXCEPT ![c] = downloading[query[c]]]
         /\ UNCHANGED <<downloading, query>>
    ELSE /\ pc' = [pc EXCEPT ![c] = "downloading"]
         /\ downloading' = [downloading EXCEPT ![query[c]] = c]
         /\ UNCHANGED <<waitsFor, query>>

(* Mutant: no second look at the cache. *)
DecideAtOnce(c) ==
    /\ pc[c] = "missed"
    /\ JoinOrLead(c)
    /\ UNCHANGED storeVars

(* Under lock: found after all, somebody else's to wait for, or its own.   *)
Decide(c) ==
    /\ pc[c] = "missed"
    /\ IF query[c] \in cache
       THEN Return(c) /\ UNCHANGED <<downloading, waitsFor>>
       ELSE JoinOrLead(c)
    /\ UNCHANGED storeVars

(* yt-dlp fails, is killed by search_timeout or says nothing useful, with  *)
(* or without a file to show for it.                                       *)
DownloadFails(c) ==
    /\ pc[c] = "downloading"
    /\ pc' = [pc EXCEPT ![c] = "leaving"]
    /\ \E left \in SUBSET {SongOf[query[c]]} :
          disk' = disk \cup left /\ strays' = strays \cup left
    /\ UNCHANGED <<cache, evictionQueue, downloading, query, waitsFor>>

(* The file is there: downloaded now, completed (Continue) or left alone    *)
(* (NoOverwrites).                                                         *)
Download(c) ==
    /\ pc[c] = "downloading"
    /\ pc' = [pc EXCEPT ![c] = "downloaded"]
    /\ disk' = disk \cup {SongOf[query[c]]}
    /\ strays' = strays \ {SongOf[query[c]]}
    /\ UNCHANGED <<cache, evictionQueue, downloading, query, waitsFor>>

(* The error return of a store that could not remove a file: the victim's  *)
(* file stays, if it was there, and so does that of the search itself.     *)
RemoveFails(c, remove) ==
    /\ strays' = strays \cup (disk \cap {SongOf[q] : q \in {query[c]} \cup (cache \cap {remove})})
    /\ UNCHANGED disk

RemoveSucceeds(c, remove) ==
    /\ remove \in cache /\ SongOf[remove] \in disk
    /\ disk' = disk \ {SongOf[remove]}
    /\ UNCHANGED strays

(* Mutant: the victim leaves the cache once its file is gone, not before. *)
StoreRemovesFirst(c) ==
    LET remove == Head(evictionQueue)
    IN  /\ pc[c] = "downloaded"
        /\ pc' = [pc EXCEPT ![c] = "leaving"]
        /\ evictionQueue' = Append(IF Len(evictionQueue) = MaxTracks
                                   THEN Tail(evictionQueue) ELSE evictionQueue, query[c])
        /\ IF Len(evictionQueue) < MaxTracks
           THEN /\ cache' = cache \cup {query[c]}
                /\ UNCHANGED <<disk, strays>>
           ELSE \/ /\ RemoveSucceeds(c, remove)
                   /\ cache' = (cache \ {remove}) \cup {query[c]}
                \/ RemoveFails(c, remove) /\ UNCHANGED cache
        /\ UNCHANGED <<downloading, query, waitsFor>>

(* The song is stored, under clock.  Past max_tracks the oldest entry goes  *)
(* and its file with it.  When the file cannot be removed, an oldest query *)
(* with no entry and so no path among the reasons, the search fails with   *)
(* that entry gone and its own query in the eviction queue.                *)
Store(c) ==
    LET q == query[c]
        full == Len(evictionQueue) = MaxTracks
        remove == Head(evictionQueue)
    IN  /\ pc[c] = "downloaded"
        /\ pc' = [pc EXCEPT ![c] = "leaving"]
        /\ evictionQueue' = Append(IF full THEN Tail(evictionQueue) ELSE evictionQueue, q)
        /\ \/ /\ ~full
              /\ cache' = cache \cup {q}
              /\ UNCHANGED <<disk, strays>>
           \/ /\ full /\ RemoveSucceeds(c, remove)
              /\ cache' = (cache \ {remove}) \cup {q}
           \/ /\ full /\ RemoveFails(c, remove)
              /\ cache' = cache \ {remove}
        /\ UNCHANGED <<downloading, query, waitsFor>>

(* The deferred end: the download is deregistered... *)
Deregister(c) ==
    /\ pc[c] = "leaving"
    /\ pc' = [pc EXCEPT ![c] = "deregistered"]
    /\ downloading' = [downloading EXCEPT ![query[c]] = NoCaller]
    /\ UNCHANGED <<storeVars, query, waitsFor>>

(* Mutant: a failed or finished download lets nobody go. *)
DoneForNone(c) ==
    /\ pc[c] = "deregistered"
    /\ Return(c)
    /\ UNCHANGED <<storeVars, downloading, waitsFor>>

(* ...and then its waiters are let go. *)
Done(c) ==
    /\ pc[c] = "deregistered"
    /\ pc' = [d \in Callers |->
                IF d = c THEN "idle"
                ELSE IF waitsFor[d] = c THEN "woken" ELSE pc[d]]
    /\ query' = [query EXCEPT ![c] = NoQuery]
    /\ waitsFor' = [d \in Callers |-> IF waitsFor[d] = c THEN NoCaller ELSE waitsFor[d]]
    /\ UNCHANGED <<storeVars, downloading>>

(* A waiter looks in the cache: the song, or an error when the download    *)
(* failed or it has been evicted since.                                    *)
Wake(c) ==
    /\ pc[c] = "woken"
    /\ Return(c)
    /\ UNCHANGED <<storeVars, downloading, waitsFor>>

CacheNext ==
    \E c \in Callers :
        \/ \E q \in Queries : Search(c, q)
        \/ Decide(c) \/ DownloadFails(c) \/ Download(c) \/ Store(c)
        \/ Deregister(c) \/ Done(c) \/ Wake(c)

CacheSpec == CacheInit /\ [][CacheNext]_cacheVars

(* Goroutines run and a download ends, by its timeout if need be. *)
CacheFairness ==
    \A c \in Callers :
        /\ WF_cacheVars(Decide(c)) /\ WF_cacheVars(DownloadFails(c) \/ Download(c))
        /\ WF_cacheVars(Store(c)) /\ WF_cacheVars(Deregister(c)) /\ WF_cacheVars(Done(c))
        /\ WF_cacheVars(Wake(c))

FairCacheSpec == CacheSpec /\ CacheFairness

-----------------------------------------------------------------------------
States == {"idle", "missed", "waiting", "woken",
           "downloading", "downloaded", "leaving", "deregistered"}

Leads(c) == pc[c] \in {"downloading", "downloaded", "leaving"}

(* Every variable keeps its shape and the eviction queue its capacity. *)
CacheTypeOK ==
    /\ cache \subseteq Queries
    /\ evictionQueue \in Seq(Queries) /\ Len(evictionQueue) <= MaxTracks
    /\ downloading \in [Queries -> Callers \cup {NoCaller}]
    /\ disk \subseteq Files /\ strays \subseteq Files
    /\ pc \in [Callers -> States]
    /\ query \in [Callers -> Queries \cup {NoQuery}]
    /\ waitsFor \in [Callers -> Callers \cup {NoCaller}]

(* "we don't want to double download": no two callers are at the same      *)
(* query, and none is at one that somebody has just stored.                *)
SingleFlight ==
    \A c \in Callers : Leads(c) =>
        /\ \A d \in Callers : Leads(d) /\ query[d] = query[c] => d = c
        /\ pc[c] # "leaving" => query[c] \notin cache

(* What is cached is in line for eviction. *)
CachedInLine == cache \subseteq {evictionQueue[i] : i \in 1 .. Len(evictionQueue)}

(* Whatever fails, what is cached is in line for eviction.  And with a     *)
(* file to a query every file on disk is accounted for: that of a cached   *)
(* query is there, and one of no cached query is still to be stored, or    *)
(* was left by an earlier run or by a search that failed, never by one     *)
(* that succeeded.                                                         *)
CacheAgrees ==
    LET kept == {SongOf[q] : q \in cache}
        owed == {SongOf[query[c]] : c \in {d \in Callers : pc[d] = "downloaded"}}
    IN  /\ CachedInLine
        /\ disk = kept \cup owed \cup strays
        /\ strays \cap (kept \cup owed) = {}

(* config/model-citizen.toml:34, "How many downloaded songs to keep; the   *)
(* oldest is deleted past this": no more than max_tracks at rest, those    *)
(* apart that failures and earlier runs left...                            *)
KeepsMaxTracks ==
    (\A c \in Callers : pc[c] = "idle") => Cardinality(disk \ strays) <= MaxTracks

(* ...and those that are kept are there.                                   *)
KeptIsThere == \A q \in cache : SongOf[q] \in disk

(* Every search ends: a leader never leaves a waiter behind, whether it    *)
(* fails, stores or finds its query evicted, and whoever leads next.       *)
SearchesEnd == \A c \in Callers : pc[c] # "idle" ~> pc[c] = "idle"
=============================================================================
