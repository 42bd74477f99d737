----------------------------- MODULE MusicProofs -----------------------------
(***************************************************************************)
(* The music's two halves: the player a guild has, for any number of       *)
(* songs, clips and users, and the song cache the guilds share, for any    *)
(* number of callers, queries and tracks.                                  *)
(*                                                                         *)
(* The player's types, that its songs are played by one chain of           *)
(* goroutines which loses none, and that it is a Jukebox.  The chain is    *)
(* counted: start() goroutines, the one that holds a song and the watchers *)
(* together are one while `started' is set.  With the song on air watched, *)
(* a start() that takes a song then finds no song on air.                  *)
(*                                                                         *)
(* The cache's types, that no song is downloaded twice at once or while it *)
(* is cached, that cache, eviction queue and disk agree unless two queries *)
(* find the same song, and that no search waits for one that waits.        *)
(***************************************************************************)
EXTENDS MusicPlayer, SongCache, FiniteSetTheorems, TLAPS

(* The song cache *)

(* The WaitGroup registered for a query is that of the one caller leading  *)
(* it, and a caller in a search has a query.                               *)
LeadersRegistered == \A c \in Callers : Leads(c) => downloading[query[c]] = c
SearchersQuery == \A c \in Callers : pc[c] # "idle" => query[c] \in Queries
WaitersWait == \A c \in Callers : waitsFor[c] # NoCaller => pc[c] = "waiting"
NotStored ==
    \A c \in Callers : pc[c] \in {"downloading", "downloaded"} => query[c] \notin cache

CacheInv == CacheTypeOK /\ LeadersRegistered /\ SearchersQuery /\ WaitersWait /\ NotStored

USE DEF storeVars, States

(* Initially nobody leads. *)
LEMMA CacheInitially == CacheInit => CacheInv
BY SongCacheAssumption
   DEF CacheInit, CacheInv, CacheTypeOK, LeadersRegistered, SearchersQuery, WaitersWait,
       NotStored, Leads

(* The eviction queue stays a queue of at most MaxTracks queries. *)
LEMMA QueueKeeps ==
    ASSUME NEW s \in Seq(Queries), Len(s) <= MaxTracks, NEW q \in Queries
    PROVE  LET t == Append(IF Len(s) = MaxTracks THEN Tail(s) ELSE s, q)
           IN  t \in Seq(Queries) /\ Len(t) <= MaxTracks
<1>1. CASE Len(s) = MaxTracks
  <2>1. s # <<>> BY <1>1, SongCacheAssumption
  <2>2. Tail(s) \in Seq(Queries) /\ Len(Tail(s)) = Len(s) - 1 BY <2>1
  <2> QED BY <1>1, <2>2, SongCacheAssumption
<1>2. CASE Len(s) # MaxTracks
  BY <1>2, SongCacheAssumption
<1> QED BY <1>1, <1>2

(* Each step keeps the types... *)
LEMMA CacheTypeStep ==
    ASSUME CacheInv, [CacheNext]_cacheVars
    PROVE  CacheTypeOK'
<1> USE DEF CacheInv, CacheTypeOK, SearchersQuery
<1>1. ASSUME NEW c \in Callers, NEW q \in Queries, Search(c, q) PROVE CacheTypeOK'
  BY <1>1 DEF Search
<1>2. ASSUME NEW c \in Callers, Decide(c) PROVE CacheTypeOK'
  <2>1. query[c] \in Queries BY <1>2 DEF Decide
  <2> QED BY <1>2, <2>1 DEF Decide, JoinOrLead, Return
<1>3. ASSUME NEW c \in Callers, DownloadFails(c) PROVE CacheTypeOK'
  <2>1. query[c] \in Queries BY <1>3 DEF DownloadFails
  <2>2. SongOf[query[c]] \in Files BY <2>1, SongCacheAssumption
  <2> QED BY <1>3, <2>2 DEF DownloadFails
<1>4. ASSUME NEW c \in Callers, Download(c) PROVE CacheTypeOK'
  <2>1. query[c] \in Queries BY <1>4 DEF Download
  <2>2. SongOf[query[c]] \in Files BY <2>1, SongCacheAssumption
  <2> QED BY <1>4, <2>2 DEF Download
<1>5. ASSUME NEW c \in Callers, Store(c) PROVE CacheTypeOK'
  <2>1. query[c] \in Queries BY <1>5 DEF Store
  <2>2. evictionQueue' \in Seq(Queries) /\ Len(evictionQueue') <= MaxTracks
    BY <1>5, <2>1, QueueKeeps DEF Store
  <2>3. cache' \subseteq Queries /\ disk' \subseteq Files /\ strays' \subseteq Files
    BY <1>5, <2>1 DEF Store, RemoveSucceeds, RemoveFails
  <2>4. pc' \in [Callers -> States]
    BY <1>5 DEF Store
  <2>5. UNCHANGED <<downloading, query, waitsFor>> BY <1>5 DEF Store
  <2> QED BY <2>2, <2>3, <2>4, <2>5
<1>6. ASSUME NEW c \in Callers, Deregister(c) PROVE CacheTypeOK'
  BY <1>6 DEF Deregister
<1>7. ASSUME NEW c \in Callers, Done(c) PROVE CacheTypeOK'
  BY <1>7 DEF Done
<1>8. ASSUME NEW c \in Callers, Wake(c) PROVE CacheTypeOK'
  BY <1>8 DEF Wake, Return
<1>9. CASE UNCHANGED cacheVars
  BY <1>9 DEF cacheVars
<1> QED BY <1>1, <1>2, <1>3, <1>4, <1>5, <1>6, <1>7, <1>8, <1>9 DEF CacheNext

(* ...and who leads what. *)
LEMMA LeadStep ==
    ASSUME CacheInv, [CacheNext]_cacheVars
    PROVE  LeadersRegistered' /\ SearchersQuery' /\ WaitersWait' /\ NotStored'
<1> USE DEF CacheInv, CacheTypeOK, LeadersRegistered, SearchersQuery, WaitersWait, NotStored, Leads
<1>1. ASSUME NEW c \in Callers, NEW q \in Queries, Search(c, q)
      PROVE  LeadersRegistered' /\ SearchersQuery' /\ WaitersWait' /\ NotStored'
  BY <1>1 DEF Search
<1>2. ASSUME NEW c \in Callers, Decide(c)
      PROVE  LeadersRegistered' /\ SearchersQuery' /\ WaitersWait' /\ NotStored'
  <2>0. query[c] \in Queries /\ cache' = cache BY <1>2 DEF Decide
  <2>1. CASE query[c] \in cache \/ downloading[query[c]] # NoCaller
    BY <1>2, <2>0, <2>1 DEF Decide, JoinOrLead, Return
  <2>2. CASE query[c] \notin cache /\ downloading[query[c]] = NoCaller
    <3>1. /\ query' = query
          /\ pc' = [pc EXCEPT ![c] = "downloading"]
          /\ downloading' = [downloading EXCEPT ![query[c]] = c]
      BY <1>2, <2>2 DEF Decide, JoinOrLead
    <3>2. \A d \in Callers : Leads(d) => query[d] # query[c]
      BY <2>2, SongCacheAssumption
    <3>3. LeadersRegistered' BY <2>0, <3>1, <3>2
    <3>4. SearchersQuery' /\ WaitersWait' BY <1>2, <2>0, <2>2, <3>1 DEF Decide, JoinOrLead
    <3>5. NotStored' BY <2>0, <2>2, <3>1
    <3> QED BY <3>3, <3>4, <3>5
  <2> QED BY <2>1, <2>2
<1>3. ASSUME NEW c \in Callers, DownloadFails(c)
      PROVE  LeadersRegistered' /\ SearchersQuery' /\ WaitersWait' /\ NotStored'
  BY <1>3 DEF DownloadFails
<1>4. ASSUME NEW c \in Callers, Download(c)
      PROVE  LeadersRegistered' /\ SearchersQuery' /\ WaitersWait' /\ NotStored'
  BY <1>4 DEF Download
<1>5. ASSUME NEW c \in Callers, Store(c)
      PROVE  LeadersRegistered' /\ SearchersQuery' /\ WaitersWait' /\ NotStored'
  <2>1. /\ pc[c] = "downloaded" /\ pc' = [pc EXCEPT ![c] = "leaving"]
        /\ cache' \subseteq cache \cup {query[c]}
        /\ UNCHANGED <<downloading, query, waitsFor>>
    BY <1>5 DEF Store
  <2>2. \A d \in Callers : Leads(d) /\ query[d] = query[c] => d = c
    BY <2>1
  <2>3. LeadersRegistered' /\ SearchersQuery' /\ WaitersWait' BY <2>1
  <2>4. NotStored' BY <2>1, <2>2
  <2> QED BY <2>3, <2>4
<1>6. ASSUME NEW c \in Callers, Deregister(c)
      PROVE  LeadersRegistered' /\ SearchersQuery' /\ WaitersWait' /\ NotStored'
  <2>1. /\ pc[c] = "leaving" /\ pc' = [pc EXCEPT ![c] = "deregistered"]
        /\ downloading' = [downloading EXCEPT ![query[c]] = NoCaller]
        /\ UNCHANGED <<cache, query, waitsFor>>
    BY <1>6 DEF Deregister
  <2>2. \A d \in Callers : Leads(d) /\ query[d] = query[c] => d = c
    BY <2>1
  <2> QED BY <2>1, <2>2
<1>7. ASSUME NEW c \in Callers, Done(c)
      PROVE  LeadersRegistered' /\ SearchersQuery' /\ WaitersWait' /\ NotStored'
  <2>1. \A d \in Callers : waitsFor[d] = c => pc[d] = "waiting"
    BY SongCacheAssumption
  <2>2. \A d \in Callers : pc'[d] = pc[d] \/ pc'[d] = "idle"
                              \/ (pc[d] = "waiting" /\ pc'[d] = "woken")
    BY <1>7, <2>1 DEF Done
  <2>3. \A d \in Callers : waitsFor'[d] # NoCaller => pc'[d] = "waiting"
    BY <1>7, SongCacheAssumption DEF Done
  <2>4. UNCHANGED <<cache, downloading>> /\ query' = [query EXCEPT ![c] = NoQuery]
    BY <1>7 DEF Done
  <2>5. pc[c] = "deregistered" /\ pc'[c] = "idle" BY <1>7 DEF Done
  <2> QED BY <2>2, <2>3, <2>4, <2>5
<1>8. ASSUME NEW c \in Callers, Wake(c)
      PROVE  LeadersRegistered' /\ SearchersQuery' /\ WaitersWait' /\ NotStored'
  BY <1>8 DEF Wake, Return
<1>9. CASE UNCHANGED cacheVars
  BY <1>9 DEF cacheVars
<1> QED BY <1>1, <1>2, <1>3, <1>4, <1>5, <1>6, <1>7, <1>8, <1>9 DEF CacheNext

(* No song is downloaded by two callers at once, nor again once stored,    *)
(* however many callers search: ytdl.go's double-checked lookup under lock. *)
THEOREM NoDoubleDownload == CacheSpec => [](CacheTypeOK /\ SingleFlight)
<1>1. CacheInv /\ [CacheNext]_cacheVars => CacheInv'
  BY CacheTypeStep, LeadStep DEF CacheInv
<1>2. CacheInv => CacheTypeOK /\ SingleFlight
  BY DEF CacheInv, CacheTypeOK, LeadersRegistered, SearchersQuery, WaitersWait, NotStored,
         SingleFlight, Leads
<1> QED BY CacheInitially, <1>1, <1>2, PTL DEF CacheSpec

-----------------------------------------------------------------------------
(* Every query finds a song of its own, as MCSongTwins's do not. *)
SongsApart == \A q, r \in Queries : SongOf[q] = SongOf[r] => q = r

(* The account of the files. *)
KeptFiles == {SongOf[q] : q \in cache}
Owed == {SongOf[query[c]] : c \in {d \in Callers : pc[d] = "downloaded"}}
Filed == disk = KeptFiles \cup Owed \cup strays /\ strays \cap (KeptFiles \cup Owed) = {}

(* What a sequence holds less its head, and with one more. *)
LEMMA TailHolds ==
    ASSUME NEW s \in Seq(Queries), s # <<>>, NEW t, t = Tail(s)
    PROVE  {s[i] : i \in 1 .. Len(s)} \ {Head(s)} \subseteq {t[i] : i \in 1 .. Len(t)}
<1>1. /\ Len(s) \in Nat /\ Len(t) = Len(s) - 1 /\ Len(s) > 0 /\ Head(s) = s[1]
      /\ \A i \in 2 .. Len(s) : t[i - 1] = s[i]
  OBVIOUS
<1>2. ASSUME NEW i \in 1 .. Len(s), s[i] # Head(s)
      PROVE  s[i] \in {t[j] : j \in 1 .. Len(t)}
  <2>1. i - 1 \in 1 .. Len(t) /\ t[i - 1] = s[i] BY <1>1, <1>2
  <2> QED BY <2>1
<1> QED BY <1>2

LEMMA AppendHolds ==
    ASSUME NEW s \in Seq(Queries), NEW q \in Queries, NEW t, t = Append(s, q),
           NEW x \in {s[i] : i \in 1 .. Len(s)} \cup {q}
    PROVE  x \in {t[i] : i \in 1 .. Len(t)}
<1>1. /\ Len(s) \in Nat /\ Len(t) = Len(s) + 1 /\ t[Len(s) + 1] = q
      /\ \A i \in 1 .. Len(s) : t[i] = s[i]
  OBVIOUS
<1>2. 1 .. Len(t) = (1 .. Len(s)) \cup {Len(s) + 1} BY <1>1
<1> QED BY <1>1, <1>2

(* What a store drops from the queue it drops from the cache first, whether *)
(* or not the file goes.                                                   *)
LEMMA LineStep ==
    ASSUME CacheInv, CachedInLine, [CacheNext]_cacheVars
    PROVE  CachedInLine'
<1>1. ASSUME NEW c \in Callers, Store(c) PROVE CachedInLine'
  <2> DEFINE full == Len(evictionQueue) = MaxTracks
             rest == IF full THEN Tail(evictionQueue) ELSE evictionQueue
  <2>1. query[c] \in Queries /\ evictionQueue \in Seq(Queries)
    BY <1>1 DEF CacheInv, CacheTypeOK, SearchersQuery, Store
  <2>2. full => evictionQueue # <<>> BY SongCacheAssumption
  <2>3. evictionQueue' = Append(rest, query[c]) BY <1>1 DEF Store
  <2>4. /\ cache' \subseteq cache \cup {query[c]}
        /\ \A x \in cache' : x # query[c] /\ full => x # Head(evictionQueue)
    BY <1>1 DEF Store
  <2>5. rest \in Seq(Queries) BY <2>1, <2>2
  <2>6. ASSUME NEW x \in cache', x # query[c] PROVE x \in {rest[i] : i \in 1 .. Len(rest)}
    <3>1. x \in {evictionQueue[i] : i \in 1 .. Len(evictionQueue)}
      BY <2>4, <2>6 DEF CachedInLine
    <3>2. CASE full
      <4>1. evictionQueue # <<>> /\ x # Head(evictionQueue) BY <2>2, <2>4, <2>6, <3>2
      <4>2. rest = Tail(evictionQueue) BY <3>2
      <4> DEFINE t == Tail(evictionQueue)
      <4>3. {evictionQueue[i] : i \in 1 .. Len(evictionQueue)} \ {Head(evictionQueue)}
                \subseteq {t[i] : i \in 1 .. Len(t)}
        BY <2>1, <4>1, TailHolds
      <4> HIDE DEF t, rest
      <4> QED BY <3>1, <4>1, <4>3, <4>2 DEF t
    <3>3. CASE ~full BY <3>1, <3>3
    <3> QED BY <3>2, <3>3
  <2> HIDE DEF full, rest
  <2>7. ASSUME NEW x \in cache'
        PROVE  x \in {evictionQueue'[i] : i \in 1 .. Len(evictionQueue')}
    BY <2>1, <2>3, <2>5, <2>6, AppendHolds
  <2> QED BY <2>7 DEF CachedInLine
<1>2. ASSUME UNCHANGED <<cache, evictionQueue>> PROVE CachedInLine'
  BY <1>2 DEF CachedInLine
<1> QED BY <1>1, <1>2 DEF CacheNext, cacheVars, Search, Decide, DownloadFails, Download,
                          Deregister, Done, Wake

(* A song stored under its own name displaces the oldest and its file; one *)
(* that cannot leaves its file, and that of the oldest, astray.            *)
LEMMA FiledStore ==
    ASSUME CacheInv, SongsApart, Filed, NEW c \in Callers, Store(c)
    PROVE  Filed'
<1> DEFINE q == query[c]
           others == {d \in Callers : pc[d] = "downloaded"} \ {c}
           rest == {SongOf[query[d]] : d \in others}
           h == Head(evictionQueue)
<1>1. /\ q \in Queries /\ q \notin cache /\ pc[c] = "downloaded"
      /\ cache \subseteq Queries
  BY DEF CacheInv, CacheTypeOK, SearchersQuery, NotStored, Store
<1>2. \A d \in others : query[d] \in Queries /\ query[d] \notin cache /\ query[d] # q
  BY <1>1 DEF CacheInv, SearchersQuery, NotStored, LeadersRegistered, Leads
<1>3. pc' = [pc EXCEPT ![c] = "leaving"] /\ query' = query BY DEF Store
<1>4. {d \in Callers : pc'[d] = "downloaded"} = others
  BY <1>3 DEF CacheInv, CacheTypeOK
<1>5. Owed' = rest BY <1>3, <1>4 DEF Owed
<1>6. Owed = rest \cup {SongOf[q]} BY <1>1 DEF Owed
<1>7. SongOf[q] \notin rest BY <1>1, <1>2 DEF SongsApart
<1>8. SongOf[q] \notin KeptFiles BY <1>1 DEF SongsApart, KeptFiles
<1>9. ASSUME cache' = cache \cup {q}, disk' = disk, strays' = strays PROVE Filed'
  <2>1. KeptFiles' = KeptFiles \cup {SongOf[q]} BY <1>9 DEF KeptFiles
  <2> HIDE DEF rest, q
  <2> QED BY <1>5, <1>6, <1>9, <2>1 DEF Filed
<1>10. ASSUME cache' = (cache \ {h}) \cup {q}, RemoveSucceeds(c, h) PROVE Filed'
  <2>1. h \in cache /\ disk' = disk \ {SongOf[h]} /\ strays' = strays
    BY <1>10 DEF RemoveSucceeds
  <2>2. KeptFiles' = (KeptFiles \ {SongOf[h]}) \cup {SongOf[q]}
    BY <1>1, <1>10, <2>1 DEF KeptFiles, SongsApart
  <2>3. SongOf[h] \in KeptFiles /\ SongOf[h] \notin rest /\ SongOf[h] # SongOf[q]
    BY <1>1, <1>2, <2>1 DEF KeptFiles, SongsApart
  <2> HIDE DEF rest, q, h
  <2> QED BY <1>5, <1>6, <2>1, <2>2, <2>3 DEF Filed
<1>11. ASSUME cache' = cache \ {h}, RemoveFails(c, h) PROVE Filed'
  <2>1. /\ disk' = disk
        /\ strays' = strays \cup (disk \cap {SongOf[r] : r \in {q} \cup (cache \cap {h})})
    BY <1>11 DEF RemoveFails
  <2> DEFINE victim == {SongOf[r] : r \in cache \cap {h}}
  <2>2. {SongOf[r] : r \in {q} \cup (cache \cap {h})} = {SongOf[q]} \cup victim OBVIOUS
  <2>3. KeptFiles' = KeptFiles \ victim
    <3>1. \A r \in cache \ {h} : SongOf[r] \notin victim BY <1>1 DEF SongsApart
    <3> QED BY <1>11, <3>1 DEF KeptFiles
  <2>4. victim \subseteq KeptFiles BY DEF KeptFiles
  <2>5. victim \cap rest = {} BY <1>1, <1>2 DEF SongsApart
  <2>6. SongOf[q] \in disk /\ victim \subseteq disk BY <1>6, <2>4 DEF Filed
  <2>7. strays' = strays \cup {SongOf[q]} \cup victim BY <2>1, <2>2, <2>6
  <2> HIDE DEF rest, q, victim
  <2> QED BY <1>5, <1>6, <1>7, <1>8, <2>1, <2>3, <2>4, <2>5, <2>7 DEF Filed
<1> QED BY <1>9, <1>10, <1>11 DEF Store

(* The other steps owe a file, or leave one astray. *)
LEMMA FiledStep ==
    ASSUME CacheInv, SongsApart, Filed, [CacheNext]_cacheVars
    PROVE  Filed'
<1>1. ASSUME UNCHANGED storeVars,
             \A d \in Callers : pc'[d] = "downloaded" <=> pc[d] = "downloaded",
             \A d \in Callers : pc[d] = "downloaded" => query'[d] = query[d]
      PROVE  Filed'
  <2>1. Owed' = Owed BY <1>1 DEF Owed
  <2>2. KeptFiles' = KeptFiles BY <1>1 DEF KeptFiles
  <2> QED BY <1>1, <2>1, <2>2 DEF Filed
<1>2. ASSUME NEW c \in Callers, NEW q \in Queries, Search(c, q) PROVE Filed'
  BY <1>1, <1>2 DEF Search, CacheInv, CacheTypeOK
<1>3. ASSUME NEW c \in Callers, Decide(c) PROVE Filed'
  BY <1>1, <1>3 DEF Decide, JoinOrLead, Return, CacheInv, CacheTypeOK
<1>4. ASSUME NEW c \in Callers, pc[c] = "downloading", SongOf[query[c]] \in KeptFiles \cup Owed
      PROVE  FALSE
  <2>1. query[c] \in Queries /\ query[c] \notin cache
    BY <1>4 DEF CacheInv, SearchersQuery, NotStored
  <2>2. SongOf[query[c]] \notin KeptFiles
    BY <2>1 DEF KeptFiles, SongsApart, CacheInv, CacheTypeOK
  <2>3. ASSUME NEW d \in Callers, pc[d] = "downloaded" PROVE query[d] # query[c]
    BY <1>4, <2>3 DEF CacheInv, LeadersRegistered, Leads
  <2>4. \A d \in Callers : pc[d] = "downloaded" => query[d] \in Queries
    BY DEF CacheInv, SearchersQuery
  <2>5. SongOf[query[c]] \notin Owed BY <2>1, <2>3, <2>4 DEF Owed, SongsApart
  <2> QED BY <1>4, <2>2, <2>5
<1>5. ASSUME NEW c \in Callers, DownloadFails(c) PROVE Filed'
  <2>1. pc[c] = "downloading" /\ UNCHANGED <<cache, query>> BY <1>5 DEF DownloadFails
  <2>2. PICK left \in SUBSET {SongOf[query[c]]} :
            disk' = disk \cup left /\ strays' = strays \cup left
    BY <1>5 DEF DownloadFails
  <2>3. {d \in Callers : pc'[d] = "downloaded"} = {d \in Callers : pc[d] = "downloaded"}
    BY <1>5 DEF DownloadFails, CacheInv, CacheTypeOK
  <2>4. Owed' = Owed /\ KeptFiles' = KeptFiles BY <2>1, <2>3 DEF Owed, KeptFiles
  <2>5. SongOf[query[c]] \notin KeptFiles \cup Owed BY <1>4, <2>1
  <2> QED BY <2>2, <2>4, <2>5 DEF Filed
<1>6. ASSUME NEW c \in Callers, Download(c) PROVE Filed'
  <2>1. {d \in Callers : pc'[d] = "downloaded"} = {d \in Callers : pc[d] = "downloaded"} \cup {c}
    BY <1>6 DEF Download, CacheInv, CacheTypeOK
  <2>2. Owed' = Owed \cup {SongOf[query[c]]} BY <1>6, <2>1 DEF Download, Owed
  <2>3. KeptFiles' = KeptFiles BY <1>6 DEF Download, KeptFiles
  <2>4. /\ disk' = disk \cup {SongOf[query[c]]}
        /\ strays' = strays \ {SongOf[query[c]]}
    BY <1>6 DEF Download
  <2> QED BY <2>2, <2>3, <2>4 DEF Filed
<1>7. ASSUME NEW c \in Callers, Deregister(c) PROVE Filed'
  BY <1>1, <1>7 DEF Deregister, CacheInv, CacheTypeOK
<1>8. ASSUME NEW c \in Callers, Done(c) PROVE Filed'
  <2>1. \A d \in Callers : waitsFor[d] = c => pc[d] = "waiting"
    BY SongCacheAssumption DEF CacheInv, WaitersWait
  <2>2. \A d \in Callers : pc'[d] = "downloaded" <=> pc[d] = "downloaded"
    BY <1>8, <2>1 DEF Done
  <2>3. \A d \in Callers : d # c => query'[d] = query[d]
    BY <1>8 DEF Done, CacheInv, CacheTypeOK
  <2>4. pc[c] = "deregistered" /\ UNCHANGED storeVars BY <1>8 DEF Done
  <2> QED BY <1>1, <2>2, <2>3, <2>4
<1>9. ASSUME NEW c \in Callers, Wake(c) PROVE Filed'
  BY <1>1, <1>9 DEF Wake, Return, CacheInv, CacheTypeOK
<1>10. CASE UNCHANGED cacheVars BY <1>1, <1>10 DEF cacheVars
<1> QED BY <1>2, <1>3, <1>5, <1>6, <1>7, <1>8, <1>9, <1>10, FiledStore DEF CacheNext

(* Whatever order songs are found, stored and evicted in, and whatever     *)
(* files a download, an earlier run or a failing os.Remove leaves behind   *)
(* (ytdl.go:119-144), nothing is cached that is not in line for eviction;  *)
(* and with a file to a query, what is cached is there and only failures   *)
(* and earlier runs leave files that are nobody's.                         *)
THEOREM CacheAndDiskAgree == CacheSpec => [](CachedInLine /\ (SongsApart => CacheAgrees))
<1>1. CacheInit => CacheInv /\ CachedInLine /\ (SongsApart => Filed)
  <2>1. CacheInit => Owed = {} /\ KeptFiles = {} BY DEF CacheInit, Owed, KeptFiles
  <2>2. CacheInit => cache = {} /\ disk = strays BY DEF CacheInit
  <2> QED BY <2>1, <2>2, CacheInitially DEF CachedInLine, Filed
<1>2. CacheInv /\ CachedInLine /\ (SongsApart => Filed) /\ [CacheNext]_cacheVars
        => CacheInv' /\ CachedInLine' /\ (SongsApart => Filed)'
  BY CacheTypeStep, LeadStep, LineStep, FiledStep DEF CacheInv, SongsApart
<1>3. CachedInLine /\ Filed => CacheAgrees
  BY DEF Filed, KeptFiles, Owed, CacheAgrees
<1> QED BY <1>1, <1>2, <1>3, PTL DEF CacheSpec

(* At rest no more files are kept than max_tracks, but for those that      *)
(* failures and earlier runs left, and those that are kept are there: what *)
(* config/model-citizen.toml:34 says of the songs that were found, as long *)
(* as no two queries find the same one.                                    *)
THEOREM TracksAreKept == CacheSpec => [](SongsApart => KeepsMaxTracks /\ KeptIsThere)
<1>1. CacheTypeOK /\ CacheAgrees => KeptIsThere
  BY DEF CacheAgrees, KeptIsThere
<1>2. ASSUME CacheTypeOK, CacheAgrees, \A c \in Callers : pc[c] = "idle"
      PROVE  Cardinality(disk \ strays) <= MaxTracks
  <2> DEFINE files == disk \ strays
             places == {i \in 1 .. Len(evictionQueue) : evictionQueue[i] \in cache}
  <2>1. Len(evictionQueue) \in Nat /\ Len(evictionQueue) <= MaxTracks
    BY <1>2 DEF CacheTypeOK
  <2>2. IsFiniteSet(1 .. Len(evictionQueue))
        /\ Cardinality(1 .. Len(evictionQueue)) = Len(evictionQueue)
    <3>1. ASSUME NEW n \in Nat PROVE IsFiniteSet(1 .. n) /\ Cardinality(1 .. n) = n
      BY FS_Interval
    <3> QED BY <2>1, <3>1
  <2>3. /\ IsFiniteSet(places)
        /\ Cardinality(places) \in Nat /\ Cardinality(places) <= Len(evictionQueue)
    BY <2>2, FS_Subset, FS_CardinalityType
  <2>4. files = {SongOf[q] : q \in cache} BY <1>2 DEF CacheAgrees
  <2>5. files = {SongOf[evictionQueue[i]] : i \in places}
    BY <1>2, <2>4 DEF CacheAgrees, CachedInLine
  <2> DEFINE g == [i \in places |-> SongOf[evictionQueue[i]]]
  <2>6. g \in Surjection(places, files)
    BY <2>5 DEF Surjection
  <2> HIDE DEF g, files, places
  <2>7. Cardinality(files) <= Cardinality(places) BY <2>3, <2>6, FS_Surjection
  <2>8. Cardinality(files) \in Nat BY <2>3, <2>6, FS_Surjection, FS_CardinalityType
  <2> QED BY <2>1, <2>3, <2>7, <2>8, SongCacheAssumption DEF files
<1> QED BY <1>1, <1>2, NoDoubleDownload, CacheAndDiskAgree, PTL DEF KeepsMaxTracks

-----------------------------------------------------------------------------
(* A download registered is that of the caller who leads it, and a waiter's *)
(* leader is one of them until it has let the waiter go.                   *)
RegisteredLead ==
    \A q \in Queries : downloading[q] # NoCaller =>
        Leads(downloading[q]) /\ query[downloading[q]] = q

NobodyWaitsInVain ==
    \A c \in Callers : pc[c] = "waiting" =>
        /\ waitsFor[c] \in Callers
        /\ Leads(waitsFor[c]) \/ pc[waitsFor[c]] = "deregistered"

LEMMA LeaderStep ==
    ASSUME CacheInv, RegisteredLead, NobodyWaitsInVain, [CacheNext]_cacheVars
    PROVE  RegisteredLead' /\ NobodyWaitsInVain'
<1> USE DEF CacheInv, CacheTypeOK, SearchersQuery, RegisteredLead, NobodyWaitsInVain, Leads
<1> DEFINE Kept == RegisteredLead' /\ NobodyWaitsInVain'
<1>1. ASSUME NEW c \in Callers, NEW q \in Queries, Search(c, q) PROVE Kept
  BY <1>1, SongCacheAssumption DEF Search
<1>2. ASSUME NEW c \in Callers, Decide(c) PROVE Kept
  <2>1. query[c] \in Queries /\ pc[c] = "missed" BY <1>2 DEF Decide
  <2>2. CASE query[c] \in cache
    BY <1>2, <2>1, <2>2, SongCacheAssumption DEF Decide, Return
  <2>3. CASE query[c] \notin cache /\ downloading[query[c]] # NoCaller
    BY <1>2, <2>1, <2>3, SongCacheAssumption DEF Decide, JoinOrLead
  <2>4. CASE query[c] \notin cache /\ downloading[query[c]] = NoCaller
    <3>1. /\ pc' = [pc EXCEPT ![c] = "downloading"] /\ waitsFor' = waitsFor
          /\ query' = query
          /\ downloading' = [downloading EXCEPT ![query[c]] = c]
      BY <1>2, <2>4 DEF Decide, JoinOrLead
    <3>2. \A d \in Callers : d # c => pc'[d] = pc[d] BY <3>1
    <3>3. pc'[c] = "downloading" BY <3>1
    <3>4. \A q \in Queries : downloading'[q] # NoCaller /\ q # query[c] =>
                /\ downloading'[q] \in Callers
                /\ downloading'[q] = downloading[q] /\ downloading[q] # c
      BY <2>1, <3>1
    <3>5. downloading'[query[c]] = c BY <2>1, <3>1
    <3>6. query' = query BY <3>1
    <3>7. RegisteredLead' BY <2>1, <3>2, <3>3, <3>4, <3>5, <3>6
    <3>8. NobodyWaitsInVain' BY <2>1, <3>1, <3>2, <3>3
    <3> QED BY <3>7, <3>8
  <2> QED BY <2>2, <2>3, <2>4
<1>3. ASSUME NEW c \in Callers, DownloadFails(c) \/ Download(c) \/ Store(c) PROVE Kept
  <2>1. /\ pc[c] \in {"downloading", "downloaded"}
        /\ pc' = [pc EXCEPT ![c] = "leaving"] \/ pc' = [pc EXCEPT ![c] = "downloaded"]
        /\ UNCHANGED <<downloading, query, waitsFor>>
    BY <1>3 DEF DownloadFails, Download, Store
  <2> QED BY <2>1, SongCacheAssumption
<1>4. ASSUME NEW c \in Callers, Deregister(c) PROVE Kept
  <2>1. query[c] \in Queries /\ downloading[query[c]] = c
    BY <1>4 DEF Deregister, LeadersRegistered
  <2> QED BY <1>4, <2>1, SongCacheAssumption DEF Deregister
<1>5. ASSUME NEW c \in Callers, Done(c) PROVE Kept
  <2>1. \A d \in Callers : Leads(d) \/ pc[d] = "deregistered" => waitsFor[d] # c
    BY <1>5, SongCacheAssumption DEF WaitersWait, Done
  <2> QED BY <1>5, <2>1, SongCacheAssumption DEF Done, WaitersWait
<1>6. ASSUME NEW c \in Callers, Wake(c) PROVE Kept
  BY <1>6, SongCacheAssumption DEF Wake, Return
<1>7. CASE UNCHANGED cacheVars BY <1>7 DEF cacheVars
<1> QED BY <1>1, <1>2, <1>3, <1>4, <1>5, <1>6, <1>7 DEF CacheNext

(* A caller that waits, waits for one that leads the download or is about  *)
(* to let it go, and never for one that waits itself: no two searches can  *)
(* wait for each other, nor any for a leader that has left.                *)
THEOREM WaitersHaveALeader == CacheSpec => []NobodyWaitsInVain
<1>1. CacheInit => CacheInv /\ RegisteredLead /\ NobodyWaitsInVain
  BY CacheInitially, SongCacheAssumption DEF CacheInit, RegisteredLead, NobodyWaitsInVain
<1>2. CacheInv /\ RegisteredLead /\ NobodyWaitsInVain /\ [CacheNext]_cacheVars
        => CacheInv' /\ RegisteredLead' /\ NobodyWaitsInVain'
  BY CacheTypeStep, LeadStep, LeaderStep DEF CacheInv
<1> QED BY <1>1, <1>2, PTL DEF CacheSpec

-----------------------------------------------------------------------------
(* The player *)

USE MixerAssumption, PlayerAssumption

(* Songs and clips keep to their ids. *)
LayersApart ==
    layers[Music] \in Songs \cup {NoLayer} /\ layers[Speech] \in Clips \cup {NoLayer}

Chain == IsFiniteSet(watched) /\ OneChain

IInv == TypeOK /\ LayersApart /\ Chain /\ NoStrandedSong /\ OnAirIsWatched

(* The queue holds at most QueueCapacity songs, also after its ring evicts. *)
LEMMA RingKeeps ==
    ASSUME NEW s \in Seq(Songs), Len(s) <= QueueCapacity, NEW x \in Songs
    PROVE  LET t == Append(IF Len(s) = QueueCapacity THEN Tail(s) ELSE s, x)
           IN  t \in Seq(Songs) /\ Len(t) <= QueueCapacity
<1>1. CASE Len(s) = QueueCapacity
  <2>1. s # <<>> BY <1>1
  <2>2. Tail(s) \in Seq(Songs) /\ Len(Tail(s)) = Len(s) - 1 BY <2>1
  <2> QED BY <1>1, <2>2
<1>2. CASE Len(s) # QueueCapacity
  BY <1>2
<1> QED BY <1>1, <1>2

LEMMA EmptyFits == <<>> \in Seq(Songs) /\ Len(<<>>) <= QueueCapacity
OBVIOUS

LEMMA HeadTail ==
    ASSUME NEW s \in Seq(Songs), s # <<>>
    PROVE  Head(s) \in Songs /\ Tail(s) \in Seq(Songs) /\ Len(Tail(s)) = Len(s) - 1
OBVIOUS

(* Registering a layer under its own id, and ending layers, keep the types *)
(* and leave no song on air unwatched.                                     *)
Mixing ==
    /\ layers \in [Ids -> Layers \cup {NoLayer}] /\ cancelled \subseteq Layers
    /\ LayersApart /\ OnAirIsWatched

LEMMA EndLayersKeeps ==
    ASSUME TypeOK, Mixing, NEW ids \in SUBSET Ids, EndLayers(ids), UNCHANGED watched
    PROVE  Mixing'
<1> USE DEF Mixing
<1>1. /\ layers' = [id \in Ids |-> IF id \in ids THEN NoLayer ELSE layers[id]]
      /\ cancelled' = cancelled \cup ({layers[id] : id \in ids} \ {NoLayer})
  BY DEF EndLayers
<1>2. layers' \in [Ids -> Layers \cup {NoLayer}] /\ cancelled' \subseteq Layers
  BY <1>1
<1>3. LayersApart'
  BY <1>1 DEF LayersApart
<1>4. ASSUME layers'[Music] # NoLayer
      PROVE  layers'[Music] \in watched' /\ layers'[Music] \notin cancelled'
  <2>1. Music \notin ids /\ layers'[Music] = layers[Music]
    BY <1>1, <1>4
  <2>2. \A id \in ids : id = Speech
    BY <2>1
  <2>3. \A id \in ids : layers[id] # layers[Music]
    BY <1>4, <2>1, <2>2 DEF LayersApart
  <2> QED BY <1>1, <1>4, <2>1, <2>3 DEF OnAirIsWatched
<1> QED BY <1>2, <1>3, <1>4 DEF OnAirIsWatched

LEMMA RegisterKeeps ==
    ASSUME Mixing, NEW l \in Layers, NEW id \in Ids, Register(id, l),
           \/ id = Music /\ l \in Songs /\ watched' = watched \cup {l}
           \/ id = Speech /\ l \in Clips /\ UNCHANGED watched
    PROVE  Mixing'
<1> USE DEF Mixing
<1>1. layers' = [layers EXCEPT ![id] = l] /\ cancelled' = cancelled \ {l}
  BY DEF Register
<1>2. LayersApart'
  BY <1>1 DEF LayersApart
<1>3. OnAirIsWatched'
  BY <1>1 DEF OnAirIsWatched, LayersApart
<1> QED BY <1>1, <1>2, <1>3

-----------------------------------------------------------------------------
(* The mixer's own steps keep its types. *)
LEMMA ReaderKeeps ==
    ASSUME MixerTypeOK, NEW l \in Layers, ReadFrame(l) \/ ReadEnd(l)
    PROVE  MixerTypeOK' /\ UNCHANGED <<layers, cancelled>>
<1>1. CASE ReadFrame(l)
  BY <1>1 DEF ReadFrame, MixerTypeOK, frameVars
<1>2. CASE ReadEnd(l)
  BY <1>2 DEF ReadEnd, MixerTypeOK, frameVars
<1> QED BY <1>1, <1>2

LEMMA FrameKeeps ==
    ASSUME MixerTypeOK,
           BeginFrame \/ (\E l \in snapshot : Receive(IdOf(l), l))
    PROVE  MixerTypeOK' /\ UNCHANGED <<layers, cancelled>>
<1>1. CASE BeginFrame
  <2>1. Registered \subseteq Layers
    BY DEF Registered, MixerTypeOK
  <2> QED BY <1>1, <2>1 DEF BeginFrame, MixerTypeOK
<1>2. ASSUME NEW l \in snapshot, Receive(IdOf(l), l)
      PROVE  MixerTypeOK' /\ UNCHANGED <<layers, cancelled>>
  <2>1. IdOf(l) \in Ids /\ l \in Layers
    BY DEF IdOf, MixerTypeOK
  <2>2. buffered' \in [Layers -> 0 .. BufferFrames]
    BY <1>2, <2>1 DEF Receive, MixerTypeOK
  <2> QED BY <1>2, <2>1, <2>2 DEF Receive, MixerTypeOK
<1> QED BY <1>1, <1>2

(* Every step keeps the types and the song on air watched. *)
LEMMA TypeStep ==
    ASSUME IInv, [Next]_vars
    PROVE  TypeOK' /\ LayersApart' /\ OnAirIsWatched'
<1> DEFINE Goal == TypeOK' /\ LayersApart' /\ OnAirIsWatched'
<1> USE DEF IInv
<1>0. Mixing /\ MixerTypeOK
  BY DEF Mixing, TypeOK, MixerTypeOK
(* The steps that leave the mixer's layers and the watchers alone. *)
<1>1. ASSUME UNCHANGED <<layers, cancelled, watched>>
      PROVE  LayersApart' /\ OnAirIsWatched'
  BY <1>1 DEF LayersApart, OnAirIsWatched
<1>2. ASSUME NEW a \in Askers, Ask(a) \/ SearchFails(a) \/ EnsureStarted(a)
      PROVE  Goal
  <2>1. UNCHANGED mixerVars /\ UNCHANGED <<queue, taken, watched, playing, stop, doomed>>
    BY <1>2 DEF Ask, SearchFails, EnsureStarted
  <2>2. asker' \in [Askers -> {"idle", "searching", "enqueued"}]
    BY <1>2 DEF Ask, SearchFails, EnsureStarted, TypeOK
  <2>3. starters' \in Nat /\ started' \in BOOLEAN
    <3>1. CASE Ask(a) \/ SearchFails(a)
      BY <3>1 DEF Ask, SearchFails, TypeOK
    <3>2. CASE EnsureStarted(a)
      BY <3>2 DEF EnsureStarted, TypeOK
    <3> QED BY <1>2, <3>1, <3>2
  <2> QED BY <1>1, <2>1, <2>2, <2>3 DEF TypeOK, MixerTypeOK, mixerVars, frameVars
<1>3. ASSUME NEW a \in Askers, NEW s \in Songs, Enqueue(a, s)
      PROVE  Goal
  <2>1. UNCHANGED mixerVars /\ UNCHANGED <<started, starters, taken, watched, playing, stop>>
    BY <1>3 DEF Enqueue
  <2>2. /\ asker' \in [Askers -> {"idle", "searching", "enqueued"}]
        /\ doomed' \subseteq Songs
    BY <1>3 DEF Enqueue, TypeOK
  <2>3. queue' \in Seq(Songs) /\ Len(queue') <= QueueCapacity
    <3>1. CASE RingEnqueue(s)
      BY <3>1, RingKeeps DEF RingEnqueue, TypeOK
    <3>2. CASE UNCHANGED queue
      BY <3>2 DEF TypeOK
    <3> QED BY <1>3, <3>1, <3>2 DEF Enqueue
  <2> QED BY <1>1, <2>1, <2>2, <2>3 DEF TypeOK, MixerTypeOK, mixerVars, frameVars
<1>4. CASE StartTakes
  <2>1. UNCHANGED mixerVars /\ UNCHANGED <<watched, playing, asker, stop, doomed>>
    BY <1>4 DEF StartTakes
  <2>2. starters' \in Nat /\ started' \in BOOLEAN
    <3>1. starters \in Nat /\ starters > 0 /\ starters' = starters - 1
      BY <1>4 DEF StartTakes, TypeOK
    <3>2. started' = FALSE \/ started' = started
      BY <1>4 DEF StartTakes
    <3>3. starters' \in Nat
      BY <3>1
    <3> QED BY <3>2, <3>3 DEF TypeOK
  <2>3. /\ queue' \in Seq(Songs) /\ Len(queue') <= QueueCapacity
        /\ taken' \in Songs \cup {NoLayer}
    <3>1. CASE queue = <<>>
      BY <1>4, <3>1 DEF StartTakes, TypeOK
    <3>2. CASE queue # <<>>
      BY <1>4, <3>2, HeadTail DEF StartTakes, TypeOK
    <3> QED BY <3>1, <3>2
  <2> QED BY <1>1, <2>1, <2>2, <2>3 DEF TypeOK, MixerTypeOK, mixerVars, frameVars
<1>5. CASE StartFails
  BY <1>1, <1>5 DEF StartFails, TypeOK, MixerTypeOK, mixerVars, frameVars
<1>6. CASE StartRegisters
  <2>1. CASE layers[Music] = NoLayer
    <3>1. /\ Register(Music, taken) /\ taken \in Songs /\ watched' = watched \cup {taken}
          /\ playing' = taken /\ taken' = NoLayer
          /\ UNCHANGED <<starters, queue, started, asker, stop, doomed>>
      BY <1>6, <2>1 DEF StartRegisters, TypeOK
    <3>2. Mixing'
      BY <1>0, <3>1, RegisterKeeps
    <3>3. MixerTypeOK'
      BY <3>1, <3>2 DEF Register, Mixing, TypeOK, MixerTypeOK, frameVars
    <3> QED BY <3>1, <3>2, <3>3 DEF Mixing, TypeOK
  <2>2. CASE layers[Music] # NoLayer
    BY <1>1, <1>6, <2>2 DEF StartRegisters, TypeOK, MixerTypeOK, mixerVars, frameVars
  <2> QED BY <2>1, <2>2
<1>7. ASSUME NEW s \in Songs, WatcherRestarts(s)
      PROVE  Goal
  <2>1. TypeOK'
    BY <1>7 DEF WatcherRestarts, TypeOK, MixerTypeOK, mixerVars, frameVars
  <2>2. LayersApart' /\ OnAirIsWatched'
    BY <1>7 DEF WatcherRestarts, LayersApart, OnAirIsWatched, mixerVars
  <2> QED BY <2>1, <2>2
<1>8. ASSUME NEW ids \in SUBSET Ids, EndLayers(ids), UNCHANGED frameVars \/ EndFrame,
             stop' \in {"idle", "draining", "unregister"},
             UNCHANGED <<queue, started, starters, taken, watched, playing, asker, doomed>>
      PROVE  Goal
  <2>1. Mixing'
    BY <1>0, <1>8, EndLayersKeeps
  <2>2. MixerTypeOK'
    BY <1>8, <2>1 DEF EndLayers, EndFrame, Mixing, TypeOK, MixerTypeOK, frameVars
  <2> QED BY <1>8, <2>1, <2>2 DEF Mixing, TypeOK
<1>9. CASE Skip \/ StopEnds \/ Leave \/ SpeakTimesOut
  <2>1. \E ids \in SUBSET Ids : EndLayers(ids) /\ UNCHANGED frameVars
    BY <1>9 DEF Skip, StopEnds, Leave, SpeakTimesOut, Unregister, CloseLayers
  <2>2. /\ stop' \in {"idle", "draining", "unregister"}
        /\ UNCHANGED <<queue, started, starters, taken, watched, playing, asker, doomed>>
    BY <1>9 DEF Skip, StopEnds, Leave, SpeakTimesOut, playerVars, TypeOK
  <2> QED BY <1>8, <2>1, <2>2
<1>10. CASE StopBegins \/ StopDrains
  <2>1. UNCHANGED mixerVars /\ UNCHANGED <<started, starters, taken, watched, playing, asker>>
    BY <1>10 DEF StopBegins, StopDrains
  <2>2. queue' \in Seq(Songs) /\ Len(queue') <= QueueCapacity
    BY <1>10, HeadTail DEF StopBegins, StopDrains, TypeOK
  <2>3. stop' \in {"idle", "draining", "unregister"}
    BY <1>10 DEF StopBegins, StopDrains, TypeOK
  <2>4. doomed' \subseteq Songs
    <3>1. Queued \subseteq Songs
      BY DEF Queued, TypeOK
    <3>2. InPlay \subseteq Songs
      BY <3>1 DEF InPlay, TypeOK, LayersApart
    <3> QED BY <1>10, <3>2 DEF StopBegins, StopDrains, TypeOK
  <2> QED BY <1>1, <2>1, <2>2, <2>3, <2>4 DEF TypeOK, MixerTypeOK, mixerVars, frameVars
<1>11. ASSUME NEW l \in Clips, Speak(l)
       PROVE  Goal
  <2>1. Register(Speech, l) /\ UNCHANGED playerVars
    BY <1>11 DEF Speak
  <2>2. UNCHANGED watched BY <2>1 DEF playerVars
  <2>3. Mixing'
    BY <1>0, <2>1, <2>2, RegisterKeeps
  <2>4. MixerTypeOK'
    BY <2>1, <2>3 DEF Register, Mixing, TypeOK, MixerTypeOK, frameVars
  <2> QED BY <2>1, <2>3, <2>4 DEF Mixing, TypeOK, playerVars
<1>12. ASSUME NEW l \in Layers, ReaderStep(l)
       PROVE  Goal
  <2>1. MixerTypeOK' /\ UNCHANGED <<layers, cancelled>> /\ UNCHANGED playerVars
    BY <1>0, <1>12, ReaderKeeps DEF ReaderStep
  <2> QED BY <1>1, <2>1 DEF TypeOK, playerVars
<1>13. CASE FrameStep
  <2>1. CASE BeginFrame \/ \E l \in snapshot : Receive(IdOf(l), l)
    <3>1. MixerTypeOK' /\ UNCHANGED <<layers, cancelled>> /\ UNCHANGED playerVars
      BY <1>0, <1>13, <2>1, FrameKeeps DEF FrameStep
    <3> QED BY <1>1, <3>1 DEF TypeOK, playerVars
  <2>2. CASE EndFrame
    <3>1. EndLayers(gallows) /\ gallows \in SUBSET Ids
      BY <2>2 DEF EndFrame, TypeOK, MixerTypeOK
    <3>2. UNCHANGED playerVars
      BY <1>13 DEF FrameStep
    <3> QED BY <1>8, <2>2, <3>1, <3>2 DEF playerVars, TypeOK
  <2> QED BY <1>13, <2>1, <2>2 DEF FrameStep
<1>14. CASE UNCHANGED vars
  BY <1>1, <1>14 DEF vars, TypeOK, MixerTypeOK
<1> QED
  BY <1>2, <1>3, <1>4, <1>5, <1>6, <1>7, <1>9, <1>10, <1>11, <1>12, <1>13, <1>14 DEF Next

-----------------------------------------------------------------------------
(* Every step keeps the chain one, as long as it is running. *)
LEMMA ChainStep ==
    ASSUME IInv, [Next]_vars
    PROVE  Chain'
<1> USE DEF IInv, Chain, OneChain
<1>0. Cardinality(watched) \in Nat /\ starters \in Nat /\ started \in BOOLEAN
  BY FS_CardinalityType DEF TypeOK
<1>1. ASSUME UNCHANGED <<started, starters, taken, watched>>
      PROVE  Chain'
  BY <1>1
<1>2. ASSUME NEW a \in Askers, EnsureStarted(a)
      PROVE  Chain'
  BY <1>0, <1>2 DEF EnsureStarted
<1>3. CASE StartTakes
  <2>1. /\ starters > 0 /\ taken = NoLayer /\ starters' = starters - 1 /\ watched' = watched
        /\ \/ started' = FALSE /\ taken' = taken /\ queue = <<>>
           \/ started' = started /\ taken' = Head(queue) /\ queue # <<>>
    BY <1>3 DEF StartTakes
  <2>2. started
    BY <1>0, <2>1
  <2>3. queue # <<>> => Head(queue) # NoLayer
    BY HeadTail DEF TypeOK
  <2>4. CASE queue = <<>>
    BY <1>0, <2>1, <2>2, <2>4
  <2>5. CASE queue # <<>>
    <3>1. taken = NoLayer /\ taken' # NoLayer
      BY <2>1, <2>3, <2>5
    <3>2. started' /\ starters' = starters - 1 /\ watched' = watched
      BY <2>1, <2>2, <2>5
    <3> QED BY <1>0, <2>2, <3>1, <3>2
  <2> QED BY <2>4, <2>5
<1>4. CASE StartFails
  BY <1>0, <1>4 DEF StartFails
<1>5. CASE StartRegisters
  <2>1. taken # NoLayer /\ taken' = NoLayer /\ UNCHANGED started
    BY <1>5 DEF StartRegisters
  <2>2. CASE layers[Music] = NoLayer
    <3>1. watched' = watched \cup {taken} /\ UNCHANGED starters
      BY <1>5, <2>2 DEF StartRegisters
    <3>2. Cardinality(watched) = 0
      BY <1>0, <2>1
    <3>3. taken \notin watched
      BY <3>2, FS_EmptySet
    <3>4. IsFiniteSet(watched') /\ Cardinality(watched') = Cardinality(watched) + 1
      BY <3>1, <3>3, FS_AddElement
    <3> QED BY <1>0, <2>1, <3>1, <3>4
  <2>3. CASE layers[Music] # NoLayer
    BY <1>0, <1>5, <2>1, <2>3 DEF StartRegisters
  <2> QED BY <2>2, <2>3
<1>6. ASSUME NEW s \in Songs, WatcherRestarts(s)
      PROVE  Chain'
  <2>1. /\ s \in watched /\ watched' = watched \ {s} /\ starters' = starters + 1
        /\ UNCHANGED <<started, taken>>
    BY <1>6 DEF WatcherRestarts
  <2>2. IsFiniteSet(watched') /\ Cardinality(watched') = Cardinality(watched) - 1
    BY <2>1, FS_RemoveElement
  <2> QED BY <1>0, <2>1, <2>2
<1>7. ASSUME NEW a \in Askers, Ask(a) \/ SearchFails(a) \/ \E s \in Songs : Enqueue(a, s)
      PROVE  Chain'
  BY <1>1, <1>7 DEF Ask, SearchFails, Enqueue
<1>8. CASE Skip \/ StopBegins \/ StopDrains \/ StopEnds \/ Leave
  BY <1>1, <1>8 DEF Skip, StopBegins, StopDrains, StopEnds, Leave, playerVars
<1>9. CASE SpeakTimesOut \/ FrameStep \/ (\E l \in Clips : Speak(l))
           \/ \E l \in Layers : ReaderStep(l)
  BY <1>1, <1>9 DEF SpeakTimesOut, FrameStep, Speak, ReaderStep, playerVars
<1>10. CASE UNCHANGED vars
  BY <1>1, <1>10 DEF vars
<1> QED
  BY <1>2, <1>3, <1>4, <1>5, <1>6, <1>7, <1>8, <1>9, <1>10 DEF Next

(* Every step leaves a queued song with the chain or its Queue call. *)
LEMMA StrandedStep ==
    ASSUME IInv, [Next]_vars
    PROVE  NoStrandedSong'
<1> USE DEF IInv, NoStrandedSong, TypeOK
<1>1. ASSUME UNCHANGED <<started, asker>>, queue = <<>> => queue' = <<>>
      PROVE  NoStrandedSong'
  BY <1>1
<1>2. ASSUME NEW a \in Askers, Ask(a) \/ SearchFails(a) \/ EnsureStarted(a)
      PROVE  NoStrandedSong'
  BY <1>2 DEF Ask, SearchFails, EnsureStarted
<1>3. ASSUME NEW a \in Askers, NEW s \in Songs, Enqueue(a, s)
      PROVE  NoStrandedSong'
  BY <1>3 DEF Enqueue
<1>4. CASE StartTakes
  BY <1>4 DEF StartTakes
<1>5. CASE StartFails \/ StartRegisters \/ (\E s \in Songs : WatcherRestarts(s))
  BY <1>1, <1>5 DEF StartFails, StartRegisters, WatcherRestarts
<1>6. CASE Skip \/ StopBegins \/ StopDrains \/ StopEnds \/ Leave
  BY <1>1, <1>6 DEF Skip, StopBegins, StopDrains, StopEnds, Leave, playerVars
<1>7. CASE SpeakTimesOut \/ FrameStep \/ (\E l \in Clips : Speak(l))
           \/ \E l \in Layers : ReaderStep(l)
  BY <1>1, <1>7 DEF SpeakTimesOut, FrameStep, Speak, ReaderStep, playerVars
<1>8. CASE UNCHANGED vars
  BY <1>1, <1>8 DEF vars
<1> QED BY <1>2, <1>3, <1>4, <1>5, <1>6, <1>7, <1>8 DEF Next

-----------------------------------------------------------------------------
LEMMA InitIInv == Init => IInv
<1> SUFFICES ASSUME Init PROVE IInv
  OBVIOUS
<1> USE DEF Init, MixerInit
<1>1. TypeOK
  <2>1. MixerTypeOK
    <3>1. /\ layers \in [Ids -> Layers \cup {NoLayer}]
          /\ reader \in [Layers -> {"off", "reading", "closed"}]
      OBVIOUS
    <3>2. buffered \in [Layers -> 0 .. BufferFrames]
      <4>1. 0 \in 0 .. BufferFrames OBVIOUS
      <4>2. buffered = [l \in Layers |-> 0] OBVIOUS
      <4> QED BY <4>1, <4>2
    <3>3. mixing \in BOOLEAN /\ cancelled = {} /\ snapshot = {} /\ gallows = {}
      OBVIOUS
    <3> HIDE DEF Init, MixerInit
    <3> QED BY <3>1, <3>2, <3>3 DEF MixerTypeOK
  <2>2. /\ started \in BOOLEAN /\ starters \in Nat /\ taken = NoLayer /\ watched = {}
        /\ playing = NoLayer /\ doomed = {} /\ stop \in {"idle", "draining", "unregister"}
    OBVIOUS
  <2>3. asker \in [Askers -> {"idle", "searching", "enqueued"}]
    OBVIOUS
  <2>4. queue \in Seq(Songs) /\ Len(queue) <= QueueCapacity
    BY EmptyFits
  <2> HIDE DEF Init, MixerInit
  <2> QED BY <2>1, <2>2, <2>3, <2>4 DEF TypeOK
<1>2. LayersApart /\ OnAirIsWatched /\ NoStrandedSong
  BY DEF LayersApart, OnAirIsWatched, NoStrandedSong
<1>3. Chain
  BY FS_EmptySet DEF Chain, OneChain
<1> QED BY <1>1, <1>2, <1>3 DEF IInv

(* A song on air is watched, and watching is the chain's one place. *)
LEMMA NobodyOnAir == IInv => RegisterSucceeds
<1> SUFFICES ASSUME IInv, taken # NoLayer, layers[Music] # NoLayer
             PROVE  FALSE
  BY DEF RegisterSucceeds
<1>1. IsFiniteSet(watched) /\ layers[Music] \in watched
  BY DEF IInv, Chain, OnAirIsWatched
<1>2. Cardinality(watched) \in Nat /\ Cardinality(watched) # 0
  BY <1>1, FS_CardinalityType, FS_EmptySet
<1> QED BY <1>2 DEF IInv, Chain, OneChain, TypeOK

(* However many users queue, skip, stop and leave while songs start, fail  *)
(* and run dry, one chain of goroutines plays the guild's songs, none is   *)
(* left in the queue without it, the song on air is watched and the next   *)
(* finds its id free (player.go's start() and Queue).                      *)
THEOREM OneChainPlaysAll ==
    Spec => [](TypeOK /\ OneChain /\ NoStrandedSong /\ OnAirIsWatched /\ RegisterSucceeds)
<1>1. IInv /\ [Next]_vars => IInv'
  BY TypeStep, ChainStep, StrandedStep DEF IInv
<1>2. IInv => TypeOK /\ OneChain /\ NoStrandedSong /\ OnAirIsWatched /\ RegisterSucceeds
  BY NobodyOnAir DEF IInv, Chain
<1> QED BY InitIInv, <1>1, <1>2, PTL DEF Spec

(* In particular start() leaves no song in the queue when it goes,         *)
THEOREM NoSongIsStranded == Spec => []NoStrandedSong
BY OneChainPlaysAll, PTL

(* and finds the music's id free whenever it registers a song's layer.     *)
THEOREM SongsRegister == Spec => []RegisterSucceeds
BY OneChainPlaysAll, PTL

-----------------------------------------------------------------------------
(* Only Queue puts songs into the queue, and what it puts there the latest *)
(* Stop was not to end; so what Stop was to end is not in the queue again. *)
Drained == stop # "draining" => Queued \cap doomed = {}

(* What taking the first song, and adding one, does to the songs queued. *)
LEMMA QueuedTail ==
    ASSUME queue \in Seq(Songs), queue # <<>>, queue' = Tail(queue)
    PROVE  Queued' \subseteq Queued /\ Head(queue) \in Queued
<1>1. Len(queue) \in Nat /\ Len(queue) >= 1 /\ Len(Tail(queue)) = Len(queue) - 1
  OBVIOUS
<1>2. \A i \in 1 .. Len(Tail(queue)) : Tail(queue)[i] = queue[i + 1] /\ i + 1 \in 1 .. Len(queue)
  BY <1>1
<1>3. Queued' \subseteq Queued BY <1>2 DEF Queued
<1>4. Head(queue) = queue[1] /\ 1 \in 1 .. Len(queue) BY <1>1
<1> QED BY <1>3, <1>4 DEF Queued

LEMMA QueuedAppend ==
    ASSUME queue \in Seq(Songs), NEW s \in Songs, queue' = Append(queue, s)
    PROVE  Queued' \subseteq Queued \cup {s}
<1>1. Len(queue) \in Nat /\ Len(queue') = Len(queue) + 1 OBVIOUS
<1>2. \A i \in 1 .. Len(queue') : queue'[i] = s \/ (i \in 1 .. Len(queue) /\ queue'[i] = queue[i])
  BY <1>1
<1> QED BY <1>2 DEF Queued

(* What a step does to the queue and to what Stop is about. *)
LEMMA QueueStep ==
    ASSUME TypeOK, Next
    PROVE  \/ UNCHANGED <<queue, stop, doomed>>
           \/ /\ queue # <<>> /\ queue' = Tail(queue)
              /\ UNCHANGED <<stop, doomed>>
           \/ \E s \in Songs :
                 /\ queue' = Append(queue, s) /\ doomed' = doomed \ {s}
                 /\ UNCHANGED stop
           \/ stop' = "draining" /\ UNCHANGED queue
           \/ stop = "draining" /\ queue = <<>> /\ UNCHANGED queue
           \/ stop = "unregister" /\ UNCHANGED <<queue, doomed>>
<1> DEFINE Goal ==
           \/ UNCHANGED <<queue, stop, doomed>>
           \/ /\ queue # <<>> /\ queue' = Tail(queue)
              /\ UNCHANGED <<stop, doomed>>
           \/ \E s \in Songs :
                 /\ queue' = Append(queue, s) /\ doomed' = doomed \ {s}
                 /\ UNCHANGED stop
           \/ stop' = "draining" /\ UNCHANGED queue
           \/ stop = "draining" /\ queue = <<>> /\ UNCHANGED queue
           \/ stop = "unregister" /\ UNCHANGED <<queue, doomed>>
<1>1. ASSUME NEW a \in Askers, Ask(a) \/ SearchFails(a) \/ EnsureStarted(a)
      PROVE  Goal
  BY <1>1 DEF Ask, SearchFails, EnsureStarted
<1>2. ASSUME NEW a \in Askers, NEW s \in Songs, Enqueue(a, s)
      PROVE  Goal
  <2>1. CASE checkQueueFull
    BY <1>2, <2>1 DEF Enqueue
  <2>2. CASE ~checkQueueFull
    <3>1. Len(queue) \in Nat /\ Len(queue) # QueueCapacity
      BY <2>2 DEF checkQueueFull, TypeOK
    <3> QED BY <1>2, <2>2, <3>1 DEF Enqueue, RingEnqueue
  <2> QED BY <2>1, <2>2
<1>3. ASSUME StartTakes PROVE Goal
  BY <1>3 DEF StartTakes
<1>4. ASSUME StartFails \/ StartRegisters \/ (\E s \in Songs : WatcherRestarts(s))
      PROVE  Goal
  BY <1>4 DEF StartFails, StartRegisters, WatcherRestarts
<1>5. ASSUME Skip \/ Leave \/ (\E l \in Clips : Speak(l)) \/ SpeakTimesOut
             \/ (\E l \in Layers : ReaderStep(l)) \/ FrameStep
      PROVE  Goal
  BY <1>5 DEF Skip, Leave, Speak, SpeakTimesOut, ReaderStep, FrameStep, playerVars
<1>6. ASSUME StopBegins PROVE Goal
  BY <1>6 DEF StopBegins
<1>7. ASSUME StopDrains PROVE Goal
  BY <1>7 DEF StopDrains
<1>8. ASSUME StopEnds PROVE Goal
  BY <1>8 DEF StopEnds
<1> HIDE DEF Goal
<1>9. Goal
  BY <1>1, <1>2, <1>3, <1>4, <1>5, <1>6, <1>7, <1>8 DEF Next
<1> QED BY <1>9 DEF Goal

LEMMA DrainedStep ==
    ASSUME TypeOK, Drained, [Next]_vars
    PROVE  Drained'
<1>0. queue \in Seq(Songs) BY DEF TypeOK
<1>1. CASE UNCHANGED vars
  BY <1>1 DEF vars, Drained, Queued
<1>2. CASE Next
  <2>1. CASE queue # <<>> /\ queue' = Tail(queue) /\ UNCHANGED <<stop, doomed>>
    BY <1>0, <2>1, QueuedTail DEF Drained
  <2>2. ASSUME NEW s \in Songs, queue' = Append(queue, s), doomed' = doomed \ {s},
               UNCHANGED stop
        PROVE  Drained'
    BY <1>0, <2>2, QueuedAppend DEF Drained
  <2>3. CASE queue = <<>> /\ UNCHANGED queue
    BY <2>3 DEF Drained, Queued
  <2>4. CASE UNCHANGED <<queue, stop, doomed>>
    BY <2>4 DEF Drained, Queued
  <2>5. CASE stop = "unregister" /\ UNCHANGED <<queue, doomed>>
    BY <2>5 DEF Drained, Queued
  <2>6. CASE stop' = "draining"
    BY <2>6 DEF Drained
  <2> QED BY <1>2, <2>1, <2>2, <2>3, <2>4, <2>5, <2>6, QueueStep
<1> QED BY <1>1, <1>2

(* However Stop falls together with Queue, Skip and the chain, of what it  *)
(* was to end at most one song is left when it has returned.               *)
THEOREM StopMissesOneSong == Spec => []StopMissesAtMostOne
<1>1. Init => Drained
  BY DEF Init, Drained
<1>2. IInv /\ [Next]_vars => IInv'
  BY TypeStep, ChainStep, StrandedStep DEF IInv
<1>3. IInv /\ Drained /\ [Next]_vars => Drained'
  BY DrainedStep DEF IInv
<1>4. IInv /\ Drained => StopMissesAtMostOne
  <2> SUFFICES ASSUME IInv, Drained, stop = "idle"
               PROVE  Cardinality(doomed \cap InPlay) <= 1
    BY DEF StopMissesAtMostOne
  <2>1. Queued \cap doomed = {} BY DEF Drained
  <2>2. taken # NoLayer => layers[Music] = NoLayer
    BY NobodyOnAir DEF RegisterSucceeds
  <2>3. PICK x : doomed \cap InPlay \subseteq {x}
    <3>1. CASE taken = NoLayer
      <4>1. doomed \cap InPlay \subseteq {layers[Music]} BY <2>1, <3>1 DEF InPlay
      <4> QED BY <4>1
    <3>2. CASE taken # NoLayer
      <4>1. doomed \cap InPlay \subseteq {taken} BY <2>1, <2>2, <3>2 DEF InPlay
      <4> QED BY <4>1
    <3> QED BY <3>1, <3>2
  <2>4. IsFiniteSet({x}) /\ Cardinality({x}) = 1 BY FS_Singleton
  <2>5. Cardinality(doomed \cap InPlay) <= Cardinality({x}) BY <2>3, <2>4, FS_Subset
  <2> QED BY <2>4, <2>5
<1> QED BY InitIInv, <1>1, <1>2, <1>3, <1>4, PTL DEF Spec

-----------------------------------------------------------------------------
(* Ending layers ends the turn of the song on air, if there is one. *)
LEMMA TurnEnds ==
    ASSUME TypeOK, RegisterSucceeds, NEW ids \in SUBSET Ids, EndLayers(ids),
           UNCHANGED <<queue, taken>>
    PROVE  [Box!Next]_<<queue, IF taken # NoLayer THEN taken ELSE layers[Music]>>
<1>1. Music \in Ids /\ layers \in [Ids -> Layers \cup {NoLayer}]
  BY DEF TypeOK, MixerTypeOK
<1>2. layers'[Music] = NoLayer \/ layers'[Music] = layers[Music]
  BY <1>1 DEF EndLayers
<1>3. CASE taken # NoLayer
  BY <1>2, <1>3 DEF RegisterSucceeds
<1>4. CASE taken = NoLayer
  BY <1>2, <1>4 DEF Box!Next, Box!End
<1> QED BY <1>3, <1>4

(* Every step of the player is a step of the jukebox or none.  That there  *)
(* is no song on air when start() takes one is the chain's doing: where    *)
(* a start() is about, no watcher is.                                      *)
LEMMA BoxStep ==
    ASSUME IInv, [Next]_vars
    PROVE  [Box!Next]_<<queue, IF taken # NoLayer THEN taken ELSE layers[Music]>>
<1> DEFINE turn == IF taken # NoLayer THEN taken ELSE layers[Music]
           Goal == [Box!Next]_<<queue, turn>>
<1> SUFFICES Goal OBVIOUS
<1>0. TypeOK /\ RegisterSucceeds /\ queue \in Seq(Songs) BY NobodyOnAir DEF IInv, TypeOK
<1>1. ASSUME UNCHANGED <<queue, taken, layers>> PROVE Goal
  BY <1>1
<1>2. ASSUME NEW a \in Askers, NEW s \in Songs, Enqueue(a, s) PROVE Goal
  <2>1. CASE checkQueueFull BY <1>1, <1>2, <2>1 DEF Enqueue, mixerVars
  <2>2. CASE ~checkQueueFull
    <3>1. Len(queue) \in Nat /\ Len(queue) < QueueCapacity
      BY <1>0, <2>2 DEF checkQueueFull
    <3>2. queue' = Append(queue, s) /\ turn' = turn
      BY <1>2, <2>2, <3>1 DEF Enqueue, RingEnqueue, mixerVars
    <3> HIDE DEF turn
    <3> QED BY <3>1, <3>2 DEF Box!Next, Box!Add, turn
  <2> QED BY <2>1, <2>2
<1>3. CASE StartTakes
  <2>1. /\ starters > 0 /\ taken = NoLayer /\ layers' = layers
        /\ \/ queue = <<>> /\ UNCHANGED <<queue, taken>>
           \/ queue # <<>> /\ taken' = Head(queue) /\ queue' = Tail(queue)
    BY <1>3 DEF StartTakes, mixerVars
  <2>2. watched = {}
    <3>1. IsFiniteSet(watched) /\ Cardinality(watched) \in Nat /\ starters \in Nat
      BY <1>0, FS_CardinalityType DEF IInv, Chain, TypeOK
    <3>2. Cardinality(watched) = 0 BY <2>1, <3>1 DEF IInv, Chain, OneChain
    <3> QED BY <3>1, <3>2, FS_EmptySet
  <2>3. layers[Music] = NoLayer BY <2>2 DEF IInv, OnAirIsWatched
  <2>4. CASE queue = <<>> BY <1>1, <2>1, <2>4
  <2>5. CASE queue # <<>>
    <3>1. Head(queue) \in Songs /\ Head(queue) # NoLayer BY <1>0, <2>5, HeadTail
    <3>2. turn = NoLayer /\ turn' = Head(queue) /\ queue' = Tail(queue)
      BY <2>1, <2>3, <2>5, <3>1
    <3> HIDE DEF turn
    <3> QED BY <2>5, <3>2 DEF Box!Next, Box!Begin, turn
  <2> QED BY <2>4, <2>5
<1>4. CASE StartFails
  <2>1. taken # NoLayer /\ taken' = NoLayer /\ layers' = layers /\ queue' = queue
    BY <1>4 DEF StartFails, mixerVars
  <2>2. turn # NoLayer /\ turn' = NoLayer BY <1>0, <2>1 DEF RegisterSucceeds
  <2> QED BY <2>1, <2>2 DEF Box!Next, Box!End
<1>5. CASE StartRegisters
  <2>1. taken # NoLayer /\ taken' = NoLayer /\ layers[Music] = NoLayer /\ queue' = queue
    BY <1>0, <1>5 DEF StartRegisters, RegisterSucceeds
  <2>2. layers' = [layers EXCEPT ![Music] = taken] BY <1>5, <2>1 DEF StartRegisters, Register
  <2>3. turn' = turn BY <1>0, <2>1, <2>2 DEF TypeOK, MixerTypeOK
  <2> QED BY <2>1, <2>3
<1>6. CASE StopDrains
  <2>1. UNCHANGED <<taken, layers>> BY <1>6 DEF StopDrains, mixerVars
  <2>2. queue' = queue \/ (queue # <<>> /\ queue' = Tail(queue)) BY <1>6 DEF StopDrains
  <2>3. turn' = turn BY <2>1
  <2> HIDE DEF turn
  <2> QED BY <2>2, <2>3 DEF Box!Next, Box!Clear, turn
<1>7. ASSUME NEW ids \in SUBSET Ids, EndLayers(ids), UNCHANGED <<queue, taken>> PROVE Goal
  BY <1>0, <1>7, TurnEnds
<1>8. CASE Skip \/ StopEnds \/ Leave \/ SpeakTimesOut
  <2>1. \E ids \in SUBSET Ids : EndLayers(ids)
    BY <1>8 DEF Skip, StopEnds, Leave, SpeakTimesOut, Unregister, CloseLayers
  <2>2. UNCHANGED <<queue, taken>>
    BY <1>8 DEF Skip, StopEnds, Leave, SpeakTimesOut, playerVars
  <2> QED BY <1>7, <2>1, <2>2
<1>9. ASSUME NEW l \in Clips, Speak(l) PROVE Goal
  <2>1. layers'[Music] = layers[Music] /\ UNCHANGED <<queue, taken>>
    BY <1>0, <1>9 DEF Speak, Register, playerVars, TypeOK, MixerTypeOK
  <2> QED BY <2>1
<1>10. CASE FrameStep
  <2>1. CASE BeginFrame \/ \E l \in snapshot : Receive(IdOf(l), l)
    <3>1. UNCHANGED layers /\ UNCHANGED <<queue, taken>>
      BY <1>10, <2>1 DEF FrameStep, BeginFrame, Receive, playerVars
    <3> QED BY <1>1, <3>1
  <2>2. CASE EndFrame
    <3>1. EndLayers(gallows) /\ gallows \in SUBSET Ids /\ UNCHANGED <<queue, taken>>
      BY <1>0, <1>10, <2>2 DEF FrameStep, EndFrame, playerVars, TypeOK, MixerTypeOK
    <3> QED BY <1>7, <3>1
  <2> QED BY <1>10, <2>1, <2>2 DEF FrameStep
<1>11. ASSUME NEW l \in Layers, ReaderStep(l) PROVE Goal
  <2>1. UNCHANGED <<queue, taken, layers>>
    BY <1>11 DEF ReaderStep, ReadFrame, ReadEnd, playerVars
  <2> QED BY <1>1, <2>1
<1>12. ASSUME NEW a \in Askers, Ask(a) \/ SearchFails(a) \/ EnsureStarted(a) PROVE Goal
  BY <1>1, <1>12 DEF Ask, SearchFails, EnsureStarted, mixerVars
<1>13. CASE StopBegins \/ \E s \in Songs : WatcherRestarts(s)
  BY <1>1, <1>13 DEF StopBegins, WatcherRestarts, mixerVars
<1>14. CASE UNCHANGED vars
  BY <1>1, <1>14 DEF vars
<1> HIDE DEF Goal
<1> QED
  BY <1>2, <1>3, <1>4, <1>5, <1>6, <1>8, <1>9, <1>10, <1>11, <1>12, <1>13, <1>14 DEF Next

(* For any capacity, any number of users and whatever they and the sender  *)
(* do at once, the player is the jukebox its commands promise: songs play  *)
(* in the order they were queued, one at a time, and the queue's ring      *)
(* evicts none.                                                            *)
THEOREM PlayerIsAJukebox == Spec => ImplementsJukebox
<1> DEFINE turn == IF taken # NoLayer THEN taken ELSE layers[Music]
<1>1. Init => Box!Init
  BY DEF Init, MixerInit, Box!Init
<1>2. IInv /\ [Next]_vars => IInv'
  BY TypeStep, ChainStep, StrandedStep DEF IInv
<1>3. IInv /\ [Next]_vars => [Box!Next]_<<queue, turn>>
  BY BoxStep
<1> QED BY InitIInv, <1>1, <1>2, <1>3, PTL DEF Spec, ImplementsJukebox, Box!Spec
=============================================================================
