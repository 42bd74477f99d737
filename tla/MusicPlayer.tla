----------------------------- MODULE MusicPlayer -----------------------------
(***************************************************************************)
(* A guild's music player (discord-bot/music/player.go) on its mixer, with *)
(* the spoken replies (discord-bot/events/speak.go) that share the mixer.  *)
(*                                                                         *)
(* Songs are played by a chain of goroutines: start() takes a song off the *)
(* queue and registers its layer, a watcher waits for the layer to end and *)
(* then runs start() again.  `started' says that the chain is running; it  *)
(* ends when start() finds the queue empty, and Queue begins a new one.    *)
(*                                                                         *)
(* A song stands for one entry of the queue and the layer made for it.  A  *)
(* song that is over may be queued again, with a new layer.                *)
(***************************************************************************)
EXTENDS Mixer, Sequences

CONSTANTS
    Music, Speech,  \* the two layer ids, 0 and 1
    Songs,          \* queue entries and their layers
    Clips,          \* the layers of spoken replies
    QueueCapacity,  \* cfg.QueueCapacity
    Askers,         \* goroutines calling Queue
    Controls        \* the commands given: "skip", "stop", "leave"

ASSUME PlayerAssumption ==
    /\ Ids = {Music, Speech} /\ Music # Speech
    /\ Layers = Songs \cup Clips /\ Songs \cap Clips = {}
    /\ QueueCapacity \in Nat \ {0}

VARIABLES
    queue,          \* p.queue, oldest first
    started,        \* p.started
    starters,       \* start() goroutines waiting for slock
    taken,          \* the song start() has dequeued while it holds slock
    watched,        \* songs whose watcher waits on the layer's Ctx
    playing,        \* p.playing
    asker,          \* where each Queue call is
    stop,           \* where the Stop call is
    doomed          \* songs the latest Stop was to end (history)

playerVars == <<queue, started, starters, taken, watched, playing, asker, stop, doomed>>
vars == <<layers, cancelled, reader, buffered, mixing, snapshot, gallows,
          queue, started, starters, taken, watched, playing, asker, stop, doomed>>

Init ==
    /\ MixerInit
    /\ queue = <<>>
    /\ started = FALSE
    /\ starters = 0
    /\ taken = NoLayer
    /\ watched = {}
    /\ playing = NoLayer
    /\ asker = [a \in Askers |-> "idle"]
    /\ stop = "idle"
    /\ doomed = {}

Queued == {queue[i] : i \in 1 .. Len(queue)}

(* Entries waiting or on air; start() has the one in between. *)
InPlay == (Queued \cup {taken, layers[Music]}) \ {NoLayer}

(* Nothing of the song's last time round is left running. *)
Idle(s) ==
    /\ s \notin InPlay \cup watched \cup snapshot
    /\ reader[s] # "reading"

-----------------------------------------------------------------------------
(* Queue: the early check lets the search begin.  Search is the song      *)
(* cache's; here it finds a song or fails.                                 *)
Ask(a) ==
    /\ asker[a] = "idle" /\ Len(queue) < QueueCapacity
    /\ asker' = [asker EXCEPT ![a] = "searching"]
    /\ UNCHANGED <<mixerVars, queue, started, starters, taken, watched, playing, stop, doomed>>

SearchFails(a) ==
    /\ asker[a] = "searching"
    /\ asker' = [asker EXCEPT ![a] = "idle"]
    /\ UNCHANGED <<mixerVars, queue, started, starters, taken, watched, playing, stop, doomed>>

(* Mutant: the second check is left out. *)
checkQueueNever == FALSE

(* Under qlock: the queue may have filled up meanwhile.  The ring evicts   *)
(* its oldest element when it is full.                                     *)
checkQueueFull == Len(queue) >= QueueCapacity

RingEnqueue(s) ==
    queue' = Append(IF Len(queue) = QueueCapacity THEN Tail(queue) ELSE queue, s)

Enqueue(a, s) ==
    /\ asker[a] = "searching" /\ Idle(s)
    /\ IF checkQueueFull
       THEN /\ asker' = [asker EXCEPT ![a] = "idle"]
            /\ UNCHANGED <<queue, doomed>>
       ELSE /\ asker' = [asker EXCEPT ![a] = "enqueued"]
            /\ RingEnqueue(s)
            /\ doomed' = doomed \ {s}
    /\ UNCHANGED <<mixerVars, started, starters, taken, watched, playing, stop>>

(* Mutant: a chain is begun whether or not one is running. *)
EnsureStartedAlways(a) ==
    /\ asker[a] = "enqueued" /\ taken = NoLayer
    /\ asker' = [asker EXCEPT ![a] = "idle"]
    /\ starters' = starters + 1
    /\ started' = TRUE
    /\ UNCHANGED <<mixerVars, queue, taken, watched, playing, stop, doomed>>

(* Mutant: `started' read before the song is queued, and stale by now. *)
EnsureStartedStale(a) ==
    /\ asker[a] = "enqueued"
    /\ asker' = [asker EXCEPT ![a] = "idle"]
    /\ UNCHANGED <<mixerVars, queue, started, starters, taken, watched, playing, stop, doomed>>

(* Under slock: begin the chain unless it is running. *)
EnsureStarted(a) ==
    /\ asker[a] = "enqueued" /\ taken = NoLayer
    /\ asker' = [asker EXCEPT ![a] = "idle"]
    /\ starters' = IF started THEN starters ELSE starters + 1
    /\ started' = TRUE
    /\ UNCHANGED <<mixerVars, queue, taken, watched, playing, stop, doomed>>

-----------------------------------------------------------------------------
(* start() gets slock and dequeues: the chain ends, or it holds a song and *)
(* slock until the song is on air or given up.                             *)
StartTakes ==
    /\ starters > 0 /\ taken = NoLayer
    /\ starters' = starters - 1
    /\ IF queue = <<>>
       THEN started' = FALSE /\ UNCHANGED <<queue, taken>>
       ELSE taken' = Head(queue) /\ queue' = Tail(queue) /\ UNCHANGED started
    /\ UNCHANGED <<mixerVars, watched, playing, asker, stop, doomed>>

(* ffmpeg would not start: on to the next song. *)
StartFails ==
    /\ taken # NoLayer
    /\ taken' = NoLayer
    /\ starters' = starters + 1
    /\ UNCHANGED <<mixerVars, queue, started, watched, playing, asker, stop, doomed>>

(* The layer is registered and watched; were the id taken, on to the next. *)
StartRegisters ==
    /\ taken # NoLayer
    /\ taken' = NoLayer
    /\ IF layers[Music] = NoLayer
       THEN /\ Register(Music, taken)
            /\ playing' = taken
            /\ watched' = watched \cup {taken}
            /\ UNCHANGED starters
       ELSE /\ starters' = starters + 1
            /\ UNCHANGED <<mixerVars, playing, watched>>
    /\ UNCHANGED <<queue, started, asker, stop, doomed>>

(* Mutant: the watcher does not wait for the layer's end. *)
WatcherHurries(s) ==
    /\ s \in watched
    /\ watched' = watched \ {s}
    /\ starters' = starters + 1
    /\ UNCHANGED <<mixerVars, queue, started, taken, playing, asker, stop, doomed>>

(* Mutant: the watcher does not restart. *)
WatcherLeaves(s) ==
    /\ s \in watched /\ s \in cancelled
    /\ watched' = watched \ {s}
    /\ UNCHANGED <<mixerVars, queue, started, starters, taken, playing, asker, stop, doomed>>

(* The watcher sees the layer's Ctx done, closes the pipe and restarts. *)
WatcherRestarts(s) ==
    /\ s \in watched /\ s \in cancelled
    /\ watched' = watched \ {s}
    /\ starters' = starters + 1
    /\ UNCHANGED <<mixerVars, queue, started, taken, playing, asker, stop, doomed>>

-----------------------------------------------------------------------------
Skip ==
    /\ "skip" \in Controls /\ layers[Music] # NoLayer
    /\ Unregister(Music)
    /\ UNCHANGED playerVars

(* Stop empties the queue one Dequeue at a time, then ends the song. *)
StopBegins ==
    /\ "stop" \in Controls /\ stop = "idle" /\ InPlay # {}
    /\ stop' = "draining"
    /\ doomed' = InPlay
    /\ UNCHANGED <<mixerVars, queue, started, starters, taken, watched, playing, asker>>

(* Mutant: Stop ends the song only. *)
StopSkipsDraining ==
    /\ stop = "draining"
    /\ stop' = "unregister"
    /\ UNCHANGED <<mixerVars, queue, started, starters, taken, watched, playing, asker, doomed>>

StopDrains ==
    /\ stop = "draining"
    /\ IF queue = <<>>
       THEN stop' = "unregister" /\ UNCHANGED queue
       ELSE queue' = Tail(queue) /\ UNCHANGED stop
    /\ UNCHANGED <<mixerVars, started, starters, taken, watched, playing, asker, doomed>>

StopEnds ==
    /\ stop = "unregister"
    /\ Unregister(Music)
    /\ stop' = "idle"
    /\ UNCHANGED <<queue, started, starters, taken, watched, playing, asker, doomed>>

(* The voice connection closes and its provider with it (opus.go Close). *)
Leave ==
    /\ "leave" \in Controls /\ Registered # {}
    /\ CloseLayers
    /\ UNCHANGED playerVars

(* speak() registers the clip; it is over when the layer ends. *)
Speak(l) ==
    /\ layers[Speech] = NoLayer /\ reader[l] # "reading" /\ l \notin snapshot
    /\ Register(Speech, l)
    /\ UNCHANGED playerVars

(* The clip outlasts longestSpeech. *)
SpeakTimesOut ==
    /\ layers[Speech] # NoLayer
    /\ Unregister(Speech)
    /\ UNCHANGED playerVars

-----------------------------------------------------------------------------
IdOf(l) == IF l \in Clips THEN Speech ELSE Music

ReaderStep(l) == (ReadFrame(l) \/ ReadEnd(l)) /\ UNCHANGED playerVars

FrameStep ==
    /\ BeginFrame \/ (\E l \in snapshot : Receive(IdOf(l), l)) \/ EndFrame
    /\ UNCHANGED playerVars

Next ==
    \/ \E a \in Askers :
          Ask(a) \/ SearchFails(a) \/ (\E s \in Songs : Enqueue(a, s)) \/ EnsureStarted(a)
    \/ StartTakes \/ StartFails \/ StartRegisters
    \/ \E s \in Songs : WatcherRestarts(s)
    \/ Skip \/ StopBegins \/ StopDrains \/ StopEnds \/ Leave
    \/ (\E l \in Clips : Speak(l)) \/ SpeakTimesOut
    \/ \E l \in Layers : ReaderStep(l)
    \/ FrameStep

Spec == Init /\ [][Next]_vars

(* Goroutines run, songs and clips come to an end, and the bot stays in a  *)
(* voice channel, where the sender asks for a frame every 20 ms.  Nobody   *)
(* has to queue, skip, stop or leave, and ffmpeg may fail or not.          *)
Fairness ==
    /\ \A a \in Askers : WF_vars(EnsureStarted(a))
    /\ WF_vars(StartTakes) /\ WF_vars(StartFails \/ StartRegisters)
    /\ \A s \in Songs : WF_vars(WatcherRestarts(s))
    /\ \A l \in Layers : WF_vars(ReadEnd(l) /\ UNCHANGED playerVars)
    /\ WF_vars(FrameStep)

FairSpec == Spec /\ Fairness

-----------------------------------------------------------------------------
(* The mixer and the player keep their shape, the queue its capacity and   *)
(* start() only ever songs.                                                *)
TypeOK ==
    /\ MixerTypeOK
    /\ queue \in Seq(Songs) /\ Len(queue) <= QueueCapacity
    /\ started \in BOOLEAN
    /\ starters \in Nat
    /\ taken \in Songs \cup {NoLayer}
    /\ watched \subseteq Songs
    /\ playing \in Songs \cup {NoLayer}
    /\ asker \in [Askers -> {"idle", "searching", "enqueued"}]
    /\ stop \in {"idle", "draining", "unregister"}
    /\ doomed \subseteq Songs

(* Songs are played by one chain of goroutines: start() waiting or running *)
(* and watchers are together one exactly while `started' is set.  Two      *)
(* would take songs off each other; none would leave the queue to itself.  *)
OneChain ==
    starters + (IF taken = NoLayer THEN 0 ELSE 1) + Cardinality(watched)
        = (IF started THEN 1 ELSE 0)

(* A song in the queue has the chain running, or the Queue call that put   *)
(* it there is about to see to that, however start()'s finding the queue   *)
(* empty and the Enqueue fall together.                                    *)
NoStrandedSong ==
    queue # <<>> => started \/ \E a \in Askers : asker[a] = "enqueued"

(* start() never finds the music's layer id taken, so Register's error     *)
(* never costs a song its turn.                                            *)
RegisterSucceeds == taken # NoLayer => layers[Music] = NoLayer

(* The song on air is watched and its Ctx is not done: its end, whoever    *)
(* brings it about, is seen and starts the next.                           *)
OnAirIsWatched ==
    layers[Music] # NoLayer =>
        layers[Music] \in watched /\ layers[Music] \notin cancelled

(* To its users the player is a jukebox: a song has its turn from when    *)
(* start() takes it until its layer is off the air.                        *)
Box == INSTANCE Jukebox WITH
    NoSong <- NoLayer, Capacity <- QueueCapacity, waiting <- queue,
    on <- IF taken # NoLayer THEN taken ELSE layers[Music]

(* Through every race of Queue, start(), the watchers, the frame loop and  *)
(* the commands songs play in order, one at a time, none taken out of turn *)
(* and none evicted: "held across the fullness check and enqueue so        *)
(* concurrent queues can't overfill and evict the oldest song".            *)
ImplementsJukebox == Box!Spec

(* Of the songs queued or playing when Stop was called at most the one     *)
(* start() held at that moment is left once Stop has returned.             *)
StopMissesAtMostOne ==
    stop = "idle" => Cardinality(doomed \cap InPlay) <= 1

(* "stops the music, ending the current song and clearing the whole        *)
(* queue": after Stop none of the songs it was to end is on air.           *)
StopEndsMusic ==
    stop = "idle" => layers[Music] \notin doomed

(* "skips the song playing now and moves on to the next one in the queue": *)
(* the frame loop ends only songs that have run dry, never the next one.   *)
OnlyDrySongsEvicted ==
    [][EndFrame /\ layers[Music] # NoLayer /\ layers'[Music] = NoLayer =>
          reader[layers[Music]] = "closed" /\ buffered[layers[Music]] = 0]_vars

(* Every song queued gets its turn, or is cleared by Stop: it leaves the   *)
(* queue.                                                                  *)
SongsGetTheirTurn == \A s \in Songs : s \in Queued ~> s \notin Queued

(* A song or a spoken reply on air comes to an end, and its id is free     *)
(* again, though it is only evicted two frames after its last.             *)
LayersEnd == \A l \in Layers : l \in Registered ~> l \notin Registered
=============================================================================
