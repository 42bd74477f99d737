# Model Citizen in TLA+

Specifications of the parts of Model Citizen whose correctness depends on
order: what several goroutines, two processes and a network do to the same
state. TLC checks them on small instances, and TLAPS proves the most important
results for instances of any size. File references are to the repository's
`src/`.

## The system

Two Go services that talk over gRPC, and a shared library.

| Part | State | Operations | Interacts with |
| --- | --- | --- | --- |
| Provider rotation `shared/rotation.go` | slots with score and time benched, the selection; one lock | `Current`, `Judge`, `Fail`, `Rotate`, `next` | called by speech failover and the brain's chat loop |
| Speech failover `llm/server/speech.go` | per call: tries made, entry held | `Transcribe`, `Speak`, `failover` | one gRPC goroutine per call on a rotation that all share |
| Bounded queue `shared/queue.go` | ring, head, tail, size; one lock | `Enqueue`, `Dequeue`, `Clear`, `Items` | songs waiting, short term memory, song eviction |
| Audio mixer `shared/audio/mixing.go`, `discord-bot/audio/opus.go` | layers by id, a reader goroutine and a buffer each | `Register`, `Unregister`, `CloseLayers`, `NextFrames` | the music player, spoken replies, disgo's 20 ms sender |
| Music player `discord-bot/music/player.go` | queue, `started`, two locks, the song's layer | `Queue`, `Skip`, `Stop`, `start` and its watcher | mixer, song cache, commands and the bot's tools |
| Spoken replies `discord-bot/events/speak.go` | a clip's layer | `speak` | mixer, the llm's `Speak` |
| Song cache `discord-bot/music/ytdl.go` | cache, eviction queue, downloads under way, files; two locks | `Search` | the players of all guilds |
| Tool stream `llm/server/tools.go`, `discord-bot/network/tools.go` | the bot's stream, calls pending on it; the bot's loop | `RegisterTool`, `ToolCalls`, `remoteExecutor`, `deliver`, `close`; `RegisterTools`, `serveOnce` | the brain's tool set; both processes may restart |
| Brain `llm/model/brain.go` | memories, personalities, tools, chat rotation | `Chat`, `Memory`, `AddMemoryHolder`, `SystemMemory` | rotation, memories, tools |
| Memories `llm/memory`, `llm/server/memory.go` | a holder per guild and channel | `Memorize`, `Store` | the bot's chat and voice events |
| Chat events `discord-bot/events/chat.go`, `network` | a goroutine per message | `Remember`, `Reply` | the llm's memory and chat services |
| Wake listener `discord-bot/audio/listen.go`, `discord-bot/events/voice.go` | per speaker detector, recent audio, last wake; a channel of four wakes | `ReceiveOpusFrame`, `Utterances`, `answerWake` | voice connection, transcription, chat, speech |
| Guild services and voice `discord-bot/state`, `voice`, `router`, `actions` | player, mixer, listener per guild; a voice connection | `main`, `RegisterGuild`, `Join`, `Leave`, `SameChannel` | commands, tool calls, Discord |
| Configuration `llm/config`, `discord-bot/config` | what the file said | `Load`, validation | everything that is built from it |
| The llm's life `llm/main.go`, `llm/server/server.go` | services, calls under way | `main`, `StartGrpc`, shutdown | every service |
| Detector, decoder, audio arithmetic | windows of samples | `Feed`, `decode`, `Downsample` | wake listener |
| Provider clients `llm/clients` | none that lasts | HTTP requests | failover, the chat loop |

What is hard in it, each listed at its line under "hazards" in `PROJECT.json`:

- verdicts on a rotation's client land long after the selection moved on, and
  calls move it under each other (`Rotation`, `Failover`);
- a song passes between two locks, a goroutine that ends and one that begins
  it, while commands take layers away and the frame loop evicts by id what it
  saw under an earlier lock (`MusicPlayer`, `Mixer`);
- connections break and either process restarts between any two steps of a
  registration, a call or its result (`ToolStream`);
- waiters depend on the one caller that downloads for all, a failing step leaves the
  eviction queue and the cache apart, and files outlive failures and restarts (`SongCache`);
- a message's Remember races its own timeout, other messages and the replies,
  over holders that whoever misses them first creates; empty replies, rounds of
  tools and failover share the brain's loop (`Chat`, `Memories`);
- wakes queue up behind a slow answer while the audio they refer to ages, and
  speakers and the bot leave meanwhile (`WakeListener`);
- a guild is registered again, people and the bot are moved and connections open,
  close and die while commands are checked and carried out, each look under a lock of
  its own (`GuildVoice`);
- a configuration is validated in one place and built from in many, some of
  them later and from files that may have changed (`Startup`).

## Modules

| Module | What it is |
| --- | --- |
| `Rotation` | the rotation, used in any way at all by a set of users |
| `Failover` | extends `Rotation`: callers of `failover()` and time |
| `CircularQueue`, `BoundedFifo` | the ring, and what its interface promises; `CircularQueue!ImplementsFifo` is the refinement, with `Items` as the mapping |
| `Mixer` | the actions of the mixer, with no specification of its own |
| `MusicPlayer`, `Jukebox` | extends `Mixer`: the player, its users, spoken clips; and what the commands promise: `MusicPlayer!ImplementsJukebox` is the refinement |
| `SongCache` | `Search` by a set of callers |
| `ToolStream` | the bot, the llm and the network between them |
| `Memories` | the actions of the memory holders, with no specification of its own |
| `Chat` | extends `Rotation` and `Memories`: messages, from the bot to the brain's loop |
| `WakeListener` | packets, wakes, and the goroutine that answers them |
| `BotConfig` | the bot's configuration: when it is valid, what is built from it |
| `GuildVoice` | extends `BotConfig`: the bot's start, a guild's services, commands, voice connections |
| `LlmConfig` | the llm's configuration, and the clients it makes |
| `Startup` | extends `LlmConfig`: the llm from its file to its shutdown |
| `*Proofs` | theorems about the module they are named after; `MusicProofs` those about the song cache and the player, `LlmProofs` those about the llm's start (`Startup`) and its tool stream |
| `MC*` | a module's instances for TLC |

Operators whose comment begins with "Mutant" are not part of a specification.
Each is a plausible bug in one operation; substituted for the operation of its
line in `PROJECT.json`, it breaks the property named there, which shows that
the property can fail.

### Rotation and failover

Every method holds the rotation's lock throughout, so each is one action.
`selected` and `score` are the code's; the time a slot was benched is kept as
its `age` in ticks, which stops at `Parole`, because the code only ever compares
ages with the parole or with each other. Two slots older than `Parole` compare
equal, but `next()` gets as far as comparing them only when none is that old.
`held` is the `Entry` a user has. In
`Failover` a user is a call: `Begin`, `Try` (`Current`), `Answer` (`Judge` with
the time the try took), `Miss` (`Fail` and the loop's counter), `HangUp`
(`ctx.Err()`), and `Tick`. A try takes at least a tick and no more than
`PerClient`. `Steady` is a set of clients that always answer before `Punish`;
it may be empty, and then nothing is assumed of anyone.

- `rotation` (3 slots, 2 users, parole of 2 ticks, the code's bench score of
  10): the selected slot is never benched; a slot still on the bench is taken
  only when all are, and then the one there longest.
- `failover` (3 clients, 2 callers, a bench score of 4 and a parole of 3 to
  reach benching by slowness and parole in the midst of calls; fair): no call
  fails with "every client failed" while a client is steady; the selection only
  leaves a slot benched in the same step; calls end.
- `MCFailoverOneTry.cfg` finds the trace in which a call tries a client twice
  when there are two calls, `MCFailoverParole.cfg` the one in which a late fast
  answer ends a parole early.

Proved (`RotationProofs`, `FailoverProofs`), for every rotation, policy and
number of users: `SelectedInService`, which is inductive with the types;
`LastResort` and `LongestBenchedFirst`, which follow from it, because the slot
the selection moves off is then not among those it is compared with;
`OnlyBenchedIsLeft`; and `SteadyClientAnswers` for every number of clients and
callers. The last is not inductive. The argument: `next()` goes round the ring
and stops at the first slot in service, so it cannot jump over a steady client
h, whose score never reaches the bench. The number of slots from the selection
to h, `Way(selected, h)`, therefore never grows, a `Miss` of the selected client
shortens it, and a caller still to make its try has at least as many tries left
as that distance. `OnTheWay(h)` says so for every caller; one lemma per action
keeps it. A lemma for each says that a step of `Failover`, and one of `Chat`, is a
step of the rotation or leaves it alone; so both implement `RotationSpec`
(`FailoverRotates`, `ChatsRotate`), and what is proved of it, however its users call
it, is true of theirs (`FailoverGoesRound`, `ChatsGoRound`).

### The queue

`queue`, `head`, `tail`, `size` are the code's, `returned` is what a call gave
back. `queue` (run): capacity 3, three values. Proved for every capacity: the
types, `RingClosed` (head is where the element after the newest would be) and
`RingIsFifo`, the refinement, from `RingClosed` and how `Items` changes with
each operation.

### Player, mixer, clips

`Mixer` has an action per locked section: `BeginFrame` copies the layers,
`Receive` takes one layer's frame, `EndFrame` evicts by id under a new lock, so
registering and unregistering may come between. A layer's reader and buffer are
counted in frames. In `MusicPlayer`, `Queue` is `Ask` (the early check),
`SearchFails` or `Enqueue` (under `qlock`), and `EnsureStarted` (under `slock`);
`start()` is `StartTakes`, then `StartFails` or `StartRegisters`, with `taken`
for the song it holds along with `slock`; `starters` counts `start()` goroutines
that wait for it, and `watched` the songs whose watcher waits for the end of
their layer. `Stop` is one action per `Dequeue` and one for `Unregister`, for
nothing keeps others out between them.

- `music` (3 songs, queue of 2, 2 users, all commands, buffer of 1 frame,
  songs interchangeable): one chain of goroutines; no song in a queue that
  nobody will look at; `Register` never refuses the next song; the player
  implements `Jukebox`, in which songs have their turn in the order they were queued,
  one at a time, and leave the queue otherwise only from its front by a Stop, so that
  the ring never evicts one; Stop leaves at most one of its songs.
- `music_progress` (2 songs, 1 user, queue of 1, a spoken clip, skips; fair):
  songs get their turn, layers end.
- `MCMusicStop.cfg` finds the Stop that leaves a song playing, `MCMusicSkip.cfg`
  the frame loop that evicts the song after the one it found dry.

Capacity 2 and 3 songs are the least with which a song is on air or held by
`start()` while the queue is full. Fairness: goroutines
run, songs and clips end (`ReadEnd`), and a frame is asked for again and again,
which holds while the bot is in a voice channel: there is no Leave in that
run. Nobody is assumed to queue, skip, stop, or time a clip out.

Proved (`MusicProofs`, `OneChainPlaysAll`): types, `OneChain`,
`NoStrandedSong`, `OnAirIsWatched` and `RegisterSucceeds` for any songs, clips,
users, queue and buffer size. They are inductive together once songs and clips
are known to keep to their ids (`LayersApart`) and `watched` to be finite:
`OneChain` lets a `start()` that holds a song conclude that nothing is watched,
`OnAirIsWatched` then that nothing is on air, so registering succeeds and adds
the one watcher that `OneChain` counts. Clips must not end a song's layer, which is
what `LayersApart` is for. Two more theorems rest on it: `StopMissesAtMostOne`,
since once Stop has drained the queue nothing it was to end is put back (`Drained`),
and of `taken` and the layer on air one is empty; and the refinement
(`PlayerIsAJukebox`). There a song's turn is from when `start()` takes it
until its layer is off the air: `taken`, or else the music's layer. `OneChain` makes
that one song: whoever takes the next finds no watcher, so `OnAirIsWatched` leaves no
layer on air. `qlock` makes it a queue that nothing overfills: it only
shrinks between a check for room and the `Enqueue` that follows.

### The song cache

Each section under `clock` or `lock` is an action; the two that end a download,
deleting it from `downloading` and `wg.Done`, are two. `disk` holds the songs
whose file exists; `SongOf` is what yt-dlp finds, and the file is named after
the song, so that two queries may share it. The disk is not the cache's alone: it
starts with any files at all, for nothing clears the download folder when the bot
restarts with an empty cache; a search that fails may leave its file (`DownloadFails`);
and `os.Remove` may fail for reasons of its own or because its query has no entry
and so no path (`RemoveFails`). `strays` is history: the files that one of these left
and no search has found since. Nothing in the code deletes them.

- `songs` (3 callers, 3 queries, a cache of 2, a song each; fair): no double download;
  what is cached is in line for eviction, what is cached is on disk, and any other file
  there is about to be stored or is a stray (`CacheAgrees`); searches end. Three
  queries over a cache of 2 evict, also a query that an earlier failing `os.Remove`
  left in the queue without an entry; three callers are a leader, its waiter and
  another leader whose store evicts between the two.
- `MCSongTwins.cfg` (one caller, four queries of which two find one song, a cache of
  1) finds the search that returns a song whose file it has just removed.

What the code does not promise the model shows but no property forbids: one failing
`os.Remove` leaves a place in the eviction queue without an entry, and each time such a place
comes first the search that evicts it fails and leaves another. Fairness: goroutines
run and a download ends, by `search_timeout` at the latest.

Proved (`MusicProofs`): types and `SingleFlight` for any numbers of callers,
queries and tracks. The invariant ties the caller that leads a query to the
entry of `downloading`, which makes it the only one, so that when it stores the
song there is nobody left downloading it. `CachedInLine`, the first half of
`CacheAgrees`, is proved whatever fails; the whole of it where no two
queries find one song (`SongsApart`; without that it is false, which is the
finding above): the songs on disk are those cached, those a leader has yet to
enter, and the strays, and no file is of two of these kinds (`AgreeInv`). From it
follows what `max_tracks` promises, under the same condition: at rest no more files
than that are kept, strays apart (`TracksAreKept`). With them the folder has no bound.
`WaitersHaveALeader` is what `SearchesEnd` rests on: who waits has a leader that is
on its way to release it, and a leader never waits.

### The tool stream

The llm's part (`bot`, `handler`, `call`, `via`, `got`, `tools`), the bot's
(`loop`, `todo`, `current`, `running`) and the network's (`link`, `calls`,
`results`). A `ToolCalls` handler ends in the two steps of its deferred
function, `Unset` and `Close`; an executor reads `s.bot`, then sends, then
selects. Messages on a broken connection are lost, and either end notices
when it does. `epoch` counts restarts of the llm, and a message carries
the epoch of its call only so that the properties can tell calls of the same id apart.

`tools` (2 calls, 2 streams, one restart of the llm, two faults among broken
connections and restarts of the bot; fair): `s.bot` is the newest stream, calls
get their own result, they end without their timeout, and the bot comes back.
Two streams are enough for a dying and a new one at once; a stream object is used
again once nothing refers to it. The one thing assumed of time is that the
five seconds before a retry outlast the start of an earlier handler. Fairness:
both loops run, messages on a live connection arrive, tools finish, and a
stopped llm is started again; faults are bounded, as "once they stop" has to
mean something. No deadlock check: once the faults are spent and the tools
lost, nothing is left to do, which is what `tools_restart` is about.

Proved (`LlmProofs`), for any tools, streams, ids and number of restarts and faults:
types and `NewestStreamGetsCalls`, which needs that the only handler that has yet to
run is that of the stream the bot reads (`DialedIsCurrent`; the five seconds); and
`ResultsMatch`, by `LivesApart`: what moves on a stream that is up, or that has a
handler, is of this life of the llm, so a result that can be delivered is of the same
life as the call it goes to. `CallsEnd` is liveness, and TLC's; its safety half is
proved (`NobodyWaitsForNothing`): a call that waits for a result has it coming, on
the way to the bot, in a running tool, on the way back or delivered, or its stream is
down and has a handler that will close it and wake the call. That is why no
executor sleeps until its timeout.

### Chat and memories

A message is a user of the rotation. On the bot: `Write`, then `Remember` with its
timeout, which may strike while the llm goes on (`Memorize`, with a program counter
of its own, `rpc`), then `Reply` if the message mentions the bot. On the llm,
`Chat` (`pc` from "history" to "done"): the holder is looked up and made in two
steps, the guild's personality is chosen and applied in one, under the one lock that
`applyPersonality` holds (`Choose`), the history is read into the prompt, a model is
asked, and its answer is one of an error, nothing,
tool calls or text; empty answers fail over, tools run one by one, one of them
writes a note and one switches the personality, and the reply is stored. `chat`
holds the loop's locals. A memory is who said it, of which message, when, whether
it says anything, and its tool calls' ids; a prompt is the set of memories in it. An
id is a name with the numbers appended to it, as `"%s_%d"` appends one: `x_2` is the
same id whether a model gave it or `FreshId` made it of a second `x`. Models answer
anything they can; `Talkative` is a set of models that never answer
with nothing, and may be empty.

- `chat` (2 messages that both mention the bot, 2 models, a history of 1, two tool
  rounds, of which the first calls `x_2` and `x` and the second `x` again, one note): the
  loop keeps its bounds (in `TypeOK`: no more models asked than there are, no more
  completions than models and tool rounds together); nothing stored is lost to a second
  holder; a remembered message is in its reply's prompt; a talkative model is found;
  a reply in a prompt says something or has tool calls, and its results can be told apart
  unless a model gave the very id that a later call is renamed to
  (`HistoryReplays`); only a tool switches.
  A history of 1 makes every other memory evict one, and a bench score of 1 makes each
  empty answer bench; two chats are enough to bench and move under each other. The ids
  are the fewest with which one is renamed, and with which the new one can meet
  one given; `Completions`, `MaxNotes` and `CallNames` are bounds of the model, the
  code has none on what a model calls.
- `MCChatArrival.cfg` finds a late memory evicting a younger one.
  `MCChatEnds.cfg` (no tools, fair) checks that every message is
  handled to its end: `MessagesHandled` holds. It is an instance beside the runs.
- `MCChatReplay.cfg` (nobody talkative; with TLC's `-continue`, for it has two
  invariants) finds two results stored under one id (`ResultsApart`), when models
  call `x_2` and `x`, then `x`: `FreshId` does not compare the id it makes with
  those given. And it finds an empty reply with tool calls that is stored and
  replayed (`EmptyIsNotKept`).

Proved (`ChatProofs`): all six properties of `chat`, for any messages, models,
memories, tool calls and limits. `BaseInv` says what the types do not: the
selected model is in service, the holders keep the newest of what arrived
(`MemoriesInv`), and at each place of the loop its counters leave what that place
may still spend, and the holders it uses exist (`LocalsInv`). Upon it, one
invariant per theorem: an id that no model gave ends in the number of the calls before
it, so that two made ids differ and a made one can only meet one given, and everything
stored replays (`ReplayInv`); what a
Remember stored has arrived, and is in the prompt or pushed out of it (`SeesInv`);
whoever chats does so after the default was applied (`PersonalityInv`); and, for a
talkative model h, a chat has enough models left to ask to get to it (`TalksInv`),
which is failover's argument again. From `MemoriesInv` also `MemoriesAreFifos`, the
refinement: to a reader each key's memories are one queue of `BoundedFifo`, whoever
made its holder.

### The wake listener

Time is a count of instants; a packet arrives at one of its own and lasts one.
`Receive` is `ReceiveOpusFrame`: the pause before the packet, its level, the segment
kept and those trimmed, the detector's verdict (any) and its debounce, and the wake
that is sent, or dropped when the channel is full. `UserLeaves` is `CleanupUser`;
`BotLeaves` closes the connection and its receiver. The goroutine: `Pick`,
`Collect` when the speaker is quiet or has talked long enough (utterances
from the segments, joined into turns), `Answered`. `heard` is where the last answer
ended; `spoken` and `handed` are history: what those still here have said, and
what was given to transcription.

- `listen` (2 speakers, a window of 5, context 2, quiet 2, a command of 1, one
  place in the channel, 8 instants, 4 packets; fair): what the window still
  has of a wake's command and context is transcribed, nothing is transcribed twice,
  turns stay in order, wakes are taken. Four packets make two utterances of one
  speaker with another's in between and a wake in each; a window of 5 is the least
  its configuration allows, so that segments are trimmed within the horizon.
- `MCListenPause.cfg` finds a pause of `maxSilence` that joins what somebody else's
  speech parts; `MCListenQueued.cfg` a wake whose context was trimmed while it waited.

Fairness: time passes, the goroutine runs, and an answer ends, since every call it
makes has a timeout. Left out: samples, the wrap of the 32 bit timestamp and packets
out of order, utterances under `min_utterance` (which are dropped and so not
transcribed at all), and what a transcript says. A transcription that fails counts
as handed over, since the code moves `heard` all the same (a finding).

Proved (`WakeListenerProofs`): types, `NoSpeechSkipped`, `NothingTwice` and
`TurnsInOrder`, for any speakers, limits that `[listen]` allows, and number of wakes. First, of sets alone:
cutting segments into utterances and joining those to turns neither loses an
instant nor adds one (`CollectedIs`; a least and a latest start exist, by well
founded induction). Then `ListenInv`: wakes wait in order of time, what was said
and is young enough for the window still has its segment, everything from the
last wake's context to the last answer that was young enough then was
handed on, and `handed` lies before `until`, which outside an answer is `heard`.
`TurnsInOrder` needs two facts about what is kept (`SegmentsInv`): between two
neighbours among a speaker's segments lies the pause the later one tells, trimmed or
not, unless that is one decode() takes for a bad packet (`PausesAreTold`), and no two
speakers have a segment at one instant (`OneAtATime`). Then a pause as long as
`utteranceGap` begins a new utterance; joinTurns joins a stretch of a speaker's
utterances, without a gap, in which no other speaker's starts (`TurnsSpanNothing`);
and so the start of another's turn cannot lie in the pause (`CollectedInOrder`).

### Guilds, commands and voice

`main` is the step `main()` does next; `LoadConfig` and `MainStep` run the bot's
configuration, one thing wrong in it or nothing, through what is built from it.
`RegisterGuild` starts the goroutine that answers wakes. Every command, of a user
or a tool's unknown caller, is a goroutine with its locals in `cmd`: two voice states
(`Ask`, `LookSecond`), for a join the asker's once more (`LookChannel`), the
services (`GetGuild`), then the player (`Act`) or the connection (`CreateConn`,
`Open`, then `Answered`, `Provide` and `Receive` or else `OpenFails`; `Leave`). What
play, stop and skip do to the player is `MusicPlayer`'s part.

Discord's and disgo's part is modelled by what the bot sees of it, after
`_docs/disgo-voice`. `where` is who is in which channel, and it changes under everyone:
users move (`Move`), and the bot is kicked, moved, or loses its channel (`BotIsMoved`).
`Open` and `Close` only ask Discord for a channel or for none; `asked` holds what it has
yet to answer, in order, and the answer comes while other commands are under way, moves the
bot or not, and goes to whichever connection the manager has by then (`Answered`,
`Answer`). A bot that is in no channel any more has its connection closed, but still in
the manager (`BotIn`); a gateway closed for good closes and removes it
(`ConnectionLost`). `failed` and `thrown` are history: the Opens that failed, and
whether the bot was thrown out of the channel of the connection the manager has.

- `guilds` (2 commands at once, a user and nobody, 2 channels, 2 connections, the
  guild registered up to twice, every configuration of `Files`): no guild registers
  before `OnWake` is set and no packets go where nobody answers; a
  connected bot's configuration is valid, also that of the defaults, which nothing
  checks; a command passes its check only for somebody who shared the bot's channel
  since it was given; and until an `Open` fails, at rest, a bot in a channel has a
  connection that plays a guild's mixer and feeds its listener, and a bot in none has
  none, but for a dead one it was thrown out of. Two connections are enough for one that
  is closed while another is opened. `MaxAsked` = 2 requests await an answer, so that a leave
  is overtaken by a join; `MaxFailed` = 1: after an `Open` has failed the commands
  under way end, and no more are given.
- `MCGuildStop.cfg` finds a stop that reaches the player of a newer registration than
  the one heard. `MCGuildGhost.cfg` (with `-continue`, for it has an invariant and an
  action property) finds a bot in a channel it cannot be told to leave (`CanLeave`), and
  a join that opens the dead connection of a bot that was kicked (`JoinsAfresh`).

`ConnMatchesVoice` says nothing once an `Open` has failed: a late answer may then put the
bot where it has no connection, which is the finding. `CommandsNeedCompany` speaks of the
check, which is all the code promises: an asker who leaves between it and the act is
obeyed all the same. Not modelled: a request that never reaches Discord.

No fairness: these are safety properties. No deadlock check: `main` may exit.

Proved (`GuildVoiceProofs`): all four, for any commands, users, channels,
connections, registrations and requests. `IInv` orders `main()`'s steps against
`onWake` and `gateway`, with the configuration valid from its check on (`OrderInv`);
the services that the guild, a command or a connection holds are answered (`AnswerInv`);
what a command has met is in its history (`CommandInv`). `VoiceInv` is about the requests: every
channel asked for has an `Open` of its own that waits for it (`Owned`). Then
either an `Open` waits for an answer that somebody else got (`WaitsInVain`), or its
connection has been forgotten (`Forgotten`), and it is bound to fail; or all is sound
(`Sound`): the bot asks to leave before it asks for a channel again, and whatever
its connection lacks a command is about to provide. At rest nobody waits, so it
is sound, and nobody is left to provide, so nothing lacks.

### Configuration and startup

`LlmConfig` is `Load`'s validation and the choice of a client's service for what it
accepts, on a record of what the file decodes to: strings are the ones the
code compares with or others, and durations small integers. `Startup` goes from the file
through `NewBrainModel`, which reads the prompt files once more, and `StartGrpc` to
service, with chats that switch personality, requests to speak, and the shutdown
with its timeout. `startup` (every file within two edits of a complete one, prompt
files that come and go; fair only to the shutdown's timer): what `Load` accepts is
built, but for a prompt file gone or a port taken; every client in service can be
called; `Speak` never meets a voice without speakers; a terminated llm stops.
Two edits reach every pair of settings the validation relates (a personality and
its voice, a section and its clients).

Proved (`LlmProofs`): `AcceptedStarts` and `SpeakHasVoice` for any number of edits,
chats and requests, whatever becomes of the prompt files. Whatever the edits, the file
keeps its shape (`IsFile`, `SectionsMatch`); for a file of that shape validation implies that
everything `main` makes from it can be made (`AcceptedBuilds`), and a voice
that a personality has has its speakers; and the configuration in service is one that
was accepted.

## Findings

Under "findings" in `PROJECT.json`, each with the line it contradicts. In short:

- failover: concurrent calls do not give each client one try; a late fast answer
  ends a parole; a chat model that errors is never benched, and chat's
  `per_client_timeout` is validated and never used;
- music: Stop can miss the song `start()` holds; a Skip in the middle of a frame
  can end the next song; of two queries for one song storing one can delete the
  file of the other; the mixer's priorities are bedded against their comment;
- tools: an llm restart before `ToolCalls` leaves it without tools;
- memory: the memory evicted is the one that arrived first, not the oldest; an id made
  for a repeated tool call can be one a model gave; an empty reply with tool calls is
  kept and replayed;
- wakes: a long pause is taken for none; the window's check does not count the
  wait of a wake; what could not be transcribed is in nobody's context;
- guilds: registered again, a guild's commands reach a player nobody hears; an `Open`
  that times out may leave the bot where no command reaches it; after a kick a join
  opens the dead connection.

The configurations named above give the traces. Each checks the one property it is for,
`MCChatReplay.cfg` and `MCGuildGhost.cfg` two, which TLC's `-continue` shows both (it
may be stopped once it has); all but `MCChatEnds.cfg` end in a violation.

## Proved, checked, left out

Proved for every value of the constants, from the modules' ASSUMEs alone: the theorems
listed in `PROJECT.json`. They state every invariant, action property and refinement that the
passing runs check. Where a module's types are a theorem, its run checks other things.
Most ASSUMEs are enforced by the code's constructors or its validation. Two kinds are not.
Failover's `Steady # {} => Punish > 1 /\ PerClient >= Punish` says when a client can be
called steady: nothing validates `per_client_timeout` against `punish`, and the shipped
configuration satisfies it. Others give the model's own bounds and names their shape
(`MaxRegistered`, `MaxAsked`, `MaxFailed`, `Completions`, `MaxNotes`, and that `Nobody`,
`Nowhere` and the like are none of the things they stand beside); the theorems
hold for every value they may have.
Checked by TLC only: the liveness properties (`CallsEnd` of `Failover` and of
`ToolStream`, `BotComesBack`, `SongsGetTheirTurn`, `LayersEnd`, `SearchesEnd`,
`WakesAnswered`, `ShutdownEnds`), since liveness under fairness and ENABLED are beyond
TLAPS, and what the configurations beside the runs find.

`SongCache` and `Startup` name their specifications `CacheSpec` and `StartupSpec`,
since a module of proofs extends each of them together with another component.

Not modelled: samples, Opus, onnx inference and ffmpeg (floating point or
external programs); the provider clients' HTTP (no state; they answer, fail or time
out); `Recall` and `Wipe`, which nothing in the program calls; Background, which only
lets a command's answer go out early; the decoding of TOML; generated protobuf code;
wording and logging.

## Plan

Done, in this order: `Rotation`, `Failover`, `CircularQueue`, `Mixer` and
`MusicPlayer`, `ToolStream`, `SongCache`; then `Chat` over `Memories`,
`WakeListener`, `GuildVoice` with `BotConfig`, `Startup` with `LlmConfig`; the
proofs of every invariant and action property the runs check, and `Jukebox`. Left:

1. `SongCache` composed with players that queue its songs: a queued song's file
   may be evicted (a hazard no property covers).
2. For more of the liveness properties the safety half, as `NobodyWaitsForNothing`
   is for `CallsEnd`: that whoever waits has somebody who will end the wait.
3. That the queues the player and the song cache hold are used as `BoundedFifo`
   allows, as `MemoriesAreFifos` proves of the memories'.
