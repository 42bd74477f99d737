----------------------------- MODULE BotConfig ------------------------------
(***************************************************************************)
(* The bot's configuration (discord-bot/config/config.go).  Durations and  *)
(* numbers are integers, the threshold in hundredths; paths that only have *)
(* to be there are one field, paths.                                       *)
(***************************************************************************)
EXTENDS Integers

(* Default(), with durations in milliseconds. *)
Default == [
    level |-> "info",
    joinTimeout |-> 5000, layerBufferFrames |-> 25,
    queueCapacity |-> 25, searchTimeout |-> 120000, maxTracks |-> 50,
    paths |-> TRUE, wakeNames |-> {"model"}, threshold |-> 12,
    debounce |-> 3000, window |-> 30000, context |-> 10000,
    commandQuiet |-> 700, commandMax |-> 10000, minUtterance |-> 400,
    quietLevel |-> -40]

(* Mutant: the queue's capacity is not looked at. *)
BotValidAnyCapacity(c) ==
    /\ c.level \in {"debug", "info", "warn", "error"}
    /\ c.joinTimeout > 0 /\ c.layerBufferFrames > 0
    /\ c.searchTimeout > 0 /\ c.maxTracks > 0
    /\ c.paths
    /\ c.wakeNames # {} /\ "" \notin c.wakeNames
    /\ 0 < c.threshold /\ c.threshold <= 100
    /\ c.debounce >= 0 /\ c.context >= 0 /\ c.minUtterance >= 0
    /\ c.commandQuiet > 0 /\ c.commandMax > 0
    /\ -100 <= c.quietLevel /\ c.quietLevel < 0
    /\ c.window >= c.context + c.commandMax + c.commandQuiet

BotValid(c) ==
    /\ c.level \in {"debug", "info", "warn", "error"}
    /\ c.joinTimeout > 0 /\ c.layerBufferFrames > 0
    /\ c.queueCapacity > 0 /\ c.searchTimeout > 0 /\ c.maxTracks > 0
    /\ c.paths
    /\ c.wakeNames # {} /\ "" \notin c.wakeNames
    /\ 0 < c.threshold /\ c.threshold <= 100
    /\ c.debounce >= 0 /\ c.context >= 0 /\ c.minUtterance >= 0
    /\ c.commandQuiet > 0 /\ c.commandMax > 0
    /\ -100 <= c.quietLevel /\ c.quietLevel < 0
    /\ c.window >= c.context + c.commandMax + c.commandQuiet

(* NewCircularQueue, of which the song cache and every player have one. *)
QueueBuilds(capacity) == capacity > 0

(* InitGlobalServices, which main() cannot do without. *)
GlobalServicesBuild(c) == QueueBuilds(c.maxTracks)

(* RegisterGuild, whose error nobody looks at. *)
GuildBuilds(c) == QueueBuilds(c.queueCapacity)
=============================================================================
