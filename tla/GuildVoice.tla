----------------------------- MODULE GuildVoice -----------------------------
(***************************************************************************)
(* A guild's services and the commands given in it.  main() starts the     *)
(* bot; every GuildReady or GuildJoin registers the guild again, with a    *)
(* new mixer, player and listener; every command, a slash command's or a   *)
(* tool call's, runs in a goroutine of its own and looks at the voice      *)
(* states, the services and the connection one after another, each under   *)
(* a lock of its own.                                                      *)
(*                                                                         *)
(* Services are known by the number of their registration.  Voice states,  *)
(* connections and the gateway are disgo's and Discord's: they are         *)
(* modelled by what the bot sees of them, after _docs/disgo-voice.  The    *)
(* bot asks Discord to be in a channel or in none; Discord answers later,  *)
(* in that order, and moves the bot or throws it out as it likes.          *)
(***************************************************************************)
EXTENDS BotConfig, Sequences

CONSTANTS
    Commands,       \* goroutines running an action, used again when done
    Users, Nobody,  \* who may ask; snowflake 0, for a tool's unknown caller
    Bot,
    Channels, Nowhere,
    Conns, NoConn,  \* disgo's connection objects, used again when unused
    NoFile,         \* there is no configuration file
    MaxRegistered,  \* bound: how often the guild is registered
    MaxAsked,       \* bound: how many of the bot's requests await an answer
    MaxFailed       \* bound: commands are given until so many Opens have failed

ASSUME GuildAssumption ==
    /\ Nobody \notin Users /\ Bot \notin Users \cup {Nobody}
    /\ Nowhere \notin Channels /\ NoConn \notin Conns
    /\ {MaxRegistered, MaxAsked, MaxFailed} \subseteq Nat

(* play, stop and skip differ only in what they ask of the player, whose   *)
(* part is MusicPlayer's.                                                  *)
Actions == {"join", "leave", "player"}

VARIABLES
    config,         \* the configuration file, then what was loaded of it
    main,           \* what main() does next, or "serving", "exited", "panicked"
    wake, onWake,   \* services.Wake # nil, services.OnWake # nil
    gateway,        \* is the gateway open?
    services,       \* the guild's entry in guildServices, 0 for none
    answering,      \* the registrations with a WakeHandler goroutine
    where,          \* Caches.VoiceState: the channel everyone is in
    asked,          \* the channels the bot has asked Discord to be in, oldest first
    conn,           \* the VoiceManager's connection for the guild
    heard, fed,     \* whose mixer and listener each connection has, 0 for none
    cmd,            \* the locals of each command
    failed,         \* how many Opens have failed (history)
    thrown          \* was the bot thrown out of conn's channel? (history)

startVars == <<config, main, wake, onWake, gateway>>
guildVars == <<services, answering>>
voiceVars == <<where, asked, conn, heard, fed, failed, thrown>>
vars == <<startVars, guildVars, voiceVars, cmd>>

Everyone == Users \cup {Nobody, Bot}

(* been and hosted are history: the channels the asker and the bot have    *)
(* been in since the command was given.                                    *)
Idle == [at |-> "idle", do |-> "none", who |-> Nobody, channel |-> Nowhere,
         services |-> 0, conn |-> NoConn, been |-> {}, hosted |-> {}]

(* What the file may say: one thing or another wrong, or at its limit. *)
Files ==
    {[Default EXCEPT !.level = "loud"], [Default EXCEPT !.joinTimeout = 0],
     [Default EXCEPT !.layerBufferFrames = 0], [Default EXCEPT !.queueCapacity = 0],
     [Default EXCEPT !.searchTimeout = 0], [Default EXCEPT !.maxTracks = 0],
     [Default EXCEPT !.paths = FALSE], [Default EXCEPT !.wakeNames = {}],
     [Default EXCEPT !.wakeNames = {"model", ""}], [Default EXCEPT !.threshold = 0],
     [Default EXCEPT !.context = 20000], [Default EXCEPT !.commandQuiet = 0],
     [Default EXCEPT !.quietLevel = 0], [Default EXCEPT !.window = 20699]}

Init ==
    /\ config \in {NoFile, Default} \cup Files
    /\ main = "config" /\ wake = FALSE /\ onWake = FALSE /\ gateway = FALSE
    /\ services = 0 /\ answering = {}
    /\ where = [x \in Everyone |-> Nowhere] /\ asked = <<>>
    /\ conn = NoConn
    /\ heard = [k \in Conns |-> 0] /\ fed = [k \in Conns |-> 0]
    /\ cmd = [c \in Commands |-> Idle]
    /\ failed = 0 /\ thrown = FALSE

-----------------------------------------------------------------------------
(* main() *)

(* Mutant: the gateway opens before OnWake is set. *)
AfterGatewayFirst(step) ==
    CASE step = "services" -> "wake"
      [] step = "wake" -> "client"
      [] step = "client" -> "gateway"
      [] step = "gateway" -> "onwake"
      [] step = "onwake" -> "serving"

(* The steps of main(), in its order. *)
After(step) ==
    CASE step = "services" -> "wake"
      [] step = "wake" -> "client"
      [] step = "client" -> "onwake"
      [] step = "onwake" -> "gateway"
      [] step = "gateway" -> "serving"

(* config.Load: without a file the defaults are taken unchecked. *)
LoadConfig ==
    /\ main = "config"
    /\ config' = IF config = NoFile THEN Default ELSE config
    /\ main' = IF config = NoFile \/ BotValid(config) THEN "services" ELSE "exited"
    /\ UNCHANGED <<wake, onWake, gateway, guildVars, voiceVars, cmd>>

(* The services, disgo's client and the gateway are needed; the wake word  *)
(* and music are not.                                                      *)
MainStep ==
    /\ main \in {"services", "wake", "client", "onwake", "gateway"}
    /\ main = "services" => GlobalServicesBuild(config)
    /\ main' = After(main)
    /\ wake' \in IF main = "wake" THEN BOOLEAN ELSE {wake}
    /\ onWake' = (onWake \/ main = "onwake")
    /\ gateway' = (gateway \/ main = "gateway")
    /\ UNCHANGED <<config, guildVars, voiceVars, cmd>>

MainExits ==
    /\ main \in {"client", "gateway"}
    /\ main' = "exited"
    /\ UNCHANGED <<config, wake, onWake, gateway, guildVars, voiceVars, cmd>>

Connected == gateway /\ main \notin {"panicked", "exited"}

(* GuildReady or GuildJoin: RegisterGuild, whose goroutine calls OnWake.   *)
(* Its error, when a queue cannot be built, is not looked at.              *)
RegisterGuild ==
    /\ Connected /\ services < MaxRegistered
    /\ GuildBuilds(config)
    /\ services' = services + 1
    /\ IF wake
       THEN /\ answering' = IF onWake THEN answering \cup {services + 1} ELSE answering
            /\ main' = IF onWake THEN main ELSE "panicked"
       ELSE UNCHANGED <<answering, main>>
    /\ UNCHANGED <<config, wake, onWake, gateway, voiceVars, cmd>>

-----------------------------------------------------------------------------
(* What others do *)

(* The commands being checked note where their asker and the bot are. *)
Noted(cm, wh) ==
    [c \in Commands |->
        IF cm[c].at \notin {"second", "channel"} THEN cm[c]
        ELSE [cm[c] EXCEPT !.been = (@ \cup {wh[cm[c].who]}) \ {Nowhere},
                           !.hosted = (@ \cup {wh[Bot]}) \ {Nowhere}]]

Move(u) ==
    /\ Connected
    /\ \E ch \in Channels \cup {Nowhere} :
          /\ ch # where[u]
          /\ where' = [where EXCEPT ![u] = ch]
    /\ cmd' = Noted(cmd, where')
    /\ UNCHANGED <<startVars, guildVars, asked, conn, heard, fed, failed, thrown>>

(* The sender and the receiver of the manager's connection are closed. *)
Silenced ==
    /\ heard' = [k \in Conns |-> IF k = conn THEN 0 ELSE heard[k]]
    /\ fed' = [k \in Conns |-> IF k = conn THEN 0 ELSE fed[k]]

(* HandleVoiceStateUpdate: a bot that is in no channel any more has the    *)
(* manager's connection closed, but not removed.                           *)
BotIn(ch) ==
    /\ where' = [where EXCEPT ![Bot] = ch]
    /\ IF ch = Nowhere /\ where[Bot] # Nowhere THEN Silenced ELSE UNCHANGED <<heard, fed>>

(* The bot is kicked, its channel is deleted, or it is moved to another,   *)
(* which leaves the connection as it is.                                   *)
BotIsMoved ==
    /\ Connected /\ where[Bot] # Nowhere
    /\ \E ch \in Channels \cup {Nowhere} :
          /\ ch # where[Bot]
          /\ BotIn(ch)
          /\ thrown' = (thrown \/ (ch = Nowhere /\ conn # NoConn))
    /\ cmd' = Noted(cmd, where')
    /\ UNCHANGED <<startVars, guildVars, asked, conn, failed>>

(* The bot is where it asked to be, and no Open returns for it; or it may  *)
(* not be there, and hears nothing.                                        *)
Answer ==
    /\ Connected /\ asked # <<>>
    /\ asked' = Tail(asked)
    /\ \/ /\ BotIn(Head(asked))
          /\ cmd' = Noted(cmd, where')
       \/ /\ Head(asked) # Nowhere
          /\ UNCHANGED <<where, heard, fed, cmd>>
    /\ UNCHANGED <<startVars, guildVars, conn, failed, thrown>>

(* conn.Close: the bot asks to be in no channel, and the manager forgets   *)
(* the connection.                                                         *)
Close ==
    /\ Len(asked) < MaxAsked
    /\ asked' = Append(asked, Nowhere)
    /\ conn' = NoConn /\ thrown' = FALSE
    /\ Silenced

(* The voice gateway closes with a code that allows no reconnect. *)
ConnectionLost ==
    /\ conn # NoConn
    /\ \/ heard[conn] # 0
       \/ \E c \in Commands : cmd[c].at = "arrived" /\ cmd[c].conn = conn
    /\ Close
    /\ UNCHANGED <<startVars, guildVars, where, cmd, failed>>

-----------------------------------------------------------------------------
(* A command *)

Goto(c, step) == cmd' = [cmd EXCEPT ![c].at = step]
Done(c) == cmd' = [cmd EXCEPT ![c] = Idle]

(* SameChannel reads two voice states, leave's the other way round. *)
FirstOf(do, who) == IF do = "leave" THEN Bot ELSE who
SecondOf(do, who) == IF do = "leave" THEN who ELSE Bot

(* A slash command's goroutine starts, or the tool's handler, and looks up *)
(* the first voice state.                                                  *)
Ask(c) ==
    /\ Connected /\ cmd[c].at = "idle" /\ failed < MaxFailed
    /\ \E do \in Actions, u \in Users \cup {Nobody} :
          cmd' = Noted([cmd EXCEPT ![c] = [Idle EXCEPT !.at = "second", !.do = do, !.who = u,
                                                       !.channel = where[FirstOf(do, u)]]], where)
    /\ UNCHANGED <<startVars, guildVars, voiceVars>>

(* Mutant: nobody anywhere counts as the same place. *)
BothPresentOrNeither(first, second) == first = second

BothPresent(first, second) == first # Nowhere /\ first = second

(* The check is passed. *)
Passes(c, step, ch) ==
    cmd' = [cmd EXCEPT ![c].at = step, ![c].channel = ch, ![c].been = {}, ![c].hosted = {}]

(* Only join wants the bot elsewhere, and then only nowhere. *)
LookSecond(c) ==
    /\ cmd[c].at = "second"
    /\ LET first == cmd[c].channel
           second == where[SecondOf(cmd[c].do, cmd[c].who)]
       IN  IF cmd[c].do = "join"
           THEN IF first # Nowhere /\ second = Nowhere THEN Goto(c, "channel") ELSE Done(c)
           ELSE IF BothPresent(first, second)
                THEN Passes(c, IF cmd[c].do = "leave" THEN "leave" ELSE "services", Nowhere)
                ELSE Done(c)
    /\ UNCHANGED <<startVars, guildVars, voiceVars>>

(* Join looks for the asker's channel once more. *)
LookChannel(c) ==
    /\ cmd[c].at = "channel"
    /\ IF where[cmd[c].who] = Nowhere
       THEN Done(c)
       ELSE Passes(c, "services", where[cmd[c].who])
    /\ UNCHANGED <<startVars, guildVars, voiceVars>>

GetGuild(c) ==
    /\ cmd[c].at = "services"
    /\ IF services = 0
       THEN Done(c)
       ELSE cmd' = [cmd EXCEPT ![c].services = services,
                               ![c].at = IF cmd[c].do = "join" THEN "create" ELSE "act"]
    /\ UNCHANGED <<startVars, guildVars, voiceVars>>

(* The player's Queue, Stop or Skip, on the services found above. *)
Act(c) ==
    /\ cmd[c].at = "act"
    /\ Done(c)
    /\ UNCHANGED <<startVars, guildVars, voiceVars>>

-----------------------------------------------------------------------------
(* Join and Leave *)

Unused(k) == conn # k /\ \A c \in Commands : cmd[c].conn # k

CreateConn(c) ==
    /\ cmd[c].at = "create"
    /\ \E k \in Conns :
          /\ IF conn # NoConn
             THEN k = conn /\ UNCHANGED <<heard, fed>>
             ELSE /\ Unused(k)
                  /\ heard' = [heard EXCEPT ![k] = 0] /\ fed' = [fed EXCEPT ![k] = 0]
          /\ conn' = k
          /\ cmd' = [cmd EXCEPT ![c].at = "open", ![c].conn = k]
    /\ UNCHANGED <<startVars, guildVars, where, asked, failed, thrown>>

(* Open asks Discord to be in the channel ... *)
Open(c) ==
    /\ cmd[c].at = "open" /\ Len(asked) < MaxAsked
    /\ asked' = Append(asked, cmd[c].channel)
    /\ cmd' = [cmd EXCEPT ![c].at = "sent", ![c].channel = Nowhere]
    /\ UNCHANGED <<startVars, guildVars, where, conn, heard, fed, failed, thrown>>

(* ... whose answer the manager gives to the connection it has by then:    *)
(* one of the Opens that wait for that connection may return ...           *)
Answered(c) ==
    /\ Connected /\ asked # <<>> /\ Head(asked) # Nowhere
    /\ cmd[c].at = "sent" /\ cmd[c].conn = conn
    /\ BotIn(Head(asked))
    /\ asked' = Tail(asked)
    /\ cmd' = Noted([cmd EXCEPT ![c].at = "arrived"], where')
    /\ thrown' = FALSE
    /\ UNCHANGED <<startVars, guildVars, conn, failed>>

(* ... and does, once the voice gateway and the socket are up;             *)
(* SetOpusFrameProvider.                                                   *)
Provide(c) ==
    /\ cmd[c].at = "arrived"
    /\ heard' = [heard EXCEPT ![cmd[c].conn] = cmd[c].services]
    /\ Goto(c, "receive")
    /\ UNCHANGED <<startVars, guildVars, where, asked, conn, fed, failed, thrown>>

(* SetOpusFrameReceiver, if the guild has a listener *)
Receive(c) ==
    /\ cmd[c].at = "receive"
    /\ fed' = IF wake THEN [fed EXCEPT ![cmd[c].conn] = cmd[c].services] ELSE fed
    /\ Done(c)
    /\ UNCHANGED <<startVars, guildVars, where, asked, conn, heard, failed, thrown>>

(* Open's error or join_timeout, whatever has become of the request:       *)
(* RemoveConn makes the manager forget the connection it has by then.      *)
OpenFails(c) ==
    /\ cmd[c].at \in {"open", "sent", "arrived"}
    /\ conn' = NoConn
    /\ failed' = failed + 1 /\ thrown' = FALSE
    /\ Done(c)
    /\ UNCHANGED <<startVars, guildVars, where, asked, heard, fed>>

(* Mutant: the connection is dropped, not closed. *)
LeaveRemoves(c) ==
    /\ cmd[c].at = "leave"
    /\ conn' = NoConn
    /\ Done(c)
    /\ UNCHANGED <<startVars, guildVars, where, asked, heard, fed, failed, thrown>>

(* GetConn and Close; without a connection there is only an error. *)
Leave(c) ==
    /\ cmd[c].at = "leave"
    /\ IF conn # NoConn THEN Close ELSE UNCHANGED <<asked, conn, heard, fed, thrown>>
    /\ Done(c)
    /\ UNCHANGED <<startVars, guildVars, where, failed>>

Command(c) ==
    \/ LookSecond(c) \/ LookChannel(c) \/ GetGuild(c) \/ Act(c)
    \/ CreateConn(c) \/ Open(c) \/ Answered(c) \/ OpenFails(c)
    \/ Provide(c) \/ Receive(c) \/ Leave(c)

Next ==
    \/ LoadConfig \/ MainStep \/ MainExits \/ RegisterGuild
    \/ \E u \in Users : Move(u)
    \/ BotIsMoved \/ Answer \/ ConnectionLost
    \/ \E c \in Commands : Ask(c) \/ Command(c)

Spec == Init /\ [][Next]_vars

-----------------------------------------------------------------------------
(* A bot that connects has a configuration with which RegisterGuild cannot *)
(* fail and that WakeListener can work with; so do the defaults, which no  *)
(* file overrides and nothing checks.                                      *)
ConnectedIsConfigured ==
    Connected =>
        /\ GuildBuilds(config)
        /\ config.commandQuiet > 0 /\ config.commandMax > 0 /\ config.context >= 0
        /\ config.window >= config.context + config.commandMax + config.commandQuiet

(* "set before the gateway opens, guilds register as soon as it does":     *)
(* registering a guild never calls an OnWake that is not set, and wherever *)
(* a connection's packets go somebody answers the wakes heard in them.     *)
ListenersAreAnswered ==
    /\ main # "panicked"
    /\ \A k \in Conns : fed[k] # 0 => fed[k] \in answering

(* A command that passes its check was given by someone who had been in a  *)
(* channel the bot had been in, both since it was given; the tool calls of *)
(* an unknown caller never pass ("so the voice checks find nobody").       *)
CommandsNeedCompany ==
    [][\A c \in Commands :
          /\ cmd[c].at = "second" /\ cmd'[c].at \in {"services", "leave"} =>
                cmd[c].been \cap cmd[c].hosted # {}
          /\ cmd[c].at = "channel" /\ cmd'[c].at = "services" => cmd[c].been # {}]_vars

(* However joins, leaves, kicks, moves and lost connections overlap, until *)
(* an Open fails: with no command under way and no request unanswered, a   *)
(* bot that is in a channel has a connection, which plays a guild's mixer  *)
(* and feeds its listener, and a bot that is in none has no connection     *)
(* but one it was thrown out of.                                           *)
ConnMatchesVoice ==
    (failed = 0 /\ asked = <<>> /\ \A c \in Commands : cmd[c].at = "idle") =>
        IF where[Bot] = Nowhere THEN conn = NoConn \/ thrown
        ELSE conn # NoConn /\ heard[conn] # 0 /\ (wake => fed[conn] # 0)

(* "leaves the user's voice channel": without that condition too, a bot    *)
(* seen in a channel can be told to leave it.                              *)
CanLeave ==
    (asked = <<>> /\ \A c \in Commands : cmd[c].at = "idle") /\ where[Bot] # Nowhere =>
        conn # NoConn

(* "so call VoiceManager.RemoveConn(guildID) (or conn.Close) before        *)
(* reconnecting": a join never gets the connection that was thrown out.    *)
JoinsAfresh ==
    [][\A c \in Commands : cmd[c].at = "create" /\ cmd'[c].at = "open" => ~thrown]_vars

(* "stops the music, ending the current song and clearing the whole        *)
(* queue": a command to the player reaches the one heard in the channel.   *)
CommandsReachWhatIsHeard ==
    [][\A c \in Commands :
          cmd[c].at = "act" /\ cmd'[c].at = "idle" /\ conn # NoConn /\ heard[conn] # 0 =>
              heard[conn] = cmd[c].services]_vars
=============================================================================
