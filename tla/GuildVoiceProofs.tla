--------------------------- MODULE GuildVoiceProofs ---------------------------
(***************************************************************************)
(* For any number of users, channels, connections, registrations, requests *)
(* and commands at once: what GuildVoice promises of a guild's listeners,  *)
(* of who a command obeys, and of the bot's connection and channel.        *)
(***************************************************************************)
EXTENDS GuildVoice, TLAPS

Steps == {"idle", "second", "channel", "services", "act", "create",
          "open", "sent", "arrived", "receive", "leave"}

Watching == {"second", "channel"}
Opening == {"open", "sent", "arrived", "receive"}

Cmd == [at : Steps, do : Actions \cup {"none"}, who : Users \cup {Nobody},
        channel : Channels \cup {Nowhere}, services : Nat, conn : Conns \cup {NoConn},
        been : SUBSET Channels, hosted : SUBSET Channels]

Running == {"services", "wake", "client", "onwake", "gateway", "serving"}

Types ==
    /\ main \in {"config", "exited", "panicked"} \cup Running
    /\ wake \in BOOLEAN /\ onWake \in BOOLEAN /\ gateway \in BOOLEAN
    /\ services \in Nat
    /\ where \in [Everyone -> Channels \cup {Nowhere}]
    /\ asked \in Seq(Channels \cup {Nowhere})
    /\ conn \in Conns \cup {NoConn}
    /\ heard \in [Conns -> Nat] /\ fed \in [Conns -> Nat]
    /\ cmd \in [Commands -> Cmd]
    /\ failed \in Nat /\ thrown \in BOOLEAN

(* What a command has found out, and where its asker and the bot have been *)
(* while it looks.                                                         *)
Met(x) ==
    /\ x.at = "second" /\ x.do # "join" /\ x.channel # Nowhere =>
          x.channel \in (IF x.do = "leave" THEN x.hosted ELSE x.been)
    /\ x.at = "channel" => x.do = "join"
    /\ x.at = "services" /\ x.do = "join" => x.channel # Nowhere
    /\ x.at \in {"create", "open"} => x.channel # Nowhere
    /\ x.at \in {"create"} \cup Opening => x.services # 0
    /\ x.at \in Opening => x.conn # NoConn

Sees(x, wh) ==
    x.at \in Watching => /\ wh[x.who] # Nowhere => wh[x.who] \in x.been
                         /\ wh[Bot] # Nowhere => wh[Bot] \in x.hosted

CommandInv == \A c \in Commands : Met(cmd[c]) /\ Sees(cmd[c], where)

(* The order of main(): nothing of a guild exists before the gateway is    *)
(* open, and by then the configuration is checked and OnWake set.          *)
OrderInv ==
    /\ main \in Running => BotValid(config)
    /\ main \in {"gateway", "serving"} => onWake
    /\ gateway => main = "serving"
    /\ main # "panicked"
    /\ services # 0 => gateway
    /\ conn # NoConn => gateway
    /\ \A c \in Commands : cmd[c].services # 0 => gateway

(* Whatever services anybody holds, their wakes are answered. *)
AnswerInv ==
    /\ wake /\ services # 0 => services \in answering
    /\ \A c \in Commands : wake /\ cmd[c].services # 0 => cmd[c].services \in answering
    /\ \A k \in Conns : fed[k] # 0 => fed[k] \in answering

(* Every channel asked for has an Open that waits for it, one of its own.  *)
Owned(o) ==
    \A i \in DOMAIN asked : asked[i] # Nowhere =>
        /\ o[i] \in Commands /\ cmd[o[i]].at = "sent"
        /\ \A j \in DOMAIN asked : asked[j] # Nowhere /\ o[j] = o[i] => j = i

(* Two reasons why an Open is bound to fail: it waits, and nothing is asked *)
(* for it any more; or the manager has forgotten its connection.           *)
WaitsInVain(o) ==
    \E c \in Commands :
        /\ cmd[c].at = "sent"
        /\ \A i \in DOMAIN asked : asked[i] # Nowhere => o[i] # c
Forgotten ==
    \E c \in Commands : cmd[c].at \in {"open", "sent"} /\ cmd[c].conn # conn

(* The manager's connection has a command at one of these steps. *)
Provides(at) == \E c \in Commands : cmd[c].at \in at /\ cmd[c].conn = conn

Leaving == \E i \in DOMAIN asked : asked[i] = Nowhere

(* Otherwise the bot asks to leave before it asks for a channel again, and *)
(* whatever the connection lacks somebody is about to provide.             *)
Sound ==
    /\ \A i \in DOMAIN asked, j \in DOMAIN asked :
          asked[j] = Nowhere /\ i < j => asked[i] = Nowhere
    /\ Leaving => conn = NoConn \/ Provides({"open", "sent"})
    /\ where[Bot] = Nowhere => conn = NoConn \/ thrown \/ Provides({"open", "sent"})
    /\ where[Bot] # Nowhere =>
          \/ Leaving
          \/ /\ conn # NoConn
             /\ heard[conn] # 0 \/ Provides({"arrived"})
             /\ wake => fed[conn] # 0 \/ Provides({"arrived", "receive"})

Agree(o) == Owned(o) /\ (WaitsInVain(o) \/ Forgotten \/ Sound)

VoiceInv ==
    failed = 0 => \E o \in [DOMAIN asked -> Commands \cup {Nowhere}] : Agree(o)

IInv == Types /\ CommandInv /\ OrderInv /\ AnswerInv /\ VoiceInv

-----------------------------------------------------------------------------
(* What Noted does to one command. *)
Note(x, wh) ==
    IF x.at \notin Watching THEN x
    ELSE [x EXCEPT !.been = (@ \cup {wh[x.who]}) \ {Nowhere},
                   !.hosted = (@ \cup {wh[Bot]}) \ {Nowhere}]

LEMMA NotedIs ==
    ASSUME NEW cm, NEW wh, NEW c \in Commands
    PROVE  Noted(cm, wh)[c] = Note(cm[c], wh)
BY DEF Noted, Note, Watching

(* It keeps the rest of the command, and what was found out. *)
LEMMA NoteKeeps ==
    ASSUME NEW x \in Cmd, NEW wh \in [Everyone -> Channels \cup {Nowhere}]
    PROVE  /\ Note(x, wh) \in Cmd
           /\ Note(x, wh).at = x.at /\ Note(x, wh).do = x.do
           /\ Note(x, wh).channel = x.channel
           /\ Note(x, wh).services = x.services /\ Note(x, wh).conn = x.conn
           /\ Met(x) => Met(Note(x, wh))
           /\ Sees(Note(x, wh), wh)
<1> DEFINE y == Note(x, wh)
<1>1. wh[x.who] \in Channels \cup {Nowhere} /\ wh[Bot] \in Channels \cup {Nowhere}
  BY DEF Cmd, Everyone
<1>2. CASE x.at \notin Watching
  BY <1>2 DEF Note, Sees
<1>3. CASE x.at \in Watching
  <2>1. /\ y \in Cmd /\ y.at = x.at /\ y.do = x.do /\ y.who = x.who
        /\ y.channel = x.channel /\ y.services = x.services /\ y.conn = x.conn
        /\ y.been = (x.been \cup {wh[x.who]}) \ {Nowhere}
        /\ y.hosted = (x.hosted \cup {wh[Bot]}) \ {Nowhere}
    BY <1>1, <1>3 DEF Note, Cmd
  <2> HIDE DEF y
  <2>2. x.been \subseteq y.been /\ x.hosted \subseteq y.hosted
    BY <2>1, GuildAssumption DEF Cmd
  <2>3. Sees(y, wh) BY <2>1 DEF Sees
  <2>4. ASSUME Met(x) PROVE Met(y)
    BY <1>3, <2>1, <2>2, <2>4 DEF Met, Watching
  <2> QED BY <2>1, <2>3, <2>4 DEF y
<1> QED BY <1>2, <1>3

LEMMA IdleIs == Idle \in Cmd /\ Idle.at = "idle" /\ Met(Idle) /\ Idle.services = 0
BY DEF Idle, Cmd, Steps, Met, Opening, Actions

-----------------------------------------------------------------------------
(* A step that moves nobody and replaces one command by another. *)
LEMMA Replaced ==
    ASSUME IInv, NEW c \in Commands, NEW x \in Cmd,
           cmd' = [cmd EXCEPT ![c] = x], Met(x),
           Sees(x, where), UNCHANGED where
    PROVE  cmd' \in [Commands -> Cmd] /\ CommandInv'
BY DEF IInv, Types, CommandInv

(* A step that moves somebody, and notes it. *)
LEMMA NotedAll ==
    ASSUME IInv, NEW cm \in [Commands -> Cmd],
           \A c \in Commands : Met(cm[c]) \/ Met(Note(cm[c], where')),
           where' \in [Everyone -> Channels \cup {Nowhere}],
           cmd' = Noted(cm, where')
    PROVE  /\ cmd' \in [Commands -> Cmd] /\ CommandInv'
           /\ \A c \in Commands : /\ cmd'[c].at = cm[c].at /\ cmd'[c].conn = cm[c].conn
                                  /\ cmd'[c].services = cm[c].services
<1>1. \A c \in Commands : cmd'[c] = Note(cm[c], where') BY NotedIs
<1>2. cmd' = [c \in Commands |-> cmd'[c]] BY DEF Noted
<1>3. \A c \in Commands : cmd'[c] \in Cmd BY <1>1, NoteKeeps
<1>4. CommandInv' BY <1>1, NoteKeeps DEF CommandInv
<1>5. \A c \in Commands : /\ cmd'[c].at = cm[c].at /\ cmd'[c].conn = cm[c].conn
                          /\ cmd'[c].services = cm[c].services
  BY <1>1, NoteKeeps
<1> QED BY <1>2, <1>3, <1>4, <1>5

(* A step that leaves connections and whoever opens them alone. *)
LEMMA VoiceKeeps ==
    ASSUME VoiceInv, UNCHANGED <<asked, conn, heard, fed, failed, thrown, wake>>,
           where'[Bot] = where[Bot],
           \A d \in Commands : cmd[d].at \in Opening =>
               cmd'[d].at = cmd[d].at /\ cmd'[d].conn = cmd[d].conn
    PROVE  VoiceInv'
<1> SUFFICES ASSUME failed = 0 PROVE VoiceInv' BY DEF VoiceInv
<1>1. PICK o \in [DOMAIN asked -> Commands \cup {Nowhere}] : Agree(o) BY DEF VoiceInv
<1>2. Owned(o)' BY <1>1 DEF Agree, Owned, Opening
<1>3. WaitsInVain(o) => WaitsInVain(o)' BY DEF WaitsInVain, Opening
<1>4. Forgotten => Forgotten' BY DEF Forgotten, Opening
<1>5. Sound => Sound'
  <2>1. \A at \in SUBSET Opening : Provides(at) => Provides(at)' BY DEF Provides
  <2>2. /\ Provides({"open", "sent"}) => Provides({"open", "sent"})'
        /\ Provides({"arrived"}) => Provides({"arrived"})'
        /\ Provides({"arrived", "receive"}) => Provides({"arrived", "receive"})'
    BY <2>1 DEF Opening
  <2>3. Leaving' = Leaving BY DEF Leaving
  <2> QED BY <2>2, <2>3 DEF Sound
<1> QED BY <1>1, <1>2, <1>3, <1>4, <1>5 DEF VoiceInv, Agree

(* A step of a command that only looks, or ends. *)
LEMMA OnlyLooks ==
    ASSUME IInv, NEW c \in Commands, NEW x \in Cmd,
           cmd' = [cmd EXCEPT ![c] = x], Met(x), Sees(x, where),
           x.services \in {0, cmd[c].services, services},
           cmd[c].at \notin Opening,
           UNCHANGED <<startVars, guildVars, voiceVars>>
    PROVE  IInv'
<1> USE DEF startVars, guildVars, voiceVars
<1>1. Types' /\ CommandInv' BY Replaced DEF IInv, Types
<1>2. \A d \in Commands : cmd'[d] = IF d = c THEN x ELSE cmd[d]
  BY DEF IInv, Types
<1>3. OrderInv' BY <1>2 DEF IInv, OrderInv
<1>4. AnswerInv' BY <1>2 DEF IInv, AnswerInv
<1>5. VoiceInv' BY <1>2, VoiceKeeps DEF IInv
<1> QED BY <1>1, <1>3, <1>4, <1>5 DEF IInv

(* Nothing is there initially. *)
LEMMA InitIInv == Init => IInv
<1> SUFFICES ASSUME Init PROVE IInv OBVIOUS
<1>1. Types
  <2>1. cmd \in [Commands -> Cmd] BY IdleIs DEF Init
  <2>2. where \in [Everyone -> Channels \cup {Nowhere}] BY DEF Init
  <2>3. asked \in Seq(Channels \cup {Nowhere}) BY DEF Init
  <2> QED BY <2>1, <2>2, <2>3 DEF Init, Types
<1>2. \A c \in Commands : cmd[c] = Idle BY DEF Init
<1>3. CommandInv BY <1>2, IdleIs DEF CommandInv, Sees, Watching
<1>4. OrderInv BY <1>2, IdleIs DEF Init, OrderInv, Running
<1>5. AnswerInv BY <1>2, IdleIs DEF Init, AnswerInv
<1>6. VoiceInv
  <2>1. DOMAIN asked = {} /\ conn = NoConn /\ where[Bot] = Nowhere BY DEF Init, Everyone
  <2> DEFINE o == [i \in {} |-> Nowhere]
  <2>2. o \in [DOMAIN asked -> Commands \cup {Nowhere}] BY <2>1
  <2>3. Agree(o) BY <2>1 DEF Agree, Owned, Sound, Leaving
  <2> QED BY <2>2, <2>3 DEF VoiceInv
<1> QED BY <1>1, <1>3, <1>4, <1>5, <1>6 DEF IInv

-----------------------------------------------------------------------------
(* main() *)

(* The defaults are valid, so they need no check. *)
LEMMA DefaultIsValid == BotValid(Default)
BY DEF BotValid, Default

LEMMA MainKeeps ==
    ASSUME IInv, UNCHANGED <<guildVars, voiceVars, cmd>>,
           ~gateway, wake' \in BOOLEAN, onWake' \in BOOLEAN, gateway' \in BOOLEAN,
           main' \in {"exited"} \cup Running,
           main' \in Running => BotValid(config'),
           main' \in {"gateway", "serving"} => onWake',
           gateway' => main' = "serving"
    PROVE  IInv'
<1> USE DEF guildVars, voiceVars
<1>1. Types' BY DEF IInv, Types
<1>2. CommandInv' BY DEF IInv, CommandInv
<1>3. /\ services = 0 /\ conn = NoConn /\ \A c \in Commands : cmd[c].services = 0
  BY DEF IInv, OrderInv
<1>4. OrderInv' BY <1>3 DEF OrderInv, Running
<1>5. AnswerInv' BY <1>3 DEF IInv, AnswerInv
<1>6. VoiceInv'
  <2> SUFFICES ASSUME failed = 0 PROVE VoiceInv' BY DEF VoiceInv
  <2>1. PICK o \in [DOMAIN asked -> Commands \cup {Nowhere}] : Agree(o) BY DEF IInv, VoiceInv
  <2>2. Owned(o)' BY <2>1 DEF Agree, Owned
  <2>3. /\ WaitsInVain(o) => WaitsInVain(o)'
        /\ Forgotten => Forgotten'
    BY DEF WaitsInVain, Forgotten
  <2>4. Sound => Sound' BY <1>3 DEF Sound, Leaving, Provides
  <2> QED BY <2>1, <2>2, <2>3, <2>4 DEF VoiceInv, Agree
<1> QED BY <1>1, <1>2, <1>4, <1>5, <1>6 DEF IInv

LEMMA LoadConfigKeeps == IInv /\ LoadConfig => IInv'
<1> SUFFICES ASSUME IInv, LoadConfig PROVE IInv' OBVIOUS
<1>1. UNCHANGED <<wake, onWake, gateway, guildVars, voiceVars, cmd>> BY DEF LoadConfig
<1>2. main' \in {"services", "exited"} /\ main = "config" BY DEF LoadConfig
<1>3. main' = "services" => BotValid(config') BY DefaultIsValid DEF LoadConfig
<1>4. ~gateway BY <1>2 DEF IInv, OrderInv
<1> QED BY <1>1, <1>2, <1>3, <1>4, MainKeeps DEF IInv, Types, Running

LEMMA MainStepKeeps == IInv /\ MainStep => IInv'
<1> SUFFICES ASSUME IInv, MainStep PROVE IInv' OBVIOUS
<1>1. /\ UNCHANGED <<config, guildVars, voiceVars, cmd>>
      /\ main \in {"services", "wake", "client", "onwake", "gateway"}
      /\ main' = After(main)
      /\ onWake' = (onWake \/ main = "onwake")
      /\ gateway' = (gateway \/ main = "gateway")
  BY DEF MainStep
<1>2. wake' \in BOOLEAN BY DEF MainStep, IInv, Types
<1>3. ~gateway BY <1>1 DEF IInv, OrderInv
<1>4. BotValid(config') BY <1>1 DEF IInv, OrderInv, Running
<1>5. /\ main' \in Running
      /\ main' = "gateway" => main = "onwake"
      /\ main' = "serving" <=> main = "gateway"
  BY <1>1 DEF After, Running
<1>6. main' \in {"gateway", "serving"} => onWake' BY <1>1, <1>5 DEF IInv, OrderInv
<1>7. gateway' => main' = "serving" BY <1>1, <1>3, <1>5
<1>8. onWake' \in BOOLEAN /\ gateway' \in BOOLEAN BY <1>1
<1> QED BY <1>1, <1>2, <1>3, <1>4, <1>5, <1>6, <1>7, <1>8, MainKeeps

LEMMA MainExitsKeeps == IInv /\ MainExits => IInv'
<1> SUFFICES ASSUME IInv, MainExits PROVE IInv' OBVIOUS
<1>1. /\ UNCHANGED <<wake, onWake, gateway, guildVars, voiceVars, cmd>>
      /\ main' = "exited" /\ main \in {"client", "gateway"}
  BY DEF MainExits
<1>2. ~gateway BY <1>1 DEF IInv, OrderInv
<1> QED BY <1>1, <1>2, MainKeeps DEF IInv, Types, Running

(* A guild is registered, and its wakes answered. *)
LEMMA RegisterKeeps == IInv /\ RegisterGuild => IInv'
<1> SUFFICES ASSUME IInv, RegisterGuild PROVE IInv' OBVIOUS
<1>1. /\ UNCHANGED <<config, wake, onWake, gateway, voiceVars, cmd>>
      /\ services' = services + 1 /\ gateway
  BY DEF RegisterGuild, Connected
<1>2. onWake BY <1>1 DEF IInv, OrderInv
<1>3. main' = main /\ answering \subseteq answering' /\ (wake => services' \in answering')
  BY <1>1, <1>2 DEF RegisterGuild
<1>4. Types' BY <1>1, <1>3 DEF IInv, Types, voiceVars
<1>5. CommandInv' BY <1>1 DEF IInv, CommandInv, voiceVars
<1>6. OrderInv' BY <1>1, <1>3 DEF IInv, OrderInv, voiceVars
<1>7. AnswerInv' BY <1>1, <1>3 DEF IInv, AnswerInv, voiceVars
<1>8. VoiceInv' BY <1>1, VoiceKeeps DEF IInv, voiceVars
<1> QED BY <1>4, <1>5, <1>6, <1>7, <1>8 DEF IInv

(* Somebody moves. *)
LEMMA MoveKeeps == \A u \in Users : IInv /\ Move(u) => IInv'
<1> SUFFICES ASSUME NEW u \in Users, IInv, Move(u) PROVE IInv' OBVIOUS
<1>1. /\ UNCHANGED <<startVars, guildVars, asked, conn, heard, fed, failed, thrown>>
      /\ cmd' = Noted(cmd, where')
  BY DEF Move
<1>2. where' \in [Everyone -> Channels \cup {Nowhere}] /\ where'[Bot] = where[Bot]
  BY GuildAssumption DEF Move, IInv, Types, Everyone
<1>3. /\ cmd' \in [Commands -> Cmd] /\ CommandInv'
      /\ \A c \in Commands : /\ cmd'[c].at = cmd[c].at /\ cmd'[c].conn = cmd[c].conn
                             /\ cmd'[c].services = cmd[c].services
  <2>1. cmd \in [Commands -> Cmd] /\ \A c \in Commands : Met(cmd[c])
    BY DEF IInv, Types, CommandInv
  <2> QED BY <1>1, <1>2, <2>1, NotedAll
<1> USE DEF startVars, guildVars
<1>4. Types' BY <1>1, <1>2, <1>3 DEF IInv, Types
<1>5. OrderInv' BY <1>1, <1>3 DEF IInv, OrderInv
<1>6. AnswerInv' BY <1>1, <1>3 DEF IInv, AnswerInv
<1>7. VoiceInv' BY <1>1, <1>2, <1>3, VoiceKeeps DEF IInv
<1> QED BY <1>3, <1>4, <1>5, <1>6, <1>7 DEF IInv

(* The bot is put somewhere: voice state and connection follow. *)
LEMMA BotInIs ==
    ASSUME IInv, NEW ch \in Channels \cup {Nowhere}, BotIn(ch)
    PROVE  /\ where' \in [Everyone -> Channels \cup {Nowhere}] /\ where'[Bot] = ch
           /\ heard' \in [Conns -> Nat] /\ fed' \in [Conns -> Nat]
           /\ \A k \in Conns : fed'[k] \in {0, fed[k]}
           /\ ch # Nowhere => UNCHANGED <<heard, fed>>
BY DEF BotIn, Silenced, IInv, Types, Everyone

(* The same for what the invariants say of everything but voices. *)
LEMMA BotInKeeps ==
    ASSUME IInv, NEW ch \in Channels \cup {Nowhere}, BotIn(ch),
           NEW cm \in [Commands -> Cmd], cmd' = Noted(cm, where'),
           \A c \in Commands : Met(cm[c]) /\ cm[c].services = cmd[c].services,
           asked' \in Seq(Channels \cup {Nowhere}), thrown' \in BOOLEAN,
           UNCHANGED <<startVars, guildVars, conn, failed>>
    PROVE  /\ Types' /\ CommandInv' /\ OrderInv' /\ AnswerInv'
           /\ \A c \in Commands : cmd'[c].at = cm[c].at /\ cmd'[c].conn = cm[c].conn
<1> USE DEF startVars, guildVars
<1>1. /\ cmd' \in [Commands -> Cmd] /\ CommandInv'
      /\ \A c \in Commands : /\ cmd'[c].at = cm[c].at /\ cmd'[c].conn = cm[c].conn
                             /\ cmd'[c].services = cm[c].services
  BY BotInIs, NotedAll
<1>2. Types' BY <1>1, BotInIs DEF IInv, Types
<1>3. OrderInv' BY <1>1 DEF IInv, OrderInv
<1>4. AnswerInv' BY <1>1, BotInIs DEF IInv, AnswerInv
<1> QED BY <1>1, <1>2, <1>3, <1>4

(* Discord moves the bot, or throws it out. *)
LEMMA BotIsMovedKeeps == IInv /\ BotIsMoved => IInv'
<1> SUFFICES ASSUME IInv, BotIsMoved PROVE IInv' OBVIOUS
<1>1. PICK ch \in Channels \cup {Nowhere} :
        BotIn(ch) /\ thrown' = (thrown \/ (ch = Nowhere /\ conn # NoConn))
  BY DEF BotIsMoved
<1>2. /\ cmd' = Noted(cmd, where') /\ UNCHANGED <<startVars, guildVars, asked, conn, failed>>
      /\ where[Bot] # Nowhere
  BY DEF BotIsMoved
<1>3. /\ Types' /\ CommandInv' /\ OrderInv' /\ AnswerInv'
      /\ \A c \in Commands : cmd'[c].at = cmd[c].at /\ cmd'[c].conn = cmd[c].conn
  <2>1. /\ cmd \in [Commands -> Cmd] /\ \A c \in Commands : Met(cmd[c])
        /\ asked' \in Seq(Channels \cup {Nowhere}) /\ thrown' \in BOOLEAN
    BY <1>1, <1>2 DEF IInv, Types, CommandInv
  <2> QED BY <1>1, <1>2, <2>1, BotInKeeps
<1>4. VoiceInv'
  <2> SUFFICES ASSUME failed = 0 PROVE VoiceInv' BY <1>2 DEF VoiceInv
  <2>1. PICK o \in [DOMAIN asked -> Commands \cup {Nowhere}] : Agree(o) BY DEF IInv, VoiceInv
  <2>2. Owned(o)' BY <1>2, <1>3, <2>1 DEF Agree, Owned
  <2>3. WaitsInVain(o) => WaitsInVain(o)' BY <1>2, <1>3 DEF WaitsInVain
  <2>4. Forgotten => Forgotten' BY <1>2, <1>3 DEF Forgotten
  <2>5. Sound => Sound'
    <3>1. /\ Provides({"open", "sent"})' = Provides({"open", "sent"})
          /\ Provides({"arrived"})' = Provides({"arrived"})
          /\ Provides({"arrived", "receive"})' = Provides({"arrived", "receive"})
      BY <1>2, <1>3 DEF Provides
    <3>2. Leaving' = Leaving BY <1>2 DEF Leaving
    <3>3. where'[Bot] = ch /\ (ch # Nowhere => UNCHANGED <<heard, fed>>) BY <1>1, BotInIs
    <3>4. UNCHANGED <<asked, conn, wake>> BY <1>2 DEF startVars
    <3> QED BY <1>1, <1>2, <3>1, <3>2, <3>3, <3>4 DEF Sound
  <2> QED BY <1>2, <2>1, <2>2, <2>3, <2>4, <2>5 DEF VoiceInv, Agree
<1> QED BY <1>3, <1>4 DEF IInv

(* What is asked for after the oldest request is answered. *)
LEMMA TailIs ==
    ASSUME Types, asked # <<>>, asked' = Tail(asked)
    PROVE  /\ asked' \in Seq(Channels \cup {Nowhere})
           /\ Head(asked) \in Channels \cup {Nowhere}
           /\ Head(asked) = asked[1] /\ 1 \in DOMAIN asked
           /\ \A i \in DOMAIN asked' :
                 /\ i \in Nat \ {0} /\ i + 1 \in DOMAIN asked
                 /\ asked'[i] = asked[i + 1]
BY DEF Types

(* A channel is answered and nobody's Open returns, so somebody waits in   *)
(* vain.                                                                   *)
LEMMA VainIs ==
    ASSUME IInv, VoiceInv, failed = 0, failed' = 0, asked # <<>>, asked' = Tail(asked),
           Head(asked) # Nowhere,
           \A c \in Commands : cmd'[c].at = cmd[c].at
    PROVE  VoiceInv'
<1>1. PICK o \in [DOMAIN asked -> Commands \cup {Nowhere}] : Owned(o) BY DEF VoiceInv, Agree
<1>2. PICK p : p = [i \in DOMAIN asked' |-> o[i + 1]] OBVIOUS
<1>3. Types BY DEF IInv
<1>4. p \in [DOMAIN asked' -> Commands \cup {Nowhere}] BY <1>1, <1>2, <1>3, TailIs
<1>5. \A i \in DOMAIN asked' : p[i] = o[i + 1] BY <1>2
<1>6. Owned(p)' BY <1>1, <1>3, <1>5, TailIs DEF Owned
<1>7. WaitsInVain(p)'
  <2>1. /\ o[1] \in Commands /\ cmd'[o[1]].at = "sent"
        /\ \A j \in DOMAIN asked : asked[j] # Nowhere /\ o[j] = o[1] => j = 1
    BY <1>1, <1>3, TailIs DEF Owned
  <2>2. \A i \in DOMAIN asked' : asked'[i] # Nowhere => p[i] # o[1]
    BY <1>3, <1>5, <2>1, TailIs
  <2> QED BY <2>1, <2>2 DEF WaitsInVain
<1> QED BY <1>4, <1>6, <1>7 DEF VoiceInv, Agree

(* Discord answers, and no Open returns. *)
LEMMA AnswerKeeps == IInv /\ Answer => IInv'
<1> SUFFICES ASSUME IInv, Answer PROVE IInv' OBVIOUS
<1>1. /\ asked # <<>> /\ asked' = Tail(asked)
      /\ UNCHANGED <<startVars, guildVars, conn, failed, thrown>>
  BY DEF Answer
<1> DEFINE ch == Head(asked)
<1>2. ch \in Channels \cup {Nowhere} /\ asked' \in Seq(Channels \cup {Nowhere})
  BY <1>1, TailIs DEF IInv
<1> USE DEF startVars, guildVars
<1>3. CASE BotIn(ch) /\ cmd' = Noted(cmd, where')
  <2>1. /\ Types' /\ CommandInv' /\ OrderInv' /\ AnswerInv'
        /\ \A c \in Commands : cmd'[c].at = cmd[c].at /\ cmd'[c].conn = cmd[c].conn
    <3>1. /\ cmd \in [Commands -> Cmd] /\ \A c \in Commands : Met(cmd[c])
          /\ thrown' \in BOOLEAN
      BY <1>1 DEF IInv, Types, CommandInv
    <3> HIDE DEF ch
    <3> QED BY <1>1, <1>2, <1>3, <3>1, BotInKeeps
  <2>2. CASE ch # Nowhere BY <1>1, <2>1, <2>2, VainIs DEF IInv, VoiceInv
  <2>3. CASE ch = Nowhere
    <3> SUFFICES ASSUME failed = 0 PROVE VoiceInv' BY <1>1, <2>1 DEF IInv, VoiceInv
    <3>1. PICK o \in [DOMAIN asked -> Commands \cup {Nowhere}] : Agree(o) BY DEF IInv, VoiceInv
    <3>2. PICK p : p = [i \in DOMAIN asked' |-> o[i + 1]] OBVIOUS
    <3>3. Types /\ \A i \in DOMAIN asked' : p[i] = o[i + 1] BY <3>2 DEF IInv
    <3>4. p \in [DOMAIN asked' -> Commands \cup {Nowhere}] BY <1>1, <3>1, <3>2, <3>3, TailIs
    <3>5. Owned(p)' BY <1>1, <2>1, <3>1, <3>3, TailIs DEF Agree, Owned
    <3>6. WaitsInVain(o) => WaitsInVain(p)' BY <1>1, <2>1, <3>3, TailIs DEF WaitsInVain
    <3>7. Forgotten => Forgotten' BY <1>1, <2>1 DEF Forgotten
    <3>8. Sound => Sound'
      <4> SUFFICES ASSUME Sound PROVE Sound' OBVIOUS
      <4>1. conn' = NoConn \/ Provides({"open", "sent"})'
        <5>1. Leaving BY <1>1, <2>3, TailIs DEF IInv, Leaving
        <5>2. conn = NoConn \/ Provides({"open", "sent"}) BY <5>1 DEF Sound
        <5> QED BY <1>1, <2>1, <5>2 DEF Provides
      <4>2. where'[Bot] = Nowhere BY <1>2, <1>3, <2>3, BotInIs
      <4>3. \A i \in DOMAIN asked', j \in DOMAIN asked' :
               asked'[j] = Nowhere /\ i < j => asked'[i] = Nowhere
        BY <1>1, TailIs DEF IInv, Sound
      <4> QED BY <4>1, <4>2, <4>3 DEF Sound
    <3> QED BY <1>1, <3>1, <3>4, <3>5, <3>6, <3>7, <3>8 DEF VoiceInv, Agree
  <2> QED BY <2>1, <2>2, <2>3 DEF IInv
<1>4. CASE ch # Nowhere /\ UNCHANGED <<where, heard, fed, cmd>>
  <2>1. Types' /\ CommandInv' /\ OrderInv' /\ AnswerInv'
    BY <1>1, <1>2, <1>4 DEF IInv, Types, CommandInv, OrderInv, AnswerInv
  <2>2. VoiceInv' BY <1>1, <1>4, VainIs DEF IInv, VoiceInv
  <2> QED BY <2>1, <2>2 DEF IInv
<1> QED BY <1>3, <1>4 DEF Answer

(* A connection is closed. *)
LEMMA CloseIs ==
    ASSUME IInv, Close, conn # NoConn
    PROVE  /\ asked' \in Seq(Channels \cup {Nowhere}) /\ conn' = NoConn /\ thrown' = FALSE
           /\ heard' \in [Conns -> Nat] /\ fed' \in [Conns -> Nat]
           /\ \A k \in Conns : fed'[k] \in {0, fed[k]}
           /\ DOMAIN asked' = DOMAIN asked \cup {Len(asked) + 1}
           /\ Len(asked) + 1 \notin DOMAIN asked /\ asked'[Len(asked) + 1] = Nowhere
           /\ \A i \in DOMAIN asked : asked'[i] = asked[i]
BY DEF Close, Silenced, IInv, Types

(* Whoever opens that connection is bound to fail; and if nobody does, the *)
(* bot asks for nothing but to leave.                                      *)
LEMMA CloseKeeps ==
    ASSUME IInv, Close, conn # NoConn, UNCHANGED <<where, failed>>,
           \A d \in Commands : cmd[d].at \in {"open", "sent"} =>
               cmd'[d].at = cmd[d].at /\ cmd'[d].conn = cmd[d].conn
    PROVE  VoiceInv'
<1> SUFFICES ASSUME failed = 0 PROVE VoiceInv' BY DEF VoiceInv
<1>1. PICK o \in [DOMAIN asked -> Commands \cup {Nowhere}] : Agree(o) BY DEF IInv, VoiceInv
<1>2. PICK p : p = [i \in DOMAIN asked' |-> IF i \in DOMAIN asked THEN o[i] ELSE Nowhere]
  OBVIOUS
<1>3. \A i \in DOMAIN asked' : p[i] = IF i \in DOMAIN asked THEN o[i] ELSE Nowhere BY <1>2
<1>4. p \in [DOMAIN asked' -> Commands \cup {Nowhere}] BY <1>1, <1>2
<1>5. Owned(p)' BY <1>1, <1>3, CloseIs DEF Agree, Owned
<1>6. CASE \E c \in Commands : cmd[c].at \in {"open", "sent"}
  <2>1. PICK c \in Commands : cmd[c].at \in {"open", "sent"} BY <1>6
  <2>2. cmd[c].conn # NoConn BY <2>1 DEF IInv, CommandInv, Met, Opening
  <2>3. Forgotten' BY <2>1, <2>2, CloseIs DEF Forgotten
  <2> QED BY <1>4, <1>5, <2>3 DEF VoiceInv, Agree
<1>7. CASE ~\E c \in Commands : cmd[c].at \in {"open", "sent"}
  <2>1. \A i \in DOMAIN asked : asked[i] = Nowhere BY <1>1, <1>7 DEF Agree, Owned
  <2>2. \A i \in DOMAIN asked' : asked'[i] = Nowhere BY <2>1, CloseIs
  <2>3. Leaving' BY CloseIs DEF Leaving
  <2>4. Sound' BY <2>2, <2>3, CloseIs DEF Sound
  <2> QED BY <1>4, <1>5, <2>4 DEF VoiceInv, Agree
<1> QED BY <1>6, <1>7

LEMMA ConnectionLostKeeps == IInv /\ ConnectionLost => IInv'
<1> SUFFICES ASSUME IInv, ConnectionLost PROVE IInv' OBVIOUS
<1>1. /\ conn # NoConn /\ Close
      /\ UNCHANGED <<startVars, guildVars, where, cmd, failed>>
  BY DEF ConnectionLost
<1> USE DEF startVars, guildVars
<1>2. Types' BY <1>1, CloseIs DEF IInv, Types
<1>3. CommandInv' BY <1>1 DEF IInv, CommandInv
<1>4. OrderInv' BY <1>1, CloseIs DEF IInv, OrderInv
<1>5. AnswerInv' BY <1>1, CloseIs DEF IInv, AnswerInv
<1>6. VoiceInv' BY <1>1, CloseKeeps
<1> QED BY <1>2, <1>3, <1>4, <1>5, <1>6 DEF IInv

-----------------------------------------------------------------------------
(* A command *)

LEMMA AskKeeps == \A c \in Commands : IInv /\ Ask(c) => IInv'
<1> SUFFICES ASSUME NEW c \in Commands, IInv, Ask(c) PROVE IInv' OBVIOUS
<1>1. PICK do \in Actions, u \in Users \cup {Nobody} :
        cmd' = Noted([cmd EXCEPT ![c] = [Idle EXCEPT !.at = "second", !.do = do, !.who = u,
                                                     !.channel = where[FirstOf(do, u)]]], where)
  BY DEF Ask
<1>2. UNCHANGED <<startVars, guildVars, voiceVars>> /\ cmd[c].at = "idle" BY DEF Ask
<1> DEFINE x == [Idle EXCEPT !.at = "second", !.do = do, !.who = u,
                             !.channel = where[FirstOf(do, u)]]
           cm == [cmd EXCEPT ![c] = x]
<1>3. /\ x \in Cmd /\ Met(Note(x, where')) /\ x.services = 0 /\ x.at = "second"
  <2>1. FirstOf(do, u) = (IF do = "leave" THEN Bot ELSE u) BY DEF FirstOf
  <2>2. /\ where[FirstOf(do, u)] \in Channels \cup {Nowhere} /\ where' = where
        /\ where[u] \in Channels \cup {Nowhere} /\ where[Bot] \in Channels \cup {Nowhere}
    BY <1>2, <2>1 DEF IInv, Types, Everyone, voiceVars
  <2>3. /\ x \in Cmd /\ x.at = "second" /\ x.do = do /\ x.who = u
        /\ x.channel = where[FirstOf(do, u)] /\ x.services = 0 /\ x.conn = NoConn
    BY <2>2 DEF Idle, Cmd, Steps
  <2> DEFINE y == Note(x, where')
  <2>4. /\ y.at = "second" /\ y.do = do /\ y.channel = where[FirstOf(do, u)] /\ y.who = u
        /\ Sees(y, where)
    <3>1. y.who = x.who BY <2>3 DEF Note, Cmd, Watching
    <3> HIDE DEF x
    <3> QED BY <2>2, <2>3, <3>1, NoteKeeps, where' \in [Everyone -> Channels \cup {Nowhere}]
            DEF IInv, Types
  <2> HIDE DEF y
  <2>5. Met(y) BY <2>1, <2>4 DEF Met, Sees, Watching, Opening
  <2> QED BY <2>3, <2>5 DEF y
<1> HIDE DEF x
<1>4. /\ cm \in [Commands -> Cmd] /\ cm[c] = x
      /\ \A d \in Commands : d # c => cm[d] = cmd[d]
  BY <1>3 DEF IInv, Types
<1>5. cmd' = Noted(cm, where') BY <1>1, <1>2 DEF x, voiceVars
<1> HIDE DEF cm
<1>6. \A d \in Commands : Met(cm[d]) \/ Met(Note(cm[d], where'))
  BY <1>3, <1>4 DEF IInv, CommandInv
<1>7. where' \in [Everyone -> Channels \cup {Nowhere}]
  BY <1>2 DEF IInv, Types, voiceVars
<1>8. /\ cmd' \in [Commands -> Cmd] /\ CommandInv'
      /\ \A d \in Commands : /\ cmd'[d].at = cm[d].at /\ cmd'[d].conn = cm[d].conn
                             /\ cmd'[d].services = cm[d].services
  BY <1>4, <1>5, <1>6, <1>7, NotedAll
<1> USE DEF startVars, guildVars, voiceVars
<1>9. Types' BY <1>2, <1>8 DEF IInv, Types
<1>10. \A d \in Commands : cmd'[d].services \in {0, cmd[d].services} BY <1>3, <1>4, <1>8
<1>11. OrderInv' BY <1>2, <1>10 DEF IInv, OrderInv
<1>12. AnswerInv' BY <1>2, <1>10 DEF IInv, AnswerInv
<1>13. \A d \in Commands : cmd[d].at \in Opening =>
          cmd'[d].at = cmd[d].at /\ cmd'[d].conn = cmd[d].conn
  BY <1>2, <1>4, <1>8 DEF Opening
<1>14. VoiceInv' BY <1>2, <1>13, VoiceKeeps DEF IInv
<1> QED BY <1>8, <1>9, <1>11, <1>12, <1>14 DEF IInv

LEMMA DoneKeeps ==
    ASSUME IInv, NEW c \in Commands, Done(c),
           cmd[c].at \notin Opening,
           UNCHANGED <<startVars, guildVars, voiceVars>>
    PROVE  IInv'
<1>1. Sees(Idle, where) BY IdleIs DEF Sees, Watching
<1>2. cmd' = [cmd EXCEPT ![c] = Idle] BY DEF Done
<1> QED BY <1>1, <1>2, IdleIs, OnlyLooks

LEMMA LookSecondKeeps == \A c \in Commands : IInv /\ LookSecond(c) => IInv'
<1> SUFFICES ASSUME NEW c \in Commands, IInv, LookSecond(c) PROVE IInv' OBVIOUS
<1> DEFINE old == cmd[c]
           second == where[SecondOf(old.do, old.who)]
<1>1. old \in Cmd /\ Met(old) /\ Sees(old, where) /\ old.at = "second" /\ old.at \notin Opening
  BY DEF IInv, Types, CommandInv, LookSecond, Opening
<1>2. UNCHANGED <<startVars, guildVars, voiceVars>> BY DEF LookSecond
<1>3. CASE Done(c) BY <1>1, <1>2, <1>3, DoneKeeps
<1>4. CASE old.do = "join" /\ Goto(c, "channel")
  <2> DEFINE x == [old EXCEPT !.at = "channel"]
  <2>1. cmd' = [cmd EXCEPT ![c] = x] BY <1>4 DEF Goto, IInv, Types
  <2>2. /\ x \in Cmd /\ x.at = "channel" /\ x.do = old.do /\ x.services = old.services
        /\ x.who = old.who /\ x.been = old.been /\ x.hosted = old.hosted
    BY <1>1 DEF Cmd, Steps
  <2> HIDE DEF x
  <2>3. Sees(x, where) BY <1>1, <2>2 DEF Sees, Watching
  <2>4. Met(x) BY <1>4, <2>2 DEF Met, Opening
  <2> QED BY <1>1, <1>2, <2>1, <2>2, <2>3, <2>4, OnlyLooks
<1>5. CASE /\ old.do # "join"
           /\ Passes(c, IF old.do = "leave" THEN "leave" ELSE "services", Nowhere)
  <2> DEFINE x == [old EXCEPT !.at = IF old.do = "leave" THEN "leave" ELSE "services",
                              !.channel = Nowhere, !.been = {}, !.hosted = {}]
  <2>1. cmd' = [cmd EXCEPT ![c] = x] BY <1>5 DEF Passes, IInv, Types
  <2>2. /\ x \in Cmd /\ x.at = (IF old.do = "leave" THEN "leave" ELSE "services")
        /\ x.do = old.do /\ x.services = old.services
    BY <1>1 DEF Cmd, Steps
  <2> HIDE DEF x
  <2>3. Sees(x, where) BY <2>2 DEF Sees, Watching
  <2>4. Met(x) BY <1>5, <2>2 DEF Met, Opening
  <2> QED BY <1>1, <1>2, <2>1, <2>2, <2>3, <2>4, OnlyLooks
<1> QED BY <1>3, <1>4, <1>5 DEF LookSecond

LEMMA LookChannelKeeps == \A c \in Commands : IInv /\ LookChannel(c) => IInv'
<1> SUFFICES ASSUME NEW c \in Commands, IInv, LookChannel(c) PROVE IInv' OBVIOUS
<1> DEFINE old == cmd[c]
           x == [old EXCEPT !.at = "services", !.channel = where[old.who],
                            !.been = {}, !.hosted = {}]
<1>1. old \in Cmd /\ Met(old) /\ old.at = "channel" /\ old.at \notin Opening
  BY DEF IInv, Types, CommandInv, LookChannel, Opening
<1>2. UNCHANGED <<startVars, guildVars, voiceVars>> BY DEF LookChannel
<1>3. where[old.who] \in Channels \cup {Nowhere} BY <1>1 DEF IInv, Types, Cmd, Everyone
<1>4. CASE where[old.who] = Nowhere
  BY <1>1, <1>2, <1>4, DoneKeeps DEF LookChannel
<1>5. CASE where[old.who] # Nowhere
  <2>1. cmd' = [cmd EXCEPT ![c] = x] BY <1>5 DEF LookChannel, Passes, IInv, Types
  <2>2. /\ x \in Cmd /\ x.at = "services" /\ x.channel = where[old.who]
        /\ x.services = old.services
    BY <1>1, <1>3 DEF Cmd, Steps
  <2> HIDE DEF x
  <2>3. Sees(x, where) BY <2>2 DEF Sees, Watching
  <2>4. Met(x) BY <1>5, <2>2 DEF Met, Opening
  <2> QED BY <1>1, <1>2, <2>1, <2>2, <2>3, <2>4, OnlyLooks
<1> QED BY <1>4, <1>5

LEMMA GetGuildKeeps == \A c \in Commands : IInv /\ GetGuild(c) => IInv'
<1> SUFFICES ASSUME NEW c \in Commands, IInv, GetGuild(c) PROVE IInv' OBVIOUS
<1> DEFINE old == cmd[c]
           at == IF old.do = "join" THEN "create" ELSE "act"
           x == [old EXCEPT !.services = services, !.at = at]
<1>1. /\ old \in Cmd /\ Met(old) /\ old.at = "services" /\ services \in Nat
      /\ old.at \notin Opening
  BY DEF IInv, Types, CommandInv, GetGuild, Opening
<1>2. UNCHANGED <<startVars, guildVars, voiceVars>> BY DEF GetGuild
<1>3. CASE services = 0
  BY <1>1, <1>2, <1>3, DoneKeeps DEF GetGuild
<1>4. CASE services # 0
  <2>1. cmd' = [cmd EXCEPT ![c] = x] BY <1>4 DEF GetGuild, IInv, Types
  <2>2. /\ x \in Cmd /\ x.at = at /\ x.channel = old.channel
        /\ x.do = old.do /\ x.services = services
    BY <1>1 DEF Cmd, Steps
  <2> HIDE DEF x
  <2>3. Sees(x, where) BY <2>2 DEF Sees, Watching
  <2>4. Met(x) BY <1>1, <1>4, <2>2 DEF Met, Opening
  <2> QED BY <1>1, <1>2, <2>1, <2>2, <2>3, <2>4, OnlyLooks
<1> QED BY <1>3, <1>4

LEMMA ActKeeps == \A c \in Commands : IInv /\ Act(c) => IInv'
BY DoneKeeps DEF Act, Opening

-----------------------------------------------------------------------------
(* Join and leave *)

LEMMA CreateConnKeeps == \A c \in Commands : IInv /\ CreateConn(c) => IInv'
<1> SUFFICES ASSUME NEW c \in Commands, IInv, CreateConn(c) PROVE IInv' OBVIOUS
<1> DEFINE old == cmd[c]
<1>1. old \in Cmd /\ Met(old) /\ old.at = "create" BY DEF IInv, Types, CommandInv, CreateConn
<1>2. PICK k \in Conns :
        /\ conn' = k
        /\ cmd' = [cmd EXCEPT ![c].at = "open", ![c].conn = k]
        /\ \/ conn # NoConn /\ k = conn /\ UNCHANGED <<heard, fed>>
           \/ /\ conn = NoConn /\ Unused(k)
              /\ heard' = [heard EXCEPT ![k] = 0] /\ fed' = [fed EXCEPT ![k] = 0]
  BY DEF CreateConn
<1>3. UNCHANGED <<startVars, guildVars, where, asked, failed, thrown>> BY DEF CreateConn
<1> DEFINE x == [old EXCEPT !.at = "open", !.conn = k]
<1>4. cmd' = [cmd EXCEPT ![c] = x] BY <1>2 DEF IInv, Types
<1>5. /\ x \in Cmd /\ x.at = "open" /\ x.conn = k /\ x.channel = old.channel
      /\ x.services = old.services
  BY <1>1 DEF Cmd, Steps
<1> HIDE DEF x
<1>6. Met(x) /\ Sees(x, where) BY <1>1, <1>5, GuildAssumption DEF Met, Sees, Watching, Opening
<1>7. cmd' \in [Commands -> Cmd] /\ CommandInv' BY <1>3, <1>4, <1>5, <1>6, Replaced
<1>8. \A d \in Commands : cmd'[d] = IF d = c THEN x ELSE cmd[d]
  BY <1>4 DEF IInv, Types
<1> USE DEF startVars, guildVars
<1>9. Types'
  <2>1. heard \in [Conns -> Nat] /\ fed \in [Conns -> Nat] BY DEF IInv, Types
  <2>2. heard' \in [Conns -> Nat] /\ fed' \in [Conns -> Nat] BY <1>2, <2>1
  <2> QED BY <1>2, <1>3, <1>7, <2>2 DEF IInv, Types
<1>10. gateway BY <1>1 DEF IInv, OrderInv, Met
<1>11. OrderInv' BY <1>3, <1>5, <1>8, <1>10 DEF IInv, OrderInv
<1>12. \A h \in Conns : fed'[h] \in {0, fed[h]} BY <1>2 DEF IInv, Types
<1>13. AnswerInv' BY <1>3, <1>5, <1>8, <1>12 DEF IInv, AnswerInv
<1>14. VoiceInv'
  <2> SUFFICES ASSUME failed = 0 PROVE VoiceInv' BY <1>3 DEF VoiceInv
  <2>1. PICK o \in [DOMAIN asked -> Commands \cup {Nowhere}] : Agree(o) BY DEF IInv, VoiceInv
  <2>2. Owned(o)' BY <1>1, <1>3, <1>8, <2>1 DEF Agree, Owned
  <2>3. WaitsInVain(o) => WaitsInVain(o)' BY <1>1, <1>3, <1>8 DEF WaitsInVain
  <2>4. Forgotten => Forgotten'
    <3> SUFFICES ASSUME NEW d \in Commands, cmd[d].at \in {"open", "sent"}, cmd[d].conn # conn
                 PROVE  Forgotten'
      BY DEF Forgotten
    <3>1. d # c /\ cmd'[d] = cmd[d] BY <1>1, <1>8
    <3>2. cmd[d].conn # conn' BY <1>2 DEF Unused
    <3> QED BY <3>1, <3>2 DEF Forgotten
  <2>5. Sound => Sound'
    <3>1. Provides({"open", "sent"})' BY <1>2, <1>5, <1>8 DEF Provides
    <3>2. Leaving' = Leaving BY <1>3 DEF Leaving
    <3>3. CASE conn = NoConn BY <1>3, <3>1, <3>2, <3>3 DEF Sound
    <3>4. CASE conn # NoConn
      <4>1. UNCHANGED <<conn, heard, fed>> BY <1>2, <3>4
      <4>2. /\ Provides({"arrived"}) => Provides({"arrived"})'
            /\ Provides({"arrived", "receive"}) => Provides({"arrived", "receive"})'
        BY <1>1, <1>8, <4>1 DEF Provides
      <4> QED BY <1>3, <3>1, <3>2, <4>1, <4>2 DEF Sound
    <3> QED BY <3>3, <3>4
  <2> QED BY <1>3, <2>1, <2>2, <2>3, <2>4, <2>5 DEF VoiceInv, Agree
<1> QED BY <1>7, <1>9, <1>11, <1>13, <1>14 DEF IInv

(* Open asks for a channel, and waits for it. *)
LEMMA OpenKeeps == \A c \in Commands : IInv /\ Open(c) => IInv'
<1> SUFFICES ASSUME NEW c \in Commands, IInv, Open(c) PROVE IInv' OBVIOUS
<1> DEFINE old == cmd[c]
           x == [old EXCEPT !.at = "sent", !.channel = Nowhere]
           n == Len(asked) + 1
<1>1. old \in Cmd /\ Met(old) /\ old.at = "open" BY DEF IInv, Types, CommandInv, Open
<1>2. /\ UNCHANGED <<startVars, guildVars, where, conn, heard, fed, failed, thrown>>
      /\ asked' = Append(asked, old.channel)
  BY DEF Open
<1>3. cmd' = [cmd EXCEPT ![c] = x] BY DEF Open, IInv, Types
<1>4. /\ x \in Cmd /\ x.at = "sent" /\ x.conn = old.conn /\ x.services = old.services
  BY <1>1 DEF Cmd, Steps
<1> HIDE DEF x
<1>5. Met(x) /\ Sees(x, where) BY <1>1, <1>4 DEF Met, Sees, Watching, Opening
<1>6. cmd' \in [Commands -> Cmd] /\ CommandInv' BY <1>2, <1>3, <1>4, <1>5, Replaced
<1>7. \A d \in Commands : cmd'[d] = IF d = c THEN x ELSE cmd[d]
  BY <1>3 DEF IInv, Types
<1>8. old.channel \in Channels \cup {Nowhere} /\ old.channel # Nowhere BY <1>1 DEF Cmd, Met
<1>9. /\ asked' \in Seq(Channels \cup {Nowhere})
      /\ DOMAIN asked' = DOMAIN asked \cup {n} /\ n \notin DOMAIN asked
      /\ asked'[n] # Nowhere /\ \A i \in DOMAIN asked : asked'[i] = asked[i] /\ i < n
  BY <1>2, <1>8 DEF IInv, Types
<1> HIDE DEF n
<1> USE DEF startVars, guildVars
<1>10. Types' BY <1>2, <1>6, <1>9 DEF IInv, Types
<1>11. OrderInv' BY <1>2, <1>4, <1>7 DEF IInv, OrderInv
<1>12. AnswerInv' BY <1>2, <1>4, <1>7 DEF IInv, AnswerInv
<1>13. VoiceInv'
  <2> SUFFICES ASSUME failed = 0 PROVE VoiceInv' BY <1>2 DEF VoiceInv
  <2>1. PICK o \in [DOMAIN asked -> Commands \cup {Nowhere}] : Agree(o) BY DEF IInv, VoiceInv
  <2>2. PICK p : p = [i \in DOMAIN asked' |-> IF i = n THEN c ELSE o[i]] OBVIOUS
  <2>3. \A i \in DOMAIN asked' : p[i] = IF i = n THEN c ELSE o[i] BY <2>2
  <2>4. p \in [DOMAIN asked' -> Commands \cup {Nowhere}] BY <1>9, <2>1, <2>2
  <2>5. Owned(p)' BY <1>1, <1>4, <1>7, <1>9, <2>1, <2>3 DEF Agree, Owned
  <2>6. WaitsInVain(o) => WaitsInVain(p)' BY <1>1, <1>7, <1>9, <2>3 DEF WaitsInVain
  <2>7. Forgotten => Forgotten' BY <1>1, <1>2, <1>4, <1>7 DEF Forgotten
  <2>8. CASE Sound /\ ~(Leaving /\ conn = NoConn)
    <3>1. /\ Provides({"open", "sent"}) => Provides({"open", "sent"})'
          /\ Provides({"arrived"}) => Provides({"arrived"})'
          /\ Provides({"arrived", "receive"}) => Provides({"arrived", "receive"})'
      BY <1>1, <1>2, <1>4, <1>7 DEF Provides
    <3>2. Leaving' = Leaving BY <1>9 DEF Leaving
    <3>3. \A i \in DOMAIN asked', j \in DOMAIN asked' :
             asked'[j] = Nowhere /\ i < j => asked'[i] = Nowhere
      <4> SUFFICES ASSUME NEW i \in DOMAIN asked', NEW j \in DOMAIN asked',
                          asked'[j] = Nowhere, i < j
                   PROVE  asked'[i] = Nowhere
        OBVIOUS
      <4>1. j \in DOMAIN asked BY <1>9
      <4>2. i \in DOMAIN asked BY <1>9, <4>1 DEF IInv, Types
      <4> QED BY <1>9, <2>8, <4>1, <4>2 DEF Sound
    <3>4. Sound' BY <1>2, <2>8, <3>1, <3>2, <3>3 DEF Sound
    <3> QED BY <1>2, <2>4, <2>5, <3>4 DEF VoiceInv, Agree
  <2>9. CASE Leaving /\ conn = NoConn
    <3>1. old.conn # conn BY <1>1, <2>9 DEF Met, Opening
    <3>2. Forgotten' BY <1>2, <1>4, <1>7, <3>1 DEF Forgotten
    <3> QED BY <1>2, <2>4, <2>5, <3>2 DEF VoiceInv, Agree
  <2> QED BY <1>2, <2>1, <2>4, <2>5, <2>6, <2>7, <2>8, <2>9 DEF VoiceInv, Agree
<1> QED BY <1>6, <1>10, <1>11, <1>12, <1>13 DEF IInv

(* The answer lets an Open return: what was asked for that Open, if it was *)
(* asked for another, is now asked for the other.                          *)
LEMMA AnsweredKeeps == \A c \in Commands : IInv /\ Answered(c) => IInv'
<1> SUFFICES ASSUME NEW c \in Commands, IInv, Answered(c) PROVE IInv' OBVIOUS
<1> DEFINE old == cmd[c]
           x == [old EXCEPT !.at = "arrived"]
           cm == [cmd EXCEPT ![c] = x]
           ch == Head(asked)
<1>1. /\ old \in Cmd /\ Met(old) /\ old.at = "sent" /\ old.conn = conn
  BY DEF IInv, Types, CommandInv, Answered
<1>2. /\ UNCHANGED <<startVars, guildVars, conn, failed>> /\ thrown' = FALSE
      /\ asked # <<>> /\ ch # Nowhere /\ BotIn(ch) /\ asked' = Tail(asked)
      /\ cmd' = Noted([cmd EXCEPT ![c].at = "arrived"], where')
  BY DEF Answered
<1>3. cmd' = Noted(cm, where') BY <1>2 DEF IInv, Types
<1>4. /\ x \in Cmd /\ x.at = "arrived" /\ x.conn = conn /\ x.services = old.services
  BY <1>1 DEF Cmd, Steps
<1>5. Met(x) BY <1>1, <1>4 DEF Met, Opening
<1> HIDE DEF x
<1>6. /\ cm \in [Commands -> Cmd] /\ cm[c] = x
      /\ \A d \in Commands : d # c => cm[d] = cmd[d]
  BY <1>4 DEF IInv, Types
<1> HIDE DEF cm
<1>7. \A d \in Commands : Met(cm[d]) /\ cm[d].services = cmd[d].services
  BY <1>4, <1>5, <1>6 DEF IInv, CommandInv
<1>8. /\ asked' \in Seq(Channels \cup {Nowhere}) /\ ch \in Channels \cup {Nowhere}
      /\ ch = asked[1] /\ 1 \in DOMAIN asked
      /\ \A i \in DOMAIN asked' :
            /\ i \in Nat \ {0} /\ i + 1 \in DOMAIN asked
            /\ asked'[i] = asked[i + 1]
  BY <1>2, TailIs DEF IInv
<1> HIDE DEF ch
<1>9. /\ Types' /\ CommandInv' /\ OrderInv' /\ AnswerInv'
      /\ \A d \in Commands : cmd'[d].at = cm[d].at /\ cmd'[d].conn = cm[d].conn
  BY <1>2, <1>3, <1>6, <1>7, <1>8, BotInKeeps
<1>10. /\ cmd'[c].at = "arrived" /\ cmd'[c].conn = conn
       /\ \A d \in Commands : d # c => cmd'[d].at = cmd[d].at /\ cmd'[d].conn = cmd[d].conn
  BY <1>4, <1>6, <1>9
<1>11. VoiceInv'
  <2> SUFFICES ASSUME failed = 0 PROVE VoiceInv' BY <1>2 DEF VoiceInv
  <2>1. PICK o \in [DOMAIN asked -> Commands \cup {Nowhere}] : Agree(o) BY DEF IInv, VoiceInv
  <2>2. PICK p : p = [i \in DOMAIN asked' |-> IF o[i + 1] = c THEN o[1] ELSE o[i + 1]]
    OBVIOUS
  <2>3. \A i \in DOMAIN asked' : p[i] = IF o[i + 1] = c THEN o[1] ELSE o[i + 1] BY <2>2
  <2>4. p \in [DOMAIN asked' -> Commands \cup {Nowhere}] BY <1>8, <2>1, <2>2
  <2>5. /\ o[1] \in Commands /\ cmd[o[1]].at = "sent"
        /\ \A j \in DOMAIN asked : asked[j] # Nowhere /\ o[j] = o[1] => j = 1
    BY <1>2, <1>8, <2>1 DEF Agree, Owned
  <2>6. Owned(p)'
    <3> SUFFICES ASSUME NEW i \in DOMAIN asked', asked'[i] # Nowhere
                 PROVE  /\ p[i] \in Commands /\ cmd'[p[i]].at = "sent"
                        /\ \A j \in DOMAIN asked' :
                              asked'[j] # Nowhere /\ p[j] = p[i] => j = i
      BY DEF Owned
    <3>1. /\ o[i + 1] \in Commands /\ cmd[o[i + 1]].at = "sent" /\ o[i + 1] # o[1]
          /\ \A j \in DOMAIN asked : asked[j] # Nowhere /\ o[j] = o[i + 1] => j = i + 1
      BY <1>8, <2>1, <2>5 DEF Agree, Owned
    <3>2. p[i] \in Commands /\ cmd'[p[i]].at = "sent" BY <1>10, <2>5, <2>3, <3>1
    <3>3. ASSUME NEW j \in DOMAIN asked', asked'[j] # Nowhere, p[j] = p[i]
          PROVE  j = i
      <4>1. o[j + 1] # o[1] BY <1>8, <2>5, <3>3
      <4>2. o[j + 1] = o[i + 1] BY <2>3, <3>1, <3>3, <4>1
      <4>3. j + 1 = i + 1 BY <1>8, <3>1, <3>3, <4>2
      <4> QED BY <1>8, <4>3
    <3> QED BY <3>2, <3>3
  <2>7. WaitsInVain(o) => WaitsInVain(p)'
    <3> SUFFICES ASSUME NEW w \in Commands, cmd[w].at = "sent",
                        \A i \in DOMAIN asked : asked[i] # Nowhere => o[i] # w
                 PROVE  WaitsInVain(p)'
      BY DEF WaitsInVain
    <3>1. w # o[1] BY <1>2, <1>8
    <3>2. CASE w # c
      <4>1. \A i \in DOMAIN asked' : asked'[i] # Nowhere => p[i] # w BY <1>8, <2>3, <3>1
      <4>2. cmd'[w].at = "sent" BY <1>10, <3>2
      <4> QED BY <4>1, <4>2 DEF WaitsInVain
    <3>3. CASE w = c
      <4>1. \A i \in DOMAIN asked' : asked'[i] # Nowhere => p[i] # o[1]
        BY <1>8, <2>5, <2>3, <3>3
      <4>2. cmd'[o[1]].at = "sent" BY <1>10, <2>5, <3>1, <3>3
      <4> QED BY <2>5, <4>1, <4>2 DEF WaitsInVain
    <3> QED BY <3>2, <3>3
  <2>8. Forgotten => Forgotten' BY <1>1, <1>2, <1>10 DEF Forgotten
  <2>9. Sound => Sound'
    <3> SUFFICES ASSUME Sound PROVE Sound' OBVIOUS
    <3>1. \A i \in DOMAIN asked' : asked'[i] # Nowhere
      <4> SUFFICES ASSUME NEW i \in DOMAIN asked', asked'[i] = Nowhere PROVE FALSE OBVIOUS
      <4>1. i + 1 \in DOMAIN asked /\ asked[i + 1] = Nowhere /\ 1 < i + 1 BY <1>8
      <4> QED BY <1>2, <1>8, <4>1 DEF Sound
    <3>2. ~Leaving' BY <3>1 DEF Leaving
    <3>3. Provides({"arrived"})' /\ Provides({"arrived", "receive"})'
      BY <1>2, <1>10 DEF Provides
    <3>4. where'[Bot] # Nowhere BY <1>2, <1>8, BotInIs
    <3>5. conn' # NoConn BY <1>1, <1>2 DEF Met, Opening
    <3> QED BY <3>1, <3>2, <3>3, <3>4, <3>5 DEF Sound
  <2> QED BY <1>2, <2>1, <2>4, <2>6, <2>7, <2>8, <2>9 DEF VoiceInv, Agree
<1> QED BY <1>9, <1>11 DEF IInv

(* A command ends. *)
LEMMA EndIs ==
    ASSUME IInv, NEW c \in Commands, Done(c), UNCHANGED where
    PROVE  /\ cmd' \in [Commands -> Cmd] /\ CommandInv'
           /\ \A d \in Commands : cmd'[d] = IF d = c THEN Idle ELSE cmd[d]
<1>1. Sees(Idle, where) BY IdleIs DEF Sees, Watching
<1>2. cmd' = [cmd EXCEPT ![c] = Idle] BY DEF Done
<1> QED BY <1>1, <1>2, IdleIs, Replaced DEF IInv, Types

LEMMA OpenFailsKeeps == \A c \in Commands : IInv /\ OpenFails(c) => IInv'
<1> SUFFICES ASSUME NEW c \in Commands, IInv, OpenFails(c) PROVE IInv' OBVIOUS
<1>1. /\ UNCHANGED <<startVars, guildVars, where, asked, heard, fed>> /\ conn' = NoConn
      /\ failed' = failed + 1 /\ thrown' = FALSE /\ Done(c)
  BY DEF OpenFails
<1>2. /\ cmd' \in [Commands -> Cmd] /\ CommandInv'
      /\ \A d \in Commands : cmd'[d] = IF d = c THEN Idle ELSE cmd[d]
  BY <1>1, EndIs
<1> USE DEF startVars, guildVars
<1>3. Types'
  <2>1. failed' \in Nat
    <3>1. failed \in Nat BY DEF IInv, Types
    <3> QED BY <1>1, <3>1
  <2>2. thrown' \in BOOLEAN BY <1>1
  <2> QED BY <1>1, <1>2, <2>1, <2>2 DEF IInv, Types
<1>4. OrderInv' BY <1>1, <1>2, IdleIs DEF IInv, OrderInv
<1>5. AnswerInv' BY <1>1, <1>2, IdleIs DEF IInv, AnswerInv
<1>6. VoiceInv' BY <1>1 DEF IInv, Types, VoiceInv
<1> QED BY <1>2, <1>3, <1>4, <1>5, <1>6 DEF IInv

LEMMA LeaveKeeps == \A c \in Commands : IInv /\ Leave(c) => IInv'
<1> SUFFICES ASSUME NEW c \in Commands, IInv, Leave(c) PROVE IInv' OBVIOUS
<1>1. UNCHANGED <<startVars, guildVars, where, failed>> /\ cmd[c].at = "leave" /\ Done(c)
  BY DEF Leave
<1>2. CASE conn = NoConn
  <2>1. UNCHANGED voiceVars BY <1>1, <1>2 DEF Leave, voiceVars
  <2> QED BY <1>1, <2>1, DoneKeeps DEF Opening
<1>3. CASE conn # NoConn
  <2>1. Close BY <1>3 DEF Leave
  <2>2. /\ cmd' \in [Commands -> Cmd] /\ CommandInv'
        /\ \A d \in Commands : cmd'[d] = IF d = c THEN Idle ELSE cmd[d]
    BY <1>1, EndIs
  <2> USE DEF startVars, guildVars
  <2>3. Types' BY <1>1, <1>3, <2>1, <2>2, CloseIs DEF IInv, Types
  <2>4. OrderInv' BY <1>1, <1>3, <2>1, <2>2, IdleIs, CloseIs DEF IInv, OrderInv
  <2>5. AnswerInv' BY <1>1, <1>3, <2>1, <2>2, IdleIs, CloseIs DEF IInv, AnswerInv
  <2>6. VoiceInv' BY <1>1, <1>3, <2>1, <2>2, CloseKeeps
  <2> QED BY <2>2, <2>3, <2>4, <2>5, <2>6 DEF IInv
<1> QED BY <1>2, <1>3

(* A connection is given what it lacked: a step that leaves the requests   *)
(* and who waits for them alone.                                           *)
LEMMA GivenKeeps ==
    ASSUME VoiceInv, NEW c \in Commands, cmd[c].at \in {"arrived", "receive"},
           UNCHANGED <<asked, conn, where, failed, thrown>>,
           \A d \in Commands : d # c => cmd'[d] = cmd[d],
           cmd'[c].at \notin {"open", "sent"},
           Sound => Sound'
    PROVE  VoiceInv'
<1> SUFFICES ASSUME failed = 0 PROVE VoiceInv' BY DEF VoiceInv
<1>1. PICK o \in [DOMAIN asked -> Commands \cup {Nowhere}] : Agree(o) BY DEF VoiceInv
<1>2. Owned(o)' BY <1>1 DEF Agree, Owned
<1>3. WaitsInVain(o) => WaitsInVain(o)' BY DEF WaitsInVain
<1>4. Forgotten => Forgotten' BY DEF Forgotten
<1> QED BY <1>1, <1>2, <1>3, <1>4 DEF VoiceInv, Agree

LEMMA ProvideKeeps == \A c \in Commands : IInv /\ Provide(c) => IInv'
<1> SUFFICES ASSUME NEW c \in Commands, IInv, Provide(c) PROVE IInv' OBVIOUS
<1> DEFINE old == cmd[c]
           x == [old EXCEPT !.at = "receive"]
<1>1. old \in Cmd /\ Met(old) /\ old.at = "arrived" /\ old.services # 0 /\ old.conn # NoConn
  BY DEF IInv, Types, CommandInv, Provide, Met, Opening
<1>2. /\ UNCHANGED <<startVars, guildVars, where, asked, conn, fed, failed, thrown>>
      /\ heard' = [heard EXCEPT ![old.conn] = old.services]
  BY DEF Provide
<1>3. cmd' = [cmd EXCEPT ![c] = x] BY DEF Provide, Goto, IInv, Types
<1>4. /\ x \in Cmd /\ x.at = "receive" /\ x.conn = old.conn /\ x.services = old.services
  BY <1>1 DEF Cmd, Steps
<1> HIDE DEF x
<1>5. Met(x) /\ Sees(x, where) BY <1>1, <1>4 DEF Met, Sees, Watching, Opening
<1>6. cmd' \in [Commands -> Cmd] /\ CommandInv' BY <1>2, <1>3, <1>4, <1>5, Replaced
<1>7. \A d \in Commands : cmd'[d] = IF d = c THEN x ELSE cmd[d]
  BY <1>3 DEF IInv, Types
<1> USE DEF startVars, guildVars
<1>8. old.services \in Nat /\ old.conn \in Conns BY <1>1 DEF Cmd
<1>9. heard' \in [Conns -> Nat] /\ \A k \in Conns : heard'[k] =
                                    IF k = old.conn THEN old.services ELSE heard[k]
  BY <1>2, <1>8 DEF IInv, Types
<1>10. Types' BY <1>2, <1>6, <1>9 DEF IInv, Types
<1>11. OrderInv' BY <1>2, <1>4, <1>7 DEF IInv, OrderInv
<1>12. AnswerInv' BY <1>2, <1>4, <1>7 DEF IInv, AnswerInv
<1>13. Sound => Sound'
  <2>1. /\ Provides({"open", "sent"}) => Provides({"open", "sent"})'
        /\ Provides({"arrived", "receive"}) => Provides({"arrived", "receive"})'
    BY <1>1, <1>2, <1>4, <1>7 DEF Provides
  <2>2. conn \in Conns /\ Provides({"arrived"}) => Provides({"arrived"})' \/ heard'[conn] # 0
    BY <1>1, <1>2, <1>7, <1>9 DEF Provides
  <2>3. conn \in Conns /\ heard[conn] # 0 => heard'[conn] # 0 BY <1>1, <1>9
  <2>4. conn = NoConn \/ conn \in Conns BY DEF IInv, Types
  <2>5. Leaving' = Leaving BY <1>2 DEF Leaving
  <2> QED BY <1>2, <2>1, <2>2, <2>3, <2>4, <2>5 DEF Sound
<1>14. VoiceInv' BY <1>1, <1>2, <1>4, <1>7, <1>13, GivenKeeps DEF IInv
<1> QED BY <1>6, <1>10, <1>11, <1>12, <1>14 DEF IInv

LEMMA ReceiveKeeps == \A c \in Commands : IInv /\ Receive(c) => IInv'
<1> SUFFICES ASSUME NEW c \in Commands, IInv, Receive(c) PROVE IInv' OBVIOUS
<1> DEFINE old == cmd[c]
<1>1. old \in Cmd /\ Met(old) /\ old.at = "receive" /\ old.services # 0 /\ old.conn # NoConn
  BY DEF IInv, Types, CommandInv, Receive, Met, Opening
<1>2. /\ UNCHANGED <<startVars, guildVars, where, asked, conn, heard, failed, thrown>>
      /\ fed' = IF wake THEN [fed EXCEPT ![old.conn] = old.services] ELSE fed
      /\ Done(c)
  BY DEF Receive
<1>3. /\ cmd' \in [Commands -> Cmd] /\ CommandInv'
      /\ \A d \in Commands : cmd'[d] = IF d = c THEN Idle ELSE cmd[d]
  BY <1>2, EndIs
<1> USE DEF startVars, guildVars
<1>4. old.services \in Nat /\ old.conn \in Conns BY <1>1 DEF Cmd
<1>5. fed' \in [Conns -> Nat] /\ \A k \in Conns : fed'[k] =
                                    IF wake /\ k = old.conn THEN old.services ELSE fed[k]
  BY <1>2, <1>4 DEF IInv, Types
<1>6. Types' BY <1>2, <1>3, <1>5 DEF IInv, Types
<1>7. OrderInv' BY <1>2, <1>3, IdleIs DEF IInv, OrderInv
<1>8. AnswerInv'
  <2>1. wake => old.services \in answering BY <1>1 DEF IInv, AnswerInv
  <2>2. \A k \in Conns : fed'[k] # 0 => fed'[k] \in answering'
    BY <1>2, <1>5, <2>1 DEF IInv, AnswerInv
  <2> QED BY <1>2, <1>3, <2>2, IdleIs DEF IInv, AnswerInv
<1>9. Sound => Sound'
  <2>1. /\ Provides({"open", "sent"}) => Provides({"open", "sent"})'
        /\ Provides({"arrived"}) => Provides({"arrived"})'
    BY <1>1, <1>2, <1>3 DEF Provides
  <2>2. conn \in Conns /\ wake /\ Provides({"arrived", "receive"}) =>
          Provides({"arrived", "receive"})' \/ fed'[conn] # 0
    BY <1>1, <1>2, <1>3, <1>5 DEF Provides
  <2>3. conn \in Conns /\ fed[conn] # 0 => fed'[conn] # 0 BY <1>1, <1>5
  <2>4. conn = NoConn \/ conn \in Conns BY DEF IInv, Types
  <2>5. Leaving' = Leaving BY <1>2 DEF Leaving
  <2> QED BY <1>2, <2>1, <2>2, <2>3, <2>4, <2>5 DEF Sound
<1>10. VoiceInv' BY <1>1, <1>2, <1>3, <1>9, IdleIs, GivenKeeps DEF IInv
<1> QED BY <1>3, <1>6, <1>7, <1>8, <1>10 DEF IInv

-----------------------------------------------------------------------------
LEMMA NextKeeps == IInv /\ [Next]_vars => IInv'
<1> SUFFICES ASSUME IInv, [Next]_vars PROVE IInv' OBVIOUS
<1>1. CASE LoadConfig \/ MainStep \/ MainExits \/ RegisterGuild
  BY <1>1, LoadConfigKeeps, MainStepKeeps, MainExitsKeeps, RegisterKeeps
<1>2. CASE BotIsMoved \/ Answer \/ ConnectionLost
  BY <1>2, BotIsMovedKeeps, AnswerKeeps, ConnectionLostKeeps
<1>3. ASSUME NEW u \in Users, Move(u) PROVE IInv' BY <1>3, MoveKeeps
<1>4. ASSUME NEW c \in Commands, Ask(c) \/ Command(c) PROVE IInv'
  BY <1>4, AskKeeps, LookSecondKeeps, LookChannelKeeps, GetGuildKeeps, ActKeeps,
     CreateConnKeeps, OpenKeeps, AnsweredKeeps, OpenFailsKeeps, ProvideKeeps, ReceiveKeeps,
     LeaveKeeps
  DEF Command
<1>5. CASE UNCHANGED vars
  <2> USE <1>5 DEF vars, startVars, guildVars, voiceVars
  <2>1. Types' BY DEF IInv, Types
  <2>2. CommandInv' BY DEF IInv, CommandInv
  <2>3. OrderInv' BY DEF IInv, OrderInv
  <2>4. AnswerInv' BY DEF IInv, AnswerInv
  <2>5. VoiceInv' BY VoiceKeeps DEF IInv
  <2> QED BY <2>1, <2>2, <2>3, <2>4, <2>5 DEF IInv
<1> QED BY <1>1, <1>3, <1>4, <1>5, <1>2 DEF Next

LEMMA Invariant == Spec => []IInv
BY InitIInv, NextKeeps, PTL DEF Spec

(* main() never lets a guild register before OnWake is set, so wherever a  *)
(* connection's packets go (audio/vconn.go) their wakes are answered.      *)
THEOREM WakesHaveAnHandler == Spec => []ListenersAreAnswered
<1>1. IInv => ListenersAreAnswered BY DEF IInv, OrderInv, AnswerInv, ListenersAreAnswered
<1> QED BY <1>1, Invariant, PTL

(* Whatever the file says, a bot that connects has passed config.Load's    *)
(* validation or runs on defaults that would.                              *)
THEOREM ConnectedIsValid == Spec => []ConnectedIsConfigured
<1>1. IInv => ConnectedIsConfigured
  BY DEF IInv, OrderInv, ConnectedIsConfigured, Connected, Running, BotValid, GuildBuilds, QueueBuilds
<1> QED BY <1>1, Invariant, PTL

(* A command that still looks is taken further by nobody else's step. *)
LEMMA OnlyItsLook ==
    ASSUME IInv, Next, NEW c \in Commands, cmd[c].at \in Watching, cmd'[c].at # cmd[c].at
    PROVE  LookSecond(c) \/ LookChannel(c)
<1>1. cmd \in [Commands -> Cmd] BY DEF IInv, Types
<1>2. CASE LoadConfig \/ MainStep \/ MainExits \/ RegisterGuild
  BY <1>2 DEF LoadConfig, MainStep, MainExits, RegisterGuild
<1>3. \A wh : Noted(cmd, wh)[c].at = cmd[c].at BY <1>1 DEF Noted, Cmd
<1>4. CASE \E u \in Users : Move(u) BY <1>3, <1>4 DEF Move
<1>5. CASE BotIsMoved \/ Answer \/ ConnectionLost
  BY <1>3, <1>5 DEF BotIsMoved, Answer, ConnectionLost
<1>6. ASSUME NEW d \in Commands, Ask(d) \/ Command(d)
      PROVE  LookSecond(c) \/ LookChannel(c)
  <2>1. ASSUME NEW x, cmd' = Noted([cmd EXCEPT ![d] = x], where'), d # c PROVE FALSE
    <3>1. [cmd EXCEPT ![d] = x][c] = cmd[c] BY <1>1, <2>1
    <3>2. Noted([cmd EXCEPT ![d] = x], where')[c] = Note([cmd EXCEPT ![d] = x][c], where')
      BY NotedIs
    <3>3. cmd'[c] = Note(cmd[c], where') BY <2>1, <3>1, <3>2
    <3> QED BY <1>1, <3>3 DEF Note, Cmd
  <2>2. ASSUME NEW x, cmd' = [cmd EXCEPT ![d] = x], d # c PROVE FALSE BY <1>1, <2>2
  <2>3. CASE Ask(d)
    <3>1. d # c BY <2>3 DEF Ask, Watching
    <3>2. where' = where BY <2>3 DEF Ask, voiceVars
    <3> QED BY <2>1, <2>3, <3>1, <3>2 DEF Ask
  <2>4. CASE LookSecond(d) \/ LookChannel(d)
    <3>1. CASE d = c BY <2>4, <3>1
    <3>2. CASE d # c
      BY <1>1, <2>4, <3>2 DEF LookSecond, LookChannel, Done, Goto, Passes
    <3> QED BY <3>1, <3>2
  <2>5. CASE Answered(d)
    <3>1. d # c BY <2>5 DEF Answered, Watching
    <3>2. cmd' = Noted([cmd EXCEPT ![d] = [cmd[d] EXCEPT !.at = "arrived"]], where')
      BY <1>1, <2>5 DEF Answered
    <3> QED BY <2>1, <3>1, <3>2
  <2>6. CASE \/ GetGuild(d) \/ Act(d) \/ CreateConn(d) \/ Open(d) \/ OpenFails(d)
             \/ Provide(d) \/ Receive(d) \/ Leave(d)
    <3>1. d # c
      BY <2>6 DEF GetGuild, Act, CreateConn, Open, OpenFails, Provide, Receive, Leave, Watching
    <3>2. cmd'[c] = cmd[c]
      BY <1>1, <2>6, <3>1
      DEF GetGuild, Act, CreateConn, Open, OpenFails, Provide, Receive, Leave, Done, Goto
    <3> QED BY <3>2
  <2> QED BY <1>6, <2>3, <2>4, <2>5, <2>6 DEF Command
<1> QED BY <1>2, <1>4, <1>5, <1>6 DEF Next

(* However people and the bot move while a command is checked (actions'    *)
(* SameChannel and join's own check), it is obeyed only for somebody whose *)
(* channel the bot shared.                                                 *)
THEOREM ObeysCompany == Spec => CommandsNeedCompany
<1> DEFINE Company(c) ==
             /\ cmd[c].at = "second" /\ cmd'[c].at \in {"services", "leave"} =>
                   cmd[c].been \cap cmd[c].hosted # {}
             /\ cmd[c].at = "channel" /\ cmd'[c].at = "services" => cmd[c].been # {}
<1>1. IInv /\ [Next]_vars => [\A c \in Commands : Company(c)]_vars
  <2> SUFFICES ASSUME IInv, Next, NEW c \in Commands PROVE Company(c) OBVIOUS
  <2> DEFINE old == cmd[c]
  <2>1. /\ old \in Cmd /\ Met(old) /\ Sees(old, where) /\ cmd \in [Commands -> Cmd]
    BY DEF IInv, Types, CommandInv
  <2>2. ASSUME old.at = "second", cmd'[c].at \in {"services", "leave"}
        PROVE  old.been \cap old.hosted # {}
    <3>1. LookSecond(c)
      BY <2>2, OnlyItsLook DEF Watching, LookChannel
    <3>2. /\ old.do # "join"
          /\ BothPresent(old.channel, where[SecondOf(old.do, old.who)])
      <4>1. ~Done(c) BY <2>1, <2>2 DEF Done, Idle
      <4>2. ~Goto(c, "channel") BY <2>1, <2>2 DEF Goto, Cmd
      <4> QED BY <3>1, <4>1, <4>2 DEF LookSecond
    <3>3. SecondOf(old.do, old.who) = (IF old.do = "leave" THEN old.who ELSE Bot) BY DEF SecondOf
    <3> QED BY <2>1, <2>2, <3>2, <3>3 DEF BothPresent, Met, Sees, Watching
  <2>3. ASSUME old.at = "channel", cmd'[c].at = "services"
        PROVE  old.been # {}
    <3>1. LookChannel(c)
      BY <2>3, OnlyItsLook DEF Watching, LookSecond
    <3>2. where[old.who] # Nowhere
      BY <2>1, <2>3, <3>1 DEF LookChannel, Done, Idle
    <3> QED BY <2>1, <2>3, <3>2 DEF Sees, Watching
  <2> QED BY <2>2, <2>3
<1> QED BY <1>1, Invariant, PTL DEF Spec, CommandsNeedCompany

(* However joins, leaves, kicks, moves and lost connections overlap, until *)
(* an Open fails the manager's connection and the bot's channel tell the   *)
(* same story at rest, but for a connection the bot was thrown out of.     *)
THEOREM ConnFollowsVoice == Spec => []ConnMatchesVoice
<1>1. IInv => ConnMatchesVoice
  <2> SUFFICES ASSUME IInv, failed = 0, asked = <<>>, \A c \in Commands : cmd[c].at = "idle"
               PROVE  IF where[Bot] = Nowhere THEN conn = NoConn \/ thrown
                      ELSE conn # NoConn /\ heard[conn] # 0 /\ (wake => fed[conn] # 0)
    BY DEF ConnMatchesVoice
  <2>1. PICK o \in [DOMAIN asked -> Commands \cup {Nowhere}] : Agree(o) BY DEF IInv, VoiceInv
  <2>2. ~WaitsInVain(o) /\ ~Forgotten BY DEF WaitsInVain, Forgotten
  <2>3. Sound BY <2>1, <2>2 DEF Agree
  <2>4. ~Leaving BY DEF Leaving
  <2>5. /\ ~Provides({"open", "sent"}) /\ ~Provides({"arrived"})
        /\ ~Provides({"arrived", "receive"})
    BY DEF Provides
  <2> QED BY <2>3, <2>4, <2>5 DEF Sound
<1> QED BY <1>1, Invariant, PTL
=============================================================================
