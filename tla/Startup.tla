------------------------------ MODULE Startup -------------------------------
(***************************************************************************)
(* The llm from its configuration file to service and to its end: Load,    *)
(* NewBrainModel with the prompt files, StartGrpc, requests to speak, and  *)
(* the shutdown.  What Load accepts has to be enough for all that is built *)
(* from it later.                                                          *)
(*                                                                         *)
(* The file is read once, so edits matter only before it is; prompt files  *)
(* are looked at once more and change at any time.                         *)
(***************************************************************************)
EXTENDS LlmConfig, Functions

CONSTANTS
    Names, VoiceNames, Prompts,     \* of personalities, of voices; files
    MaxEdits,                       \* bound: edits of any file
    NoName

VARIABLES
    file,               \* the configuration file, and what was loaded of it
    prompt,             \* what is at each prompt's path
    edits,
    llm,                \* how far the llm has come
    cause,              \* what it panicked of
    personality,        \* systemNames of the guild, NoName before a chat
    open                \* calls under way: the bot's tool stream, others

fileVars == <<file, prompt, edits>>
serverVars == <<llm, cause, personality, open>>
startupVars == <<fileVars, serverVars>>

-----------------------------------------------------------------------------
(* The files *)

GoodPolicy == [reward |-> 1, punish |-> 2, kill |-> 3, parole |-> 1]
Policies == {GoodPolicy, [GoodPolicy EXCEPT !.reward = 0], [GoodPolicy EXCEPT !.reward = 3],
             [GoodPolicy EXCEPT !.kill = 1], [GoodPolicy EXCEPT !.parole = 0]}

GoodChat == [model |-> "m", key |-> "set", temperature |-> None, topP |-> None,
             maxTokens |-> None, presence |-> None, frequency |-> None,
             effort |-> "", stops |-> 0]
ChatClients ==
    {GoodChat, [GoodChat EXCEPT !.model = ""], [GoodChat EXCEPT !.key = "unset"],
     [GoodChat EXCEPT !.temperature = 21], [GoodChat EXCEPT !.topP = 0],
     [GoodChat EXCEPT !.maxTokens = 0], [GoodChat EXCEPT !.presence = -21],
     [GoodChat EXCEPT !.frequency = 20], [GoodChat EXCEPT !.effort = "most"],
     [GoodChat EXCEPT !.stops = 5]}

SttClients ==
    {[api |-> api, model |-> "m", base |-> base, key |-> "set"] :
        api \in {"", "openai", "deepgram", "assemblyai", "whisper"}, base \in {"", "url"}}

TtsClients ==
    {[api |-> api, model |-> model, voice |-> voice, base |-> "url", key |-> "set"] :
        api \in {"", "mistral", "google"}, model \in {"", "m"},
        voice \in {"", "alloy", "en-GB-Chirp3-HD-Charon"}}

NoSection == [timeout |-> 0, perClient |-> 0, clients |-> <<>>, voices |-> <<>>,
              policy |-> [reward |-> 0, punish |-> 0, kill |-> 0, parole |-> 0]]
GoodStt == [NoSection EXCEPT !.timeout = 1, !.perClient = 1, !.policy = GoodPolicy,
                !.clients = <<[api |-> "deepgram", model |-> "m", base |-> "url", key |-> "set"]>>]
GoodTts == [NoSection EXCEPT !.timeout = 1, !.perClient = 1, !.policy = GoodPolicy,
                !.voices = [v \in VoiceNames |->
                    <<[api |-> "openai", model |-> "m", voice |-> "alloy", base |-> "", key |-> "set"]>>]]

Persons == [prompt : Prompts, voice : VoiceNames \cup {""}]

(* The file somebody wrote first: everything is in it. *)
FirstFile ==
    [history |-> 20, reply |-> 1, perClient |-> 1,
     default |-> CHOOSE n \in Names : TRUE,
     personalities |-> [n \in Names |-> [prompt |-> CHOOSE f \in Prompts : TRUE,
                                         voice |-> CHOOSE v \in VoiceNames : TRUE]],
     policy |-> GoodPolicy, clients |-> <<GoodChat, GoodChat>>,
     stt |-> TRUE, tts |-> TRUE, hearing |-> GoodStt, speech |-> GoodTts,
     missing |-> {}, unknown |-> FALSE]

(* A table's entry, new or in place of the one there. *)
Put(table, key, entry) ==
    [k \in DOMAIN table \cup {key} |-> IF k = key THEN entry ELSE table[k]]

(* One change of the file, of any part of it. *)
SectionEdits(s) ==
    {[s EXCEPT !.timeout = 0], [s EXCEPT !.perClient = 0]}
        \cup {[s EXCEPT !.policy = p] : p \in Policies}

ServiceEdits(c) ==
    {[c EXCEPT !.history = 0], [c EXCEPT !.reply = 0], [c EXCEPT !.perClient = 0],
     [c EXCEPT !.unknown = TRUE], [c EXCEPT !.clients = <<>>]}
        \cup {[c EXCEPT !.missing = @ \cup {name}] : name \in {"chat", "stt", "tts"}}
        \cup {[c EXCEPT !.default = n] : n \in Names}
        \cup {[c EXCEPT !.personalities = Restrict(@, DOMAIN @ \ {n})] : n \in Names}
        \cup {[c EXCEPT !.personalities = Put(@, e[1], e[2])] : e \in Names \X Persons}
        \cup {[c EXCEPT !.policy = p] : p \in Policies}
        \cup {[c EXCEPT !.clients = <<client>>] : client \in ChatClients}

HearingEdits(c) ==
    {[c EXCEPT !.stt = FALSE, !.hearing = NoSection],
     [c EXCEPT !.stt = TRUE, !.hearing.clients = <<>>]}
        \cup {[c EXCEPT !.stt = TRUE, !.hearing = s] : s \in SectionEdits(c.hearing)}
        \cup {[c EXCEPT !.stt = TRUE, !.hearing.clients = <<client>>] : client \in SttClients}

SpeechEdits(c) ==
    {[c EXCEPT !.tts = FALSE, !.speech = NoSection]}
        \cup {[c EXCEPT !.tts = TRUE, !.speech = s] : s \in SectionEdits(c.speech)}
        \cup {[c EXCEPT !.tts = TRUE, !.speech.voices = Restrict(@, DOMAIN @ \ {v})] :
                  v \in VoiceNames}
        \cup {[c EXCEPT !.tts = TRUE, !.speech.voices = Put(@, v, <<>>)] : v \in VoiceNames}
        \cup {[c EXCEPT !.tts = TRUE, !.speech.voices = Put(@, e[1], <<e[2]>>)] :
                  e \in VoiceNames \X TtsClients}

FileEdits(c) == ServiceEdits(c) \cup HearingEdits(c) \cup SpeechEdits(c)

StartupInit ==
    /\ file = FirstFile
    /\ prompt = [f \in Prompts |-> "text"] /\ edits = 0
    /\ llm = "down" /\ cause = "none"
    /\ personality = NoName /\ open = {}

Down == llm \in {"down", "stopped", "panicked"}

Edit ==
    /\ edits < MaxEdits /\ edits' = edits + 1
    /\ \/ Down /\ file' \in FileEdits(file) /\ UNCHANGED prompt
       \/ /\ \E f \in Prompts, is \in {"text", "directory", "absent"} :
                prompt' = [prompt EXCEPT ![f] = is]
          /\ UNCHANGED file
    /\ UNCHANGED serverVars

-----------------------------------------------------------------------------
(* The llm *)

Found == {f \in Prompts : prompt[f] # "absent"}
Readable == {f \in Prompts : prompt[f] = "text"}

LlmGoes(to, why) ==
    /\ llm' = to /\ cause' = why
    /\ UNCHANGED fileVars

(* config.Load *)
LoadConfig ==
    /\ Down
    /\ IF Accepted(file, Found)
       THEN LlmGoes("loaded", "none")
       ELSE LlmGoes("panicked", "config")
    /\ personality' = NoName /\ open' = {}

(* makeModel and registerTools; the prompts are read again. *)
MakeModel ==
    /\ llm = "loaded"
    /\ IF BrainBuilds(file, Readable) THEN LlmGoes("made", "none")
       ELSE LlmGoes("panicked", IF BrainBuilds(file, Prompts) THEN "prompt" ELSE "brain")
    /\ UNCHANGED <<personality, open>>

(* StartGrpc up to Serve; the port may be taken. *)
StartGrpc ==
    /\ llm = "made"
    /\ \/ LlmGoes("panicked", "port")
       \/ IF SpeechBuilds(file) THEN LlmGoes("serving", "none")
                                  ELSE LlmGoes("panicked", "speech")
    /\ UNCHANGED <<personality, open>>

(* The guild's first chat, or a chat that switches. *)
SetPersonality ==
    /\ llm = "serving"
    /\ personality' \in DOMAIN file.personalities
    /\ UNCHANGED <<fileVars, llm, cause, open>>

CallBegins ==
    /\ llm = "serving" /\ open # {"stream", "call"}
    /\ \E what \in {"stream", "call"} : open' = open \cup {what}
    /\ UNCHANGED <<fileVars, llm, cause, personality>>

(* Everything but the bot's tool stream ends by its own timeout; the stream*)
(* ends with the bot or the connection, if at all.                         *)
CallEnds ==
    /\ \E what \in open : open' = open \ {what}
    /\ UNCHANGED <<fileVars, llm, cause, personality>>

(* The voice Speak looks up in s.voices, when it gets as far. *)
SpeakVoice ==
    LET name == IF personality = NoName THEN file.default ELSE personality
    IN  IF name \in DOMAIN file.personalities THEN file.personalities[name].voice ELSE ""

(* Without voices, text or a voice Speak only returns an error.  A voice   *)
(* without a rotation is a nil one, and takes the process with it.         *)
Speak ==
    /\ llm = "serving" /\ TtsEnabled(file) /\ SpeakVoice # ""
    /\ IF SpeakVoice \in Speakers(file)
       THEN UNCHANGED <<llm, cause, fileVars>>
       ELSE LlmGoes("panicked", "voice")
    /\ UNCHANGED <<personality, open>>

(* SIGTERM: GracefulStop waits for the calls under way. *)
Terminate ==
    /\ llm = "serving"
    /\ LlmGoes("draining", "none")
    /\ UNCHANGED <<personality, open>>

Drained ==
    /\ llm = "draining" /\ open = {}
    /\ LlmGoes("stopped", "none")
    /\ UNCHANGED <<personality, open>>

(* Mutant: only calls are cut off, the stream is waited for. *)
CutOffCalls ==
    /\ llm = "draining"
    /\ IF "stream" \in open THEN UNCHANGED <<llm, cause, fileVars>>
                            ELSE LlmGoes("stopped", "none")
    /\ open' = open \ {"call"}
    /\ UNCHANGED personality

(* shutdownTimeout: Stop. *)
CutOff ==
    /\ llm = "draining"
    /\ LlmGoes("stopped", "none")
    /\ open' = {}
    /\ UNCHANGED personality

StartupNext ==
    \/ Edit
    \/ LoadConfig \/ MakeModel \/ StartGrpc \/ SetPersonality \/ CallBegins \/ CallEnds
    \/ Speak \/ Terminate \/ Drained \/ CutOff

StartupSpec == StartupInit /\ [][StartupNext]_startupVars

(* The shutdown's timer runs out; nothing else has to happen. *)
FairStartupSpec == StartupSpec /\ WF_startupVars(CutOff)

-----------------------------------------------------------------------------
(* What Load accepts can be built: only a prompt file that is gone or not  *)
(* a file by the time it is read, or a port that is taken, keeps the llm   *)
(* from starting.  Every client in service is of the api the file asks for *)
(* and has a key and an address.                                           *)
AcceptedStarts ==
    /\ cause \notin {"brain", "speech"}
    /\ llm = "serving" =>
          /\ \A i \in DOMAIN file.hearing.clients :
                Callable(file.hearing.clients[i], Transcriber(file.hearing.clients[i]))
          /\ \A v \in Speakers(file) : \A i \in DOMAIN file.speech.voices[v] :
                Callable(file.speech.voices[v][i], Speaker(file.speech.voices[v][i]))

(* Speak never asks a voice that has no speakers, whatever personality the *)
(* guild has been switched to.                                             *)
SpeakHasVoice == cause # "voice"

(* "the bot's tool stream never ends on its own so anything still open     *)
(* after the timeout is cut off": a terminated llm stops.                  *)
ShutdownEnds == llm = "draining" ~> llm = "stopped"
=============================================================================
