----------------------------- MODULE LlmConfig ------------------------------
(***************************************************************************)
(* The llm's configuration (llm/config/config.go): what Load accepts, and  *)
(* what the program builds from it.                                        *)
(*                                                                         *)
(* A configuration is the record the file decodes to.  Strings are the     *)
(* empty string, one of those the code compares with, or any other;        *)
(* durations and numbers are integers, sampling settings in tenths; None   *)
(* is an optional setting the file leaves out.                             *)
(*   missing     sections of which a required key is missing               *)
(*   unknown     does the file set a key that no field takes?              *)
(*   stt, tts    are the sections in the file?                             *)
(***************************************************************************)
EXTENDS Integers, Sequences

CONSTANT None

Section(c, name) == name = "chat" \/ (name = "stt" /\ c.stt) \/ (name = "tts" /\ c.tts)

(* missingKeys: those of [stt] and [tts] only when the section is there. *)
MissingKeys(c) == \E name \in c.missing : Section(c, name)

(* api_key_env names a variable that is set. *)
HasKey(client) == client.key = "set"

Within(x, low, high) == x = None \/ (low <= x /\ x <= high)

ChatClientValid(client) ==
    /\ client.model # ""
    /\ HasKey(client)
    /\ Within(client.temperature, 0, 20)
    /\ Within(client.topP, 1, 10)
    /\ client.maxTokens = None \/ client.maxTokens > 0
    /\ Within(client.presence, -20, 20) /\ Within(client.frequency, -20, 20)
    /\ client.effort \in {"", "minimal", "low", "medium", "high"}
    /\ client.stops <= 4

(* Mutant: an api that is not known is let through. *)
SttClientValidAnyApi(client) ==
    /\ client.api \in {"deepgram", "assemblyai"} => client.base # ""
    /\ client.model # "" /\ HasKey(client)

SttClientValid(client) ==
    /\ \/ client.api \in {"", "openai"}
       \/ client.api \in {"deepgram", "assemblyai"} /\ client.base # ""
    /\ client.model # "" /\ HasKey(client)

(* A Google voice names its language; the others' names are their own. *)
GoogleLanguage(voice) == voice = "en-GB-Chirp3-HD-Charon"

TtsClientValid(client) ==
    /\ \/ client.api \in {"", "openai"} /\ client.model # ""
       \/ client.api = "mistral" /\ client.model # "" /\ client.base # ""
       \/ client.api = "google" /\ client.base # "" /\ GoogleLanguage(client.voice)
    /\ client.voice # "" /\ HasKey(client)

PolicyValid(p) ==
    /\ 0 < p.reward /\ p.reward <= p.punish /\ p.punish <= p.kill
    /\ p.parole > 0

SttValid(s) ==
    /\ s.timeout > 0 /\ s.perClient > 0
    /\ PolicyValid(s.policy)
    /\ Len(s.clients) > 0
    /\ \A i \in DOMAIN s.clients : SttClientValid(s.clients[i])

(* Mutant: a voice may be listed with no client. *)
TtsValidEmptyVoices(t) ==
    /\ t.timeout > 0 /\ t.perClient > 0
    /\ PolicyValid(t.policy)
    /\ DOMAIN t.voices # {}
    /\ \A v \in DOMAIN t.voices :
          \A i \in DOMAIN t.voices[v] : TtsClientValid(t.voices[v][i])

TtsValid(t) ==
    /\ t.timeout > 0 /\ t.perClient > 0
    /\ PolicyValid(t.policy)
    /\ DOMAIN t.voices # {}
    /\ \A v \in DOMAIN t.voices :
          /\ Len(t.voices[v]) > 0
          /\ \A i \in DOMAIN t.voices[v] : TtsClientValid(t.voices[v][i])

(* Prompts that os.Stat finds, among them directories. *)
PersonalityValid(c, person, found) ==
    /\ person.prompt \in found
    /\ person.voice # "" => c.tts /\ person.voice \in DOMAIN c.speech.voices

(* validate(): the zero value of a section that is not in the file is not  *)
(* looked at.                                                              *)
Valid(c, found) ==
    /\ c.history > 0 /\ c.reply > 0 /\ c.perClient > 0
    /\ c.default \in DOMAIN c.personalities
    /\ \A name \in DOMAIN c.personalities :
          PersonalityValid(c, c.personalities[name], found)
    /\ PolicyValid(c.policy)
    /\ Len(c.clients) > 0
    /\ \A i \in DOMAIN c.clients : ChatClientValid(c.clients[i])
    /\ c.stt => SttValid(c.hearing)
    /\ c.tts => TtsValid(c.speech)

Accepted(c, found) == ~c.unknown /\ ~MissingKeys(c) /\ Valid(c, found)

-----------------------------------------------------------------------------
(* What NewRotation builds a rotation of. *)
RotationBuilds(items, p) ==
    /\ Len(items) > 0
    /\ p.parole > 0 /\ p.reward <= p.punish /\ p.punish <= p.kill

(* A section is on when it has something in it, not when it is there. *)
SttEnabled(c) == Len(c.hearing.clients) > 0
TtsEnabled(c) == DOMAIN c.speech.voices # {}

(* Speakers(): a voice gets its entry with its first client. *)
Speakers(c) == {v \in DOMAIN c.speech.voices : Len(c.speech.voices[v]) > 0}

(* The service a client calls and where; openai's own when base is empty.  *)
Service(client, known) ==
    [api |-> IF client.api \in known THEN client.api ELSE "openai",
     base |-> IF client.base = "" /\ client.api \notin known
              THEN "https://api.openai.com/v1" ELSE client.base]

Speaker(client) == Service(client, {"mistral", "google"})
Transcriber(client) == Service(client, {"deepgram", "assemblyai"})

(* NewBrainModel: a rotation of the chat clients and every prompt read.    *)
BrainBuilds(c, readable) ==
    /\ RotationBuilds(c.clients, c.policy)
    /\ \A name \in DOMAIN c.personalities : c.personalities[name].prompt \in readable

(* newSpeechServer: a rotation of transcribers and one for every voice. *)
SpeechBuilds(c) ==
    /\ SttEnabled(c) => RotationBuilds(c.hearing.clients, c.hearing.policy)
    /\ \A v \in Speakers(c) : RotationBuilds(c.speech.voices[v], c.speech.policy)

(* Every client is the one the file asks for, at some address, with a key. *)
Callable(client, service) ==
    /\ HasKey(client) /\ service.base # ""
    /\ client.api # "" => service.api = client.api
=============================================================================
