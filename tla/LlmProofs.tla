------------------------------ MODULE LlmProofs ------------------------------
(***************************************************************************)
(* The llm's process and its bot's stream.                                 *)
(*                                                                         *)
(* What Load accepts is enough for all that is built and looked up later,  *)
(* for any personalities, voices and prompts and any edits of the file.    *)
(* The argument is that of the file: that an edit leaves it a file with no *)
(* section but those in it, and that validation implies what makeModel,    *)
(* StartGrpc and Speak assume.                                             *)
(*                                                                         *)
(* Of the tool stream, for any number of streams, calls, restarts and      *)
(* faults: the newest stream gets the calls, a result is its call's own,   *)
(* and no call is left with nothing to wait for.  The invariant separates  *)
(* the lives of the llm (what is under way on a stream of this life was    *)
(* sent in it) and keeps the bot's stream the last whose handler ran.      *)
(***************************************************************************)
EXTENDS ToolStream, Startup, TLAPS

(* Configuration and process *)

(* A file decodes to a record of these fields, whatever is in them. *)
IsSection(s) ==
    s = [timeout |-> s.timeout, perClient |-> s.perClient, clients |-> s.clients,
         voices |-> s.voices, policy |-> s.policy]

IsFile(c) ==
    /\ c = [history |-> c.history, reply |-> c.reply, perClient |-> c.perClient,
            default |-> c.default, personalities |-> c.personalities, policy |-> c.policy,
            clients |-> c.clients, stt |-> c.stt, tts |-> c.tts, hearing |-> c.hearing,
            speech |-> c.speech, missing |-> c.missing, unknown |-> c.unknown]
    /\ IsSection(c.hearing) /\ IsSection(c.speech)

(* A section that is not in the file is empty. *)
SectionsMatch(c) ==
    /\ ~c.stt => c.hearing.clients = <<>>
    /\ ~c.tts => c.speech.voices = <<>>

(* The first file is one, and an edit of a section or a file leaves one. *)
LEMMA FirstFileIs == IsFile(FirstFile) /\ SectionsMatch(FirstFile)
<1>1. IsSection(NoSection) BY DEF NoSection, IsSection
<1>2. IsSection(GoodStt)
  <2> DEFINE clients == <<[api |-> "deepgram", model |-> "m", base |-> "url", key |-> "set"]>>
  <2>1. GoodStt = [NoSection EXCEPT !.timeout = 1, !.perClient = 1, !.policy = GoodPolicy,
                                    !.clients = clients]
    BY DEF GoodStt
  <2> HIDE DEF clients
  <2> QED BY <1>1, <2>1 DEF IsSection
<1>3. IsSection(GoodTts)
  <2> DEFINE voices == [v \in VoiceNames |->
                <<[api |-> "openai", model |-> "m", voice |-> "alloy", base |-> "", key |-> "set"]>>]
  <2>1. GoodTts = [NoSection EXCEPT !.timeout = 1, !.perClient = 1, !.policy = GoodPolicy,
                                    !.voices = voices]
    BY DEF GoodTts
  <2> HIDE DEF voices
  <2> QED BY <1>1, <2>1 DEF IsSection
<1> QED BY <1>2, <1>3 DEF FirstFile, IsFile, SectionsMatch

LEMMA SectionEditsAre ==
    ASSUME NEW s, IsSection(s), NEW t \in SectionEdits(s)
    PROVE  IsSection(t) /\ t.clients = s.clients /\ t.voices = s.voices
BY DEF SectionEdits, IsSection

LEMMA EditsAre ==
    ASSUME NEW c, IsFile(c), SectionsMatch(c), NEW d \in FileEdits(c)
    PROVE  IsFile(d) /\ SectionsMatch(d)
<1> DEFINE Good == IsFile(d) /\ SectionsMatch(d)
<1>1. ASSUME d \in {[c EXCEPT !.history = 0], [c EXCEPT !.reply = 0], [c EXCEPT !.perClient = 0],
                    [c EXCEPT !.unknown = TRUE], [c EXCEPT !.clients = <<>>]}
      PROVE  Good
  BY <1>1 DEF IsFile, SectionsMatch
<1>2. ASSUME NEW x
      PROVE  /\ d = [c EXCEPT !.missing = x] => Good
             /\ d = [c EXCEPT !.default = x] => Good
             /\ d = [c EXCEPT !.personalities = x] => Good
             /\ d = [c EXCEPT !.policy = x] => Good
             /\ d = [c EXCEPT !.clients = x] => Good
  BY DEF IsFile, SectionsMatch
<1>3. IsSection(NoSection) /\ NoSection.clients = <<>> /\ NoSection.voices = <<>>
  BY DEF NoSection, IsSection
<1>8. ASSUME d \in {[c EXCEPT !.stt = FALSE, !.hearing = NoSection],
                    [c EXCEPT !.tts = FALSE, !.speech = NoSection]}
      PROVE  Good
  BY <1>3, <1>8 DEF IsFile, SectionsMatch
<1>4. ASSUME NEW s \in SectionEdits(c.hearing), d = [c EXCEPT !.stt = TRUE, !.hearing = s]
      PROVE  Good
  BY <1>4, SectionEditsAre DEF IsFile, SectionsMatch
<1>5. ASSUME NEW s \in SectionEdits(c.speech), d = [c EXCEPT !.tts = TRUE, !.speech = s]
      PROVE  Good
  BY <1>5, SectionEditsAre DEF IsFile, SectionsMatch
<1>6. ASSUME NEW x, d = [c EXCEPT !.stt = TRUE, !.hearing.clients = x]
      PROVE  Good
  BY <1>6 DEF IsFile, SectionsMatch, IsSection
<1>7. ASSUME NEW x, d = [c EXCEPT !.tts = TRUE, !.speech.voices = x]
      PROVE  Good
  BY <1>7 DEF IsFile, SectionsMatch, IsSection
<1> HIDE DEF Good
<1>9. ASSUME d \in ServiceEdits(c) PROVE Good
  <2>6. \/ d \in {[c EXCEPT !.history = 0], [c EXCEPT !.reply = 0], [c EXCEPT !.perClient = 0],
                  [c EXCEPT !.unknown = TRUE], [c EXCEPT !.clients = <<>>]}
        \/ \E name \in {"chat", "stt", "tts"} : d = [c EXCEPT !.missing = @ \cup {name}]
        \/ \E n \in Names : d = [c EXCEPT !.default = n]
        \/ \E n \in Names : d = [c EXCEPT !.personalities = Restrict(@, DOMAIN @ \ {n})]
        \/ \E e \in Names \X Persons : d = [c EXCEPT !.personalities = Put(@, e[1], e[2])]
        \/ \E p \in Policies : d = [c EXCEPT !.policy = p]
        \/ \E client \in ChatClients : d = [c EXCEPT !.clients = <<client>>]
    BY <1>9 DEF ServiceEdits
  <2> QED BY <1>1, <1>2, <2>6
<1>10. ASSUME d \in HearingEdits(c) PROVE Good
  <2>1. CASE d = [c EXCEPT !.stt = FALSE, !.hearing = NoSection] BY <1>8, <2>1
  <2>2. CASE d = [c EXCEPT !.stt = TRUE, !.hearing.clients = <<>>] BY <1>6, <2>2
  <2>3. CASE \E s \in SectionEdits(c.hearing) : d = [c EXCEPT !.stt = TRUE, !.hearing = s]
    BY <1>4, <2>3
  <2>4. CASE \E x \in SttClients : d = [c EXCEPT !.stt = TRUE, !.hearing.clients = <<x>>]
    BY <1>6, <2>4
  <2> HIDE DEF NoSection
  <2> QED BY <1>10, <2>1, <2>2, <2>3, <2>4 DEF HearingEdits
<1>11. ASSUME d \in SpeechEdits(c) PROVE Good
  <2>1. CASE d = [c EXCEPT !.tts = FALSE, !.speech = NoSection] BY <1>8, <2>1
  <2>2. CASE \E s \in SectionEdits(c.speech) : d = [c EXCEPT !.tts = TRUE, !.speech = s]
    BY <1>5, <2>2
  <2>3. CASE \E v \in VoiceNames :
          d = [c EXCEPT !.tts = TRUE, !.speech.voices = Restrict(@, DOMAIN @ \ {v})]
    BY <1>7, <2>3
  <2>4. CASE \E v \in VoiceNames : d = [c EXCEPT !.tts = TRUE, !.speech.voices = Put(@, v, <<>>)]
    BY <1>7, <2>4
  <2>5. CASE \E e \in VoiceNames \X TtsClients :
                d = [c EXCEPT !.tts = TRUE, !.speech.voices = Put(@, e[1], <<e[2]>>)]
    BY <1>7, <2>5
  <2> QED BY <1>11, <2>1, <2>2, <2>3, <2>4, <2>5 DEF SpeechEdits
<1>12. Good BY <1>9, <1>10, <1>11 DEF FileEdits
<1> QED BY <1>12 DEF Good

(* Validation implies what is assumed of the file afterwards. *)
LEMMA AcceptedBuilds ==
    ASSUME NEW c, SectionsMatch(c), NEW found \in SUBSET Prompts, Accepted(c, found)
    PROVE  /\ BrainBuilds(c, Prompts)
           /\ SpeechBuilds(c)
           /\ \A i \in DOMAIN c.hearing.clients :
                Callable(c.hearing.clients[i], Transcriber(c.hearing.clients[i]))
           /\ \A v \in Speakers(c) : \A i \in DOMAIN c.speech.voices[v] :
                Callable(c.speech.voices[v][i], Speaker(c.speech.voices[v][i]))
           /\ c.default \in DOMAIN c.personalities
           /\ \A n \in DOMAIN c.personalities :
                c.personalities[n].voice # "" => c.personalities[n].voice \in Speakers(c)
<1> USE DEF Accepted, Valid
<1>1. BrainBuilds(c, Prompts)
  BY DEF BrainBuilds, RotationBuilds, PolicyValid, PersonalityValid
<1>2. SttEnabled(c) => c.stt BY DEF SttEnabled, SectionsMatch
<1>3. \A v \in DOMAIN c.speech.voices : c.tts BY DEF SectionsMatch
<1>4. SpeechBuilds(c)
  BY <1>2, <1>3 DEF SpeechBuilds, RotationBuilds, Speakers, SttValid, TtsValid, PolicyValid
<1>5. ASSUME NEW i \in DOMAIN c.hearing.clients
      PROVE  Callable(c.hearing.clients[i], Transcriber(c.hearing.clients[i]))
  <2>1. c.stt BY DEF SectionsMatch
  <2>2. SttClientValid(c.hearing.clients[i]) BY <2>1 DEF SttValid
  <2> QED BY <2>2 DEF SttClientValid, Callable, Transcriber, Service
<1>6. ASSUME NEW v \in Speakers(c), NEW i \in DOMAIN c.speech.voices[v]
      PROVE  Callable(c.speech.voices[v][i], Speaker(c.speech.voices[v][i]))
  <2>1. c.tts /\ v \in DOMAIN c.speech.voices BY <1>3 DEF Speakers
  <2>2. TtsClientValid(c.speech.voices[v][i]) BY <2>1 DEF TtsValid
  <2> QED BY <2>2 DEF TtsClientValid, Callable, Speaker, Service
<1>7. c.default \in DOMAIN c.personalities OBVIOUS
<1>8. ASSUME NEW n \in DOMAIN c.personalities, c.personalities[n].voice # ""
      PROVE  c.personalities[n].voice \in Speakers(c)
  BY <1>8 DEF PersonalityValid, TtsValid, Speakers
<1> QED BY <1>1, <1>4, <1>5, <1>6, <1>7, <1>8

(* From Load on the file is one Load accepted, whatever the prompt files  *)
(* were then, and nothing is missing from it.                              *)
Up == llm \in {"loaded", "made", "serving", "draining"}

StartupInv ==
    /\ llm \in {"down", "loaded", "made", "serving", "draining", "stopped", "panicked"}
    /\ IsFile(file) /\ SectionsMatch(file)
    /\ cause \notin {"brain", "speech", "voice"}
    /\ Up => /\ \E found \in SUBSET Prompts : Accepted(file, found)
             /\ personality \in DOMAIN file.personalities \cup {NoName}

LEMMA StartupInitially == StartupInit => StartupInv
BY FirstFileIs DEF StartupInit, StartupInv, Up

LEMMA StartupInvIsKept == StartupInv /\ [StartupNext]_startupVars => StartupInv'
<1> SUFFICES ASSUME StartupInv, [StartupNext]_startupVars PROVE StartupInv'
  OBVIOUS
<1> USE DEF StartupInv, Up, LlmGoes, fileVars, serverVars, Down
<1>1. CASE Edit
  <2>1. IsFile(file') /\ SectionsMatch(file') BY <1>1, EditsAre DEF Edit
  <2>2. ~Down => file' = file BY <1>1 DEF Edit
  <2> QED BY <1>1, <2>1, <2>2 DEF Edit
<1>2. CASE LoadConfig BY <1>2 DEF LoadConfig, Found
<1>3. CASE MakeModel BY <1>3, AcceptedBuilds DEF MakeModel
<1>4. CASE StartGrpc BY <1>4, AcceptedBuilds DEF StartGrpc
<1>5. CASE SetPersonality BY <1>5 DEF SetPersonality
<1>6. CASE Speak
  <2>1. file' = file /\ personality' = personality /\ llm = "serving" BY <1>6 DEF Speak
  <2>2. PICK found \in SUBSET Prompts : Accepted(file, found) BY <2>1
  <2>3. SpeakVoice # "" => SpeakVoice \in Speakers(file)
    BY <2>2, AcceptedBuilds DEF SpeakVoice
  <2> QED BY <1>6, <2>1, <2>3 DEF Speak
<1>7. CASE CallBegins \/ CallEnds BY <1>7 DEF CallBegins, CallEnds
<1>8. CASE Terminate \/ Drained \/ CutOff BY <1>8 DEF Terminate, Drained, CutOff
<1>9. CASE UNCHANGED startupVars BY <1>9 DEF startupVars
<1> QED BY <1>1, <1>2, <1>3, <1>4, <1>5, <1>6, <1>7, <1>8, <1>9 DEF StartupNext

LEMMA StartupInvHolds == StartupSpec => []StartupInv
BY StartupInitially, StartupInvIsKept, PTL DEF StartupSpec

(* A file config.Load accepts lets the llm be made and serve: with its     *)
(* prompts readable and its port free it panics over nothing in the file,  *)
(* and every client it names is one NewRotation's callers know to call.    *)
THEOREM AcceptedFilesStart == StartupSpec => []AcceptedStarts
<1>1. StartupInv => AcceptedStarts
  BY AcceptedBuilds DEF StartupInv, Up, AcceptedStarts
<1> QED BY <1>1, StartupInvHolds, PTL

(* Speak never asks for a voice that has no rotation, whatever personality *)
(* the guild has switched to.                                              *)
THEOREM VoicesAreThere == StartupSpec => []SpeakHasVoice
<1>1. StartupInv => SpeakHasVoice
  BY DEF StartupInv, SpeakHasVoice
<1> QED BY <1>1, StartupInvHolds, PTL

-----------------------------------------------------------------------------
(* The tool stream *)

(* A call under way has a stream; while the llm is down it has nothing.    *)
CallsHaveStreams == \A i \in Ids : call[i] # "idle" => via[i] \in Streams

DownIsEmpty ==
    ~up => /\ epoch < MaxRestarts /\ link = {}
           /\ \A st \in Streams : handler[st] = "none"
           /\ \A i \in Ids : call[i] = "idle"

(* A handler that has yet to run is that of the stream the bot reads, if   *)
(* it reads one.                                                           *)
DialedIsCurrent ==
    loop = "receiving" =>
        /\ current \in Streams
        /\ \A st \in Streams : handler[st] = "dialed" => st = current

(* Whatever moves on a stream of this life of the llm belongs to it.       *)
CallsStartEmpty == \A i \in Ids : call[i] = "ready" => got[i] = -1

LivesApart ==
    \A m \in running \cup calls \cup results :
        m.stream \in link \/ handler[m.stream] # "none" => m.epoch = epoch

(* Together with the two properties. *)
ToolInv ==
    /\ TypeOK
    /\ CallsHaveStreams /\ DownIsEmpty /\ DialedIsCurrent /\ LivesApart /\ CallsStartEmpty
    /\ NewestStreamGetsCalls /\ ResultsMatch

LEMMA ToolInitially == Init => ToolInv
BY ToolAssumption DEF Init, ToolInv, TypeOK, OnLink, Message, CallsHaveStreams, DownIsEmpty,
   DialedIsCurrent, LivesApart, CallsStartEmpty, NewestStreamGetsCalls, ResultsMatch

USE ToolAssumption DEF llmVars, botVars, netVars

(* Cutting every connection loses every message. *)
LEMMA CutAll == Cut(link) => link' = {} /\ calls' = {} /\ results' = {}
BY DEF Cut, OnLink

(* Every step keeps the types... *)
LEMMA TypesAreKept ==
    ASSUME TypeOK, CallsHaveStreams, DownIsEmpty, [Next]_vars
    PROVE  TypeOK' /\ CallsHaveStreams'
<1> USE DEF TypeOK, CallsHaveStreams, OnLink, Message
<1>1. ASSUME NEW t \in Tools, RegisterTool(t) PROVE TypeOK' /\ CallsHaveStreams'
  BY <1>1 DEF RegisterTool
<1>2. CASE ConnectFails BY <1>2 DEF ConnectFails
<1>3. ASSUME NEW st \in Streams, OpenStream(st) PROVE TypeOK' /\ CallsHaveStreams'
  BY <1>3 DEF OpenStream
<1>4. ASSUME NEW m \in calls, ReceiveCall(m) PROVE TypeOK' /\ CallsHaveStreams'
  BY <1>4 DEF ReceiveCall
<1>5. ASSUME NEW m \in running, ToolDone(m) PROVE TypeOK' /\ CallsHaveStreams'
  BY <1>5 DEF ToolDone
<1>6. CASE StreamEnds BY <1>6 DEF StreamEnds
<1>7. CASE Retry BY <1>7 DEF Retry
<1>8. ASSUME NEW st \in Streams, Serve(st) PROVE TypeOK' /\ CallsHaveStreams'
  BY <1>8 DEF Serve
<1>9. ASSUME NEW st \in Streams, Unset(st) PROVE TypeOK' /\ CallsHaveStreams'
  BY <1>9 DEF Unset
<1>10. ASSUME NEW st \in Streams, Close(st) PROVE TypeOK' /\ CallsHaveStreams'
  BY <1>10 DEF Close
<1>11. ASSUME NEW m \in results, Deliver(m) PROVE TypeOK' /\ CallsHaveStreams'
  BY <1>11 DEF Deliver
<1>12. ASSUME NEW i \in Ids, StartCall(i) PROVE TypeOK' /\ CallsHaveStreams'
  BY <1>12 DEF StartCall
<1>13. ASSUME NEW i \in Ids, SendCall(i) PROVE TypeOK' /\ CallsHaveStreams'
  BY <1>13 DEF SendCall
<1>14. ASSUME NEW i \in Ids, CallReturns(i) \/ CallTimesOut(i) PROVE TypeOK' /\ CallsHaveStreams'
  BY <1>14 DEF CallReturns, CallTimesOut
<1>15. CASE LinkBreaks BY <1>15 DEF LinkBreaks, Cut
<1>16. CASE BotRestarts BY <1>16 DEF BotRestarts, Cut
<1>17. CASE LlmStops
  <2>1. link' = {} /\ calls' = {} /\ results' = {} BY <1>17, CutAll DEF LlmStops
  <2>2. up' = FALSE /\ tools' = {} /\ bot' = NoStream /\ UNCHANGED <<epoch, botVars, faults>>
    BY <1>17 DEF LlmStops
  <2>3. /\ handler' \in [Streams -> {"none"}] /\ call' \in [Ids -> {"idle"}]
        /\ via' \in [Ids -> {NoStream}] /\ got' \in [Ids -> {-1}]
    BY <1>17 DEF LlmStops
  <2>4. got' \in [Ids -> -1 .. MaxRestarts] BY <2>3
  <2> QED BY <2>1, <2>2, <2>3, <2>4
<1>18. CASE LlmStarts
  BY <1>18 DEF LlmStarts, DownIsEmpty
<1>19. CASE UNCHANGED vars BY <1>19 DEF vars
<1> QED
  BY <1>1, <1>2, <1>3, <1>4, <1>5, <1>6, <1>7, <1>8, <1>9, <1>10, <1>11, <1>12, <1>13,
     <1>14, <1>15, <1>16, <1>17, <1>18, <1>19 DEF Next, Bot, Llm, Faults

(* ...and what a stopped llm has not got. *)
LEMMA DownStaysEmpty ==
    ASSUME TypeOK, DownIsEmpty, [Next]_vars
    PROVE  DownIsEmpty'
<1> USE DEF TypeOK, DownIsEmpty
<1>1. ASSUME NEW t \in Tools, RegisterTool(t) PROVE DownIsEmpty'
  BY <1>1 DEF RegisterTool
<1>2. CASE ConnectFails BY <1>2 DEF ConnectFails
<1>3. ASSUME NEW st \in Streams, OpenStream(st) PROVE DownIsEmpty'
  BY <1>3 DEF OpenStream
<1>4. ASSUME NEW m \in calls, ReceiveCall(m) PROVE DownIsEmpty'
  BY <1>4 DEF ReceiveCall
<1>5. ASSUME NEW m \in running, ToolDone(m) PROVE DownIsEmpty'
  BY <1>5 DEF ToolDone
<1>6. CASE StreamEnds \/ Retry BY <1>6 DEF StreamEnds, Retry
<1>8. ASSUME NEW st \in Streams, Serve(st) \/ Unset(st) \/ Close(st) PROVE DownIsEmpty'
  BY <1>8 DEF Serve, Unset, Close
<1>11. ASSUME NEW m \in results, Deliver(m) PROVE DownIsEmpty'
  BY <1>11 DEF Deliver
<1>12. ASSUME NEW i \in Ids, StartCall(i) PROVE DownIsEmpty'
  BY <1>12 DEF StartCall
<1>13. ASSUME NEW i \in Ids, SendCall(i) PROVE DownIsEmpty'
  BY <1>13 DEF SendCall
<1>14. ASSUME NEW i \in Ids, CallReturns(i) \/ CallTimesOut(i) PROVE DownIsEmpty'
  BY <1>14 DEF CallReturns, CallTimesOut
<1>15. CASE LinkBreaks BY <1>15 DEF LinkBreaks, Cut
<1>16. CASE BotRestarts BY <1>16, CutAll DEF BotRestarts
<1>17. CASE LlmStops BY <1>17, CutAll DEF LlmStops
<1>18. CASE LlmStarts BY <1>18 DEF LlmStarts
<1>19. CASE UNCHANGED vars BY <1>19 DEF vars
<1> QED
  BY <1>1, <1>2, <1>3, <1>4, <1>5, <1>6, <1>8, <1>11, <1>12, <1>13,
     <1>14, <1>15, <1>16, <1>17, <1>18, <1>19 DEF Next, Bot, Llm, Faults

(* Streams: the one dialed, and the one calls go to. *)
LEMMA NewestStaysNewest ==
    ASSUME TypeOK, DialedIsCurrent, NewestStreamGetsCalls, [Next]_vars
    PROVE  DialedIsCurrent' /\ NewestStreamGetsCalls'
<1> USE DEF TypeOK, DialedIsCurrent, NewestStreamGetsCalls
<1> DEFINE Kept == DialedIsCurrent' /\ NewestStreamGetsCalls'
<1>1. ASSUME UNCHANGED <<handler, bot, loop, current>>, link' \subseteq link PROVE Kept
  BY <1>1
<1>2. ASSUME loop' # "receiving", UNCHANGED <<handler, bot>> PROVE Kept
  BY <1>2
<1>3. ASSUME NEW st \in Streams, OpenStream(st) PROVE Kept
  BY <1>3 DEF OpenStream, Unused
<1>4. ASSUME NEW st \in Streams, Serve(st) PROVE Kept
  BY <1>4 DEF Serve
<1>5. ASSUME NEW st \in Streams, Unset(st) PROVE Kept
  BY <1>5 DEF Unset
<1>6. ASSUME NEW st \in Streams, Close(st) PROVE Kept
  BY <1>6 DEF Close
<1>7. CASE LlmStops BY <1>7, CutAll DEF LlmStops
<1>8. CASE BotRestarts BY <1>2, <1>8 DEF BotRestarts
<1>9. CASE ConnectFails \/ StreamEnds \/ Retry BY <1>2, <1>9 DEF ConnectFails, StreamEnds, Retry
<1>10. CASE LinkBreaks BY <1>1, <1>10 DEF LinkBreaks, Cut
<1>11. CASE LlmStarts BY <1>1, <1>11 DEF LlmStarts
<1>12. ASSUME NEW t \in Tools, RegisterTool(t) PROVE Kept BY <1>1, <1>12 DEF RegisterTool
<1>13. ASSUME NEW m \in calls, ReceiveCall(m) PROVE Kept BY <1>1, <1>13 DEF ReceiveCall
<1>14. ASSUME NEW m \in running, ToolDone(m) PROVE Kept BY <1>1, <1>14 DEF ToolDone
<1>15. ASSUME NEW m \in results, Deliver(m) PROVE Kept BY <1>1, <1>15 DEF Deliver
<1>16. ASSUME NEW i \in Ids, StartCall(i) \/ SendCall(i) \/ CallReturns(i) \/ CallTimesOut(i)
       PROVE  Kept
  BY <1>1, <1>16 DEF StartCall, SendCall, CallReturns, CallTimesOut
<1>17. CASE UNCHANGED vars BY <1>1, <1>17 DEF vars
<1> QED
  BY <1>3, <1>4, <1>5, <1>6, <1>7, <1>8, <1>9, <1>10, <1>11, <1>12, <1>13, <1>14, <1>15,
     <1>16, <1>17 DEF Next, Bot, Llm, Faults

(* Nothing of an earlier life of the llm meets a stream of this one. *)
LEMMA LivesStayApart ==
    ASSUME TypeOK, CallsHaveStreams, DownIsEmpty, LivesApart, [Next]_vars
    PROVE  LivesApart'
<1> USE DEF TypeOK, LivesApart
<1> DEFINE All == running \cup calls \cup results
<1>0. \A m \in All : m \in Message /\ m.stream \in Streams BY DEF OnLink, Message
<1>1. ASSUME (All)' \subseteq All, link' \subseteq link, epoch' = epoch,
             \A st \in Streams : handler'[st] # "none" => handler[st] # "none"
      PROVE  LivesApart'
  BY <1>0, <1>1
<1>2. ASSUME NEW st \in Streams, OpenStream(st) PROVE LivesApart'
  BY <1>0, <1>2 DEF OpenStream, Unused
<1>3. ASSUME NEW i \in Ids, SendCall(i) PROVE LivesApart'
  <2> DEFINE sent == [id |-> i, stream |-> via[i], epoch |-> epoch]
  <2>1. /\ (All)' \subseteq All \cup {sent} /\ UNCHANGED <<link, epoch, handler>>
    BY <1>3 DEF SendCall
  <2>2. sent.epoch = epoch OBVIOUS
  <2> HIDE DEF sent
  <2> QED BY <2>1, <2>2
<1>4. CASE LlmStops BY <1>0, <1>4, CutAll DEF LlmStops
<1>5. CASE LlmStarts BY <1>0, <1>5 DEF LlmStarts, DownIsEmpty
<1>6. CASE BotRestarts BY <1>1, <1>6, CutAll DEF BotRestarts
<1>7. CASE LinkBreaks
  <2>1. /\ link' \subseteq link /\ (All)' \subseteq All /\ UNCHANGED <<epoch, handler>>
    BY <1>7 DEF LinkBreaks, Cut, OnLink
  <2> QED BY <1>1, <2>1
<1>8. ASSUME NEW st \in Streams, Serve(st) \/ Unset(st) \/ Close(st) PROVE LivesApart'
  BY <1>1, <1>8 DEF Serve, Unset, Close
<1>9. ASSUME NEW t \in Tools, RegisterTool(t) PROVE LivesApart' BY <1>1, <1>9 DEF RegisterTool
<1>10. CASE ConnectFails \/ StreamEnds \/ Retry BY <1>1, <1>10 DEF ConnectFails, StreamEnds, Retry
<1>11. ASSUME NEW m \in calls, ReceiveCall(m) PROVE LivesApart' BY <1>1, <1>11 DEF ReceiveCall
<1>12. ASSUME NEW m \in running, ToolDone(m) PROVE LivesApart' BY <1>1, <1>12 DEF ToolDone
<1>13. ASSUME NEW m \in results, Deliver(m) PROVE LivesApart' BY <1>1, <1>13 DEF Deliver
<1>14. ASSUME NEW i \in Ids, StartCall(i) \/ CallReturns(i) \/ CallTimesOut(i) PROVE LivesApart'
  BY <1>1, <1>14 DEF StartCall, CallReturns, CallTimesOut
<1>15. CASE UNCHANGED vars BY <1>1, <1>15 DEF vars
<1> QED
  BY <1>2, <1>3, <1>4, <1>5, <1>6, <1>7, <1>8, <1>9, <1>10, <1>11, <1>12, <1>13, <1>14,
     <1>15 DEF Next, Bot, Llm, Faults

(* A result that is delivered is of this life, like the call it goes to. *)
LEMMA ResultsStayMatched ==
    ASSUME TypeOK, DownIsEmpty, LivesApart, CallsStartEmpty, ResultsMatch, [Next]_vars
    PROVE  CallsStartEmpty' /\ ResultsMatch'
<1> USE DEF TypeOK, CallsStartEmpty, ResultsMatch
<1> DEFINE Kept == CallsStartEmpty' /\ ResultsMatch'
<1>1. ASSUME UNCHANGED <<got, epoch>>, \A i \in Ids : call'[i] # "idle" => call'[i] = call[i]
      PROVE  Kept
  BY <1>1
<1>2. ASSUME NEW m \in results, Deliver(m) PROVE Kept
  <2>1. m.epoch = epoch BY <1>2 DEF Deliver, LivesApart
  <2>2. UNCHANGED <<epoch, call>> /\ m.id \in Ids BY <1>2 DEF Deliver, OnLink, Message
  <2>3. got' = got \/ (got' = [got EXCEPT ![m.id] = epoch] /\ call[m.id] = "sent")
    BY <1>2, <2>1 DEF Deliver
  <2> QED BY <2>2, <2>3
<1>3. ASSUME NEW i \in Ids, StartCall(i) PROVE Kept BY <1>3 DEF StartCall
<1>4. ASSUME NEW i \in Ids, SendCall(i) PROVE Kept BY <1>4 DEF SendCall
<1>5. ASSUME NEW i \in Ids, CallReturns(i) \/ CallTimesOut(i) PROVE Kept
  BY <1>1, <1>5 DEF CallReturns, CallTimesOut
<1>6. CASE LlmStops BY <1>6 DEF LlmStops
<1>7. CASE LlmStarts BY <1>7 DEF LlmStarts, DownIsEmpty
<1>8. CASE LinkBreaks \/ BotRestarts BY <1>1, <1>8 DEF LinkBreaks, BotRestarts
<1>9. ASSUME NEW st \in Streams, OpenStream(st) \/ Serve(st) \/ Unset(st) \/ Close(st) PROVE Kept
  BY <1>1, <1>9 DEF OpenStream, Serve, Unset, Close
<1>10. ASSUME NEW t \in Tools, RegisterTool(t) PROVE Kept BY <1>1, <1>10 DEF RegisterTool
<1>11. CASE ConnectFails \/ StreamEnds \/ Retry BY <1>1, <1>11 DEF ConnectFails, StreamEnds, Retry
<1>12. ASSUME NEW m \in calls, ReceiveCall(m) PROVE Kept BY <1>1, <1>12 DEF ReceiveCall
<1>13. ASSUME NEW m \in running, ToolDone(m) PROVE Kept BY <1>1, <1>13 DEF ToolDone
<1>14. CASE UNCHANGED vars BY <1>1, <1>14 DEF vars
<1> QED
  BY <1>2, <1>3, <1>4, <1>5, <1>6, <1>7, <1>8, <1>9, <1>10, <1>11, <1>12, <1>13, <1>14
     DEF Next, Bot, Llm, Faults

LEMMA ToolInvIsKept == ToolInv /\ [Next]_vars => ToolInv'
BY TypesAreKept, DownStaysEmpty, NewestStaysNewest, LivesStayApart, ResultsStayMatched DEF ToolInv

LEMMA ToolInvHolds == Spec => []ToolInv
BY ToolInitially, ToolInvIsKept, PTL DEF Spec

(* tools.go:72, "the newest stream gets new calls", however the handlers   *)
(* of old and new streams overlap and whatever restarts: new calls go to   *)
(* the stream the bot reads, and never to one its handler has let go of.   *)
THEOREM NewestStreamIsUsed == Spec => [](TypeOK /\ NewestStreamGetsCalls)
BY ToolInvHolds, PTL DEF ToolInv

(* Ids begin again with each life of the llm, and yet a call never takes   *)
(* the result of an earlier life's call of its id.                         *)
THEOREM ResultsAreTheCalls == Spec => []ResultsMatch
BY ToolInvHolds, PTL DEF ToolInv

-----------------------------------------------------------------------------
(* The bot reads the one stream whose connection is up, and a handler that *)
(* has let go of its stream did so because its connection was not.         *)
LinkIsCurrent == \A st \in link : loop = "receiving" /\ current = st

HandlersLetGo == \A st \in Streams : handler[st] \in {"unset", "closed"} => st \notin link

CallsAreServed ==
    \A i \in Ids : call[i] # "idle" => handler[via[i]] \in {"serving", "unset", "closed"}

(* A call that waits has its message or its result under way between the   *)
(* llm and a bot that reads the stream; or else the stream has broken, and *)
(* its handler has woken the call or is still there to do so.              *)
Coming(i) ==
    /\ loop = "receiving" /\ current = via[i] /\ handler[current] = "serving"
    /\ \E m \in running \cup calls \cup results : m.id = i /\ m.stream = via[i]

NoCallForgotten ==
    \A i \in Ids : call[i] = "sent" /\ got[i] = -1 =>
        \/ Coming(i)
        \/ via[i] \notin link /\ handler[via[i]] \in {"serving", "unset", "closed"}

WaitInv == LinkIsCurrent /\ HandlersLetGo /\ CallsAreServed /\ NoCallForgotten

(* Opening, breaking and ending streams keeps the first two... *)
LEMMA LinksStayCurrent ==
    ASSUME TypeOK, LinkIsCurrent, HandlersLetGo, [Next]_vars
    PROVE  LinkIsCurrent' /\ HandlersLetGo'
<1> USE DEF TypeOK, LinkIsCurrent, HandlersLetGo
<1> DEFINE Kept == LinkIsCurrent' /\ HandlersLetGo'
<1>1. ASSUME UNCHANGED <<handler, loop, current>>, link' \subseteq link PROVE Kept
  BY <1>1
<1>2. ASSUME link' = {} PROVE Kept
  BY <1>2
<1>3. ASSUME NEW st \in Streams, OpenStream(st) PROVE Kept
  BY <1>3 DEF OpenStream
<1>4. ASSUME NEW st \in Streams, Serve(st) PROVE Kept
  BY <1>4 DEF Serve
<1>5. ASSUME NEW st \in Streams, Unset(st) PROVE Kept
  BY <1>5 DEF Unset
<1>6. ASSUME NEW st \in Streams, Close(st) PROVE Kept
  BY <1>6 DEF Close
<1>7. CASE LlmStops BY <1>2, <1>7, CutAll DEF LlmStops
<1>8. CASE BotRestarts BY <1>2, <1>8, CutAll DEF BotRestarts
<1>9. CASE ConnectFails \/ Retry
  BY <1>9 DEF ConnectFails, Retry
<1>10. CASE StreamEnds BY <1>10 DEF StreamEnds
<1>11. CASE LinkBreaks BY <1>1, <1>11 DEF LinkBreaks, Cut
<1>12. CASE LlmStarts BY <1>1, <1>12 DEF LlmStarts
<1>13. ASSUME NEW t \in Tools, RegisterTool(t) PROVE Kept BY <1>1, <1>13 DEF RegisterTool
<1>14. ASSUME NEW m \in calls, ReceiveCall(m) PROVE Kept BY <1>1, <1>14 DEF ReceiveCall
<1>15. ASSUME NEW m \in running, ToolDone(m) PROVE Kept BY <1>1, <1>15 DEF ToolDone
<1>16. ASSUME NEW m \in results, Deliver(m) PROVE Kept BY <1>1, <1>16 DEF Deliver
<1>17. ASSUME NEW i \in Ids, StartCall(i) \/ SendCall(i) \/ CallReturns(i) \/ CallTimesOut(i)
       PROVE  Kept
  BY <1>1, <1>17 DEF StartCall, SendCall, CallReturns, CallTimesOut
<1>18. CASE UNCHANGED vars BY <1>1, <1>18 DEF vars
<1> QED
  BY <1>3, <1>4, <1>5, <1>6, <1>7, <1>8, <1>9, <1>10, <1>11, <1>12, <1>13, <1>14, <1>15,
     <1>16, <1>17, <1>18 DEF Next, Bot, Llm, Faults

(* ...and a stream calls refer to is not used again. *)
LEMMA CallsStayServed ==
    ASSUME TypeOK, CallsHaveStreams, NewestStreamGetsCalls, CallsAreServed, [Next]_vars
    PROVE  CallsAreServed'
<1> USE DEF TypeOK, CallsAreServed, CallsHaveStreams
<1>1. ASSUME UNCHANGED <<handler, via>>, \A i \in Ids : call'[i] # "idle" => call[i] # "idle"
      PROVE  CallsAreServed'
  BY <1>1
<1>2. ASSUME NEW st \in Streams, OpenStream(st) PROVE CallsAreServed'
  BY <1>2 DEF OpenStream, Unused
<1>3. ASSUME NEW st \in Streams, Serve(st) PROVE CallsAreServed'
  BY <1>3 DEF Serve
<1>4. ASSUME NEW st \in Streams, Unset(st) PROVE CallsAreServed'
  BY <1>4 DEF Unset
<1>5. ASSUME NEW st \in Streams, Close(st) PROVE CallsAreServed'
  BY <1>5 DEF Close
<1>6. ASSUME NEW i \in Ids, StartCall(i) PROVE CallsAreServed'
  BY <1>6 DEF StartCall, NewestStreamGetsCalls
<1>7. ASSUME NEW i \in Ids, SendCall(i) \/ CallReturns(i) \/ CallTimesOut(i) PROVE CallsAreServed'
  BY <1>7 DEF SendCall, CallReturns, CallTimesOut
<1>8. CASE LlmStops BY <1>8 DEF LlmStops
<1>9. CASE LlmStarts \/ LinkBreaks \/ BotRestarts
  BY <1>1, <1>9 DEF LlmStarts, LinkBreaks, BotRestarts
<1>10. CASE ConnectFails \/ StreamEnds \/ Retry
  BY <1>1, <1>10 DEF ConnectFails, StreamEnds, Retry
<1>11. ASSUME NEW t \in Tools, RegisterTool(t) PROVE CallsAreServed'
  BY <1>1, <1>11 DEF RegisterTool
<1>12. ASSUME NEW m \in calls, ReceiveCall(m) PROVE CallsAreServed'
  BY <1>1, <1>12 DEF ReceiveCall
<1>13. ASSUME NEW m \in running, ToolDone(m) PROVE CallsAreServed'
  BY <1>1, <1>13 DEF ToolDone
<1>14. ASSUME NEW m \in results, Deliver(m) PROVE CallsAreServed'
  BY <1>1, <1>14 DEF Deliver
<1>15. CASE UNCHANGED vars BY <1>1, <1>15 DEF vars
<1> QED
  BY <1>2, <1>3, <1>4, <1>5, <1>6, <1>7, <1>8, <1>9, <1>10, <1>11, <1>12, <1>13, <1>14,
     <1>15 DEF Next, Bot, Llm, Faults

(* A message lost is lost with its stream; one received is still under way *)
(* or has become the result the call waits for.                            *)
LEMMA CallsStayRemembered ==
    ASSUME TypeOK, CallsHaveStreams, WaitInv, [Next]_vars
    PROVE  NoCallForgotten'
<1> USE DEF TypeOK, CallsHaveStreams, WaitInv, NoCallForgotten, CallsAreServed
<1> DEFINE All == running \cup calls \cup results
           Ended == {"serving", "unset", "closed"}
<1>0. \A m \in All : m.id \in Ids /\ m.stream \in Streams BY DEF OnLink, Message
<1>1. ASSUME UNCHANGED <<handler, via, loop, current>>, link' = link,
             \A i \in Ids : call'[i] = "sent" /\ got'[i] = -1 =>
                 /\ call[i] = "sent" /\ got[i] = -1
                 /\ (\E m \in All : m.id = i /\ m.stream = via[i])
                       => \E m \in All' : m.id = i /\ m.stream = via[i]
      PROVE  NoCallForgotten'
  BY <1>1 DEF Coming
<1>2. ASSUME UNCHANGED <<handler, call, via, got>>, link' = {} PROVE NoCallForgotten'
  BY <1>2
<1>3. ASSUME NEW st \in Streams, OpenStream(st) PROVE NoCallForgotten'
  <2>1. /\ loop = "registering" /\ UNCHANGED <<call, via, got>>
        /\ link' = link \cup {st} /\ handler' = [handler EXCEPT ![st] = "dialed"]
        /\ \A i \in Ids : call[i] # "idle" => via[i] # st
    BY <1>3 DEF OpenStream, Unused
  <2>2. \A i \in Ids : ~Coming(i) BY <2>1 DEF Coming
  <2> QED BY <2>1, <2>2
<1>4. ASSUME NEW st \in Streams, Serve(st) PROVE NoCallForgotten'
  BY <1>4 DEF Serve, Coming
<1>5. ASSUME NEW st \in Streams, Unset(st) PROVE NoCallForgotten'
  BY <1>5 DEF Unset, Coming
<1>6. ASSUME NEW st \in Streams, Close(st) PROVE NoCallForgotten'
  BY <1>6 DEF Close, Coming
<1>7. ASSUME NEW i \in Ids, StartCall(i) PROVE NoCallForgotten'
  BY <1>7 DEF StartCall, Coming
<1>8. ASSUME NEW i \in Ids, SendCall(i) PROVE NoCallForgotten'
  <2> DEFINE sent == [id |-> i, stream |-> via[i], epoch |-> epoch]
  <2>1. /\ call[i] = "ready"
        /\ UNCHANGED <<handler, via, got, loop, current, running, results, link>>
        /\ \A j \in Ids : j # i => call'[j] = call[j]
        /\ calls \subseteq calls'
    BY <1>8 DEF SendCall
  <2>2. ASSUME call'[i] = "sent", via[i] \in link PROVE Coming(i)'
    <3>1. sent \in calls' BY <1>8, <2>2 DEF SendCall
    <3>2. sent.id = i /\ sent.stream = via[i] OBVIOUS
    <3> HIDE DEF sent
    <3>3. loop = "receiving" /\ current = via[i] BY <2>2 DEF LinkIsCurrent
    <3>4. handler[via[i]] = "serving" BY <2>1, <2>2 DEF HandlersLetGo
    <3> QED BY <2>1, <3>1, <3>2, <3>3, <3>4 DEF Coming
  <2>3. ASSUME call'[i] = "sent", via[i] \notin link
        PROVE  via'[i] \notin link' /\ handler'[via'[i]] \in Ended
    BY <2>1, <2>3
  <2>4. ASSUME NEW j \in Ids, j # i, Coming(j) PROVE Coming(j)'
    BY <2>1, <2>4 DEF Coming
  <2> HIDE DEF sent
  <2> QED BY <2>1, <2>2, <2>3, <2>4
<1>9. ASSUME NEW i \in Ids, CallReturns(i) \/ CallTimesOut(i) PROVE NoCallForgotten'
  BY <1>1, <1>9 DEF CallReturns, CallTimesOut
<1>10. CASE LlmStops BY <1>10 DEF LlmStops
<1>11. CASE BotRestarts BY <1>2, <1>11, CutAll DEF BotRestarts
<1>12. CASE LinkBreaks
  <2>1. PICK st \in link : Cut({st}) BY <1>12 DEF LinkBreaks
  <2>2. UNCHANGED <<handler, call, via, got, loop, current, running>> BY <1>12 DEF LinkBreaks
  <2>3. ASSUME NEW i \in Ids, Coming(i), via[i] \in link' PROVE Coming(i)'
    <3>1. PICK m \in All : m.id = i /\ m.stream = via[i] BY <2>3 DEF Coming
    <3>2. m \in All' BY <2>1, <2>2, <2>3, <3>1 DEF Cut, OnLink
    <3> QED BY <2>2, <2>3, <3>1, <3>2 DEF Coming
  <2>4. link' \subseteq link BY <2>1 DEF Cut
  <2> QED BY <2>2, <2>3, <2>4
<1>13. CASE LlmStarts BY <1>1, <1>13 DEF LlmStarts
<1>14. CASE ConnectFails \/ Retry BY <1>14 DEF ConnectFails, Retry, Coming
<1>15. CASE StreamEnds BY <1>15 DEF StreamEnds, Coming, HandlersLetGo
<1>16. ASSUME NEW t \in Tools, RegisterTool(t) PROVE NoCallForgotten'
  BY <1>1, <1>16 DEF RegisterTool
<1>17. ASSUME NEW m \in calls, ReceiveCall(m) PROVE NoCallForgotten'
  BY <1>1, <1>17 DEF ReceiveCall
<1>18. ASSUME NEW m \in running, ToolDone(m) PROVE NoCallForgotten'
  <2>1. /\ running' = running \ {m}
        /\ m.stream \in link => results' = results \cup {m}
        /\ results \subseteq results'
        /\ UNCHANGED <<handler, call, via, got, loop, current, calls, link>>
    BY <1>18 DEF ToolDone
  <2>2. ASSUME NEW i \in Ids, Coming(i), via[i] \in link PROVE Coming(i)'
    <3>1. PICK n \in All : n.id = i /\ n.stream = via[i] BY <2>2 DEF Coming
    <3>2. n \in All' BY <2>1, <2>2, <3>1
    <3> QED BY <2>1, <2>2, <3>1, <3>2 DEF Coming
  <2>3. ASSUME NEW i \in Ids, Coming(i) PROVE handler[via[i]] \in Ended BY <2>3 DEF Coming
  <2> QED BY <2>1, <2>2, <2>3
<1>19. ASSUME NEW m \in results, Deliver(m) PROVE NoCallForgotten'
  <2>1. /\ results' = results \ {m} /\ m.id \in Ids /\ m.epoch \in 0 .. MaxRestarts
        /\ UNCHANGED <<handler, call, via, loop, current, running, calls, link>>
    BY <1>19 DEF Deliver, OnLink, Message
  <2>2. ASSUME NEW i \in Ids, call[i] = "sent", got'[i] = -1
        PROVE  got[i] = -1 /\ (m.id = i => m.stream # via[i])
    BY <1>19, <2>1, <2>2 DEF Deliver
  <2> QED BY <1>1, <2>1, <2>2
<1>20. CASE UNCHANGED vars BY <1>1, <1>20 DEF vars
<1> QED
  BY <1>3, <1>4, <1>5, <1>6, <1>7, <1>8, <1>9, <1>10, <1>11, <1>12, <1>13, <1>14, <1>15,
     <1>16, <1>17, <1>18, <1>19, <1>20 DEF Next, Bot, Llm, Faults

(* tools.go:162-170, short of the waiting itself: a call that waits for a  *)
(* result has it coming on a stream that both ends still serve, or its     *)
(* stream is down and that stream's handler wakes it; no break, restart,   *)
(* late result or second stream leaves it with nothing to wait for.        *)
THEOREM NobodyWaitsForNothing == Spec => []NoCallForgotten
<1>1. Init => ToolInv /\ WaitInv
  BY ToolInitially DEF Init, WaitInv, LinkIsCurrent, HandlersLetGo, CallsAreServed, NoCallForgotten
<1>2. ToolInv /\ WaitInv /\ [Next]_vars => ToolInv' /\ WaitInv'
  BY ToolInvIsKept, LinksStayCurrent, CallsStayServed, CallsStayRemembered DEF ToolInv, WaitInv
<1>3. WaitInv => NoCallForgotten BY DEF WaitInv
<1> QED BY <1>1, <1>2, <1>3, PTL DEF Spec
=============================================================================
