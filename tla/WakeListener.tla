---------------------------- MODULE WakeListener ----------------------------
(***************************************************************************)
(* The wake word listener of a guild (discord-bot/audio/listen.go,         *)
(* decode.go) and the goroutine that answers its wakes one at a time       *)
(* (discord-bot/events/voice.go).                                          *)
(*                                                                         *)
(* Time is a count of instants.  A packet arrives, or the answering        *)
(* goroutine looks, at an instant of its own; a packet lasts one.  Zero is *)
(* Go's zero time, longer ago than anything is compared with.  What a      *)
(* packet holds is abstracted to its kind: background noise, speech, or    *)
(* speech in which the detector's score reaches the threshold.             *)
(***************************************************************************)
EXTENDS Integers, Sequences

CONSTANTS
    Speakers,
    Keep,           \* listen.window
    Context,        \* listen.context
    CommandQuiet, CommandMax,   \* listen.command_quiet, listen.command_max
    Debounce,       \* listen.debounce
    UtteranceGap,   \* utteranceGap, 600 ms
    MaxSilence,     \* maxSilence, 5 s
    WakesCap,       \* room in the channel of wakes, 4 in the code
    Horizon,        \* bound: nobody is heard after this
    MaxPackets      \* bound: packets heard

Kinds == {"noise", "speech", "wake"}

(* What the bot's config validation asks of [listen]. *)
ASSUME ListenAssumption ==
    /\ {Keep, CommandQuiet, CommandMax, WakesCap} \subseteq Nat \ {0}
    /\ {Context, Debounce, UtteranceGap, MaxSilence} \subseteq Nat
    /\ Keep >= Context + CommandMax + CommandQuiet

VARIABLES
    now,
    inVoice,        \* the guild's voice connection has a channel
    speaker,        \* speakers: decoder.last, lastLoud, lastWake, segments
    wakes,          \* the channel of wakes
    phase,          \* the goroutine: "idle", "quiet" (awaitQuiet), "answering"
    wake, until,    \* the wake being answered, and where its audio ends
    heard,          \* how far answers have got
    turns,          \* what is being transcribed
    spoken, handed, \* heard from those still here; given to transcription (history)
    packets         \* counts packets, for the bound

listenerVars == <<speaker, wakes>>
handlerVars == <<phase, wake, until, heard, turns, handed>>
vars == <<now, inVoice, speaker, wakes, phase, wake, until, heard, turns, spoken, handed, packets>>

NewSpeaker == [last |-> 0, lastLoud |-> 0, lastWake |-> 0, segments |-> {}]
NoWake == [user |-> CHOOSE u \in Speakers : TRUE, at |-> 0]

Init ==
    /\ now = 1 /\ inVoice = TRUE
    /\ speaker = [u \in Speakers |-> NewSpeaker]
    /\ wakes = <<>> /\ phase = "idle" /\ wake = NoWake /\ until = 0 /\ heard = 0
    /\ turns = {} /\ spoken = {} /\ handed = {} /\ packets = 0

(* since >= d, counting from an instant that may be the zero time *)
Elapsed(t, d) == t = 0 \/ now - t >= d

-----------------------------------------------------------------------------
(* The listener *)

(* decode(): how long the speaker was quiet before this packet; a longer   *)
(* gap between timestamps than MaxSilence is taken for a bad packet.       *)
Silence(s) ==
    LET gap == now - s.last - 1
    IN  IF s.last # 0 /\ gap > 0 /\ gap < MaxSilence THEN gap ELSE 0

(* Mutant: a packet trims to what is kept since the last answer. *)
TrimmedHard(segments) == {seg \in segments : seg.at >= now - Context}

(* Only the speaker's own next packet trims what is kept of them. *)
Trimmed(segments) == {seg \in segments : seg.at >= now - Keep}

(* awaitQuiet's condition, looked at every quietPoll. *)
IsQuiet ==
    \/ Elapsed(speaker[wake.user].lastLoud, CommandQuiet)
    \/ now > wake.at + CommandMax

(* The goroutine takes a wake, and notices the quiet, as it comes. *)
Urgent == (phase = "idle" /\ wakes # <<>>) \/ (phase = "quiet" /\ IsQuiet)

(* ReceiveOpusFrame *)
Receive(u, kind) ==
    LET s == speaker[u]
        wakesUp == kind = "wake" /\ Elapsed(s.lastWake, Debounce)
    IN  /\ ~Urgent /\ inVoice
        /\ now < Horizon /\ packets < MaxPackets
        /\ now' = now + 1 /\ packets' = packets + 1
        /\ speaker' = [speaker EXCEPT ![u] =
              [last |-> now,
               lastLoud |-> IF kind = "noise" THEN s.lastLoud ELSE now,
               lastWake |-> IF wakesUp THEN now ELSE s.lastWake,
               segments |-> Trimmed(s.segments \cup {[at |-> now, pause |-> Silence(s)]})]]
        /\ wakes' = IF wakesUp /\ Len(wakes) < WakesCap
                    THEN Append(wakes, [user |-> u, at |-> now]) ELSE wakes
        /\ spoken' = spoken \cup {[user |-> u, at |-> now]}
        /\ UNCHANGED <<inVoice, handlerVars>>

(* CleanupUser: a speaker who leaves the channel is forgotten. *)
UserLeaves(u) ==
    /\ speaker[u] # NewSpeaker
    /\ speaker' = [speaker EXCEPT ![u] = NewSpeaker]
    /\ spoken' = {s \in spoken : s.user # u}
    /\ UNCHANGED <<now, inVoice, wakes, handlerVars, packets>>

(* The connection is closed, its receiver with it: everyone is forgotten,  *)
(* the wakes in the channel are not.                                       *)
BotLeaves ==
    /\ inVoice
    /\ inVoice' = FALSE
    /\ speaker' = [u \in Speakers |-> NewSpeaker]
    /\ spoken' = {}
    /\ UNCHANGED <<now, wakes, handlerVars, packets>>

BotJoins ==
    /\ ~inVoice
    /\ inVoice' = TRUE
    /\ UNCHANGED <<now, listenerVars, handlerVars, spoken, packets>>

-----------------------------------------------------------------------------
(* Utterances and turns *)

(* Utterances of one speaker: their segments from the first instant to the *)
(* last, cut where a pause of utteranceGap came before one.                *)
UtterancesOf(u, from, to) ==
    LET segs == {seg \in speaker[u].segments : from <= seg.at /\ seg.at <= to}
        starts == {seg \in segs : \/ seg.pause >= UtteranceGap
                                 \/ \A other \in segs : seg.at <= other.at}
        run(first) == {seg \in segs : /\ first.at <= seg.at
                                     /\ \A next \in starts : next.at <= first.at \/ seg.at < next.at}
    IN  {[user |-> u, start |-> first.at, ats |-> {seg.at : seg \in run(first)}] : first \in starts}

Utterances(from, to) == UNION {UtterancesOf(u, from, to) : u \in Speakers}

(* Mutant: everything somebody said is one turn. *)
JoinTurnsBySpeaker(utterances) ==
    {[user |-> x.user,
      ats |-> UNION {y.ats : y \in {z \in utterances : z.user = x.user}}] : x \in utterances}

(* joinTurns: a speaker's utterances are one turn as long as nobody else's *)
(* starts between them.                                                    *)
JoinTurns(utterances) ==
    LET between(x, y) == {z \in utterances : x.start < z.start /\ z.start < y.start}
        apart(x, y) == \E z \in between(x, y) \cup between(y, x) : z.user # x.user
        joined(x) == {y \in utterances : y.user = x.user /\ ~apart(x, y)}
    IN  {[user |-> x.user, ats |-> UNION {y.ats : y \in joined(x)}] : x \in utterances}

AudioOf(clips) == UNION {{[user |-> c.user, at |-> t] : t \in c.ats} : c \in clips}

-----------------------------------------------------------------------------
(* The goroutine that answers *)

Pick ==
    /\ phase = "idle" /\ wakes # <<>>
    /\ phase' = "quiet"
    /\ wake' = Head(wakes)
    /\ wakes' = Tail(wakes)
    /\ UNCHANGED <<now, inVoice, speaker, until, heard, turns, spoken, handed, packets>>

(* Mutant: the context reaches back over an earlier answer. *)
FromUnheard == wake.at - Context

From == IF wake.at - Context < heard THEN heard ELSE wake.at - Context

(* Mutant: the loop over the wakes ends with the connection. *)
CollectInVoice ==
    /\ phase = "quiet" /\ IsQuiet /\ inVoice
    /\ until' = now /\ now' = now + 1
    /\ turns' = JoinTurns(Utterances(From, now))
    /\ handed' = handed \cup AudioOf(turns')
    /\ phase' = "answering"
    /\ UNCHANGED <<heard, inVoice, listenerVars, wake, spoken, packets>>

(* The speaker is quiet, or has talked for long enough: what was said is   *)
(* collected, if the bot is still in a channel, and transcribed, if there  *)
(* is anything.                                                            *)
Collect ==
    /\ phase = "quiet" /\ IsQuiet
    /\ until' = now /\ now' = now + 1
    /\ turns' = IF inVoice THEN JoinTurns(Utterances(From, now)) ELSE {}
    /\ handed' = handed \cup AudioOf(turns')
    /\ IF turns' = {}
       THEN phase' = "idle" /\ heard' = now
       ELSE phase' = "answering" /\ UNCHANGED heard
    /\ UNCHANGED <<inVoice, listenerVars, wake, spoken, packets>>

(* Transcribed or not, remembered, replied to, spoken: however that went,  *)
(* the next wake starts from here.                                         *)
Answered ==
    /\ phase = "answering"
    /\ phase' = "idle"
    /\ heard' = until
    /\ turns' = {}
    /\ UNCHANGED <<now, inVoice, listenerVars, wake, until, spoken, handed, packets>>

(* Time passes; past the horizon only for whoever waits for quiet. *)
Tick ==
    /\ ~Urgent
    /\ now < Horizon \/ phase = "quiet"
    /\ now' = now + 1
    /\ UNCHANGED <<inVoice, listenerVars, handlerVars, spoken, packets>>

Next ==
    \/ \E u \in Speakers : UserLeaves(u) \/ \E kind \in Kinds : Receive(u, kind)
    \/ BotLeaves \/ BotJoins
    \/ Pick \/ Collect \/ Answered
    \/ Tick

Spec == Init /\ [][Next]_vars

(* Time passes, the goroutine runs and every call an answer makes has a    *)
(* timeout.  Nobody has to speak, join or leave.                           *)
FairSpec == Spec /\ WF_vars(Tick) /\ WF_vars(Pick) /\ WF_vars(Collect) /\ WF_vars(Answered)

-----------------------------------------------------------------------------
(* Types; and everything kept, queued, answered and handed over is past.   *)
TypeOK ==
    /\ now \in Nat \ {0} /\ until \in 0 .. (now - 1) /\ heard \in 0 .. until
    /\ phase \in {"idle", "quiet", "answering"} /\ inVoice \in BOOLEAN
    /\ speaker \in [Speakers -> [last : Nat, lastLoud : Nat, lastWake : Nat,
                                 segments : SUBSET [at : 1 .. (now - 1), pause : Nat]]]
    /\ wakes \in Seq([user : Speakers, at : 1 .. (now - 1)]) /\ Len(wakes) <= WakesCap
    /\ wake.at \in 0 .. (now - 1)
    /\ spoken \subseteq [user : Speakers, at : 1 .. (now - 1)]
    /\ \A a \in handed : a.at \in 1 .. until

(* "audio before this was already transcribed for an earlier wake": no     *)
(* audio is transcribed twice, however wakes follow each other, wait and   *)
(* outlive the bot's stay in the channel.                                  *)
NothingTwice == [][AudioOf(turns') \cap handed = {} \/ turns' = turns]_vars

Collecting(from) ==
    LET unheard == {s \in spoken : s.at >= from /\ s.at <= until}
    IN  phase = "answering" => unheard \subseteq handed

(* A wake's command and the conversation before it are transcribed, with   *)
(* this wake or an earlier one: all of it that is no older than the        *)
(* window, said by those who are still in the channel.                     *)
NoSpeechSkipped ==
    Collecting(IF wake.at - Context > until - Keep THEN wake.at - Context ELSE until - Keep)

(* "the context and the whole command have to still be in the window when  *)
(* they're collected": for every wake, also one that had to wait.          *)
WindowSuffices == Collecting(wake.at - Context)

Minimum(S) == CHOOSE x \in S : \A y \in S : x <= y

(* x and y are consecutive in a turn, after a pause p.                     *)
PauseIn(turn, x, y) ==
    {x, y} \subseteq turn.ats /\ x < y /\ \A z \in turn.ats : z <= x \/ z >= y

KeptApart(pauses) ==
    \A t, other \in turns : t.user # other.user =>
        \A x, y \in t.ats :
            (PauseIn(t, x, y) /\ y - x - 1 \in pauses) =>
                ~(x < Minimum(other.ats) /\ Minimum(other.ats) < y)

(* "someone else speaking in between keeps them apart, so the conversation *)
(* stays in order": no turn of one speaker spans the start of another's,   *)
(* if the pause it started in separates utterances and is no bad packet.   *)
TurnsInOrder == KeptApart(UtteranceGap .. (MaxSilence - 1))

(* The same, for every pause that separates utterances. *)
ConversationInOrder == KeptApart(UtteranceGap .. Horizon)

(* Every wake in the channel is answered, or given up, in the end. *)
WakesAnswered == wakes # <<>> ~> wakes = <<>>
=============================================================================
