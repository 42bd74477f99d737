------------------------- MODULE WakeListenerProofs -------------------------
(***************************************************************************)
(* For any number of speakers, any window, context and limits that [listen]*)
(* allows, and wakes that follow, wait for and outlive each other: no      *)
(* audio is transcribed twice, none that the window still has is left out, *)
(* and the turns that are transcribed stand in the order they were said.   *)
(***************************************************************************)
EXTENDS WakeListener, WellFoundedInduction, TLAPS

-----------------------------------------------------------------------------
(* Sets of instants *)

LEMMA Least ==
    ASSUME NEW T, T \subseteq Nat, T # {}
    PROVE  \E x \in T : \A y \in T : x <= y
<1>1. PICK x \in T : \A y \in T : ~ (<<y, x>> \in OpToRel(<, Nat))
  BY NatLessThanWellFounded, WFMin
<1>2. ASSUME NEW y \in T PROVE x <= y
  <2>1. x \in Nat /\ y \in Nat OBVIOUS
  <2>2. ~ (y < x) BY <1>1, <2>1 DEF OpToRel
  <2> QED BY <2>1, <2>2
<1> QED BY <1>2

LEMMA Latest ==
    ASSUME NEW T, NEW n \in Nat, T # {}, \A t \in T : t \in Nat /\ t <= n
    PROVE  \E x \in T : \A y \in T : y <= x
<1> DEFINE D == {n - t : t \in T}
<1>1. D \subseteq Nat /\ D # {} OBVIOUS
<1>2. PICK d \in D : \A e \in D : d <= e
  <2> HIDE DEF D
  <2> QED BY <1>1, Least
<1>3. PICK x \in T : d = n - x BY <1>2
<1>4. ASSUME NEW y \in T PROVE y <= x
  <2>1. n - x <= n - y BY <1>2, <1>3
  <2> QED BY <2>1
<1> QED BY <1>4

-----------------------------------------------------------------------------
(* Utterances are cut out of segments without losing or adding any. *)

Segments(u) == speaker[u].segments

LEMMA UtterancesWithin ==
    ASSUME NEW u \in Speakers, Segments(u) \subseteq [at : Nat, pause : Nat],
           NEW from \in Int, NEW to \in Nat, NEW x \in UtterancesOf(u, from, to)
    PROVE  /\ x.user = u /\ x.start \in Nat
           /\ \A t \in x.ats : t \in Nat /\ from <= t /\ t <= to
                              /\ \E seg \in Segments(u) : seg.at = t
<1> DEFINE segs == {seg \in Segments(u) : from <= seg.at /\ seg.at <= to}
           starts == {seg \in segs : \/ seg.pause >= UtteranceGap
                                     \/ \A other \in segs : seg.at <= other.at}
           run(first) == {seg \in segs : /\ first.at <= seg.at
                            /\ \A next \in starts : next.at <= first.at \/ seg.at < next.at}
<1>1. PICK first \in starts :
        x = [user |-> u, start |-> first.at, ats |-> {seg.at : seg \in run(first)}]
  BY DEF UtterancesOf, Segments
<1>2. first \in Segments(u) /\ x.user = u /\ x.start = first.at BY <1>1
<1>3. ASSUME NEW t \in x.ats PROVE \E seg \in segs : seg.at = t BY <1>1
<1> QED BY <1>2, <1>3

LEMMA UtterancesCover ==
    ASSUME NEW u \in Speakers, Segments(u) \subseteq [at : Nat, pause : Nat],
           NEW from \in Int, NEW to \in Nat,
           NEW seg \in Segments(u), from <= seg.at, seg.at <= to
    PROVE  \E x \in UtterancesOf(u, from, to) : seg.at \in x.ats
<1> DEFINE segs == {s \in Segments(u) : from <= s.at /\ s.at <= to}
           starts == {s \in segs : \/ s.pause >= UtteranceGap
                                   \/ \A other \in segs : s.at <= other.at}
           run(first) == {s \in segs : /\ first.at <= s.at
                            /\ \A next \in starts : next.at <= first.at \/ s.at < next.at}
<1>1. /\ seg \in segs /\ seg.at \in Nat /\ \A s \in segs : s.at \in Nat OBVIOUS
<1>2. PICK first \in segs : \A other \in segs : first.at <= other.at
  <2> DEFINE T == {s.at : s \in segs}
  <2>1. T \subseteq Nat /\ T # {} BY <1>1
  <2>2. PICK t \in T : \A y \in T : t <= y
    <3> HIDE DEF T
    <3> QED BY <2>1, Least
  <2>3. PICK s \in segs : s.at = t BY <2>2
  <2> QED BY <2>2, <2>3
<1>3. first \in starts /\ first.at <= seg.at BY <1>1, <1>2
<1>4. PICK last \in starts : /\ last.at <= seg.at
                             /\ \A s \in starts : s.at <= seg.at => s.at <= last.at
  <2> DEFINE T == {s.at : s \in {s \in starts : s.at <= seg.at}}
  <2>1. T # {} /\ \A t \in T : t \in Nat /\ t <= seg.at BY <1>1, <1>3
  <2>2. PICK t \in T : \A y \in T : y <= t
    <3> HIDE DEF T
    <3> QED BY <1>1, <2>1, Latest
  <2>3. PICK s \in starts : s.at = t /\ s.at <= seg.at BY <2>2
  <2> QED BY <2>2, <2>3
<1>5. \A next \in starts : next.at <= last.at \/ seg.at < next.at BY <1>1, <1>4
<1>6. seg \in run(last) BY <1>1, <1>4, <1>5
<1> DEFINE x == [user |-> u, start |-> last.at, ats |-> {s.at : s \in run(last)}]
<1>7. x \in UtterancesOf(u, from, to) BY DEF UtterancesOf, Segments
<1>8. seg.at \in x.ats BY <1>6
<1> QED BY <1>7, <1>8

(* Joining utterances to turns moves no audio. *)
LEMMA TurnsKeepAudio ==
    ASSUME NEW U, \A x \in U : x.start \in Nat,
           \A x \in U : x.user \in Speakers
    PROVE  /\ \A x \in U : \A t \in x.ats : [user |-> x.user, at |-> t] \in AudioOf(JoinTurns(U))
           /\ \A a \in AudioOf(JoinTurns(U)) :
                \E x \in U : \E t \in x.ats : a = [user |-> x.user, at |-> t]
<1> DEFINE between(x, y) == {z \in U : x.start < z.start /\ z.start < y.start}
           apart(x, y) == \E z \in between(x, y) \cup between(y, x) : z.user # x.user
           joined(x) == {y \in U : y.user = x.user /\ ~apart(x, y)}
           turn(x) == [user |-> x.user, ats |-> UNION {y.ats : y \in joined(x)}]
<1>1. JoinTurns(U) = {turn(x) : x \in U} BY DEF JoinTurns
<1>2. ASSUME NEW x \in U, NEW t \in x.ats
      PROVE  [user |-> x.user, at |-> t] \in AudioOf(JoinTurns(U))
  <2>1. x \in joined(x) OBVIOUS
  <2>2. t \in turn(x).ats /\ turn(x).user = x.user BY <2>1
  <2> HIDE DEF turn
  <2> QED BY <1>1, <2>2 DEF AudioOf
<1>3. ASSUME NEW a \in AudioOf(JoinTurns(U))
      PROVE  \E x \in U : \E t \in x.ats : a = [user |-> x.user, at |-> t]
  <2>1. PICK x \in U : a \in {[user |-> turn(x).user, at |-> t] : t \in turn(x).ats}
    <3> HIDE DEF turn
    <3> QED BY <1>1 DEF AudioOf
  <2>2. PICK t \in UNION {y.ats : y \in joined(x)} : a = [user |-> x.user, at |-> t] BY <2>1
  <2>3. PICK y \in U : y.user = x.user /\ t \in y.ats BY <2>2
  <2> QED BY <2>2, <2>3
<1> QED BY <1>2, <1>3

-----------------------------------------------------------------------------
(* The invariants *)

LEMMA AudioOfNothing == AudioOf({}) = {}
BY DEF AudioOf

(* What Collect hands over: all that was said from one instant to the     *)
(* other, and nothing else.                                                *)
LEMMA CollectedIs ==
    ASSUME NEW from \in Int, NEW to \in Nat,
           \A u \in Speakers : Segments(u) \subseteq [at : Nat, pause : Nat]
    PROVE  /\ \A a \in AudioOf(JoinTurns(Utterances(from, to))) :
                /\ a.user \in Speakers /\ a.at \in Nat /\ from <= a.at /\ a.at <= to
                /\ \E seg \in Segments(a.user) : seg.at = a.at
           /\ \A u \in Speakers : \A seg \in Segments(u) : from <= seg.at /\ seg.at <= to =>
                [user |-> u, at |-> seg.at] \in AudioOf(JoinTurns(Utterances(from, to)))
<1> DEFINE U == Utterances(from, to)
           A == AudioOf(JoinTurns(U))
<1>1. \A x \in U : \E u \in Speakers : x \in UtterancesOf(u, from, to) BY DEF Utterances
<1>2. ASSUME NEW x \in U
      PROVE  /\ x.user \in Speakers /\ x.start \in Nat
             /\ \A t \in x.ats : t \in Nat /\ from <= t /\ t <= to
                                /\ \E seg \in Segments(x.user) : seg.at = t
  <2>1. PICK u \in Speakers : x \in UtterancesOf(u, from, to) BY <1>1
  <2>2. Segments(u) \subseteq [at : Nat, pause : Nat] OBVIOUS
  <2>3. /\ x.user = u /\ x.start \in Nat
        /\ \A t \in x.ats : t \in Nat /\ from <= t /\ t <= to
                           /\ \E seg \in Segments(u) : seg.at = t
    BY <2>1, <2>2, UtterancesWithin
  <2> QED BY <2>3
<1>3. ASSUME NEW u \in Speakers, NEW seg \in Segments(u), from <= seg.at, seg.at <= to
      PROVE  \E x \in U : x.user = u /\ seg.at \in x.ats
  <2>1. Segments(u) \subseteq [at : Nat, pause : Nat] OBVIOUS
  <2>2. PICK x \in UtterancesOf(u, from, to) : seg.at \in x.ats BY <1>3, <2>1, UtterancesCover
  <2>3. x.user = u BY <2>1, UtterancesWithin
  <2> QED BY <2>2, <2>3 DEF Utterances
<1> HIDE DEF U
<1>4. /\ \A x \in U : \A t \in x.ats : [user |-> x.user, at |-> t] \in A
      /\ \A a \in A : \E x \in U : \E t \in x.ats : a = [user |-> x.user, at |-> t]
  BY <1>2, TurnsKeepAudio
<1> HIDE DEF A
<1>5. ASSUME NEW a \in A
      PROVE  /\ a.user \in Speakers /\ a.at \in Nat /\ from <= a.at /\ a.at <= to
             /\ \E seg \in Segments(a.user) : seg.at = a.at
  <2>0. PICK x \in U : \E t \in x.ats : a = [user |-> x.user, at |-> t] BY <1>4
  <2>1. PICK t \in x.ats : a = [user |-> x.user, at |-> t] BY <2>0
  <2>2. a.user = x.user /\ a.at = t BY <2>1
  <2> QED BY <1>2, <2>2
<1>6. ASSUME NEW u \in Speakers, NEW seg \in Segments(u), from <= seg.at, seg.at <= to
      PROVE  [user |-> u, at |-> seg.at] \in A
  <2>1. PICK x \in U : x.user = u /\ seg.at \in x.ats BY <1>3, <1>6
  <2> QED BY <1>4, <2>1
<1> QED BY <1>5, <1>6 DEF A, U

(* Wakes wait in the order they were heard. *)
WakesInOrder ==
    \A i \in 1 .. Len(wakes) : /\ wake.at <= wakes[i].at
                               /\ \A j \in 1 .. i : wakes[j].at <= wakes[i].at

(* What was said and is young enough for the window still has a segment.   *)
SaidIsKept ==
    \A a \in spoken : a.at >= now - Keep => \E seg \in Segments(a.user) : seg.at = a.at

(* Everything said from the last wake's context to the last answer, and    *)
(* young enough then, was handed on.                                       *)
SaidIsHanded ==
    \A a \in spoken :
        (wake.at - Context <= a.at /\ until - Keep <= a.at /\ a.at <= until) => a \in handed

AnswersAreHeard ==
    /\ phase # "answering" => heard = until
    /\ \A a \in handed : a.at < until
    /\ ~inVoice => spoken = {}

ListenInv == TypeOK /\ AnswersAreHeard /\ WakesInOrder /\ SaidIsKept /\ SaidIsHanded

LEMMA Limits ==
    /\ Keep \in Nat /\ Context \in Nat /\ CommandQuiet \in Nat /\ CommandMax \in Nat
    /\ WakesCap \in Nat /\ Debounce \in Nat /\ UtteranceGap \in Nat /\ MaxSilence \in Nat
BY ListenAssumption

-----------------------------------------------------------------------------
(* Types, and what each step changes *)

SpeakerRec(n) == [last : Nat, lastLoud : Nat, lastWake : Nat,
                  segments : SUBSET [at : 1 .. (n - 1), pause : Nat]]
WakeRec(n) == [user : Speakers, at : 1 .. (n - 1)]

LEMMA SeqWithin ==
    ASSUME NEW S, NEW T, S \subseteq T, NEW q \in Seq(S)
    PROVE  q \in Seq(T)
<1>1. Len(q) \in Nat /\ q \in [1 .. Len(q) -> S] OBVIOUS
<1>2. q \in [1 .. Len(q) -> T] BY <1>1
<1> QED BY <1>1, <1>2

LEMMA LaterStill ==
    ASSUME NEW n \in Nat, NEW k \in Nat, n <= k
    PROVE  /\ SpeakerRec(n) \subseteq SpeakerRec(k) /\ WakeRec(n) \subseteq WakeRec(k)
           /\ \A q \in Seq(WakeRec(n)) : q \in Seq(WakeRec(k))
<1>1. 1 .. (n - 1) \subseteq 1 .. (k - 1) OBVIOUS
<1>2. SpeakerRec(n) \subseteq SpeakerRec(k) BY <1>1 DEF SpeakerRec
<1>3. WakeRec(n) \subseteq WakeRec(k) BY <1>1 DEF WakeRec
<1>4. \A q \in Seq(WakeRec(n)) : q \in Seq(WakeRec(k)) BY <1>3, SeqWithin
<1> QED BY <1>2, <1>3, <1>4

LEMMA Typed ==
    TypeOK <=>
      /\ now \in Nat \ {0} /\ until \in 0 .. (now - 1) /\ heard \in 0 .. until
      /\ phase \in {"idle", "quiet", "answering"} /\ inVoice \in BOOLEAN
      /\ speaker \in [Speakers -> SpeakerRec(now)]
      /\ wakes \in Seq(WakeRec(now)) /\ Len(wakes) <= WakesCap
      /\ wake.at \in 0 .. (now - 1)
      /\ spoken \subseteq WakeRec(now)
      /\ \A a \in handed : a.at \in 1 .. until
BY DEF TypeOK, SpeakerRec, WakeRec

(* What of it is about time. *)
LEMMA Instants ==
    ASSUME TypeOK
    PROVE  /\ now \in Nat /\ 1 <= now
           /\ until \in Nat /\ until < now /\ heard \in Nat /\ heard <= until
           /\ wake.at \in Nat /\ wake.at < now
           /\ \A a \in spoken : a.user \in Speakers /\ a.at \in Nat /\ 1 <= a.at /\ a.at < now
           /\ \A a \in handed : a.at \in Nat /\ 1 <= a.at /\ a.at <= until
           /\ \A i \in 1 .. Len(wakes) : wakes[i].at \in Nat /\ wakes[i].at < now
<1>1. now \in Nat /\ 1 <= now BY DEF TypeOK
<1>2. until \in Nat /\ until < now /\ wake.at \in Nat /\ wake.at < now BY <1>1 DEF TypeOK
<1>3. heard \in Nat /\ heard <= until BY <1>2 DEF TypeOK
<1>4. \A a \in spoken : a.user \in Speakers /\ a.at \in Nat /\ 1 <= a.at /\ a.at < now
  BY <1>1, Typed DEF WakeRec
<1>5. \A a \in handed : a.at \in Nat /\ 1 <= a.at /\ a.at <= until BY <1>2 DEF TypeOK
<1>6. ASSUME NEW i \in 1 .. Len(wakes) PROVE wakes[i].at \in Nat /\ wakes[i].at < now
  <2>1. wakes \in Seq(WakeRec(now)) BY Typed
  <2>2. wakes[i] \in WakeRec(now)
    <3> HIDE DEF WakeRec
    <3> QED BY <2>1
  <2> QED BY <1>1, <2>2 DEF WakeRec
<1> QED BY <1>1, <1>2, <1>3, <1>4, <1>5, <1>6

LEMMA NewSpeakerIs == \A n \in Nat : NewSpeaker \in SpeakerRec(n)
BY DEF NewSpeaker, SpeakerRec

LEMMA SegmentsAre ==
    ASSUME TypeOK, NEW u \in Speakers
    PROVE  /\ Segments(u) \subseteq [at : Nat, pause : Nat]
           /\ \A seg \in Segments(u) : seg.at \in 1 .. (now - 1)
<1>1. speaker[u] \in SpeakerRec(now) /\ now \in Nat BY Typed
<1>2. Segments(u) \subseteq [at : 1 .. (now - 1), pause : Nat] BY <1>1 DEF SpeakerRec, Segments
<1> HIDE DEF Segments
<1>3. ASSUME NEW seg \in Segments(u)
      PROVE  seg \in [at : Nat, pause : Nat] /\ seg.at \in 1 .. (now - 1)
  <2>1. seg \in [at : 1 .. (now - 1), pause : Nat] BY <1>2
  <2> QED BY <2>1
<1> QED BY <1>3

(* A packet adds a segment and drops only what the window has lost. *)
LEMMA ReceiveIs ==
    ASSUME TypeOK, NEW u \in Speakers, NEW kind \in Kinds, Receive(u, kind)
    PROVE  /\ now' = now + 1 /\ inVoice
           /\ \E x \in SpeakerRec(now') :
                /\ speaker' = [speaker EXCEPT ![u] = x]
                /\ \E seg \in x.segments : seg.at = now
                /\ \A seg \in Segments(u) : seg.at >= now - Keep => seg \in x.segments
           /\ \/ wakes' = wakes
              \/ wakes' = Append(wakes, [user |-> u, at |-> now]) /\ Len(wakes) < WakesCap
           /\ spoken' = spoken \cup {[user |-> u, at |-> now]}
           /\ UNCHANGED <<inVoice, phase, wake, until, heard, handed, turns>>
<1> DEFINE s == speaker[u]
           new == [at |-> now, pause |-> Silence(s)]
           segments == Trimmed(s.segments \cup {new})
           loud == IF kind = "noise" THEN s.lastLoud ELSE now
           wakesUp == kind = "wake" /\ Elapsed(s.lastWake, Debounce)
           woken == IF wakesUp THEN now ELSE s.lastWake
           x == [last |-> now, lastLoud |-> loud, lastWake |-> woken, segments |-> segments]
<1>1. /\ now' = now + 1 /\ speaker' = [speaker EXCEPT ![u] = x] /\ inVoice
      /\ wakes' = IF wakesUp /\ Len(wakes) < WakesCap
                  THEN Append(wakes, [user |-> u, at |-> now]) ELSE wakes
      /\ spoken' = spoken \cup {[user |-> u, at |-> now]}
      /\ UNCHANGED <<inVoice, phase, wake, until, heard, handed, turns>>
  BY DEF Receive, handlerVars
<1>2. now \in Nat /\ 1 <= now BY Instants
<1>3. /\ s.last \in Nat /\ s.lastLoud \in Nat /\ s.lastWake \in Nat
      /\ s.segments \subseteq [at : 1 .. (now - 1), pause : Nat]
  BY Typed DEF SpeakerRec
<1>4. Silence(s) \in Nat
  <2> HIDE DEF s
  <2> QED BY <1>2, <1>3 DEF Silence
<1>5. new \in segments
  <2>1. Keep \in Nat BY Limits
  <2>2. now >= now - Keep BY <1>2, <2>1
  <2> QED BY <2>2 DEF Trimmed
<1>6. segments \subseteq [at : 1 .. now, pause : Nat]
  <2>1. new \in [at : 1 .. now, pause : Nat]
    <3>1. now \in 1 .. now BY <1>2
    <3> QED BY <1>4, <3>1
  <2>2. 1 .. (now - 1) \subseteq 1 .. now BY <1>2
  <2>3. s.segments \subseteq [at : 1 .. now, pause : Nat] BY <1>3, <2>2
  <2> HIDE DEF new, s
  <2> QED BY <2>1, <2>3 DEF Trimmed
<1>7. loud \in Nat /\ woken \in Nat /\ now' - 1 = now BY <1>1, <1>2, <1>3
<1>8. \A seg \in Segments(u) : seg.at >= now - Keep => seg \in segments BY DEF Trimmed, Segments
<1>9. new.at = now OBVIOUS
<1> HIDE DEF segments, loud, woken, new
<1>10. x \in SpeakerRec(now') BY <1>2, <1>6, <1>7 DEF SpeakerRec
<1>11. x.segments = segments OBVIOUS
<1> HIDE DEF x, wakesUp
<1> QED BY <1>1, <1>5, <1>8, <1>9, <1>10, <1>11

LEMMA PickIs ==
    ASSUME TypeOK, Pick
    PROVE  /\ wakes' \in Seq(WakeRec(now)) /\ Len(wakes') = Len(wakes) - 1 /\ Len(wakes) \in Nat
           /\ Len(wakes) >= 1 /\ wake' = wakes[1]
           /\ \A i \in 1 .. Len(wakes') : i + 1 \in 1 .. Len(wakes) /\ wakes'[i] = wakes[i + 1]
           /\ UNCHANGED <<now, inVoice, speaker, until, heard, turns, spoken, handed>>
           /\ phase = "idle" /\ phase' = "quiet"
<1> DEFINE S == WakeRec(now)
<1>1. wakes \in Seq(S) BY Typed
<1>2. /\ wakes # <<>> /\ wake' = Head(wakes) /\ wakes' = Tail(wakes)
      /\ phase = "idle" /\ phase' = "quiet"
      /\ UNCHANGED <<now, inVoice, speaker, until, heard, turns, spoken, handed>>
  BY DEF Pick
<1> HIDE DEF S
<1>3. Len(wakes) \in Nat /\ Len(wakes) >= 1 BY <1>1, <1>2
<1>4. Tail(wakes) \in Seq(S) /\ Len(Tail(wakes)) = Len(wakes) - 1 BY <1>1, <1>2
<1>5. Head(wakes) = wakes[1] BY <1>1, <1>2
<1>6. ASSUME NEW i \in 1 .. Len(wakes') PROVE i + 1 \in 1 .. Len(wakes) /\ wakes'[i] = wakes[i + 1]
  <2>1. i \in 1 .. (Len(wakes) - 1) BY <1>2, <1>4
  <2> QED BY <1>1, <1>2, <1>3, <2>1
<1> QED BY <1>2, <1>3, <1>4, <1>5, <1>6 DEF S

(* Collect starts no sooner than the last answer ended. *)
LEMMA CollectIs ==
    ASSUME TypeOK, Collect
    PROVE  /\ From \in Int /\ From >= heard /\ From >= wake.at - Context
           /\ From = heard \/ From = wake.at - Context
           /\ until' = now /\ now' = now + 1 /\ handed' = handed \cup AudioOf(turns')
           /\ phase = "quiet" /\ phase' \in {"idle", "answering"}
           /\ phase' = "idle" => heard' = now
           /\ phase' = "answering" => heard' = heard
           /\ \A a \in AudioOf(turns') : a.user \in Speakers /\ a.at \in Nat /\ From <= a.at
                                        /\ a.at < now /\ 1 <= a.at
           /\ inVoice => \A u \in Speakers : \A seg \in Segments(u) :
                From <= seg.at => [user |-> u, at |-> seg.at] \in AudioOf(turns')
           /\ UNCHANGED <<inVoice, speaker, wakes, wake, spoken>>
<1>1. /\ now \in Nat /\ heard \in Nat /\ wake.at \in Nat /\ Context \in Nat /\ 1 <= now
  BY Instants, Limits
<1>2. /\ From \in Int /\ From >= heard /\ From >= wake.at - Context
      /\ From = heard \/ From = wake.at - Context
  BY <1>1 DEF From
<1>3. /\ until' = now /\ now' = now + 1 /\ handed' = handed \cup AudioOf(turns')
      /\ phase = "quiet" /\ phase' \in {"idle", "answering"}
      /\ phase' = "idle" => heard' = now
      /\ phase' = "answering" => heard' = heard
      /\ turns' = IF inVoice THEN JoinTurns(Utterances(From, now)) ELSE {}
      /\ UNCHANGED <<inVoice, speaker, wakes, wake, spoken>>
  BY DEF Collect, listenerVars
<1>4. \A u \in Speakers : /\ Segments(u) \subseteq [at : Nat, pause : Nat]
                         /\ \A seg \in Segments(u) : seg.at \in 1 .. (now - 1)
  BY SegmentsAre
<1> DEFINE A == AudioOf(JoinTurns(Utterances(From, now)))
<1>5. /\ \A a \in A : /\ a.user \in Speakers /\ a.at \in Nat /\ From <= a.at
                     /\ \E seg \in Segments(a.user) : seg.at = a.at
      /\ \A u \in Speakers : \A seg \in Segments(u) : From <= seg.at /\ seg.at <= now =>
                [user |-> u, at |-> seg.at] \in A
  BY <1>1, <1>2, <1>4, CollectedIs
<1>6. inVoice => AudioOf(turns') = A BY <1>3
<1>7. ~inVoice => AudioOf(turns') = {} BY <1>3, AudioOfNothing
<1> HIDE DEF A
<1>8. \A a \in A : a.user \in Speakers /\ a.at \in Nat /\ From <= a.at /\ a.at < now /\ 1 <= a.at
  <2> TAKE a \in A
  <2>1. PICK seg \in Segments(a.user) : seg.at = a.at BY <1>5
  <2>2. a.at \in 1 .. (now - 1) BY <1>4, <1>5, <2>1
  <2> QED BY <1>1, <1>5, <2>2
<1>9. \A u \in Speakers : \A seg \in Segments(u) : From <= seg.at =>
        [user |-> u, at |-> seg.at] \in A
  <2> TAKE u \in Speakers
  <2> TAKE seg \in Segments(u)
  <2> HAVE From <= seg.at
  <2>1. seg.at \in 1 .. (now - 1) BY <1>4
  <2>2. seg.at <= now BY <1>1, <2>1
  <2> QED BY <1>5, <2>2
<1>10. \A a \in AudioOf(turns') : a.user \in Speakers /\ a.at \in Nat /\ From <= a.at
                                 /\ a.at < now /\ 1 <= a.at
  BY <1>6, <1>7, <1>8
<1>11. inVoice => \A u \in Speakers : \A seg \in Segments(u) :
         From <= seg.at => [user |-> u, at |-> seg.at] \in AudioOf(turns')
  BY <1>6, <1>9
<1> QED BY <1>2, <1>3, <1>10, <1>11

-----------------------------------------------------------------------------
(* Types *)

LEMMA TypesAreKept ==
    ASSUME TypeOK, [Next]_vars
    PROVE  TypeOK'
<1>0. now \in Nat /\ 1 <= now /\ WakesCap \in Nat BY Instants, Limits
<1>1. ASSUME NEW u \in Speakers, NEW kind \in Kinds, Receive(u, kind) PROVE TypeOK'
  <2> DEFINE a0 == [user |-> u, at |-> now]
  <2>1. PICK x \in SpeakerRec(now') : speaker' = [speaker EXCEPT ![u] = x]
    BY <1>1, ReceiveIs
  <2>2. /\ now' = now + 1 /\ spoken' = spoken \cup {a0}
        /\ \/ wakes' = wakes
           \/ wakes' = Append(wakes, a0) /\ Len(wakes) < WakesCap
        /\ UNCHANGED <<inVoice, phase, wake, until, heard, handed, turns>>
    BY <1>1, ReceiveIs
  <2>3. now' \in Nat /\ now <= now' BY <1>0, <2>2
  <2>4. speaker' \in [Speakers -> SpeakerRec(now')]
    <3>1. speaker \in [Speakers -> SpeakerRec(now')] BY <1>0, <2>3, LaterStill, Typed
    <3> QED BY <2>1, <3>1
  <2>5. a0 \in WakeRec(now') /\ a0.user = u /\ a0.at = now
    <3>1. now \in 1 .. (now' - 1) BY <1>0, <2>2
    <3> QED BY <3>1 DEF WakeRec
  <2> HIDE DEF a0
  <2>6. wakes' \in Seq(WakeRec(now')) /\ Len(wakes') <= WakesCap
    <3> DEFINE S == WakeRec(now')
    <3>1. wakes \in Seq(S) /\ Len(wakes) <= WakesCap BY <1>0, <2>3, LaterStill, Typed
    <3>2. a0 \in S BY <2>5
    <3> HIDE DEF S
    <3>3. /\ Append(wakes, a0) \in Seq(S) /\ Len(Append(wakes, a0)) = Len(wakes) + 1
          /\ Len(wakes) \in Nat
      BY <3>1, <3>2
    <3>4. CASE wakes' = wakes BY <3>1, <3>4 DEF S
    <3>5. CASE wakes' = Append(wakes, a0) /\ Len(wakes) < WakesCap BY <1>0, <3>3, <3>5 DEF S
    <3> QED BY <2>2, <3>4, <3>5
  <2>7. /\ now' \in Nat \ {0} /\ until' \in 0 .. (now' - 1) /\ heard' \in 0 .. until'
        /\ wake'.at \in 0 .. (now' - 1)
    BY <2>2, Instants
  <2>8. spoken' \subseteq WakeRec(now')
    <3>1. spoken \subseteq WakeRec(now') BY <1>0, <2>3, LaterStill, Typed
    <3> QED BY <2>2, <2>5, <3>1
  <2>9. /\ \A a \in handed' : a.at \in 1 .. until'
        /\ phase' \in {"idle", "quiet", "answering"} /\ inVoice' \in BOOLEAN
    BY <2>2 DEF TypeOK
  <2> QED BY <2>4, <2>6, <2>7, <2>8, <2>9 DEF TypeOK, SpeakerRec, WakeRec
<1>2. ASSUME NEW u \in Speakers, UserLeaves(u) PROVE TypeOK'
  <2>1. /\ speaker' = [speaker EXCEPT ![u] = NewSpeaker] /\ spoken' \subseteq spoken
        /\ UNCHANGED <<now, inVoice, wakes, phase, wake, until, heard, handed>>
    BY <1>2 DEF UserLeaves, handlerVars
  <2>2. speaker' \in [Speakers -> SpeakerRec(now)] BY <1>0, <2>1, NewSpeakerIs, Typed
  <2> QED BY <2>1, <2>2 DEF TypeOK, SpeakerRec
<1>3. ASSUME BotLeaves PROVE TypeOK'
  <2>1. /\ speaker' = [u \in Speakers |-> NewSpeaker] /\ spoken' = {} /\ inVoice' = FALSE
        /\ UNCHANGED <<now, wakes, phase, wake, until, heard, handed>>
    BY <1>3 DEF BotLeaves, handlerVars
  <2>2. speaker' \in [Speakers -> SpeakerRec(now)] BY <1>0, <2>1, NewSpeakerIs
  <2> QED BY <2>1, <2>2 DEF TypeOK, SpeakerRec
<1>4. ASSUME BotJoins PROVE TypeOK'
  BY <1>4 DEF BotJoins, listenerVars, handlerVars, TypeOK
<1>5. ASSUME Pick PROVE TypeOK'
  <2>1. /\ wakes' \in Seq(WakeRec(now)) /\ Len(wakes') <= WakesCap
    <3>1. Len(wakes) <= WakesCap BY DEF TypeOK
    <3> QED BY <1>0, <1>5, <3>1, PickIs
  <2>2. wake'.at \in 0 .. (now - 1)
    <3>1. wake' = wakes[1] /\ 1 \in 1 .. Len(wakes) BY <1>5, PickIs
    <3>2. wakes[1].at \in Nat /\ wakes[1].at < now BY <3>1, Instants
    <3> QED BY <1>0, <3>1, <3>2
  <2>3. UNCHANGED <<now, inVoice, speaker, until, heard, turns, spoken, handed>> /\ phase' = "quiet"
    BY <1>5, PickIs
  <2> QED BY <2>1, <2>2, <2>3 DEF TypeOK, WakeRec
<1>6. ASSUME Collect PROVE TypeOK'
  <2>1. /\ until' = now /\ now' = now + 1 /\ handed' = handed \cup AudioOf(turns')
        /\ phase' \in {"idle", "answering"}
        /\ phase' = "idle" => heard' = now
        /\ phase' = "answering" => heard' = heard
        /\ \A a \in AudioOf(turns') : a.at \in Nat /\ a.at < now /\ 1 <= a.at
        /\ UNCHANGED <<inVoice, speaker, wakes, wake, spoken>>
    BY <1>6, CollectIs
  <2>2. now' \in Nat /\ now <= now' BY <1>0, <2>1
  <2>3. speaker' \in [Speakers -> SpeakerRec(now')] BY <1>0, <2>1, <2>2, LaterStill, Typed
  <2>4. wakes' \in Seq(WakeRec(now')) /\ Len(wakes') <= WakesCap
    BY <1>0, <2>1, <2>2, LaterStill, Typed
  <2>5. /\ until \in Nat /\ until < now /\ heard \in Nat /\ heard <= until
        /\ wake.at \in Nat /\ wake.at < now
    BY Instants
  <2>6. /\ now' \in Nat \ {0} /\ until' \in 0 .. (now' - 1)
        /\ wake'.at \in 0 .. (now' - 1)
    BY <1>0, <2>1, <2>5
  <2>7. heard' \in 0 .. until' BY <1>0, <2>1, <2>5
  <2>8. spoken' \subseteq WakeRec(now') BY <1>0, <2>1, <2>2, LaterStill, Typed
  <2>9. \A a \in handed' : a.at \in 1 .. until'
    <3> TAKE a \in handed'
    <3>1. CASE a \in handed
      <4>1. a.at \in Nat /\ 1 <= a.at /\ a.at <= until BY <3>1, Instants
      <4> QED BY <1>0, <2>1, <2>5, <4>1
    <3>2. CASE a \in AudioOf(turns') BY <1>0, <2>1, <3>2
    <3> QED BY <2>1, <3>1, <3>2
  <2>10. phase' \in {"idle", "quiet", "answering"} /\ inVoice' \in BOOLEAN BY <2>1 DEF TypeOK
  <2> QED BY <2>3, <2>4, <2>6, <2>7, <2>8, <2>9, <2>10 DEF TypeOK, SpeakerRec, WakeRec
<1>7. ASSUME Answered PROVE TypeOK'
  <2>1. /\ phase' = "idle" /\ heard' = until
        /\ UNCHANGED <<now, inVoice, speaker, wakes, wake, until, spoken, handed>>
    BY <1>7 DEF Answered, listenerVars
  <2>2. heard' \in 0 .. until' BY <2>1, Instants
  <2> QED BY <2>1, <2>2 DEF TypeOK
<1>8. ASSUME Tick PROVE TypeOK'
  <2>1. /\ now' = now + 1
        /\ UNCHANGED <<inVoice, speaker, wakes, phase, wake, until, heard, handed, spoken>>
    BY <1>8 DEF Tick, listenerVars, handlerVars
  <2>2. now' \in Nat /\ now <= now' BY <1>0, <2>1
  <2>3. speaker' \in [Speakers -> SpeakerRec(now')] BY <1>0, <2>1, <2>2, LaterStill, Typed
  <2>4. wakes' \in Seq(WakeRec(now')) /\ Len(wakes') <= WakesCap
    BY <1>0, <2>1, <2>2, LaterStill, Typed
  <2>5. until \in Nat /\ until < now /\ wake.at \in Nat /\ wake.at < now BY Instants
  <2>6. now' \in Nat \ {0} /\ until' \in 0 .. (now' - 1) /\ wake'.at \in 0 .. (now' - 1)
    BY <1>0, <2>1, <2>5
  <2>7. spoken' \subseteq WakeRec(now') BY <1>0, <2>1, <2>2, LaterStill, Typed
  <2>8. /\ heard' \in 0 .. until' /\ \A a \in handed' : a.at \in 1 .. until'
        /\ phase' \in {"idle", "quiet", "answering"} /\ inVoice' \in BOOLEAN
    BY <2>1 DEF TypeOK
  <2> QED BY <2>3, <2>4, <2>6, <2>7, <2>8 DEF TypeOK, SpeakerRec, WakeRec
<1>9. CASE UNCHANGED vars BY <1>9 DEF vars, TypeOK
<1> QED BY <1>1, <1>2, <1>3, <1>4, <1>5, <1>6, <1>7, <1>8, <1>9 DEF Next

LEMMA InitIsGood == Init => ListenInv
<1> SUFFICES ASSUME Init PROVE ListenInv
  OBVIOUS
<1>1. speaker \in [Speakers -> SpeakerRec(now)] BY NewSpeakerIs DEF Init
<1>2. <<>> \in Seq(WakeRec(now)) /\ Len(<<>>) = 0
  <2> HIDE DEF WakeRec
  <2> QED OBVIOUS
<1>3. wake.at = 0 /\ WakesCap \in Nat BY Limits DEF Init, NoWake
<1>4. TypeOK BY <1>1, <1>2, <1>3, Typed DEF Init
<1>5. AnswersAreHeard /\ SaidIsKept /\ SaidIsHanded
  BY DEF Init, AnswersAreHeard, SaidIsKept, SaidIsHanded
<1>6. WakesInOrder BY <1>2 DEF Init, WakesInOrder
<1> QED BY <1>4, <1>5, <1>6 DEF ListenInv

-----------------------------------------------------------------------------
(* The other parts of the invariant, part by part *)

LEMMA AnswersStayHeard ==
    ASSUME TypeOK, AnswersAreHeard, [Next]_vars
    PROVE  AnswersAreHeard'
<1>1. ASSUME NEW u \in Speakers, NEW kind \in Kinds, Receive(u, kind) PROVE AnswersAreHeard'
  <2>1. inVoice /\ UNCHANGED <<inVoice, phase, until, heard, handed>> BY <1>1, ReceiveIs
  <2> QED BY <2>1 DEF AnswersAreHeard
<1>2. ASSUME NEW u \in Speakers, UserLeaves(u) PROVE AnswersAreHeard'
  <2>1. spoken' \subseteq spoken /\ UNCHANGED <<inVoice, phase, until, heard, handed>>
    BY <1>2 DEF UserLeaves, handlerVars
  <2> QED BY <2>1 DEF AnswersAreHeard
<1>3. ASSUME BotLeaves PROVE AnswersAreHeard'
  BY <1>3 DEF BotLeaves, handlerVars, AnswersAreHeard
<1>4. ASSUME BotJoins PROVE AnswersAreHeard'
  BY <1>4 DEF BotJoins, handlerVars, AnswersAreHeard
<1>5. ASSUME Pick PROVE AnswersAreHeard'
  <2>1. UNCHANGED <<inVoice, until, heard, handed, spoken>> /\ phase = "idle" BY <1>5, PickIs
  <2> QED BY <2>1 DEF AnswersAreHeard
<1>6. ASSUME Collect PROVE AnswersAreHeard'
  <2>1. /\ until' = now /\ handed' = handed \cup AudioOf(turns')
        /\ phase' \in {"idle", "answering"} /\ (phase' = "idle" => heard' = now)
        /\ \A a \in AudioOf(turns') : a.at < now
        /\ UNCHANGED <<inVoice, spoken>>
    BY <1>6, CollectIs
  <2>2. \A a \in handed : a.at < now
    <3> TAKE a \in handed
    <3>1. a.at \in Nat /\ a.at < until BY Instants DEF AnswersAreHeard
    <3>2. until \in Nat /\ now \in Nat /\ until < now BY Instants
    <3> QED BY <3>1, <3>2
  <2> QED BY <2>1, <2>2 DEF AnswersAreHeard
<1>7. ASSUME Answered PROVE AnswersAreHeard'
  BY <1>7 DEF Answered, AnswersAreHeard
<1>8. ASSUME Tick PROVE AnswersAreHeard'
  BY <1>8 DEF Tick, handlerVars, AnswersAreHeard
<1>9. CASE UNCHANGED vars BY <1>9 DEF vars, AnswersAreHeard
<1> QED BY <1>1, <1>2, <1>3, <1>4, <1>5, <1>6, <1>7, <1>8, <1>9 DEF Next

LEMMA WakesStayInOrder ==
    ASSUME TypeOK, WakesInOrder, [Next]_vars
    PROVE  WakesInOrder'
<1>1. ASSUME NEW u \in Speakers, NEW kind \in Kinds, Receive(u, kind) PROVE WakesInOrder'
  <2> DEFINE a0 == [user |-> u, at |-> now]
  <2>1. /\ wake' = wake
        /\ \/ wakes' = wakes
           \/ wakes' = Append(wakes, a0)
    BY <1>1, ReceiveIs
  <2>2. CASE wakes' = wakes BY <2>1, <2>2 DEF WakesInOrder
  <2>3. CASE wakes' = Append(wakes, a0)
    <3>0. a0.at = now OBVIOUS
    <3> HIDE DEF a0
    <3>1. wakes \in Seq(WakeRec(now)) BY Typed
    <3>2. /\ Len(wakes') = Len(wakes) + 1 /\ Len(wakes) \in Nat
          /\ wakes'[Len(wakes) + 1] = a0
          /\ \A i \in 1 .. Len(wakes) : wakes'[i] = wakes[i]
      <4> HIDE DEF WakeRec
      <4> QED BY <2>3, <3>1
    <3>3. /\ now \in Nat /\ wake.at \in Nat /\ wake.at < now
          /\ \A i \in 1 .. Len(wakes) : wakes[i].at \in Nat /\ wakes[i].at < now
      BY Instants
    <3>4. ASSUME NEW i \in 1 .. Len(wakes')
          PROVE  wake'.at <= wakes'[i].at /\ \A j \in 1 .. i : wakes'[j].at <= wakes'[i].at
      <4>1. CASE i \in 1 .. Len(wakes)
        <5>1. wakes'[i] = wakes[i] /\ \A j \in 1 .. i : wakes'[j] = wakes[j]
          BY <3>2, <4>1
        <5> QED BY <2>1, <4>1, <5>1 DEF WakesInOrder
      <4>2. CASE i = Len(wakes) + 1
        <5>1. wakes'[i].at = now BY <3>0, <3>2, <4>2
        <5>2. ASSUME NEW j \in 1 .. i PROVE wakes'[j].at <= now
          <6>1. CASE j = i BY <3>3, <5>1, <6>1
          <6>2. CASE j \in 1 .. Len(wakes) BY <3>2, <3>3, <6>2
          <6>3. j \in 1 .. Len(wakes) \/ j = i BY <3>2, <4>2
          <6> QED BY <6>1, <6>2, <6>3
        <5> QED BY <2>1, <3>3, <5>1, <5>2
      <4> QED BY <3>2, <4>1, <4>2
    <3> QED BY <3>4 DEF WakesInOrder
  <2> QED BY <2>1, <2>2, <2>3
<1>5. ASSUME Pick PROVE WakesInOrder'
  <2>1. /\ wake' = wakes[1] /\ Len(wakes) \in Nat /\ Len(wakes') = Len(wakes) - 1
        /\ \A i \in 1 .. Len(wakes') : i + 1 \in 1 .. Len(wakes) /\ wakes'[i] = wakes[i + 1]
    BY <1>5, PickIs
  <2>2. ASSUME NEW i \in 1 .. Len(wakes')
        PROVE  wake'.at <= wakes'[i].at /\ \A j \in 1 .. i : wakes'[j].at <= wakes'[i].at
    <3>1. i + 1 \in 1 .. Len(wakes) /\ wakes'[i] = wakes[i + 1] /\ i \in Nat BY <2>1
    <3>2. \A k \in 1 .. (i + 1) : wakes[k].at <= wakes[i + 1].at BY <3>1 DEF WakesInOrder
    <3>3. wakes[1].at <= wakes[i + 1].at BY <3>1, <3>2
    <3>4. ASSUME NEW j \in 1 .. i PROVE wakes'[j].at <= wakes'[i].at
      <4>1. j \in 1 .. Len(wakes') /\ j + 1 \in 1 .. (i + 1) BY <2>1, <3>1
      <4>2. wakes'[j] = wakes[j + 1] BY <2>1, <4>1
      <4> QED BY <3>1, <3>2, <4>1, <4>2
    <3> QED BY <2>1, <3>1, <3>3, <3>4
  <2> QED BY <2>2 DEF WakesInOrder
<1>6. ASSUME UNCHANGED <<wakes, wake>> PROVE WakesInOrder' BY <1>6 DEF WakesInOrder
<1>7. ASSUME NEW u \in Speakers, UserLeaves(u) PROVE WakesInOrder'
  BY <1>6, <1>7 DEF UserLeaves, handlerVars
<1>8. ASSUME BotLeaves \/ BotJoins \/ Collect \/ Answered \/ Tick PROVE WakesInOrder'
  BY <1>6, <1>8 DEF BotLeaves, BotJoins, Collect, Answered, Tick, listenerVars, handlerVars
<1>9. CASE UNCHANGED vars BY <1>6, <1>9 DEF vars
<1> QED BY <1>1, <1>5, <1>7, <1>8, <1>9 DEF Next

LEMMA SaidStaysKept ==
    ASSUME TypeOK, AnswersAreHeard, SaidIsKept, [Next]_vars
    PROVE  SaidIsKept'
<1>0. now \in Nat /\ Keep \in Nat BY Instants, Limits
<1>a. \A a \in spoken : a.user \in Speakers /\ a.at \in Nat BY Instants
<1>b. speaker \in [Speakers -> SpeakerRec(now)] BY Typed
<1>1. ASSUME NEW u \in Speakers, NEW kind \in Kinds, Receive(u, kind) PROVE SaidIsKept'
  <2> DEFINE a0 == [user |-> u, at |-> now]
  <2>1. /\ now' = now + 1 /\ spoken' = spoken \cup {a0} BY <1>1, ReceiveIs
  <2>2. PICK x \in SpeakerRec(now') :
          /\ speaker' = [speaker EXCEPT ![u] = x]
          /\ \E seg \in x.segments : seg.at = now
          /\ \A seg \in Segments(u) : seg.at >= now - Keep => seg \in x.segments
    BY <1>1, ReceiveIs
  <2>3. a0.user = u /\ a0.at = now OBVIOUS
  <2>4. speaker'[u] = x /\ \A v \in Speakers : v # u => speaker'[v] = speaker[v]
    BY <1>b, <2>2
  <2> HIDE DEF a0
  <2>5. ASSUME NEW a \in spoken', a.at >= now' - Keep
        PROVE  \E seg \in speaker'[a.user].segments : seg.at = a.at
    <3>1. CASE a = a0 BY <2>2, <2>3, <2>4, <3>1
    <3>2. CASE a \in spoken
      <4>1. a.user \in Speakers /\ a.at \in Nat BY <1>a, <3>2
      <4>2. a.at >= now - Keep BY <1>0, <2>1, <2>5, <4>1
      <4>3. PICK seg \in Segments(a.user) : seg.at = a.at BY <3>2, <4>2 DEF SaidIsKept
      <4>4. CASE a.user # u BY <2>4, <4>1, <4>3, <4>4 DEF Segments
      <4>5. CASE a.user = u BY <2>2, <2>4, <4>2, <4>3, <4>5
      <4> QED BY <4>4, <4>5
    <3> QED BY <2>1, <3>1, <3>2
  <2> QED BY <2>5 DEF SaidIsKept, Segments
<1>2. ASSUME NEW u \in Speakers, UserLeaves(u) PROVE SaidIsKept'
  <2>1. /\ now' = now /\ speaker' = [speaker EXCEPT ![u] = NewSpeaker]
        /\ spoken' = {s \in spoken : s.user # u}
    BY <1>2 DEF UserLeaves
  <2>2. \A v \in Speakers : v # u => speaker'[v] = speaker[v] BY <1>b, <2>1
  <2> QED BY <1>a, <2>1, <2>2 DEF SaidIsKept, Segments
<1>3. ASSUME BotLeaves PROVE SaidIsKept' BY <1>3 DEF BotLeaves, SaidIsKept
<1>4. ASSUME UNCHANGED <<now, speaker, spoken>> PROVE SaidIsKept'
  BY <1>4 DEF SaidIsKept, Segments
<1>5. ASSUME now' = now + 1, UNCHANGED <<speaker, spoken>> PROVE SaidIsKept'
  <2>1. \A a \in spoken : a.at >= now' - Keep => a.at >= now - Keep BY <1>0, <1>a, <1>5
  <2> QED BY <1>5, <2>1 DEF SaidIsKept, Segments
<1>6. ASSUME BotJoins \/ Pick \/ Answered PROVE SaidIsKept'
  BY <1>4, <1>6 DEF BotJoins, Pick, Answered, listenerVars
<1>7. ASSUME Collect \/ Tick PROVE SaidIsKept'
  BY <1>5, <1>7 DEF Collect, Tick, listenerVars
<1>8. CASE UNCHANGED vars BY <1>4, <1>8 DEF vars
<1> QED BY <1>1, <1>2, <1>3, <1>6, <1>7, <1>8 DEF Next

LEMMA SaidStaysHanded ==
    ASSUME ListenInv, [Next]_vars
    PROVE  SaidIsHanded'
<1> USE DEF ListenInv
<1>0. /\ now \in Nat /\ Keep \in Nat /\ Context \in Nat
      /\ until \in Nat /\ until < now /\ heard \in Nat /\ wake.at \in Nat /\ wake.at < now
  BY Instants, Limits
<1>a. \A a \in spoken : a.user \in Speakers /\ a.at \in Nat /\ a.at < now BY Instants
<1>1. ASSUME NEW u \in Speakers, NEW kind \in Kinds, Receive(u, kind) PROVE SaidIsHanded'
  <2> DEFINE a0 == [user |-> u, at |-> now]
  <2>1. /\ spoken' = spoken \cup {a0} /\ UNCHANGED <<wake, until, handed>> BY <1>1, ReceiveIs
  <2>2. ~ (a0.at <= until) BY <1>0
  <2> HIDE DEF a0
  <2> QED BY <2>1, <2>2 DEF SaidIsHanded
<1>2. ASSUME spoken' \subseteq spoken, UNCHANGED <<wake, until, handed>> PROVE SaidIsHanded'
  BY <1>2 DEF SaidIsHanded
<1>3. ASSUME NEW u \in Speakers, UserLeaves(u) PROVE SaidIsHanded'
  BY <1>2, <1>3 DEF UserLeaves, handlerVars
<1>4. ASSUME BotLeaves PROVE SaidIsHanded' BY <1>4 DEF BotLeaves, SaidIsHanded
<1>5. ASSUME BotJoins \/ Answered \/ Tick PROVE SaidIsHanded'
  BY <1>2, <1>5 DEF BotJoins, Answered, Tick, handlerVars
<1>6. ASSUME Pick PROVE SaidIsHanded'
  <2>1. /\ wake' = wakes[1] /\ 1 \in 1 .. Len(wakes) /\ UNCHANGED <<until, handed, spoken>>
    BY <1>6, PickIs
  <2>2. wake.at <= wake'.at /\ wake'.at \in Nat BY <2>1, Instants DEF WakesInOrder
  <2>3. ASSUME NEW a \in spoken, wake'.at - Context <= a.at PROVE wake.at - Context <= a.at
    <3> DEFINE w == wake.at
               v == wake'.at
    <3>1. w <= v /\ w \in Nat /\ v \in Nat /\ a.at \in Nat /\ v - Context <= a.at
      BY <1>0, <1>a, <2>2, <2>3
    <3> HIDE DEF w, v
    <3>2. w - Context <= a.at BY <1>0, <3>1
    <3> QED BY <3>2 DEF w
  <2> QED BY <2>1, <2>3 DEF SaidIsHanded
<1>7. ASSUME Collect PROVE SaidIsHanded'
  <2>1. /\ From \in Int /\ (From = heard \/ From = wake.at - Context)
        /\ until' = now /\ handed' = handed \cup AudioOf(turns') /\ phase = "quiet"
        /\ inVoice => \A u \in Speakers : \A seg \in Segments(u) :
             From <= seg.at => [user |-> u, at |-> seg.at] \in AudioOf(turns')
        /\ UNCHANGED <<inVoice, wake, spoken>>
    BY <1>7, CollectIs
  <2>2. heard = until /\ (~inVoice => spoken = {}) BY <2>1 DEF AnswersAreHeard
  <2>3. ASSUME NEW a \in spoken', wake'.at - Context <= a.at, until' - Keep <= a.at
        PROVE  a \in handed'
    <3>1. a \in spoken /\ inVoice /\ wake.at - Context <= a.at /\ now - Keep <= a.at
      BY <2>1, <2>2, <2>3
    <3>2. a.user \in Speakers /\ a.at \in Nat BY <1>a, <3>1
    <3>3. CASE From <= a.at
      <4>1. a.at >= now - Keep BY <1>0, <3>1, <3>2
      <4>2. PICK seg \in Segments(a.user) : seg.at = a.at BY <3>1, <4>1 DEF SaidIsKept
      <4>3. [user |-> a.user, at |-> a.at] \in AudioOf(turns') BY <2>1, <3>1, <3>2, <3>3, <4>2
      <4>4. a = [user |-> a.user, at |-> a.at] BY <3>1, Typed DEF WakeRec
      <4> QED BY <2>1, <4>3, <4>4
    <3>4. CASE a.at < From
      <4>1. From = heard BY <1>0, <2>1, <3>1, <3>2, <3>4
      <4>2. a.at <= until /\ until - Keep <= a.at BY <1>0, <2>2, <3>1, <3>2, <3>4, <4>1
      <4> QED BY <2>1, <3>1, <4>2 DEF SaidIsHanded
    <3> QED BY <2>1, <3>2, <3>3, <3>4
  <2> QED BY <2>3 DEF SaidIsHanded
<1>8. CASE UNCHANGED vars BY <1>2, <1>8 DEF vars
<1> QED BY <1>1, <1>3, <1>4, <1>5, <1>6, <1>7, <1>8 DEF Next

LEMMA ListenInvIsKept == ListenInv /\ [Next]_vars => ListenInv'
BY TypesAreKept, AnswersStayHeard, WakesStayInOrder, SaidStaysKept, SaidStaysHanded DEF ListenInv

LEMMA ListenInvHolds == Spec => []ListenInv
BY InitIsGood, ListenInvIsKept, PTL DEF Spec

-----------------------------------------------------------------------------
(* What turns rest on: a kept packet tells how long its speaker was quiet  *)
(* before it, and one packet is heard at an instant.                       *)

PausesAreTold ==
    \A u \in Speakers :
        /\ \A a \in Segments(u) : a.at <= speaker[u].last
        /\ speaker[u].last # 0 => \E a \in Segments(u) : a.at = speaker[u].last
        /\ \A a, b \in Segments(u) :
              /\ a.at < b.at /\ \A c \in Segments(u) : c.at <= a.at \/ b.at <= c.at
              /\ b.at - a.at - 1 \in 1 .. (MaxSilence - 1)
              => b.pause = b.at - a.at - 1

OneAtATime ==
    \A u, v \in Speakers : u # v => \A a \in Segments(u), b \in Segments(v) : a.at # b.at

SegmentsInv == PausesAreTold /\ OneAtATime

(* A packet's segment joins those of its speaker the window still has. *)
LEMMA ReceiveKeeps ==
    ASSUME TypeOK, NEW u \in Speakers, NEW kind \in Kinds, Receive(u, kind)
    PROVE  \E new \in [at : Nat, pause : Nat] :
              /\ new.at = now /\ new.pause = Silence(speaker[u])
              /\ Segments(u)' = {a \in Segments(u) \cup {new} : a.at >= now - Keep}
              /\ new \in Segments(u)' /\ speaker'[u].last = now
              /\ \A v \in Speakers : v # u => speaker'[v] = speaker[v]
<1> DEFINE s == speaker[u]
           new == [at |-> now, pause |-> Silence(s)]
<1>1. speaker \in [Speakers -> SpeakerRec(now)] /\ now \in Nat /\ Keep \in Nat
  BY Typed, Limits
<1>2. s.last \in Nat BY <1>1 DEF SpeakerRec
<1>3. Silence(s) \in Nat BY <1>1, <1>2, Limits DEF Silence
<1>4. /\ speaker'[u].last = now
      /\ speaker'[u].segments = Trimmed(s.segments \cup {new})
      /\ \A v \in Speakers : v # u => speaker'[v] = speaker[v]
  BY <1>1 DEF Receive
<1>5. new \in [at : Nat, pause : Nat] /\ new.at = now /\ new.pause = Silence(s)
  BY <1>1, <1>3
<1> HIDE DEF new
<1>6. Segments(u)' = {a \in Segments(u) \cup {new} : a.at >= now - Keep}
  BY <1>4 DEF Segments, Trimmed
<1>7. new \in Segments(u)' BY <1>1, <1>5, <1>6
<1> QED BY <1>4, <1>5, <1>6, <1>7

LEMMA SegmentsStayTold ==
    ASSUME TypeOK, SegmentsInv, [Next]_vars
    PROVE  SegmentsInv'
<1>0. now \in Nat /\ Keep \in Nat /\ MaxSilence \in Nat BY Instants, Limits
<1>a. \A v \in Speakers : \A a \in Segments(v) : a.at \in Nat /\ 1 <= a.at /\ a.at < now
  BY <1>0, SegmentsAre
<1>1. ASSUME NEW u \in Speakers, NEW kind \in Kinds, Receive(u, kind) PROVE SegmentsInv'
  <2> DEFINE last == speaker[u].last
  <2>1. PICK new \in [at : Nat, pause : Nat] :
          /\ new.at = now /\ new.pause = Silence(speaker[u])
          /\ Segments(u)' = {a \in Segments(u) \cup {new} : a.at >= now - Keep}
          /\ new \in Segments(u)' /\ speaker'[u].last = now
          /\ \A v \in Speakers : v # u => speaker'[v] = speaker[v]
    BY <1>1, ReceiveKeeps
  <2>2. \A v \in Speakers : v # u => Segments(v)' = Segments(v) BY <2>1 DEF Segments
  <2>3. OneAtATime'
    <3> SUFFICES ASSUME NEW v \in Speakers, NEW w \in Speakers, v # w,
                        NEW a \in Segments(v)', NEW b \in Segments(w)'
                 PROVE  a.at # b.at
      BY DEF OneAtATime
    <3>1. CASE v # u /\ w # u BY <2>2, <3>1 DEF SegmentsInv, OneAtATime
    <3>2. CASE v = u
      <4>1. w # u /\ b \in Segments(w) BY <2>2, <3>2
      <4>2. a \in Segments(u) \/ a = new BY <2>1, <3>2
      <4>3. a \in Segments(u) => a.at # b.at BY <4>1 DEF SegmentsInv, OneAtATime
      <4>4. a = new => a.at # b.at BY <1>0, <1>a, <2>1, <4>1
      <4> QED BY <4>2, <4>3, <4>4
    <3>3. CASE w = u
      <4>1. v # u /\ a \in Segments(v) BY <2>2, <3>3
      <4>2. b \in Segments(u) \/ b = new BY <2>1, <3>3
      <4>3. b \in Segments(u) => a.at # b.at BY <4>1 DEF SegmentsInv, OneAtATime
      <4>4. b = new => a.at # b.at BY <1>0, <1>a, <2>1, <4>1
      <4> QED BY <4>2, <4>3, <4>4
    <3> QED BY <3>1, <3>2, <3>3
  <2>4. ASSUME NEW a \in Segments(u)', NEW b \in Segments(u)', a.at < b.at,
               \A c \in Segments(u)' : c.at <= a.at \/ b.at <= c.at,
               b.at - a.at - 1 \in 1 .. (MaxSilence - 1)
        PROVE  b.pause = b.at - a.at - 1
    <3>1. /\ a \in Segments(u) \cup {new} /\ b \in Segments(u) \cup {new}
          /\ a.at >= now - Keep
      BY <2>1
    <3>2. a \in Segments(u) BY <1>0, <1>a, <2>1, <2>4, <3>1
    <3>3. CASE b = new
      <4>1. a.at <= last /\ last # 0 => \E c \in Segments(u) : c.at = last
        BY <3>2 DEF SegmentsInv, PausesAreTold
      <4>2. a.at <= last /\ a.at \in Nat /\ 1 <= a.at /\ last \in Nat
        <5>1. last \in Nat BY Typed DEF SpeakerRec
        <5> QED BY <1>a, <3>2, <5>1 DEF SegmentsInv, PausesAreTold
      <4>3. PICK c \in Segments(u) : c.at = last BY <4>1, <4>2
      <4>4. c.at \in Nat /\ c.at < now BY <1>a
      <4>5. c.at >= now - Keep BY <1>0, <3>1, <4>2, <4>3
      <4>6. c \in Segments(u)' BY <2>1, <4>5
      <4>7. c.at <= a.at BY <1>0, <2>1, <2>4, <3>3, <4>4, <4>6
      <4>8. last = a.at BY <4>2, <4>3, <4>7
      <4>9. Silence(speaker[u]) = now - last - 1
        BY <1>0, <2>1, <2>4, <3>3, <4>2, <4>8 DEF Silence
      <4> QED BY <2>1, <3>3, <4>8, <4>9
    <3>4. CASE b \in Segments(u)
      <4>1. ASSUME NEW c \in Segments(u) PROVE c.at <= a.at \/ b.at <= c.at
        <5>1. c.at \in Nat /\ a.at \in Nat BY <1>a, <3>2
        <5>2. CASE a.at < c.at
          <6>1. c.at >= now - Keep BY <1>0, <3>1, <5>1, <5>2
          <6>2. c \in Segments(u)' BY <2>1, <6>1
          <6> QED BY <2>4, <6>2
        <5> QED BY <5>1, <5>2
      <4> QED BY <2>4, <3>2, <3>4, <4>1 DEF SegmentsInv, PausesAreTold
    <3> QED BY <3>1, <3>3, <3>4
  <2>5. \A a \in Segments(u)' : a.at <= now BY <1>0, <1>a, <2>1
  <2>6. \E a \in Segments(u)' : a.at = now BY <2>1
  <2>7. PausesAreTold'
    <3> SUFFICES ASSUME NEW v \in Speakers
                 PROVE /\ \A a \in Segments(v)' : a.at <= speaker'[v].last
                       /\ speaker'[v].last # 0 => \E a \in Segments(v)' : a.at = speaker'[v].last
                       /\ \A a, b \in Segments(v)' :
                             /\ a.at < b.at /\ \A c \in Segments(v)' : c.at <= a.at \/ b.at <= c.at
                             /\ b.at - a.at - 1 \in 1 .. (MaxSilence - 1)
                             => b.pause = b.at - a.at - 1
      BY DEF PausesAreTold
    <3>1. CASE v = u
      <4> HIDE DEF last
      <4> QED BY <2>1, <2>4, <2>5, <2>6, <3>1
    <3>2. CASE v # u BY <2>1, <2>2, <3>2 DEF SegmentsInv, PausesAreTold
    <3> QED BY <3>1, <3>2
  <2> QED BY <2>3, <2>7 DEF SegmentsInv
<1>2. ASSUME UNCHANGED speaker PROVE SegmentsInv'
  BY <1>2 DEF SegmentsInv, PausesAreTold, OneAtATime, Segments
<1>3. ASSUME \A v \in Speakers : speaker'[v] = speaker[v] \/ speaker'[v] = NewSpeaker
      PROVE  SegmentsInv'
  <2>1. \A v \in Speakers :
          \/ Segments(v)' = Segments(v) /\ speaker'[v].last = speaker[v].last
          \/ Segments(v)' = {} /\ speaker'[v].last = 0
    BY <1>3 DEF Segments, NewSpeaker
  <2>2. OneAtATime' BY <2>1 DEF SegmentsInv, OneAtATime
  <2>3. PausesAreTold' BY <2>1 DEF SegmentsInv, PausesAreTold
  <2> QED BY <2>2, <2>3 DEF SegmentsInv
<1>4. ASSUME NEW u \in Speakers, UserLeaves(u) PROVE SegmentsInv'
  <2>1. speaker \in [Speakers -> SpeakerRec(now)] BY Typed
  <2>2. \A v \in Speakers : speaker'[v] = speaker[v] \/ speaker'[v] = NewSpeaker
    BY <1>4, <2>1 DEF UserLeaves
  <2> QED BY <1>3, <2>2
<1>5. ASSUME BotLeaves PROVE SegmentsInv' BY <1>3, <1>5 DEF BotLeaves
<1>6. ASSUME BotJoins \/ Pick \/ Collect \/ Answered \/ Tick PROVE SegmentsInv'
  BY <1>2, <1>6 DEF BotJoins, Pick, Collect, Answered, Tick, listenerVars
<1>7. CASE UNCHANGED vars BY <1>2, <1>7 DEF vars
<1> QED BY <1>1, <1>4, <1>5, <1>6, <1>7 DEF Next

-----------------------------------------------------------------------------
(* Utterances are runs of a speaker's segments, one after the other. *)

LEMMA UtterancesFollow ==
    ASSUME NEW u \in Speakers, Segments(u) \subseteq [at : Nat, pause : Nat],
           NEW from \in Int, NEW to \in Nat, NEW x \in UtterancesOf(u, from, to)
    PROVE  /\ x.start \in x.ats /\ \A t \in x.ats : t \in Nat /\ x.start <= t
           /\ \A y \in UtterancesOf(u, from, to) :
                \A s \in x.ats, t \in y.ats : s <= t => x.start <= y.start
           /\ \A seg \in Segments(u) :
                seg.at \in x.ats /\ seg.pause >= UtteranceGap => x.start = seg.at
<1> DEFINE segs == {seg \in Segments(u) : from <= seg.at /\ seg.at <= to}
           starts == {seg \in segs : \/ seg.pause >= UtteranceGap
                                     \/ \A other \in segs : seg.at <= other.at}
           run(first) == {seg \in segs : /\ first.at <= seg.at
                            /\ \A next \in starts : next.at <= first.at \/ seg.at < next.at}
           utt(first) == [user |-> u, start |-> first.at, ats |-> {seg.at : seg \in run(first)}]
<1>0. /\ UtterancesOf(u, from, to) = {utt(first) : first \in starts}
      /\ \A seg \in Segments(u) : seg.at \in Nat
  BY DEF UtterancesOf, Segments
<1>1. ASSUME NEW y \in UtterancesOf(u, from, to)
      PROVE  \E first \in starts : y.start = first.at /\ y.ats = {seg.at : seg \in run(first)}
  BY <1>0
<1>2. PICK a \in starts : x.start = a.at /\ x.ats = {seg.at : seg \in run(a)} BY <1>1
<1>3. a \in run(a) BY <1>0
<1>4. x.start \in x.ats BY <1>2, <1>3
<1>5. \A t \in x.ats : t \in Nat /\ x.start <= t BY <1>0, <1>2
<1>6. ASSUME NEW y \in UtterancesOf(u, from, to), NEW s \in x.ats, NEW t \in y.ats, s <= t
      PROVE  x.start <= y.start
  <2>1. PICK b \in starts : y.start = b.at /\ y.ats = {seg.at : seg \in run(b)} BY <1>1
  <2>2. PICK seg \in run(b) : seg.at = t BY <2>1
  <2>3. a.at <= b.at \/ seg.at < a.at BY <2>2
  <2>4. a.at <= s /\ a.at \in Nat /\ b.at \in Nat /\ s \in Nat /\ seg.at \in Nat
    BY <1>0, <1>2, <1>5, <2>1
  <2> QED BY <1>2, <1>6, <2>1, <2>2, <2>3, <2>4
<1>7. ASSUME NEW seg \in Segments(u), seg.at \in x.ats, seg.pause >= UtteranceGap
      PROVE  x.start = seg.at
  <2>1. PICK s \in run(a) : s.at = seg.at BY <1>2, <1>7
  <2>2. seg \in starts BY <1>7, <2>1
  <2>3. a.at <= seg.at /\ (seg.at <= a.at \/ s.at < seg.at) BY <2>1, <2>2
  <2> QED BY <1>0, <1>2, <2>1, <2>3
<1> QED BY <1>4, <1>5, <1>6, <1>7

(* No other speaker's utterance starts between two that a turn joins. *)
LEMMA TurnsSpanNothing ==
    ASSUME NEW U, \A x \in U : x.start \in Nat,
           \A x, y \in U : x.user # y.user => x.start # y.start,
           NEW t \in JoinTurns(U)
    PROVE  \E p \in U : \E J \in SUBSET U :
              /\ p \in J /\ t.user = p.user /\ t.ats = UNION {x.ats : x \in J}
              /\ \A x \in J : x.user = p.user
              /\ \A x, y \in J, z \in U :
                    z.user # p.user => ~ (x.start < z.start /\ z.start < y.start)
              /\ \A x, y \in J, w \in U :
                    w.user = p.user /\ x.start <= w.start /\ w.start <= y.start => w \in J
<1> DEFINE between(x, y) == {z \in U : x.start < z.start /\ z.start < y.start}
           apart(x, y) == \E z \in between(x, y) \cup between(y, x) : z.user # x.user
           joined(x) == {y \in U : y.user = x.user /\ ~apart(x, y)}
<1>1. PICK p \in U : t = [user |-> p.user, ats |-> UNION {y.ats : y \in joined(p)}]
  BY DEF JoinTurns
<1>2. joined(p) \in SUBSET U /\ p \in joined(p) OBVIOUS
<1>3. ASSUME NEW x \in joined(p), NEW z \in U, z.user # p.user
      PROVE  /\ x.user = p.user
             /\ ~ (p.start < z.start /\ z.start < x.start)
             /\ ~ (x.start < z.start /\ z.start < p.start)
  BY <1>3
<1>4. ASSUME NEW x \in joined(p), NEW y \in joined(p), NEW z \in U, z.user # p.user,
             x.start < z.start, z.start < y.start
      PROVE  FALSE
  <2>1. /\ ~ (p.start < z.start /\ z.start < y.start)
        /\ ~ (x.start < z.start /\ z.start < p.start)
    BY <1>3, <1>4
  <2>2. z.start # p.start /\ z.start \in Nat /\ p.start \in Nat BY <1>4
  <2> QED BY <1>4, <2>1, <2>2
<1>5. ASSUME NEW x \in joined(p), NEW y \in joined(p), NEW w \in U, w.user = p.user,
             x.start <= w.start, w.start <= y.start
      PROVE  w \in joined(p)
  <2>1. ASSUME NEW z \in U, z.user # p.user
        PROVE  z \notin between(p, w) /\ z \notin between(w, p)
    <3>1. /\ ~ (p.start < z.start /\ z.start < y.start)
          /\ ~ (x.start < z.start /\ z.start < p.start)
      BY <1>3, <2>1
    <3>2. {z.start, p.start, w.start, x.start, y.start} \subseteq Nat OBVIOUS
    <3>3. ~ (p.start < z.start /\ z.start < w.start) BY <1>5, <3>1, <3>2
    <3>4. ~ (w.start < z.start /\ z.start < p.start) BY <1>5, <3>1, <3>2
    <3> QED BY <3>3, <3>4
  <2> QED BY <1>5, <2>1
<1>6. \A x \in joined(p) : x.user = p.user OBVIOUS
<1> HIDE DEF joined
<1> QED BY <1>1, <1>2, <1>4, <1>5, <1>6

(* What is collected is in order. *)
LEMMA CollectedInOrder ==
    ASSUME TypeOK, SegmentsInv, NEW from \in Int, NEW to \in Nat,
           NEW t \in JoinTurns(Utterances(from, to)), NEW o \in JoinTurns(Utterances(from, to)),
           t.user # o.user, NEW x \in t.ats, NEW y \in t.ats, PauseIn(t, x, y),
           y - x - 1 \in UtteranceGap .. (MaxSilence - 1)
    PROVE  ~ (x < Minimum(o.ats) /\ Minimum(o.ats) < y)
<1> DEFINE U == Utterances(from, to)
           m == Minimum(o.ats)
<1>a. \A u \in Speakers : Segments(u) \subseteq [at : Nat, pause : Nat] BY SegmentsAre
<1>1. ASSUME NEW a \in U
      PROVE  /\ a.user \in Speakers /\ a \in UtterancesOf(a.user, from, to)
             /\ a.start \in Nat /\ a.start \in a.ats
             /\ \A s \in a.ats : /\ s \in Nat /\ a.start <= s /\ from <= s /\ s <= to
                                 /\ \E seg \in Segments(a.user) : seg.at = s
  <2>1. PICK u \in Speakers : a \in UtterancesOf(u, from, to) BY DEF Utterances
  <2>2. Segments(u) \subseteq [at : Nat, pause : Nat] BY <1>a
  <2>3. /\ a.user = u /\ a.start \in Nat
        /\ \A s \in a.ats : s \in Nat /\ from <= s /\ s <= to
                           /\ \E seg \in Segments(u) : seg.at = s
    BY <2>1, <2>2, UtterancesWithin
  <2>4. a.start \in a.ats /\ \A s \in a.ats : s \in Nat /\ a.start <= s
    BY <2>1, <2>2, UtterancesFollow
  <2> QED BY <2>1, <2>3, <2>4
<1>2. ASSUME NEW a \in U, NEW b \in U, a.user = b.user, NEW r \in a.ats, NEW s \in b.ats, r <= s
      PROVE  a.start <= b.start
  <2>1. a.user \in Speakers /\ {a, b} \subseteq UtterancesOf(a.user, from, to) BY <1>1, <1>2
  <2>2. Segments(a.user) \subseteq [at : Nat, pause : Nat] BY <1>a, <2>1
  <2> QED BY <1>2, <2>1, <2>2, UtterancesFollow
<1>3. \A a, b \in U : a.user # b.user => a.start # b.start
  <2> SUFFICES ASSUME NEW a \in U, NEW b \in U, a.user # b.user PROVE a.start # b.start
    OBVIOUS
  <2>1. PICK r \in Segments(a.user) : r.at = a.start BY <1>1
  <2>2. PICK s \in Segments(b.user) : s.at = b.start BY <1>1
  <2> QED BY <1>1, <2>1, <2>2 DEF SegmentsInv, OneAtATime
<1>4. \A a \in U : a.start \in Nat BY <1>1
<1> HIDE DEF U
<1>5. PICK p \in U : \E J \in SUBSET U :
              /\ p \in J /\ t.user = p.user /\ t.ats = UNION {a.ats : a \in J}
              /\ \A a \in J : a.user = p.user
              /\ \A a, b \in J, z \in U :
                    z.user # p.user => ~ (a.start < z.start /\ z.start < b.start)
              /\ \A a, b \in J, w \in U :
                    w.user = p.user /\ a.start <= w.start /\ w.start <= b.start => w \in J
  BY <1>3, <1>4, TurnsSpanNothing DEF U
<1>6. PICK J \in SUBSET U :
              /\ p \in J /\ t.user = p.user /\ t.ats = UNION {a.ats : a \in J}
              /\ \A a \in J : a.user = p.user
              /\ \A a, b \in J, z \in U :
                    z.user # p.user => ~ (a.start < z.start /\ z.start < b.start)
              /\ \A a, b \in J, w \in U :
                    w.user = p.user /\ a.start <= w.start /\ w.start <= b.start => w \in J
  BY <1>5
<1>7. PICK q \in U : \E K \in SUBSET U : /\ q \in K /\ o.user = q.user
              /\ o.ats = UNION {a.ats : a \in K} /\ \A a \in K : a.user = q.user
  BY <1>3, <1>4, TurnsSpanNothing DEF U
<1>8. PICK K \in SUBSET U : /\ q \in K /\ o.user = q.user
              /\ o.ats = UNION {a.ats : a \in K} /\ \A a \in K : a.user = q.user
  BY <1>7
<1>9. PICK a \in J : x \in a.ats BY <1>6
<1>10. PICK b \in J : y \in b.ats BY <1>6
<1>11. m \in o.ats /\ \A s \in o.ats : m <= s
  <2>1. o.ats \subseteq Nat BY <1>1, <1>8
  <2>2. q.start \in o.ats BY <1>1, <1>8
  <2> QED BY <2>1, <2>2, Least DEF Minimum
<1>12. PICK z \in K : m \in z.ats BY <1>8, <1>11
<1>13. z.start = m
  <2>1. z.start \in o.ats BY <1>1, <1>8
  <2>2. z.start <= m /\ m \in Nat /\ z.start \in Nat BY <1>1, <1>12
  <2> QED BY <1>11, <2>1, <2>2
<1>14. a.start <= x /\ a.start \in Nat /\ x \in Nat /\ y \in Nat /\ b.start \in Nat
  BY <1>1, <1>9, <1>10
<1> HIDE DEF m
<1>15. SUFFICES ASSUME x < m, m < y PROVE FALSE
  BY DEF m
<1>16. m \in Nat BY <1>13, <1>4
<1>17. y - x - 1 \in 1 .. (MaxSilence - 1) /\ y - x - 1 >= UtteranceGap
  BY <1>14, <1>15, <1>16, Limits
<1>18. /\ p.user \in Speakers /\ a.user = p.user /\ b.user = p.user
       /\ {a, b} \subseteq UtterancesOf(p.user, from, to)
  BY <1>1, <1>6
<1>19. PICK r \in Segments(p.user) : r.at = x BY <1>1, <1>9, <1>18
<1>20. PICK s \in Segments(p.user) : s.at = y BY <1>1, <1>10, <1>18
(* Nothing of theirs lies between x and y: it would be in the turn too. *)
<1>21. ASSUME NEW c \in Segments(p.user) PROVE c.at <= r.at \/ s.at <= c.at
  <2>1. SUFFICES ASSUME x < c.at, c.at < y PROVE FALSE
    BY <1>14, <1>19, <1>20, <1>a, <1>18
  <2>2. c.at \in Nat /\ from <= c.at /\ c.at <= to
    <3>1. c.at \in Nat BY <1>a, <1>18
    <3>2. from <= x /\ y <= to BY <1>1, <1>9, <1>10
    <3> QED BY <1>14, <2>1, <3>1, <3>2
  <2>3. Segments(p.user) \subseteq [at : Nat, pause : Nat] BY <1>a, <1>18
  <2>4. PICK w \in UtterancesOf(p.user, from, to) : c.at \in w.ats
    BY <1>18, <2>2, <2>3, UtterancesCover
  <2>5. w \in U /\ w.user = p.user
    BY <1>18, <2>3, <2>4, UtterancesWithin DEF U, Utterances
  <2>6. a.start <= w.start BY <1>2, <1>9, <1>18, <1>14, <2>1, <2>2, <2>4, <2>5
  <2>7. w.start <= b.start BY <1>2, <1>10, <1>18, <1>14, <2>1, <2>2, <2>4, <2>5
  <2>8. w \in J BY <1>6, <2>5, <2>6, <2>7
  <2>9. c.at \in t.ats BY <1>6, <2>4, <2>8
  <2>10. c.at <= x \/ c.at >= y BY <2>9 DEF PauseIn
  <2> QED BY <1>14, <2>1, <2>2, <2>10
<1>22. s.pause = y - x - 1
  <2>1. s.at - r.at - 1 \in 1 .. (MaxSilence - 1) /\ r.at < s.at
    BY <1>14, <1>17, <1>19, <1>20
  <2> QED BY <1>18, <1>19, <1>20, <1>21, <2>1 DEF SegmentsInv, PausesAreTold
<1>23. b.start = y
  <2>1. Segments(p.user) \subseteq [at : Nat, pause : Nat] BY <1>a, <1>18
  <2>2. s.at \in b.ats /\ s.pause >= UtteranceGap BY <1>10, <1>17, <1>20, <1>22
  <2> QED BY <1>18, <1>20, <2>1, <2>2, UtterancesFollow
<1>24. z \in U /\ z.user # p.user BY <1>6, <1>8
<1>25. a.start < z.start /\ z.start < b.start BY <1>13, <1>14, <1>15, <1>16, <1>23
<1> QED BY <1>6, <1>24, <1>25

-----------------------------------------------------------------------------
(* The theorems *)

(* Segments, wakes and answers are of their types, the channel of wakes    *)
(* never holds more than it has room for, and nothing that is kept, queued *)
(* or handed over lies ahead of the clock.                                 *)
THEOREM ListenerIsTyped == Spec => []TypeOK
BY ListenInvHolds, PTL DEF ListenInv

(* What was said in the window and the context of a wake reaches the       *)
(* transcription with this wake or an earlier one, also when wakes wait    *)
(* for each other and speakers come and go.                                *)
THEOREM SpeechIsNotSkipped == Spec => []NoSpeechSkipped
<1>1. ListenInv => NoSpeechSkipped
  <2> SUFFICES ASSUME ListenInv PROVE NoSpeechSkipped
    OBVIOUS
  <2>1. /\ Keep \in Nat /\ Context \in Nat /\ until \in Nat /\ wake.at \in Nat
        /\ \A a \in spoken : a.at \in Nat
    BY Limits, Instants DEF ListenInv
  <2> DEFINE from == IF wake.at - Context > until - Keep THEN wake.at - Context ELSE until - Keep
  <2>2. ASSUME NEW s \in spoken, s.at >= from, s.at <= until
        PROVE  s \in handed
    <3>1. wake.at - Context <= s.at /\ until - Keep <= s.at BY <2>1, <2>2
    <3> HIDE DEF from
    <3> QED BY <2>2, <3>1 DEF ListenInv, SaidIsHanded
  <2> HIDE DEF from
  <2>3. Collecting(from) BY <2>2 DEF Collecting
  <2> QED BY <2>3 DEF NoSpeechSkipped, from
<1> QED BY <1>1, ListenInvHolds, PTL

(* No instant of anybody's audio is transcribed for two wakes: an answer   *)
(* collects from where the one before it ended.                            *)
THEOREM AudioIsHeardOnce == Spec => NothingTwice
<1> DEFINE Once == AudioOf(turns') \cap handed = {} \/ turns' = turns
<1>1. ListenInv /\ [Next]_vars => [Once]_vars
  <2> SUFFICES ASSUME ListenInv, Next PROVE Once
    BY DEF vars
  <2>1. CASE Collect
    <3>1. /\ From >= heard /\ From \in Int /\ phase = "quiet"
          /\ \A a \in AudioOf(turns') : a.at \in Nat /\ From <= a.at
      BY <2>1, CollectIs DEF ListenInv
    <3>2. heard = until /\ \A a \in handed : a.at < until
      BY <3>1 DEF ListenInv, AnswersAreHeard
    <3>3. until \in Nat /\ \A a \in handed : a.at \in Nat BY Instants DEF ListenInv
    <3>4. \A a \in AudioOf(turns') : a \notin handed BY <3>1, <3>2, <3>3
    <3> QED BY <3>4
  <2>2. CASE Answered BY <2>2, AudioOfNothing DEF Answered
  <2>3. ASSUME NEW u \in Speakers, NEW kind \in Kinds, Receive(u, kind) PROVE turns' = turns
    BY <2>3 DEF Receive, handlerVars
  <2>4. ASSUME NEW u \in Speakers, UserLeaves(u) PROVE turns' = turns
    BY <2>4 DEF UserLeaves, handlerVars
  <2>5. ASSUME BotLeaves \/ BotJoins \/ Pick \/ Tick PROVE turns' = turns
    BY <2>5 DEF BotLeaves, BotJoins, Pick, Tick, handlerVars
  <2> QED BY <2>1, <2>2, <2>3, <2>4, <2>5 DEF Next
<1> QED BY <1>1, ListenInvHolds, PTL DEF Spec, NothingTwice

(* A pause that separates a speaker's utterances, and is no bad packet,    *)
(* lets in whoever starts to speak in it: no turn runs over the start of   *)
(* another's, so what is transcribed stands in the order it was said.      *)
THEOREM ConversationStaysInOrder == Spec => []TurnsInOrder
<1> DEFINE Inv == ListenInv /\ SegmentsInv /\ TurnsInOrder
<1>1. Init => Inv
  <2>1. Init => SegmentsInv
    BY DEF Init, SegmentsInv, PausesAreTold, OneAtATime, Segments, NewSpeaker
  <2>2. Init => TurnsInOrder BY DEF Init, TurnsInOrder, KeptApart
  <2> QED BY <2>1, <2>2, InitIsGood
<1>2. Inv /\ [Next]_vars => Inv'
  <2> SUFFICES ASSUME Inv, [Next]_vars PROVE Inv'
    OBVIOUS
  <2>1. TypeOK BY DEF ListenInv
  <2>2. ListenInv' /\ SegmentsInv' BY <2>1, ListenInvIsKept, SegmentsStayTold
  <2>3. ASSUME Collect PROVE TurnsInOrder'
    <3>1. now \in Nat /\ From \in Int /\ turns' \in {JoinTurns(Utterances(From, now)), {}}
      <4>1. From \in Int BY <2>1, <2>3, CollectIs
      <4> QED BY <2>1, <2>3, <4>1, Instants DEF Collect
    <3>2. CASE turns' = JoinTurns(Utterances(From, now))
      <4>1. \A t, o \in turns' : t.user # o.user =>
              \A x, y \in t.ats :
                 (PauseIn(t, x, y) /\ y - x - 1 \in UtteranceGap .. (MaxSilence - 1)) =>
                     ~ (x < Minimum(o.ats) /\ Minimum(o.ats) < y)
        BY <2>1, <3>1, <3>2, CollectedInOrder
      <4> QED BY <4>1 DEF TurnsInOrder, KeptApart, PauseIn
    <3>3. CASE turns' = {} BY <3>3 DEF TurnsInOrder, KeptApart
    <3> QED BY <3>1, <3>2, <3>3
  <2>4. ASSUME Answered PROVE TurnsInOrder'
    <3>1. turns' = {} BY <2>4 DEF Answered
    <3> QED BY <2>2, <3>1 DEF TurnsInOrder, KeptApart
  <2>5. ASSUME UNCHANGED turns PROVE TurnsInOrder'
    BY <2>5 DEF TurnsInOrder, KeptApart, PauseIn
  <2>6. ASSUME NEW u \in Speakers, NEW kind \in Kinds, Receive(u, kind) \/ UserLeaves(u)
        PROVE  UNCHANGED turns
    BY <2>6 DEF Receive, UserLeaves, handlerVars
  <2>7. ASSUME BotLeaves \/ BotJoins \/ Pick \/ Tick PROVE UNCHANGED turns
    BY <2>7 DEF BotLeaves, BotJoins, Pick, Tick, handlerVars
  <2>8. ASSUME UNCHANGED vars PROVE TurnsInOrder' BY <2>5, <2>8 DEF vars
  <2>9. TurnsInOrder'
    <3>1. Kinds # {} BY DEF Kinds
    <3> QED BY <2>3, <2>4, <2>5, <2>6, <2>7, <2>8, <3>1 DEF Next
  <2> QED BY <2>2, <2>9
<1>3. Inv => TurnsInOrder OBVIOUS
<1> QED BY <1>1, <1>2, <1>3, PTL DEF Spec
=============================================================================
