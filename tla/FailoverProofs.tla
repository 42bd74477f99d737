--------------------------- MODULE FailoverProofs ---------------------------
(***************************************************************************)
(* For every rotation, policy, per-client timeout and number of callers:   *)
(* failover's types hold, it never sends a try to a benched client, and    *)
(* while one client answers in good time no call runs out of clients.      *)
(*                                                                         *)
(* The argument for the last: by RotationProofs, next() never jumps over a *)
(* steady client h.  The way left from the selection to h never grows, a   *)
(* try that misses shortens it, and it is shorter than the ring to begin   *)
(* with.                                                                   *)
(***************************************************************************)
EXTENDS Failover, RotationProofs

USE RotationAssumption, FailoverAssumption DEF Slots

(* The steady client h is in service and is judged well whenever it is     *)
(* tried; every call has tries enough left to get to it.                   *)
OnTheWay(h) ==
    /\ score[h] < BenchScore
    /\ \A c \in Users :
          /\ pc[c] = "trying" /\ held[c] = h => took[c] < Punish
          /\ pc[c] = "current" => Way(selected, h) + tries[c] < Length
          /\ pc[c] = "trying" =>
                /\ Way(held[c], h) + tries[c] < Length
                /\ Way(selected, h) <= Way(held[c], h)

-----------------------------------------------------------------------------
(* A step of failover is a step of the rotation, or leaves it alone. *)
LEMMA FailoverStepIsRotationStep ==
    ASSUME TypeOK, [Next]_vars
    PROVE  [RotationNext]_rotationVars
<1>1. ASSUME NEW c \in Users, Answer(c)
      PROVE  RotationNext
  <2>1. took[c] \in Latencies
    BY <1>1 DEF Answer, TypeOK
  <2> QED BY <1>1, <2>1 DEF Answer, RotationNext
<1>2. ASSUME NEW c \in Users, Try(c) \/ Miss(c) \/ HangUp(c)
      PROVE  RotationNext
  BY <1>2 DEF Try, Miss, HangUp, RotationNext
<1>3. CASE Tick
  BY <1>3 DEF Tick, RotationNext
<1>4. ASSUME NEW c \in Users, Begin(c)
      PROVE  UNCHANGED rotationVars
  BY <1>4 DEF Begin
<1>5. CASE UNCHANGED vars
  BY <1>5 DEF vars, rotationVars
<1> QED BY <1>1, <1>2, <1>3, <1>4, <1>5 DEF Next

LEMMA TypeStep ==
    ASSUME TypeOK, SelectedInService, [Next]_vars
    PROVE  TypeOK' /\ SelectedInService'
<1>1. RotationTypeOK' /\ SelectedInService'
  BY FailoverStepIsRotationStep, RotationStepKeeps DEF TypeOK
<1>2. ASSUME NEW c \in Users, Begin(c)
      PROVE  TypeOK'
  BY <1>1, <1>2 DEF Begin, TypeOK, rotationVars
<1>3. ASSUME NEW c \in Users, Try(c)
      PROVE  TypeOK'
  <2>1. selected \in Slots /\ selected # NoEntry
    BY DEF TypeOK, RotationTypeOK
  <2>2. /\ pc' = [pc EXCEPT ![c] = "trying"] /\ took' = [took EXCEPT ![c] = 0]
        /\ tried' = [tried EXCEPT ![c] = @ \cup {selected}]
        /\ tries' = tries /\ outcome' = outcome
    BY <1>3 DEF Try
  <2>3. pc' \in [Users -> {"idle", "current", "trying"}] /\ took' \in [Users -> 0 .. PerClient]
    BY <2>2 DEF TypeOK
  <2>4. tried' \in [Users -> SUBSET Slots] BY <2>1, <2>2 DEF TypeOK
  <2>5. /\ tries' \in [Users -> 0 .. Length]
        /\ outcome' \in [Users -> {"none", "answered", "unavailable", "gone"}]
    BY <2>2 DEF TypeOK
  <2>6. held' = [held EXCEPT ![c] = selected] /\ pc[c] = "current"
    BY <1>3 DEF Try, Current
  <2>7. \A d \in Users :
          /\ (held'[d] # NoEntry) <=> (pc'[d] = "trying")
          /\ pc'[d] # "idle" => tries'[d] < Length
    <3>1. \A d \in Users : d # c => held'[d] = held[d] /\ pc'[d] = pc[d]
      BY <2>2, <2>6 DEF TypeOK, RotationTypeOK
    <3>2. held'[c] = selected /\ pc'[c] = "trying"
      BY <2>2, <2>6 DEF TypeOK, RotationTypeOK
    <3>3. \A d \in Users :
            /\ (held[d] # NoEntry) <=> (pc[d] = "trying")
            /\ pc[d] # "idle" => tries[d] < Length
      BY DEF TypeOK
    <3>4. tries[c] < Length BY <2>6, <3>3
    <3> QED BY <2>1, <2>2, <3>1, <3>2, <3>3, <3>4
  <2>8. RotationTypeOK' BY <1>1
  <2> QED BY <2>3, <2>4, <2>5, <2>7, <2>8 DEF TypeOK
<1>4. ASSUME NEW c \in Users, Answer(c)
      PROVE  TypeOK'
  BY <1>1, <1>4 DEF Answer, Judge, Ended, TypeOK, RotationTypeOK
<1>5. ASSUME NEW c \in Users, Miss(c)
      PROVE  TypeOK'
  <2>1. tries[c] \in 0 .. Length /\ tries[c] < Length
    BY <1>5 DEF Miss, TypeOK
  <2>2. held' = [held EXCEPT ![c] = NoEntry] /\ tries' = [tries EXCEPT ![c] = @ + 1]
    BY <1>5 DEF Miss, Fail
  <2>3. tries' \in [Users -> 0 .. Length]
    BY <2>1, <2>2 DEF TypeOK
  <2>4. held \in [Users -> Slots \cup {NoEntry}]
    BY DEF TypeOK, RotationTypeOK
  <2>5. CASE tries[c] + 1 = Length
    <3>1. /\ pc' = [pc EXCEPT ![c] = "idle"]
          /\ outcome' = [outcome EXCEPT ![c] = "unavailable"]
          /\ took' = took /\ tried' = tried
      BY <1>5, <2>5 DEF Miss, Ended
    <3> QED BY <1>1, <2>2, <2>3, <2>4, <3>1 DEF TypeOK
  <2>6. CASE tries[c] + 1 # Length
    <3>1. /\ pc' = [pc EXCEPT ![c] = "current"]
          /\ outcome' = outcome /\ took' = took /\ tried' = tried
      BY <1>5, <2>6 DEF Miss
    <3> QED BY <1>1, <2>1, <2>2, <2>6, <2>3, <2>4, <3>1 DEF TypeOK
  <2> QED BY <2>5, <2>6
<1>6. ASSUME NEW c \in Users, HangUp(c)
      PROVE  TypeOK'
  BY <1>1, <1>6 DEF HangUp, Drop, Ended, TypeOK, RotationTypeOK
<1>7. CASE Tick
  <2>1. took' \in [Users -> 0 .. PerClient]
    BY <1>7 DEF Tick, TypeOK
  <2>2. UNCHANGED <<held, pc, tries, tried, outcome>>
    BY <1>7 DEF Tick, Pass
  <2> QED BY <1>1, <2>1, <2>2 DEF TypeOK
<1>8. CASE UNCHANGED vars
  BY <1>8 DEF vars, TypeOK, RotationTypeOK, SelectedInService
<1> QED BY <1>1, <1>2, <1>3, <1>4, <1>5, <1>6, <1>7, <1>8 DEF Next

LEMMA InitHolds == Init => TypeOK /\ SelectedInService
BY RotationInitHolds DEF Init, RotationInit, TypeOK

(* The types of failover's state hold, and no try is ever sent to a benched *)
(* client.                                                                  *)
THEOREM FailoverCorrect == Spec => [](TypeOK /\ SelectedInService)
<1>1. TypeOK /\ SelectedInService /\ [Next]_vars => TypeOK' /\ SelectedInService'
  BY TypeStep
<1> QED BY <1>1, InitHolds, PTL DEF Spec

(* Failover is a user of the rotation like any other: whatever calls it     *)
(* makes, in whatever order they land, is what Rotation allows its users;  *)
THEOREM FailoverRotates == Spec => RotationSpec
<1>1. Init => RotationInit BY DEF Init
<1>2. TypeOK /\ [Next]_vars => [RotationNext]_rotationVars BY FailoverStepIsRotationStep
<1> QED BY <1>1, <1>2, FailoverCorrect, PTL DEF Spec, RotationSpec

(* so its tries go to a benched client only when every other is benched,   *)
(* and then to the one benched longest.                                    *)
THEOREM FailoverGoesRound == Spec => LastResort /\ LongestBenchedFirst
BY FailoverRotates, NobodyElseIsLeft, LongestBenchedIsTaken, PTL

-----------------------------------------------------------------------------
(* The rest of the calls: a step that does not push h away, takes no tries *)
(* and starts no try keeps every call that it leaves alone on the way.     *)
LEMMA CallTypes ==
    ASSUME TypeOK, NEW h \in Slots
    PROVE  /\ Way(selected, h) \in Nat /\ Way(selected, h) < Length
           /\ \A c \in Users : pc[c] = "trying" => held[c] \in Slots /\ Way(held[c], h) \in Nat
           /\ \A c \in Users : tries[c] \in Nat /\ took[c] \in Nat
<1>1. selected \in Slots
  BY DEF TypeOK, RotationTypeOK
<1>2. ASSUME NEW c \in Users, pc[c] = "trying"
      PROVE  held[c] \in Slots
  <2>1. held[c] \in Slots \cup {NoEntry} /\ held[c] # NoEntry
    BY <1>2 DEF TypeOK, RotationTypeOK
  <2> QED BY <2>1
<1>3. \A c \in Users : tries[c] \in Nat /\ took[c] \in Nat
  BY DEF TypeOK
<1> QED BY <1>1, <1>2, <1>3, WayBounds

(* Call c ends or goes back for another client, with the selection no      *)
(* farther from h than before: the calls stay on their way, provided c is. *)
LEMMA EndingKeepsWay ==
    ASSUME TypeOK, TypeOK', NEW h \in Steady, OnTheWay(h), NEW c \in Users,
           score'[h] < BenchScore,
           Way(selected', h) <= Way(selected, h),
           \A d \in Users \ {c} :
               pc'[d] = pc[d] /\ held'[d] = held[d] /\ tries'[d] = tries[d] /\ took'[d] = took[d],
           pc'[c] # "trying",
           pc'[c] = "current" => Way(selected', h) + tries'[c] < Length
    PROVE  OnTheWay(h)'
<1>1. h \in Slots
  OBVIOUS
<1>2. Way(selected, h) \in Nat /\ Way(selected', h) \in Nat
  BY <1>1, WayBounds DEF TypeOK, RotationTypeOK
<1>3. ASSUME NEW d \in Users, d # c
      PROVE  /\ pc'[d] = "trying" /\ held'[d] = h => took'[d] < Punish
             /\ pc'[d] = "current" => Way(selected', h) + tries'[d] < Length
             /\ pc'[d] = "trying" =>
                   /\ Way(held'[d], h) + tries'[d] < Length
                   /\ Way(selected', h) <= Way(held'[d], h)
  <2>1. pc'[d] = pc[d] /\ held'[d] = held[d] /\ tries'[d] = tries[d] /\ took'[d] = took[d]
    BY <1>3
  <2>2. /\ pc[d] = "trying" => held[d] \in Slots /\ Way(held[d], h) \in Nat
        /\ tries[d] \in Nat
    BY <1>1, CallTypes
  <2> QED BY <1>2, <2>1, <2>2 DEF OnTheWay
<1> QED BY <1>3 DEF OnTheWay

LEMMA TryKeepsWay ==
    ASSUME TypeOK, NEW h \in Steady, OnTheWay(h), NEW c \in Users, Try(c)
    PROVE  OnTheWay(h)'
<1>1. /\ pc[c] = "current" /\ pc' = [pc EXCEPT ![c] = "trying"]
      /\ held' = [held EXCEPT ![c] = selected]
      /\ took' = [took EXCEPT ![c] = 0]
      /\ UNCHANGED <<selected, score, tries>>
  BY DEF Try, Current
<1>2. Way(selected, h) \in Int /\ 0 < Punish
  BY DEF TypeOK, RotationTypeOK, Way
<1>3. /\ pc \in [Users -> {"idle", "current", "trying"}]
      /\ held \in [Users -> Slots \cup {NoEntry}]
      /\ took \in [Users -> 0 .. PerClient]
  BY DEF TypeOK, RotationTypeOK
<1> QED BY <1>1, <1>2, <1>3 DEF OnTheWay

LEMMA AnswerKeepsWay ==
    ASSUME TypeOK, TypeOK', NEW h \in Steady, OnTheWay(h), NEW c \in Users, Answer(c)
    PROVE  OnTheWay(h)'
<1> DEFINE i == held[c]
           s == Verdict(score[i], took[c])
           sc == [score EXCEPT ![i] = s]
<1>1. /\ pc[c] = "trying" /\ pc' = [pc EXCEPT ![c] = "idle"]
      /\ held' = [held EXCEPT ![c] = NoEntry]
      /\ UNCHANGED <<tries, took>>
  BY DEF Answer, Judge, Ended
<1>2. /\ i \in Slots /\ took[c] \in Nat /\ s \in Nat /\ score \in [Slots -> Nat]
      /\ sc \in [Slots -> Nat] /\ sc[i] = s
  <2>1. i \in Slots /\ took[c] \in Nat
    BY <1>1, CallTypes
  <2>2. score \in [Slots -> Nat]
    BY DEF TypeOK, RotationTypeOK
  <2>3. s \in Nat
    BY <2>1, <2>2, VerdictType
  <2> QED BY <2>1, <2>2, <2>3
<1>3. Way(selected, h) \in Nat /\ Way(selected', h) \in Nat
  BY WayBounds DEF TypeOK, RotationTypeOK
<1>4. score'[h] < BenchScore /\ Way(selected', h) <= Way(selected, h)
  <2>1. CASE s < BenchScore
    <3>1. score' = sc /\ selected' = selected
      BY <1>2, <2>1 DEF Answer, Judge
    <3>2. score'[h] < BenchScore
      BY <1>2, <2>1, <3>1 DEF OnTheWay
    <3> QED BY <1>3, <3>1, <3>2
  <2>2. CASE ~(s < BenchScore)
    <3>1. i # h
      <4>1. SUFFICES ASSUME i = h PROVE s < BenchScore
        BY <2>2
      <4>2. took[c] < Punish /\ took[c] < Kill /\ score[h] < BenchScore
        BY <1>1, <1>2, <4>1 DEF OnTheWay
      <4>3. score[h] \in Nat
        BY <1>2
      <4> QED BY <1>2, <4>1, <4>2, <4>3 DEF Verdict
    <3>2. Bench(i, sc)
      BY <1>2, <2>2 DEF Answer, Judge
    <3>3. score[h] < BenchScore /\ RotationTypeOK
      BY DEF OnTheWay, TypeOK
    <3> HIDE DEF i, s
    <3>4. /\ score'[h] < BenchScore
          /\ i = selected => Way(selected', h) < Way(selected, h)
          /\ i # selected => selected' = selected
      BY <1>2, <3>1, <3>2, <3>3, BenchIsNearer
    <3> QED BY <1>3, <3>4
  <2> QED BY <2>1, <2>2
<1>5. /\ pc'[c] = "idle"
      /\ \A d \in Users \ {c} :
            pc'[d] = pc[d] /\ held'[d] = held[d] /\ tries'[d] = tries[d] /\ took'[d] = took[d]
  BY <1>1 DEF TypeOK, RotationTypeOK
<1> QED BY <1>4, <1>5, EndingKeepsWay

LEMMA MissKeepsWay ==
    ASSUME TypeOK, TypeOK', NEW h \in Steady, OnTheWay(h), NEW c \in Users, Miss(c)
    PROVE  OnTheWay(h)' /\ outcome' = outcome
<1> DEFINE i == held[c]
<1>1. /\ pc[c] = "trying" /\ i # h
      /\ held' = [held EXCEPT ![c] = NoEntry]
      /\ tries' = [tries EXCEPT ![c] = @ + 1]
      /\ took' = took
      /\ Bench(i, [score EXCEPT ![i] = BenchScore])
  BY DEF Miss, Fail
<1>2. /\ i \in Slots /\ Way(i, h) \in Nat /\ tries[c] \in Nat
      /\ Way(selected, h) \in Nat /\ Way(selected', h) \in Nat
  <2>1. h \in Slots /\ selected' \in Slots
    BY DEF TypeOK, RotationTypeOK
  <2> QED BY <1>1, <2>1, CallTypes, WayBounds
<1>3. /\ score'[h] < BenchScore
      /\ i = selected => Way(selected', h) < Way(selected, h)
      /\ i # selected => selected' = selected
  <2>1. score[h] < BenchScore /\ RotationTypeOK
    BY DEF OnTheWay, TypeOK
  <2> HIDE DEF i
  <2> QED BY <1>1, <1>2, <2>1, BenchIsNearer
<1>4. Way(i, h) + tries[c] < Length /\ Way(selected, h) <= Way(i, h)
  BY <1>1 DEF OnTheWay
<1>5. i # selected => Way(selected, h) # Way(i, h)
  BY <1>2, WayBounds DEF TypeOK, RotationTypeOK
<1> HIDE DEF i
<1>6. Way(selected', h) <= Way(selected, h) /\ Way(selected', h) < Way(i, h)
  BY <1>2, <1>3, <1>4, <1>5
<1>7. Way(selected', h) + tries[c] + 1 < Length
  BY <1>2, <1>4, <1>6
<1>8. /\ pc' = [pc EXCEPT ![c] = "current"]
      /\ outcome' = outcome
  BY <1>2, <1>7 DEF Miss
<1>9. /\ pc'[c] = "current" /\ tries'[c] = tries[c] + 1
      /\ \A d \in Users \ {c} :
            pc'[d] = pc[d] /\ held'[d] = held[d] /\ tries'[d] = tries[d] /\ took'[d] = took[d]
  BY <1>1, <1>8 DEF TypeOK, RotationTypeOK
<1>10. Way(selected', h) + tries'[c] < Length
  BY <1>2, <1>7, <1>9
<1> QED BY <1>3, <1>6, <1>8, <1>9, <1>10, EndingKeepsWay

LEMMA QuietKeepsWay ==
    ASSUME TypeOK, NEW h \in Steady, OnTheWay(h), NEW c \in Users,
           Begin(c) \/ HangUp(c)
    PROVE  OnTheWay(h)'
<1>1. CASE Begin(c)
  <2>1. Way(selected, h) < Length /\ Way(selected, h) \in Nat
    BY DEF TypeOK, RotationTypeOK, Way
  <2> QED BY <1>1, <2>1 DEF Begin, rotationVars, OnTheWay, TypeOK
<1>2. CASE HangUp(c)
  BY <1>2 DEF HangUp, Drop, Ended, OnTheWay, TypeOK, RotationTypeOK
<1> QED BY <1>1, <1>2

LEMMA TickKeepsWay ==
    ASSUME TypeOK, NEW h \in Steady, OnTheWay(h), Tick
    PROVE  OnTheWay(h)'
<1>1. /\ UNCHANGED <<selected, score, held, pc, tries>>
      /\ took' = [c \in Users |-> IF pc[c] = "trying" THEN took[c] + 1 ELSE took[c]]
      /\ \A c \in Users : pc[c] = "trying" /\ held[c] = h => took[c] + 1 < Punish
  BY DEF Tick, Pass
<1> QED BY <1>1 DEF OnTheWay

SteadyInv == (\A h \in Steady : OnTheWay(h)) /\ SteadyClientAnswers

LEMMA SteadyStep ==
    ASSUME TypeOK, SelectedInService, SteadyInv, [Next]_vars
    PROVE  SteadyInv'
<1>1. TypeOK'
  BY TypeStep
<1>2. ASSUME NEW h \in Steady
      PROVE  OnTheWay(h)'
  <2>1. OnTheWay(h)
    BY DEF SteadyInv
  <2>2. CASE UNCHANGED vars
    BY <2>1, <2>2 DEF vars, OnTheWay
  <2> QED BY <1>1, <2>1, <2>2, TryKeepsWay, AnswerKeepsWay, MissKeepsWay,
             QuietKeepsWay, TickKeepsWay DEF Next
<1>3. SteadyClientAnswers'
  <2>1. SUFFICES ASSUME NEW h \in Steady, NEW c \in Users
                 PROVE  outcome'[c] # "unavailable"
    BY DEF SteadyClientAnswers
  <2>2. OnTheWay(h) /\ outcome[c] # "unavailable"
    BY DEF SteadyInv, SteadyClientAnswers
  <2>3. outcome \in [Users -> {"none", "answered", "unavailable", "gone"}]
    BY DEF TypeOK
  <2>4. ASSUME NEW d \in Users, Miss(d)
        PROVE  outcome' = outcome
    BY <1>1, <2>2, <2>4, MissKeepsWay
  <2> QED BY <2>2, <2>3, <2>4
          DEF Next, vars, Begin, Try, Answer, HangUp, Ended, Tick
<1> QED BY <1>2, <1>3 DEF SteadyInv

LEMMA SteadyInitHolds == Init => SteadyInv
BY DEF Init, RotationInit, SteadyInv, OnTheWay, SteadyClientAnswers

(* However many callers share the rotation, and whatever becomes of the    *)
(* other clients, no call ends with "every client failed" while one client *)
(* always answers in good time.                                            *)
THEOREM FailoverFindsTheSteadyClient == Spec => []SteadyClientAnswers
<1>1. TypeOK /\ SelectedInService /\ SteadyInv /\ [Next]_vars => SteadyInv'
  BY SteadyStep
<1>2. SteadyInv => SteadyClientAnswers
  BY DEF SteadyInv
<1> QED BY <1>1, <1>2, SteadyInitHolds, FailoverCorrect, PTL DEF Spec
-----------------------------------------------------------------------------
(* The selection moves only off a slot it benches. *)
LEMMA BenchLeavesBenched ==
    ASSUME RotationTypeOK, NEW i \in Slots, NEW s \in Nat, s >= BenchScore,
           Bench(i, [score EXCEPT ![i] = s]), selected' # selected
    PROVE  age'[selected] = 0 /\ score'[selected] >= BenchScore
<1> DEFINE sc == [score EXCEPT ![i] = s]
           ag == [age EXCEPT ![i] = 0]
<1>1. i = selected /\ SelectNext(sc, ag) /\ age' = ag BY DEF Bench
<1>2. sc \in [Slots -> Nat] /\ sc[selected] = s /\ ag[selected] = 0
  BY <1>1 DEF RotationTypeOK
<1> HIDE DEF sc, ag
<1>3. PICK j \in Slots :
          /\ selected' = j
          /\ score' = [sc EXCEPT ![j] = IF @ >= BenchScore THEN 0 ELSE @]
  BY <1>1 DEF SelectNext
<1>4. j # selected BY <1>3
<1>5. score'[selected] = s BY <1>1, <1>2, <1>3, <1>4
<1> QED BY <1>1, <1>2, <1>5

(* A verdict on one client never takes the other callers off theirs.       *)
THEOREM SelectionIsLeft == Spec => OnlyBenchedIsLeft
<1> DEFINE Leaves == selected' # selected => age'[selected] = 0 /\ score'[selected] >= BenchScore
<1>1. ASSUME TypeOK, [Next]_vars PROVE Leaves
  <2> SUFFICES ASSUME selected' # selected
               PROVE  age'[selected] = 0 /\ score'[selected] >= BenchScore
    OBVIOUS
  <2>0. /\ RotationTypeOK /\ BenchScore \in Nat
        /\ \A c \in Users : took[c] \in Nat /\ (held[c] # NoEntry => held[c] \in Slots)
    BY <1>1 DEF TypeOK, RotationTypeOK
  <2>1. ASSUME NEW c \in Users, Fail(c)
        PROVE  age'[selected] = 0 /\ score'[selected] >= BenchScore
    <3>1. held[c] \in Slots BY <2>0, <2>1 DEF Fail
    <3>2. Bench(held[c], [score EXCEPT ![held[c]] = BenchScore]) BY <2>1 DEF Fail
    <3> QED BY <2>0, <3>1, <3>2, BenchLeavesBenched
  <2>2. ASSUME NEW c \in Users, Judge(c, took[c])
        PROVE  age'[selected] = 0 /\ score'[selected] >= BenchScore
    <3> DEFINE i == held[c]
               s == Verdict(score[i], took[c])
               sc == [score EXCEPT ![i] = s]
    <3>1. i \in Slots /\ score \in [Slots -> Nat] BY <2>0, <2>2 DEF Judge, RotationTypeOK
    <3>2. s \in Nat BY <2>0, <3>1, VerdictType
    <3>3. sc[i] = s BY <3>1
    <3>4. ~ (sc[i] < BenchScore) /\ Bench(i, sc) BY <2>2 DEF Judge
    <3>5. s >= BenchScore BY <2>0, <3>2, <3>3, <3>4
    <3> HIDE DEF s, i
    <3> QED BY <2>0, <3>1, <3>2, <3>4, <3>5, BenchLeavesBenched
  <2>3. \A c \in Users : ~Begin(c) /\ ~Try(c) /\ ~HangUp(c)
    BY DEF Begin, Try, Current, HangUp, Drop, rotationVars
  <2>4. ~Tick /\ ~UNCHANGED vars BY DEF Tick, Pass, vars
  <2>5. Next BY <1>1, <2>4
  <2>6. \E c \in Users : Answer(c) \/ Miss(c) BY <2>3, <2>4, <2>5 DEF Next
  <2> QED BY <2>1, <2>2, <2>6 DEF Answer, Miss
<1> HIDE DEF Leaves
<1>2. Spec => [][Leaves]_vars BY <1>1, FailoverCorrect, PTL DEF Spec
<1> QED BY <1>2 DEF OnlyBenchedIsLeft, Leaves
=============================================================================
