--------------------------- MODULE RotationProofs ---------------------------
(***************************************************************************)
(* For every number of slots, policy, set of latencies and set of users:   *)
(* the rotation's types hold and the selected slot is never a benched one; *)
(* and next(), which goes round the ring and stops at the first slot in    *)
(* service, never jumps over one.                                          *)
(***************************************************************************)
EXTENDS Rotation, TLAPS

USE RotationAssumption DEF Slots

(* The k-th slot after the selected one, without the remainder. *)
LEMMA AheadWraps ==
    ASSUME selected \in Slots, NEW k \in 1 .. Length
    PROVE  /\ Ahead(k) = IF selected + k < Length THEN selected + k
                                                  ELSE selected + k - Length
           /\ Ahead(k) \in Slots
<1>1. CASE selected + k < Length
  <2>1. (selected + k) % Length = selected + k
    BY <1>1
  <2> QED BY <1>1, <2>1 DEF Ahead
<1>2. CASE ~(selected + k < Length)
  <2> DEFINE x == selected + k - Length
  <2>1. x \in 0 .. (Length - 1)
    BY <1>2
  <2>2. (x + Length) % Length = x
    <3> HIDE DEF x
    <3> QED BY <2>1
  <2>3. x + Length = selected + k
    OBVIOUS
  <2>4. Ahead(k) = x
    BY <2>2, <2>3 DEF Ahead
  <2> QED BY <1>2, <2>1, <2>4
<1> QED BY <1>1, <1>2

(* next() lands on a slot of the ring and leaves it in service. *)
LEMMA SelectNextLands ==
    ASSUME selected \in Slots,
           NEW sc \in [Slots -> Nat], NEW ag \in [Slots -> 0 .. Parole],
           SelectNext(sc, ag)
    PROVE  /\ selected' \in Slots
           /\ score' \in [Slots -> Nat]
           /\ score'[selected'] < BenchScore
<1>1. PICK j \in Slots :
          /\ selected' = j
          /\ score' = [sc EXCEPT ![j] = IF @ >= BenchScore THEN 0 ELSE @]
  BY DEF SelectNext
<1> QED BY <1>1

(* Benching any slot keeps the selected one in service. *)
LEMMA BenchKeeps ==
    ASSUME RotationTypeOK, SelectedInService,
           NEW i \in Slots, NEW s \in Nat,
           Bench(i, [score EXCEPT ![i] = s])
    PROVE  /\ selected' \in Slots
           /\ score' \in [Slots -> Nat]
           /\ age' \in [Slots -> 0 .. Parole]
           /\ SelectedInService'
<1> DEFINE sc == [score EXCEPT ![i] = s]
           ag == [age EXCEPT ![i] = 0]
<1>1. sc \in [Slots -> Nat] /\ ag \in [Slots -> 0 .. Parole] /\ age' = ag
  BY DEF RotationTypeOK, Bench
<1>2. CASE i = selected
  <2>1. SelectNext(sc, ag)
    BY <1>2 DEF Bench
  <2>2. selected \in Slots
    BY DEF RotationTypeOK
  <2> HIDE DEF sc, ag
  <2> QED BY <1>1, <2>1, <2>2, SelectNextLands DEF SelectedInService
<1>3. CASE i # selected
  <2>1. score' = sc /\ selected' = selected
    BY <1>3 DEF Bench
  <2> QED BY <1>1, <1>3, <2>1 DEF RotationTypeOK, SelectedInService
<1> QED BY <1>2, <1>3

LEMMA VerdictType ==
    ASSUME NEW s \in Nat, NEW latency \in Nat
    PROVE  Verdict(s, latency) \in Nat
BY DEF Verdict

LEMMA JudgeKeeps ==
    ASSUME RotationTypeOK, SelectedInService,
           NEW u \in Users, NEW latency \in Latencies, Judge(u, latency)
    PROVE  RotationTypeOK' /\ SelectedInService'
<1> DEFINE i == held[u]
           s == Verdict(score[i], latency)
           sc == [score EXCEPT ![i] = s]
<1>1. i \in Slots /\ held' \in [Users -> Slots \cup {NoEntry}]
  BY DEF RotationTypeOK, Judge
<1>2. s \in Nat
  BY <1>1, VerdictType DEF RotationTypeOK
<1>3. sc \in [Slots -> Nat] /\ sc[i] = s
  BY <1>1, <1>2 DEF RotationTypeOK
<1>4. CASE s < BenchScore
  <2>1. score' = sc /\ selected' = selected /\ age' = age
    BY <1>3, <1>4 DEF Judge
  <2>2. score'[selected] < BenchScore
    BY <2>1, <1>1, <1>2, <1>4 DEF RotationTypeOK, SelectedInService
  <2> QED BY <1>1, <1>3, <2>1, <2>2 DEF RotationTypeOK, SelectedInService
<1>5. CASE ~(s < BenchScore)
  <2>1. Bench(i, sc)
    BY <1>3, <1>5 DEF Judge
  <2>2. /\ selected' \in Slots /\ score' \in [Slots -> Nat]
        /\ age' \in [Slots -> 0 .. Parole] /\ SelectedInService'
    <3> HIDE DEF i, s
    <3> QED BY <1>1, <1>2, <2>1, BenchKeeps
  <2> QED BY <1>1, <2>2 DEF RotationTypeOK
<1> QED BY <1>4, <1>5

LEMMA FailKeeps ==
    ASSUME RotationTypeOK, SelectedInService, NEW u \in Users, Fail(u)
    PROVE  RotationTypeOK' /\ SelectedInService'
<1>1. held[u] \in Slots /\ held' \in [Users -> Slots \cup {NoEntry}]
  BY DEF RotationTypeOK, Fail
<1>2. Bench(held[u], [score EXCEPT ![held[u]] = BenchScore])
  BY DEF Fail
<1>3. /\ selected' \in Slots /\ score' \in [Slots -> Nat]
      /\ age' \in [Slots -> 0 .. Parole] /\ SelectedInService'
  BY <1>1, <1>2, BenchKeeps
<1> QED BY <1>1, <1>3 DEF RotationTypeOK

LEMMA RotationStepKeeps ==
    ASSUME RotationTypeOK, SelectedInService, [RotationNext]_rotationVars
    PROVE  RotationTypeOK' /\ SelectedInService'
<1>1. ASSUME NEW u \in Users, Current(u)
      PROVE  RotationTypeOK' /\ SelectedInService'
  BY <1>1 DEF Current, RotationTypeOK, SelectedInService
<1>2. ASSUME NEW u \in Users, Drop(u)
      PROVE  RotationTypeOK' /\ SelectedInService'
  BY <1>2 DEF Drop, RotationTypeOK, SelectedInService
<1>3. CASE Rotate
  <2>1. SelectNext(score, age) /\ age' = age /\ held' = held
    BY <1>3 DEF Rotate
  <2>2. selected' \in Slots /\ score' \in [Slots -> Nat] /\ score'[selected'] < BenchScore
    BY <2>1, SelectNextLands DEF RotationTypeOK
  <2> QED BY <2>1, <2>2 DEF RotationTypeOK, SelectedInService
<1>4. CASE Pass
  BY <1>4 DEF Pass, AgeAll, RotationTypeOK, SelectedInService
<1>5. CASE UNCHANGED rotationVars
  BY <1>5 DEF rotationVars, RotationTypeOK, SelectedInService
<1> QED BY <1>1, <1>2, <1>3, <1>4, <1>5, JudgeKeeps, FailKeeps DEF RotationNext

LEMMA RotationInitHolds == RotationInit => RotationTypeOK /\ SelectedInService
BY DEF RotationInit, RotationTypeOK, SelectedInService

(* Whatever verdicts arrive, in whatever order and however late, requests  *)
(* are never sent to a benched client.                                     *)
THEOREM RotationCorrect == RotationSpec => [](RotationTypeOK /\ SelectedInService)
<1>1. RotationTypeOK /\ SelectedInService /\ [RotationNext]_rotationVars
      => RotationTypeOK' /\ SelectedInService'
  BY RotationStepKeeps
<1> QED BY <1>1, RotationInitHolds, PTL DEF RotationSpec

-----------------------------------------------------------------------------
(* Slots to pass from slot i to slot h, going round. *)
Way(i, h) == IF i <= h THEN h - i ELSE h - i + Length

LEMMA WayBounds ==
    ASSUME NEW i \in Slots, NEW h \in Slots
    PROVE  /\ Way(i, h) \in Nat /\ Way(i, h) < Length
           /\ \A j \in Slots : Way(j, h) = Way(i, h) => j = i
BY DEF Way

(* Going round the ring by at most the way to h shortens it by as much. *)
LEMMA AheadIsNearer ==
    ASSUME selected \in Slots, NEW h \in Slots, NEW k \in 1 .. Length,
           k <= Way(selected, h)
    PROVE  Way(Ahead(k), h) = Way(selected, h) - k
BY AheadWraps DEF Way

(* next() does not jump over a slot in service. *)
LEMMA SelectNextIsNearer ==
    ASSUME selected \in Slots,
           NEW sc \in [Slots -> Nat], NEW ag \in [Slots -> 0 .. Parole],
           NEW h \in Slots, h # selected, sc[h] < BenchScore,
           SelectNext(sc, ag)
    PROVE  Way(selected', h) < Way(selected, h) /\ score'[h] < BenchScore
<1> DEFINE d == Way(selected, h)
<1>1. d \in 1 .. Length /\ d < Length
  BY DEF Way
<1>2. Ahead(d) = h
  BY <1>1, AheadWraps DEF Way
<1>3. Eligible(h, sc, ag)
  BY DEF Eligible
<1>4. PICK j \in Slots :
          /\ FirstEligible(j, sc, ag)
          /\ selected' = j
          /\ score' = [sc EXCEPT ![j] = IF @ >= BenchScore THEN 0 ELSE @]
  BY <1>3 DEF SelectNext
<1>5. PICK k \in 1 .. Length :
          j = Ahead(k) /\ \A m \in 1 .. (k - 1) : ~Eligible(Ahead(m), sc, ag)
  BY <1>4 DEF FirstEligible
<1>6. k <= d
  <2>1. SUFFICES ASSUME d \in 1 .. (k - 1) PROVE FALSE
    BY <1>1
  <2> HIDE DEF d
  <2>2. ~Eligible(Ahead(d), sc, ag)
    BY <1>5, <2>1
  <2> QED BY <1>2, <1>3, <2>2
<1>7. Way(j, h) = d - k
  BY <1>5, <1>6, AheadIsNearer
<1>8. score'[h] < BenchScore
  BY <1>4
<1>9. Way(selected', h) = d - k
  BY <1>4, <1>7
<1> HIDE DEF d
<1>10. Way(selected', h) < d
  BY <1>1, <1>9
<1> QED BY <1>8, <1>10 DEF d

(* Benching a slot other than h brings the selection nearer to h if it was *)
(* the selected one, and moves nothing otherwise.                          *)
LEMMA BenchIsNearer ==
    ASSUME RotationTypeOK, NEW h \in Slots, score[h] < BenchScore,
           NEW i \in Slots, i # h, NEW s \in Nat,
           Bench(i, [score EXCEPT ![i] = s])
    PROVE  /\ score'[h] < BenchScore
           /\ i = selected => Way(selected', h) < Way(selected, h)
           /\ i # selected => selected' = selected
<1> DEFINE sc == [score EXCEPT ![i] = s]
           ag == [age EXCEPT ![i] = 0]
<1>1. /\ sc \in [Slots -> Nat] /\ ag \in [Slots -> 0 .. Parole]
      /\ sc[h] < BenchScore
  BY DEF RotationTypeOK
<1>2. CASE i = selected
  <2>1. SelectNext(sc, ag) /\ selected \in Slots /\ h # selected
    BY <1>2 DEF Bench, RotationTypeOK
  <2> HIDE DEF sc, ag
  <2> QED BY <1>1, <1>2, <2>1, SelectNextIsNearer
<1>3. CASE i # selected
  BY <1>1, <1>3 DEF Bench
<1> QED BY <1>2, <1>3
-----------------------------------------------------------------------------
(* A slot still on the bench is only taken if all are, and then as Stalest. *)
LEMMA SelectNextLast ==
    ASSUME NEW sc \in [Slots -> Nat], NEW ag \in [Slots -> 0 .. Parole],
           NEW j \in Slots, sc[j] >= BenchScore, ag[j] < Parole, selected' = j,
           SelectNext(sc, ag)
    PROVE  \A i \in Slots : sc[i] >= BenchScore /\ ag[i] < Parole /\ ag[i] <= ag[j]
<1>1. ~Eligible(j, sc, ag) BY DEF Eligible
<1>2. (\A i \in Slots : ~Eligible(i, sc, ag)) /\ Stalest(j, ag)
  BY <1>1 DEF SelectNext, FirstEligible
<1>3. \A i \in Slots : sc[i] >= BenchScore /\ ag[i] < Parole BY <1>2 DEF Eligible
<1>4. \A i \in Slots : ag[i] <= ag[j] BY <1>2 DEF Stalest
<1> QED BY <1>3, <1>4

LEMMA BenchIsLast ==
    ASSUME RotationTypeOK, NEW i \in Slots, NEW s \in Nat,
           NEW j \in Slots, j # selected, score[j] >= BenchScore, age[j] < Parole,
           selected' = j, Bench(i, [score EXCEPT ![i] = s])
    PROVE  \A k \in Slots : k # selected =>
              score[k] >= BenchScore /\ age[k] < Parole /\ age[k] <= age[j]
<1> DEFINE sc == [score EXCEPT ![i] = s]
           ag == [age EXCEPT ![i] = 0]
<1>1. i = selected /\ SelectNext(sc, ag) BY DEF Bench
<1>2. sc \in [Slots -> Nat] /\ ag \in [Slots -> 0 .. Parole] BY DEF RotationTypeOK
<1>3. \A k \in Slots : k # selected => sc[k] = score[k] /\ ag[k] = age[k]
  BY <1>1 DEF RotationTypeOK
<1> HIDE DEF sc, ag
<1>4. \A k \in Slots : sc[k] >= BenchScore /\ ag[k] < Parole /\ ag[k] <= ag[j]
  BY <1>1, <1>2, <1>3, SelectNextLast
<1> QED BY <1>3, <1>4

LEMMA StepIsLast ==
    ASSUME RotationTypeOK, SelectedInService, [RotationNext]_rotationVars,
           NEW j \in Slots, score[j] >= BenchScore, age[j] < Parole, selected' = j
    PROVE  \A i \in Slots : i # selected =>
              score[i] >= BenchScore /\ age[i] < Parole /\ age[i] <= age[j]
<1> DEFINE Last == \A i \in Slots : i # selected =>
                     score[i] >= BenchScore /\ age[i] < Parole /\ age[i] <= age[j]
<1>0. j # selected /\ selected' # selected BY DEF SelectedInService, RotationTypeOK
<1>1. ASSUME NEW u \in Users, Fail(u) PROVE Last
  <2>1. held[u] \in Slots /\ Bench(held[u], [score EXCEPT ![held[u]] = BenchScore])
    BY <1>1 DEF Fail, RotationTypeOK
  <2> QED BY <1>0, <2>1, BenchIsLast
<1>2. ASSUME NEW u \in Users, NEW latency \in Latencies, Judge(u, latency) PROVE Last
  <2> DEFINE s == Verdict(score[held[u]], latency)
  <2>1. held[u] \in Slots /\ s \in Nat
    BY <1>2, VerdictType DEF Judge, RotationTypeOK
  <2>2. Bench(held[u], [score EXCEPT ![held[u]] = s]) BY <1>0, <1>2 DEF Judge
  <2> HIDE DEF s
  <2> QED BY <1>0, <2>1, <2>2, BenchIsLast
<1>3. ASSUME Rotate PROVE Last
  <2>1. SelectNext(score, age) BY <1>3 DEF Rotate
  <2> QED BY <2>1, SelectNextLast DEF RotationTypeOK
<1>4. \A u \in Users : ~Current(u) /\ ~Drop(u) BY <1>0 DEF Current, Drop
<1>5. ~Pass /\ ~UNCHANGED rotationVars BY <1>0 DEF Pass, rotationVars
<1> HIDE DEF Last
<1>6. Last BY <1>1, <1>2, <1>3, <1>4, <1>5 DEF RotationNext
<1> QED BY <1>6 DEF Last

(* next() falls back on a slot whose parole is not served only when every  *)
(* other is on the bench too.                                              *)
THEOREM NobodyElseIsLeft == RotationSpec => LastResort
<1> DEFINE Step == \A j \in Slots :
                      (score[j] >= BenchScore /\ age[j] < Parole /\ selected' = j) =>
                      \A i \in Slots : i # selected => score[i] >= BenchScore /\ age[i] < Parole
<1>1. RotationTypeOK /\ SelectedInService /\ [RotationNext]_rotationVars => Step
  BY StepIsLast
<1> HIDE DEF Step
<1>2. RotationSpec => [][Step]_rotationVars
  BY <1>1, RotationCorrect, PTL DEF RotationSpec
<1> QED BY <1>2 DEF LastResort, Step

(* And it falls back on one that was benched no later than any other.      *)
THEOREM LongestBenchedIsTaken == RotationSpec => LongestBenchedFirst
<1> DEFINE Step == \A j \in Slots :
                      (score[j] >= BenchScore /\ age[j] < Parole /\ selected' = j) =>
                      \A i \in Slots : i # selected => age[i] <= age[j]
<1>1. RotationTypeOK /\ SelectedInService /\ [RotationNext]_rotationVars => Step
  BY StepIsLast
<1> HIDE DEF Step
<1>2. RotationSpec => [][Step]_rotationVars
  BY <1>1, RotationCorrect, PTL DEF RotationSpec
<1> QED BY <1>2 DEF LongestBenchedFirst, Step
=============================================================================
