------------------------------ MODULE Rotation ------------------------------
(***************************************************************************)
(* The rotation of shared/rotation.go: a ring of interchangeable clients,  *)
(* one of which is selected.  Slow or failing clients gather a score, are  *)
(* benched at BenchScore and sit out their parole.                         *)
(*                                                                         *)
(* Every method holds the rotation's lock for its whole body, so each is   *)
(* one action.  Users hold the Entry that Current handed them while their  *)
(* call is under way, so a verdict may land long after the selection has   *)
(* moved on.                                                               *)
(*                                                                         *)
(* Time: the code keeps the instant a slot was benched and compares        *)
(* now - benched with the parole.  Only that difference matters, so the    *)
(* model keeps it as an age that counts ticks and stops at Parole; a slot  *)
(* that was never benched (Go's zero time) is as old as can be.            *)
(***************************************************************************)
EXTENDS Integers, FiniteSets

CONSTANTS
    Length,         \* len(slots)
    BenchScore,     \* benchScore, 10 in the code
    Reward, Punish, Kill, Parole,   \* RotationPolicy, in ticks
    Latencies,      \* the latencies a call may be judged on, in ticks
    Users,          \* the goroutines calling the rotation
    NoEntry         \* held by a user with no call under way

Slots == 0 .. (Length - 1)

(* What NewRotation refuses to build a rotation without. *)
ASSUME RotationAssumption ==
    /\ Length \in Nat \ {0}
    /\ BenchScore \in Nat \ {0}
    /\ Reward \in Nat /\ Punish \in Nat /\ Kill \in Nat
    /\ Reward <= Punish /\ Punish <= Kill
    /\ Parole \in Nat \ {0}
    /\ Latencies \subseteq Nat
    /\ NoEntry \notin Slots

VARIABLES
    selected,       \* index of the selected slot
    score,          \* slot.score
    age,            \* ticks since slot.benched, stopping at Parole
    held            \* the entry each user got from Current

rotationVars == <<selected, score, age, held>>

RotationInit ==
    /\ selected = 0
    /\ score = [i \in Slots |-> 0]
    /\ age = [i \in Slots |-> Parole]
    /\ held = [u \in Users |-> NoEntry]

-----------------------------------------------------------------------------
Ahead(k) == (selected + k) % Length

(* A slot next() stops at: not benched, or its parole is served. *)
Eligible(i, sc, ag) == sc[i] < BenchScore \/ ag[i] >= Parole

(* Mutant: the next slot, on the bench or not. *)
FirstEligibleUnchecked(j, sc, ag) == j = Ahead(1)

(* The first eligible slot after the selected one, which comes last. *)
FirstEligible(j, sc, ag) ==
    \E k \in 1 .. Length :
        /\ j = Ahead(k)
        /\ Eligible(j, sc, ag)
        /\ \A m \in 1 .. (k - 1) : ~Eligible(Ahead(m), sc, ag)

(* Mutant: the slot benched last. *)
FreshestBenched(j, ag) ==
    \A i \in Slots : ag[i] > ag[j] \/ (ag[i] = ag[j] /\ j <= i)

(* The slot benched longest, the lowest index among equals. *)
Stalest(j, ag) ==
    \A i \in Slots : ag[i] < ag[j] \/ (ag[i] = ag[j] /\ j <= i)

(* Mutant: the slot is taken back with its score as it was. *)
SelectNextKeepsScore(sc, ag) ==
    \E j \in Slots :
        /\ \/ FirstEligible(j, sc, ag)
           \/ (\A i \in Slots : ~Eligible(i, sc, ag)) /\ Stalest(j, ag)
        /\ selected' = j
        /\ score' = sc

(* next(): the selection moves and a benched slot it lands on is cleared. *)
SelectNext(sc, ag) ==
    \E j \in Slots :
        /\ \/ FirstEligible(j, sc, ag)
           \/ (\A i \in Slots : ~Eligible(i, sc, ag)) /\ Stalest(j, ag)
        /\ selected' = j
        /\ score' = [sc EXCEPT ![j] = IF @ >= BenchScore THEN 0 ELSE @]

(* Mutant: a late verdict moves the selection on as well. *)
BenchAlwaysMoves(i, sc) ==
    /\ age' = [age EXCEPT ![i] = 0]
    /\ SelectNext(sc, [age EXCEPT ![i] = 0])

(* The slot is benched now; only the selected slot hands over. *)
Bench(i, sc) ==
    /\ age' = [age EXCEPT ![i] = 0]
    /\ IF i = selected
       THEN SelectNext(sc, [age EXCEPT ![i] = 0])
       ELSE score' = sc /\ UNCHANGED selected

(* Mutant: no floor under the reward. *)
VerdictNoFloor(s, latency) ==
    IF latency >= Kill THEN BenchScore
    ELSE IF latency <= Reward THEN s - 1
    ELSE IF latency >= Punish THEN s + 2
    ELSE s

(* Judge's switch, first case first. *)
Verdict(s, latency) ==
    IF latency >= Kill THEN BenchScore
    ELSE IF latency <= Reward THEN (IF s > 0 THEN s - 1 ELSE 0)
    ELSE IF latency >= Punish THEN s + 2
    ELSE s

-----------------------------------------------------------------------------
Current(u) ==
    /\ held[u] = NoEntry
    /\ held' = [held EXCEPT ![u] = selected]
    /\ UNCHANGED <<selected, score, age>>

Judge(u, latency) ==
    /\ held[u] # NoEntry
    /\ held' = [held EXCEPT ![u] = NoEntry]
    /\ LET sc == [score EXCEPT ![held[u]] = Verdict(@, latency)]
       IN  IF sc[held[u]] < BenchScore
           THEN score' = sc /\ UNCHANGED <<selected, age>>
           ELSE Bench(held[u], sc)

Fail(u) ==
    /\ held[u] # NoEntry
    /\ held' = [held EXCEPT ![u] = NoEntry]
    /\ Bench(held[u], [score EXCEPT ![held[u]] = BenchScore])

(* A call abandoned by its own caller: no verdict reaches the rotation. *)
Drop(u) ==
    /\ held[u] # NoEntry
    /\ held' = [held EXCEPT ![u] = NoEntry]
    /\ UNCHANGED <<selected, score, age>>

Rotate ==
    /\ SelectNext(score, age)
    /\ UNCHANGED <<age, held>>

AgeAll == age' = [i \in Slots |-> IF age[i] < Parole THEN age[i] + 1 ELSE Parole]

Pass ==
    /\ AgeAll
    /\ UNCHANGED <<selected, score, held>>

RotationNext ==
    \/ \E u \in Users : Current(u) \/ Fail(u) \/ Drop(u)
    \/ \E u \in Users, latency \in Latencies : Judge(u, latency)
    \/ Rotate
    \/ Pass

RotationSpec == RotationInit /\ [][RotationNext]_rotationVars

-----------------------------------------------------------------------------
(* Scores are never negative and every entry held is a slot's. *)
RotationTypeOK ==
    /\ selected \in Slots
    /\ score \in [Slots -> Nat]
    /\ age \in [Slots -> 0 .. Parole]
    /\ held \in [Users -> Slots \cup {NoEntry}]

(* Requests are never sent to a benched client: whatever verdicts land on   *)
(* whichever slot, the selected slot's score stays under the bench.        *)
SelectedInService == score[selected] < BenchScore

(* The selection is handed to a slot still on the bench, its parole not    *)
(* served, only when every other slot is there too (next()'s fallback).    *)
LastResort ==
    [][\A j \in Slots :
          (score[j] >= BenchScore /\ age[j] < Parole /\ selected' = j) =>
          \A i \in Slots : i # selected => score[i] >= BenchScore /\ age[i] < Parole
      ]_rotationVars

(* The last resort goes round: a slot taken back before its parole has     *)
(* been on the bench at least as long as every other slot.                 *)
LongestBenchedFirst ==
    [][\A j \in Slots :
          (score[j] >= BenchScore /\ age[j] < Parole /\ selected' = j) =>
          \A i \in Slots : i # selected => age[i] <= age[j]
      ]_rotationVars
=============================================================================
