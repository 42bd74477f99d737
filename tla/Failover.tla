------------------------------ MODULE Failover ------------------------------
(***************************************************************************)
(* failover() of llm/server/speech.go, the loop behind Transcribe and      *)
(* Speak: one try per client of the rotation, each cut off after           *)
(* perClient.  gRPC runs every call in its own goroutine, so several       *)
(* callers walk the same rotation at once, and between a caller's Fail and *)
(* its next Current the others' verdicts land.                             *)
(*                                                                         *)
(* The users of the Rotation are the callers.  A try lasts at least one    *)
(* tick, the unit of time being shorter than any network call, and at most *)
(* PerClient, where its context ends it.                                   *)
(***************************************************************************)
EXTENDS Rotation

CONSTANTS
    PerClient,      \* perClient, in ticks
    Steady          \* clients that always answer, and sooner than Punish

ASSUME FailoverAssumption ==
    /\ PerClient \in Nat \ {0}
    /\ 1 .. PerClient \subseteq Latencies
    /\ Steady \subseteq Slots
    /\ Steady # {} => Punish > 1 /\ PerClient >= Punish

VARIABLES
    pc,         \* where each call is: "idle", before Current, or in try()
    tries,      \* tries the call has lost so far, the loop's counter
    took,       \* ticks since the current try started
    tried,      \* the clients this call has tried (history)
    outcome     \* how the caller's latest call ended

callVars == <<pc, tries, took, tried, outcome>>
vars == <<selected, score, age, held, pc, tries, took, tried, outcome>>

Init ==
    /\ RotationInit
    /\ pc = [c \in Users |-> "idle"]
    /\ tries = [c \in Users |-> 0]
    /\ took = [c \in Users |-> 0]
    /\ tried = [c \in Users |-> {}]
    /\ outcome = [c \in Users |-> "none"]

-----------------------------------------------------------------------------
(* Transcribe or Speak enters the loop. *)
Begin(c) ==
    /\ pc[c] = "idle"
    /\ pc' = [pc EXCEPT ![c] = "current"]
    /\ tries' = [tries EXCEPT ![c] = 0]
    /\ tried' = [tried EXCEPT ![c] = {}]
    /\ outcome' = [outcome EXCEPT ![c] = "none"]
    /\ UNCHANGED <<rotationVars, took>>

(* entry := rotation.Current(), and the try starts. *)
Try(c) ==
    /\ pc[c] = "current"
    /\ Current(c)
    /\ pc' = [pc EXCEPT ![c] = "trying"]
    /\ took' = [took EXCEPT ![c] = 0]
    /\ tried' = [tried EXCEPT ![c] = @ \cup {selected}]
    /\ UNCHANGED <<tries, outcome>>

Ended(c, how) ==
    /\ pc' = [pc EXCEPT ![c] = "idle"]
    /\ outcome' = [outcome EXCEPT ![c] = how]

(* The client answers: the call is judged on how long that took. *)
Answer(c) ==
    /\ pc[c] = "trying" /\ took[c] >= 1
    /\ Judge(c, took[c])
    /\ Ended(c, "answered")
    /\ UNCHANGED <<tries, took, tried>>

(* Mutant: a client that failed is retried, not failed and not counted. *)
MissRetried(c) ==
    /\ pc[c] = "trying" /\ took[c] >= 1
    /\ held[c] \notin Steady
    /\ Drop(c)
    /\ pc' = [pc EXCEPT ![c] = "current"]
    /\ UNCHANGED <<tries, outcome, took, tried>>

(* The client errors or runs into perClient, and the caller is still there. *)
Miss(c) ==
    /\ pc[c] = "trying" /\ took[c] >= 1
    /\ held[c] \notin Steady
    /\ Fail(c)
    /\ tries' = [tries EXCEPT ![c] = @ + 1]
    /\ IF tries[c] + 1 = Length
       THEN Ended(c, "unavailable")
       ELSE pc' = [pc EXCEPT ![c] = "current"] /\ UNCHANGED outcome
    /\ UNCHANGED <<took, tried>>

(* The caller hangs up or its whole budget is spent: no verdict. *)
HangUp(c) ==
    /\ pc[c] = "trying"
    /\ Drop(c)
    /\ Ended(c, "gone")
    /\ UNCHANGED <<tries, took, tried>>

(* A tick: no try outlives perClient, and a steady client does not get     *)
(* as far as Punish.                                                       *)
Tick ==
    /\ \A c \in Users : pc[c] = "trying" =>
          /\ took[c] < PerClient
          /\ held[c] \in Steady => took[c] + 1 < Punish
    /\ Pass
    /\ took' = [c \in Users |-> IF pc[c] = "trying" THEN took[c] + 1 ELSE took[c]]
    /\ UNCHANGED <<pc, tries, tried, outcome>>

Next ==
    \/ \E c \in Users : Begin(c) \/ Try(c) \/ Answer(c) \/ Miss(c) \/ HangUp(c)
    \/ Tick

Spec == Init /\ [][Next]_vars

(* Goroutines are scheduled, time passes and perClient ends every try;     *)
(* nobody has to call, and nobody has to hang up.                          *)
Fairness ==
    /\ WF_vars(Tick)
    /\ \A c \in Users : WF_vars(Try(c)) /\ WF_vars(Answer(c) \/ Miss(c))

FairSpec == Spec /\ Fairness

-----------------------------------------------------------------------------
(* Calls, entries and counters have their types, and a call holds an entry *)
(* exactly while it is trying one.                                         *)
TypeOK ==
    /\ RotationTypeOK
    /\ pc \in [Users -> {"idle", "current", "trying"}]
    /\ tries \in [Users -> 0 .. Length]
    /\ took \in [Users -> 0 .. PerClient]
    /\ tried \in [Users -> SUBSET Slots]
    /\ outcome \in [Users -> {"none", "answered", "unavailable", "gone"}]
    /\ \A c \in Users :
          /\ (held[c] # NoEntry) <=> (pc[c] = "trying")
          /\ pc[c] # "idle" => tries[c] < Length

(* failover() gives up only when it should: as long as one client always   *)
(* answers in good time, no call ends with "every client failed", however  *)
(* many callers bench, parole and judge the other clients meanwhile.       *)
SteadyClientAnswers ==
    Steady # {} => \A c \in Users : outcome[c] # "unavailable"

(* "gives each client in the rotation one try": a call that is trying a    *)
(* client has not spent a try on that client before.                       *)
OneTryEach ==
    \A c \in Users : pc[c] = "trying" => Cardinality(tried[c]) = tries[c] + 1

(* "how long a benched entry sits out before it is tried again": a slot    *)
(* comes back into service when its parole is served, or as the last       *)
(* resort, taken up by the selection.                                      *)
SitsOutParole ==
    [][\A i \in Slots :
          (score[i] >= BenchScore /\ score'[i] < BenchScore) =>
          age[i] >= Parole \/ selected' = i]_vars

(* A verdict on one client never takes the others' callers off theirs: the *)
(* selection only ever leaves a slot that was benched in that same step.   *)
OnlyBenchedIsLeft ==
    [][selected' # selected => age'[selected] = 0 /\ score'[selected] >= BenchScore]_vars

(* Every call ends: failover's loop is bounded and so is each try.         *)
CallsEnd == \A c \in Users : pc[c] # "idle" ~> pc[c] = "idle"
=============================================================================
