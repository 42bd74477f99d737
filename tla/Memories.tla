------------------------------ MODULE Memories ------------------------------
(***************************************************************************)
(* The memory holders of the brain, by guild and sub id (llm/model/        *)
(* brain.go), and the short term memory each holds (llm/memory/            *)
(* shortterm.go).  A holder is made by the first who looks for it and      *)
(* does not find it, in two steps under different locks, so several may    *)
(* make one; AddMemoryHolder keeps the first.  Holders are never removed.  *)
(*                                                                         *)
(* The ring underneath is the bounded queue that CircularQueue.tla shows   *)
(* it to implement: what a holder keeps is a sequence, oldest arrival      *)
(* first.                                                                  *)
(***************************************************************************)
EXTENDS Integers, Sequences

CONSTANTS
    Keys,           \* the sub ids of a guild: its channels and "short_term"
    HistorySize,    \* history_size
    NoHolder        \* no holder has been added at the key

ASSUME MemoriesAssumption == HistorySize \in Nat \ {0}

VARIABLES
    holder,         \* what each key's holder keeps
    arrived         \* everything stored at each key so far (history)

memoryVars == <<holder, arrived>>

MemoriesInit ==
    /\ holder = [k \in Keys |-> NoHolder]
    /\ arrived = [k \in Keys |-> <<>>]

(* Memory(id, sid): is there a holder? *)
Memory(k) == holder[k] # NoHolder

(* Mutant: the holder that comes second replaces the first. *)
AddMemoryHolderAlways(k) ==
    /\ holder' = [holder EXCEPT ![k] = <<>>]
    /\ UNCHANGED arrived

(* A holder of one's own is added; one that is there already stays. *)
AddMemoryHolder(k) ==
    /\ holder' = [holder EXCEPT ![k] = IF Memory(k) THEN @ ELSE <<>>]
    /\ UNCHANGED arrived

(* Store: the memory that arrived first makes room. *)
Store(k, mem) ==
    /\ holder' = [holder EXCEPT
          ![k] = Append(IF Len(@) = HistorySize THEN Tail(@) ELSE @, mem)]
    /\ arrived' = [arrived EXCEPT ![k] = Append(@, mem)]

Newest(s, n) == IF Len(s) <= n THEN s ELSE SubSeq(s, Len(s) - n + 1, Len(s))

(* However many create a key's holder at once, everything stored at the    *)
(* key is in it, in the order it arrived, until as many memories as it has *)
(* room for arrived after it.                                              *)
NothingLost ==
    \A k \in Keys : IF Memory(k) THEN holder[k] = Newest(arrived[k], HistorySize)
                                 ELSE arrived[k] = <<>>
=============================================================================
