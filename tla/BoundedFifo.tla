----------------------------- MODULE BoundedFifo -----------------------------
(***************************************************************************)
(* What the CircularQueue interface of shared/queue.go promises its users: *)
(* a first-in first-out queue of at most Capacity elements, whose Enqueue  *)
(* evicts the oldest element once it is full and says which.               *)
(***************************************************************************)
EXTENDS Integers, Sequences

CONSTANTS
    Values,     \* the elements
    Zero,       \* T's zero value, returned when there is nothing to return
    Capacity

VARIABLES
    items,      \* the queued elements, oldest first
    returned    \* what the latest call returned: the element and the flag

Init == items = <<>> /\ returned = <<Zero, FALSE>>

Enqueue(val) ==
    IF Len(items) < Capacity
    THEN items' = Append(items, val) /\ returned' = <<Zero, FALSE>>
    ELSE items' = Append(Tail(items), val) /\ returned' = <<Head(items), TRUE>>

Dequeue ==
    IF items = <<>>
    THEN items' = items /\ returned' = <<Zero, FALSE>>
    ELSE items' = Tail(items) /\ returned' = <<Head(items), TRUE>>

Clear == items' = <<>> /\ returned' = <<Zero, FALSE>>

Next == (\E val \in Values : Enqueue(val)) \/ Dequeue \/ Clear

Spec == Init /\ [][Next]_<<items, returned>>
=============================================================================
