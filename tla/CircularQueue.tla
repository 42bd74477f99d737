---------------------------- MODULE CircularQueue ----------------------------
(***************************************************************************)
(* The ring buffer of shared/queue.go.  It holds a guild's songs, the      *)
(* llm's short term memory and the song cache's eviction order.            *)
(*                                                                         *)
(* Every method holds the queue's lock from start to end, so each is one   *)
(* action.  Dequeue leaves the element in its slot; only head, tail and    *)
(* size say what is queued.                                                *)
(***************************************************************************)
EXTENDS Integers, Sequences

CONSTANTS
    Values,     \* the elements
    Zero,       \* T's zero value
    Capacity    \* q.capacity

(* NewCircularQueue refuses a capacity that is not positive. *)
ASSUME CapacityAssumption == Capacity \in Nat \ {0}

VARIABLES
    queue,      \* q.queue, one element per slot
    head,       \* next slot to write
    tail,       \* next slot to read
    size,
    returned    \* what the latest Enqueue or Dequeue returned

vars == <<queue, head, tail, size, returned>>

Places == 0 .. (Capacity - 1)
Elements == Values \cup {Zero}

Init ==
    /\ queue = [p \in Places |-> Zero]
    /\ head = 0 /\ tail = 0 /\ size = 0
    /\ returned = <<Zero, FALSE>>

nextHead == (head + 1) % Capacity
nextTail == (tail + 1) % Capacity
isEmpty == size = 0
isFull == size = Capacity

(* Mutant: a full ring is written without moving the tail on. *)
EnqueueLeavesTail(val) ==
    /\ IF isFull
       THEN returned' = <<queue[tail], TRUE>> /\ size' = size
       ELSE returned' = <<Zero, FALSE>> /\ size' = size + 1
    /\ queue' = [queue EXCEPT ![head] = val]
    /\ head' = nextHead
    /\ UNCHANGED tail

(* Mutant: the slot is written before the evicted element is read. *)
EnqueueWritesFirst(val) ==
    /\ IF isFull
       THEN returned' = <<val, TRUE>> /\ tail' = nextTail /\ size' = size
       ELSE returned' = <<Zero, FALSE>> /\ tail' = tail /\ size' = size + 1
    /\ queue' = [queue EXCEPT ![head] = val]
    /\ head' = nextHead

Enqueue(val) ==
    /\ IF isFull
       THEN /\ returned' = <<queue[tail], TRUE>>
            /\ tail' = nextTail
            /\ size' = size
       ELSE /\ returned' = <<Zero, FALSE>>
            /\ tail' = tail
            /\ size' = size + 1
    /\ queue' = [queue EXCEPT ![head] = val]
    /\ head' = nextHead

Dequeue ==
    /\ IF isEmpty
       THEN returned' = <<Zero, FALSE>> /\ UNCHANGED <<tail, size>>
       ELSE /\ returned' = <<queue[tail], TRUE>>
            /\ tail' = nextTail
            /\ size' = size - 1
    /\ UNCHANGED <<queue, head>>

Clear ==
    /\ queue' = [p \in Places |-> Zero]
    /\ head' = 0 /\ tail' = 0 /\ size' = 0
    /\ returned' = <<Zero, FALSE>>

Next == (\E val \in Values : Enqueue(val)) \/ Dequeue \/ Clear

Spec == Init /\ [][Next]_vars

-----------------------------------------------------------------------------
(* The k-th oldest element's slot, and what Items and All return. *)
Place(t, k) == (t + k - 1) % Capacity
Items == [k \in 1 .. size |-> queue[Place(tail, k)]]

(* Indices stay inside the slice and the size inside the capacity. *)
TypeOK ==
    /\ queue \in [Places -> Elements]
    /\ head \in Places
    /\ tail \in Places
    /\ size \in 0 .. Capacity
    /\ returned \in Elements \X BOOLEAN

(* head, tail and size are three counters for one fact: the next slot to   *)
(* write is the one after the newest element, also across the wrap and     *)
(* when the ring is full and head has caught up with tail.                 *)
RingClosed == head = Place(tail, size + 1)

(* The ring is the bounded queue its interface describes: it returns and   *)
(* evicts the elements in the order they came, whatever the wrap.          *)
Fifo == INSTANCE BoundedFifo WITH items <- Items
ImplementsFifo == Fifo!Spec
=============================================================================
