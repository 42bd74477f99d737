------------------------- MODULE CircularQueueProofs -------------------------
(***************************************************************************)
(* For every capacity and every set of elements: the ring's counters agree *)
(* and the ring implements the bounded first-in first-out queue.           *)
(***************************************************************************)
EXTENDS CircularQueue, SequenceTheorems, TLAPS

USE CapacityAssumption DEF Places

Inv == TypeOK /\ RingClosed

(* The remainder of an index that has gone round at most once. *)
LEMMA Wraps ==
    ASSUME NEW x \in 0 .. (2 * Capacity - 1)
    PROVE  x % Capacity = IF x < Capacity THEN x ELSE x - Capacity
<1>1. CASE x < Capacity
  BY <1>1
<1>2. CASE ~(x < Capacity)
  <2> DEFINE y == x - Capacity
  <2>1. y \in 0 .. (Capacity - 1) /\ y + Capacity = x
    BY <1>2
  <2>2. (y + Capacity) % Capacity = y
    <3> HIDE DEF y
    <3> QED BY <2>1
  <2> QED BY <1>2, <2>1, <2>2
<1> QED BY <1>1, <1>2

LEMMA PlaceWraps ==
    ASSUME NEW t \in Places, NEW k \in 1 .. (Capacity + 1)
    PROVE  /\ Place(t, k) = IF t + k - 1 < Capacity THEN t + k - 1
                                                    ELSE t + k - 1 - Capacity
           /\ Place(t, k) \in Places
<1>1. t + k - 1 \in 0 .. (2 * Capacity - 1)
  OBVIOUS
<1> QED BY <1>1, Wraps DEF Place

LEMMA NextWraps ==
    ASSUME NEW t \in Places
    PROVE  /\ (t + 1) % Capacity = IF t + 1 < Capacity THEN t + 1 ELSE 0
           /\ (t + 1) % Capacity \in Places
<1>1. t + 1 \in 0 .. (2 * Capacity - 1)
  OBVIOUS
<1> QED BY <1>1, Wraps

(* The slot after the k-th is the k+1-st, from the front and from the back. *)
LEMMA PlaceNext ==
    ASSUME NEW t \in Places, NEW k \in 1 .. Capacity
    PROVE  /\ Place(t, k + 1) = (Place(t, k) + 1) % Capacity
           /\ Place((t + 1) % Capacity, k) = Place(t, k + 1)
<1>1. k \in 1 .. (Capacity + 1) /\ k + 1 \in 1 .. (Capacity + 1)
  OBVIOUS
<1>2. Place(t, k) \in Places /\ (t + 1) % Capacity \in Places
  BY <1>1, PlaceWraps, NextWraps
<1>3. Place(t, k + 1) = IF t + k < Capacity THEN t + k ELSE t + k - Capacity
  BY <1>1, PlaceWraps
<1>4. Place(t, k + 1) = (Place(t, k) + 1) % Capacity
  <2>1. Place(t, k) = IF t + k - 1 < Capacity THEN t + k - 1 ELSE t + k - 1 - Capacity
    BY <1>1, PlaceWraps
  <2> DEFINE p == Place(t, k)
  <2>2. (p + 1) % Capacity = IF p + 1 < Capacity THEN p + 1 ELSE 0
    BY <1>2, NextWraps
  <2>3. p = IF t + k - 1 < Capacity THEN t + k - 1 ELSE t + k - 1 - Capacity
    BY <2>1
  <2> HIDE DEF p
  <2>4. (p + 1) % Capacity = IF t + k < Capacity THEN t + k ELSE t + k - Capacity
    BY <2>2, <2>3
  <2> QED BY <1>3, <2>4 DEF p
<1>5. Place((t + 1) % Capacity, k) = Place(t, k + 1)
  <2>1. (t + 1) % Capacity = IF t + 1 < Capacity THEN t + 1 ELSE 0
    BY NextWraps
  <2> DEFINE u == (t + 1) % Capacity
  <2>2. Place(u, k) = IF u + k - 1 < Capacity THEN u + k - 1 ELSE u + k - 1 - Capacity
    BY <1>1, <1>2, PlaceWraps
  <2> QED BY <1>3, <2>1, <2>2
<1> QED BY <1>4, <1>5

(* Different elements are in different slots. *)
LEMMA PlacesApart ==
    ASSUME NEW t \in Places, NEW j \in 1 .. Capacity, NEW k \in 1 .. Capacity, j # k
    PROVE  Place(t, j) # Place(t, k)
<1>1. j \in 1 .. (Capacity + 1) /\ k \in 1 .. (Capacity + 1)
  OBVIOUS
<1>2. Place(t, j) = IF t + j - 1 < Capacity THEN t + j - 1 ELSE t + j - 1 - Capacity
  BY <1>1, PlaceWraps
<1>3. Place(t, k) = IF t + k - 1 < Capacity THEN t + k - 1 ELSE t + k - 1 - Capacity
  BY <1>1, PlaceWraps
<1> QED BY <1>2, <1>3

(* What a call returns. *)
LEMMA Returns ==
    /\ <<Zero, FALSE>> \in Elements \X BOOLEAN
    /\ \A e \in Elements : <<e, TRUE>> \in Elements \X BOOLEAN
BY DEF Elements

-----------------------------------------------------------------------------
LEMMA InitInv == Init => Inv
<1> SUFFICES ASSUME Init PROVE Inv
  OBVIOUS
<1>1. Place(0, 1) = 0
  BY PlaceWraps
<1>2. TypeOK
  BY Returns DEF Init, TypeOK, Elements
<1>3. RingClosed
  BY <1>1 DEF Init, RingClosed
<1> QED BY <1>2, <1>3 DEF Inv

LEMMA EnqueueInv ==
    ASSUME Inv, NEW val \in Values, Enqueue(val)
    PROVE  Inv'
<1>1. /\ head \in Places /\ tail \in Places /\ size \in 0 .. Capacity
      /\ queue \in [Places -> Elements] /\ head = Place(tail, size + 1)
  BY DEF Inv, TypeOK, RingClosed
<1>2. head' = (head + 1) % Capacity /\ head' \in Places
  BY <1>1, NextWraps DEF Enqueue, nextHead
<1>3. queue' \in [Places -> Elements]
  BY <1>1 DEF Enqueue, Elements
<1>4. CASE size = Capacity
  <2>1. /\ tail' = (tail + 1) % Capacity /\ size' = size
        /\ returned' = <<queue[tail], TRUE>>
    BY <1>4 DEF Enqueue, isFull, nextTail
  <2>4. tail' \in Places
    BY <1>1, <2>1, NextWraps
  <2>2. head = tail
    BY <1>1, <1>4, PlaceWraps
  <2>3. Place(tail', size' + 1) = tail'
    BY <1>1, <1>4, <2>1, <2>4, PlaceWraps
  <2>5. TypeOK'
    BY <1>1, <1>2, <1>3, <2>1, <2>4, Returns DEF TypeOK
  <2>6. RingClosed'
    BY <1>2, <2>1, <2>2, <2>3 DEF RingClosed
  <2> QED BY <2>5, <2>6 DEF Inv
<1>5. CASE size # Capacity
  <2>1. tail' = tail /\ size' = size + 1 /\ returned' = <<Zero, FALSE>>
    BY <1>5 DEF Enqueue, isFull
  <2>2. Place(tail, (size + 1) + 1) = (head + 1) % Capacity
    BY <1>1, <1>5, PlaceNext
  <2>3. Place(tail', size' + 1) = head'
    BY <1>2, <2>1, <2>2
  <2>4. TypeOK'
    BY <1>1, <1>2, <1>3, <1>5, <2>1, Returns DEF TypeOK
  <2>5. RingClosed'
    BY <2>3 DEF RingClosed
  <2> QED BY <2>4, <2>5 DEF Inv
<1> QED BY <1>4, <1>5

LEMMA DequeueInv == ASSUME Inv, Dequeue PROVE Inv'
<1>1. /\ head \in Places /\ tail \in Places /\ size \in 0 .. Capacity
      /\ queue \in [Places -> Elements] /\ head = Place(tail, size + 1)
  BY DEF Inv, TypeOK, RingClosed
<1>2. CASE size = 0
  <2>1. UNCHANGED <<queue, head, tail, size>> /\ returned' = <<Zero, FALSE>>
    BY <1>2 DEF Dequeue, isEmpty
  <2> QED BY <1>1, <2>1, Returns DEF Inv, TypeOK, RingClosed
<1>3. CASE size # 0
  <2>1. /\ tail' = (tail + 1) % Capacity
        /\ size' = size - 1 /\ returned' = <<queue[tail], TRUE>>
        /\ queue' = queue /\ head' = head
    BY <1>3 DEF Dequeue, isEmpty, nextTail
  <2>2. tail' \in Places
    BY <1>1, <2>1, NextWraps
  <2>3. Place((tail + 1) % Capacity, size) = Place(tail, size + 1)
    BY <1>1, <1>3, PlaceNext
  <2>4. size' + 1 = size
    BY <1>1, <2>1
  <2>5. TypeOK'
    <3>1. size' \in 0 .. Capacity
      BY <1>1, <1>3, <2>1
    <3>2. queue[tail] \in Elements
      BY <1>1
    <3>3. returned' \in Elements \X BOOLEAN
      BY <2>1, <3>2, Returns
    <3> QED BY <1>1, <2>1, <2>2, <3>1, <3>3 DEF TypeOK
  <2>6. RingClosed'
    BY <1>1, <2>1, <2>3, <2>4 DEF RingClosed
  <2> QED BY <2>5, <2>6 DEF Inv
<1> QED BY <1>2, <1>3

LEMMA StepInv == ASSUME Inv, [Next]_vars PROVE Inv'
<1>1. CASE Clear
  <2>1. Place(0, 1) = 0
    BY PlaceWraps
  <2>2. TypeOK'
    BY <1>1, Returns DEF Clear, TypeOK, Elements
  <2>3. RingClosed'
    BY <1>1, <2>1 DEF Clear, RingClosed
  <2> QED BY <2>2, <2>3 DEF Inv
<1>2. CASE UNCHANGED vars
  BY <1>2 DEF vars, Inv, TypeOK, RingClosed
<1> QED BY <1>1, <1>2, EnqueueInv, DequeueInv DEF Next

(* The indices stay inside the slice, and head is always where the ring    *)
(* closes.                                                                 *)
THEOREM RingCorrect == Spec => [](TypeOK /\ RingClosed)
<1>1. Inv /\ [Next]_vars => Inv'
  BY StepInv
<1> QED BY <1>1, InitInv, PTL DEF Spec, Inv

-----------------------------------------------------------------------------
(* What Items returns of a ring q read from t on, as a sequence. *)
ItemsOf(q, t, n) == [k \in 1 .. n |-> q[Place(t, k)]]

LEMMA ItemsSeq ==
    ASSUME NEW q \in [Places -> Elements], NEW t \in Places, NEW n \in 0 .. Capacity
    PROVE  /\ ItemsOf(q, t, n) \in Seq(Elements)
           /\ Len(ItemsOf(q, t, n)) = n
           /\ \A k \in 1 .. n : ItemsOf(q, t, n)[k] = q[Place(t, k)]
<1>1. \A k \in 1 .. n : q[Place(t, k)] \in Elements
  BY PlaceWraps
<1>2. ItemsOf(q, t, n) \in [1 .. n -> Elements]
  BY <1>1 DEF ItemsOf
<1>3. ItemsOf(q, t, n) \in Seq(Elements)
  BY <1>2, SeqDef
<1> QED BY <1>2, <1>3, LenProperties DEF ItemsOf

LEMMA EmptyRing ==
    ASSUME NEW q \in [Places -> Elements], NEW t \in Places
    PROVE  ItemsOf(q, t, 0) = <<>>
BY ItemsSeq, EmptySeq

(* Dropping the oldest element moves the front on by one slot. *)
LEMMA ItemsTail ==
    ASSUME NEW q \in [Places -> Elements], NEW t \in Places, NEW n \in 1 .. Capacity
    PROVE  /\ ItemsOf(q, t, n) # <<>>
           /\ Head(ItemsOf(q, t, n)) = q[t]
           /\ Tail(ItemsOf(q, t, n)) = ItemsOf(q, (t + 1) % Capacity, n - 1)
<1> DEFINE s == ItemsOf(q, t, n)
           r == ItemsOf(q, (t + 1) % Capacity, n - 1)
<1>1. n \in 0 .. Capacity /\ n - 1 \in 0 .. Capacity /\ (t + 1) % Capacity \in Places
  BY NextWraps
<1>2. /\ s \in Seq(Elements) /\ Len(s) = n
      /\ \A k \in 1 .. n : s[k] = q[Place(t, k)]
  BY <1>1, ItemsSeq
<1>3. /\ r \in Seq(Elements) /\ Len(r) = n - 1
      /\ \A k \in 1 .. (n - 1) : r[k] = q[Place((t + 1) % Capacity, k)]
  BY <1>1, ItemsSeq
<1> HIDE DEF s, r
<1>4. s # <<>>
  BY <1>2, EmptySeq
<1>5. Place(t, 1) = t
  BY PlaceWraps
<1>6. Head(s) = q[t]
  BY <1>2, <1>4, <1>5
<1>7. /\ Tail(s) \in Seq(Elements) /\ Len(Tail(s)) = n - 1
      /\ \A k \in 1 .. (n - 1) : Tail(s)[k] = s[k + 1]
  BY <1>2, <1>4, HeadTailProperties
<1>8. ASSUME NEW k \in 1 .. (n - 1)
      PROVE  Tail(s)[k] = r[k]
  <2>1. k \in 1 .. Capacity /\ k + 1 \in 1 .. n
    OBVIOUS
  <2>2. Place((t + 1) % Capacity, k) = Place(t, k + 1)
    BY <2>1, PlaceNext
  <2> QED BY <1>2, <1>3, <1>7, <2>1, <2>2
<1>9. Tail(s) = r
  BY <1>3, <1>7, <1>8, SeqEqual
<1> QED BY <1>4, <1>6, <1>9 DEF s, r

(* Writing the slot after the newest element appends to what is queued. *)
LEMMA ItemsAppend ==
    ASSUME NEW q \in [Places -> Elements], NEW t \in Places,
           NEW n \in 0 .. (Capacity - 1), NEW val \in Elements
    PROVE  ItemsOf([q EXCEPT ![Place(t, n + 1)] = val], t, n + 1)
             = Append(ItemsOf(q, t, n), val)
<1> DEFINE h == Place(t, n + 1)
           p == [q EXCEPT ![h] = val]
           s == ItemsOf(q, t, n)
           r == ItemsOf(p, t, n + 1)
<1>1. h \in Places /\ p \in [Places -> Elements]
  BY PlaceWraps
<1>2. /\ s \in Seq(Elements) /\ Len(s) = n
      /\ \A k \in 1 .. n : s[k] = q[Place(t, k)]
  <2>1. n \in 0 .. Capacity
    OBVIOUS
  <2> QED BY <2>1, ItemsSeq
<1>3. /\ r \in Seq(Elements) /\ Len(r) = n + 1
      /\ \A k \in 1 .. (n + 1) : r[k] = p[Place(t, k)]
  <2>1. n + 1 \in 0 .. Capacity
    OBVIOUS
  <2> HIDE DEF p
  <2> QED BY <1>1, <2>1, ItemsSeq
<1>4. ASSUME NEW k \in 1 .. n
      PROVE  Place(t, k) \in Places /\ Place(t, k) # h
  <2>1. k \in 1 .. Capacity /\ n + 1 \in 1 .. Capacity /\ k # n + 1
    OBVIOUS
  <2>2. k \in 1 .. (Capacity + 1)
    BY <2>1
  <2> QED BY <2>1, <2>2, PlaceWraps, PlacesApart
<1>5. \A k \in 1 .. n : p[Place(t, k)] = q[Place(t, k)]
  BY <1>1, <1>4
<1>6. p[h] = val
  BY <1>1
<1> HIDE DEF h, p, s, r
<1>7. /\ Append(s, val) \in Seq(Elements) /\ Len(Append(s, val)) = n + 1
      /\ \A k \in 1 .. n : Append(s, val)[k] = s[k]
      /\ Append(s, val)[n + 1] = val
  BY <1>2, AppendProperties
<1>8. ASSUME NEW k \in 1 .. (n + 1)
      PROVE  r[k] = Append(s, val)[k]
  <2>1. CASE k = n + 1
    BY <1>3, <1>6, <1>7, <2>1 DEF h
  <2>2. CASE k # n + 1
    <3>1. k \in 1 .. n
      BY <2>2
    <3> QED BY <1>2, <1>3, <1>5, <1>7, <3>1
  <2> QED BY <2>1, <2>2
<1>9. r = Append(s, val)
  BY <1>3, <1>7, <1>8, SeqEqual
<1> QED BY <1>9 DEF h, p, s, r

-----------------------------------------------------------------------------
LEMMA InitFifo == Init => Fifo!Init
<1> SUFFICES ASSUME Init PROVE Fifo!Init
  OBVIOUS
<1>1. queue \in [Places -> Elements] /\ tail \in Places
  BY InitInv DEF Inv, TypeOK
<1>2. ItemsOf(queue, tail, 0) = <<>>
  BY <1>1, EmptyRing
<1>3. Items = <<>>
  BY <1>2 DEF Init, Items, ItemsOf
<1> QED BY <1>3 DEF Init, Fifo!Init

LEMMA EnqueueFifo ==
    ASSUME Inv, NEW val \in Values, Enqueue(val)
    PROVE  Fifo!Enqueue(val)
<1>1. /\ tail \in Places /\ size \in 0 .. Capacity /\ val \in Elements
      /\ queue \in [Places -> Elements] /\ head = Place(tail, size + 1)
  BY DEF Inv, TypeOK, RingClosed, Elements
<1>2. queue' = [queue EXCEPT ![Place(tail, size + 1)] = val]
  BY <1>1 DEF Enqueue
<1>3. Items = ItemsOf(queue, tail, size) /\ Items' = ItemsOf(queue', tail', size')
  BY DEF Items, ItemsOf
<1>4. Len(Items) = size
  BY <1>1, <1>3, ItemsSeq
<1>5. CASE size = Capacity
  <2>1. /\ tail' = (tail + 1) % Capacity /\ size' = size
        /\ returned' = <<queue[tail], TRUE>>
    BY <1>5 DEF Enqueue, isFull, nextTail
  <2>2. size \in 1 .. Capacity
    BY <1>5
  <2>3. /\ Head(Items) = queue[tail]
        /\ Tail(Items) = ItemsOf(queue, tail', size - 1)
    BY <1>1, <1>3, <2>1, <2>2, ItemsTail
  <2>4. Place(tail, size + 1) = Place(tail', (size - 1) + 1)
    <3>1. Place(tail', size) = Place(tail, size + 1)
      BY <1>1, <2>1, <2>2, PlaceNext
    <3>2. (size - 1) + 1 = size
      BY <1>1
    <3> QED BY <3>1, <3>2
  <2>5. tail' \in Places /\ size - 1 \in 0 .. (Capacity - 1) /\ (size - 1) + 1 = size
    BY <1>1, <1>5, <2>1, NextWraps
  <2>6. ItemsOf(queue', tail', (size - 1) + 1) = Append(ItemsOf(queue, tail', size - 1), val)
    <3>1. queue' = [queue EXCEPT ![Place(tail', (size - 1) + 1)] = val]
      BY <1>2, <2>4
    <3> DEFINE m == size - 1
    <3>2. m \in 0 .. (Capacity - 1)
      BY <2>5
    <3>3. queue' = [queue EXCEPT ![Place(tail', m + 1)] = val]
      BY <3>1
    <3> HIDE DEF m
    <3>4. ItemsOf(queue', tail', m + 1) = Append(ItemsOf(queue, tail', m), val)
      BY <1>1, <2>5, <3>2, <3>3, ItemsAppend
    <3> QED BY <3>4 DEF m
  <2>7. Items' = Append(Tail(Items), val)
    BY <1>3, <2>1, <2>3, <2>5, <2>6
  <2> QED BY <1>4, <1>5, <2>1, <2>3, <2>7 DEF Fifo!Enqueue
<1>6. CASE size # Capacity
  <2>1. tail' = tail /\ size' = size + 1 /\ returned' = <<Zero, FALSE>>
    BY <1>6 DEF Enqueue, isFull
  <2>2. size \in 0 .. (Capacity - 1)
    BY <1>1, <1>6
  <2>3. Items' = Append(Items, val)
    BY <1>1, <1>2, <1>3, <2>1, <2>2, ItemsAppend
  <2>4. Len(Items) < Capacity
    BY <1>4, <2>2
  <2> QED BY <2>1, <2>3, <2>4 DEF Fifo!Enqueue
<1> QED BY <1>5, <1>6

LEMMA DequeueFifo == ASSUME Inv, Dequeue PROVE Fifo!Dequeue
<1>1. /\ tail \in Places /\ size \in 0 .. Capacity
      /\ queue \in [Places -> Elements]
  BY DEF Inv, TypeOK
<1>2. Items = ItemsOf(queue, tail, size) /\ Items' = ItemsOf(queue', tail', size')
  BY DEF Items, ItemsOf
<1>3. CASE size = 0
  <2>1. Items = <<>>
    BY <1>1, <1>2, <1>3, EmptyRing
  <2>2. Items' = Items /\ returned' = <<Zero, FALSE>>
    BY <1>2, <1>3 DEF Dequeue, isEmpty
  <2> QED BY <2>1, <2>2 DEF Fifo!Dequeue
<1>4. CASE size # 0
  <2>1. /\ tail' = (tail + 1) % Capacity /\ size' = size - 1 /\ queue' = queue
        /\ returned' = <<queue[tail], TRUE>>
    BY <1>4 DEF Dequeue, isEmpty, nextTail
  <2>2. size \in 1 .. Capacity
    BY <1>1, <1>4
  <2>3. Items # <<>> /\ Head(Items) = queue[tail] /\ Tail(Items) = Items'
    BY <1>1, <1>2, <2>1, <2>2, ItemsTail
  <2> QED BY <2>1, <2>3 DEF Fifo!Dequeue
<1> QED BY <1>3, <1>4

LEMMA ClearFifo == ASSUME Inv, Clear PROVE Fifo!Clear
<1>1. queue' \in [Places -> Elements] /\ tail' \in Places
  BY DEF Clear, Elements
<1>2. ItemsOf(queue', tail', 0) = <<>>
  BY <1>1, EmptyRing
<1>3. Items' = <<>>
  BY <1>2 DEF Clear, Items, ItemsOf
<1> QED BY <1>3 DEF Clear, Fifo!Clear

(* The ring buffer is the bounded queue: every call returns, keeps and     *)
(* evicts what the first-in first-out queue of that capacity would.        *)
THEOREM RingIsFifo == Spec => ImplementsFifo
<1>1. Inv /\ [Next]_vars => [Fifo!Next]_<<Items, returned>>
  <2> SUFFICES ASSUME Inv, [Next]_vars PROVE [Fifo!Next]_<<Items, returned>>
    OBVIOUS
  <2>1. CASE UNCHANGED vars
    BY <2>1 DEF vars, Items
  <2> QED BY <2>1, EnqueueFifo, DequeueFifo, ClearFifo DEF Next, Fifo!Next
<1>2. Spec => []Inv
  BY RingCorrect, PTL DEF Inv
<1> QED BY <1>1, <1>2, InitFifo, PTL DEF Spec, ImplementsFifo, Fifo!Spec
=============================================================================
