------------------------------ MODULE ChatProofs ------------------------------
(***************************************************************************)
(* For any number of messages, models, memories and tool calls: the types  *)
(* of Chat and the bounds of its loop, that its memory loses nothing, that *)
(* a reply sees its message, that histories can be replayed, that nothing  *)
(* but a tool switches a guild's personality, and that a talkative model   *)
(* is always found.                                                        *)
(***************************************************************************)
EXTENDS Chat, RotationProofs

-----------------------------------------------------------------------------
(* Sequences *)

LEMMA SameSequence ==
    ASSUME NEW S, NEW s \in Seq(S), NEW t \in Seq(S), Len(s) = Len(t),
           \A i \in 1 .. Len(s) : s[i] = t[i]
    PROVE  s = t
OBVIOUS

LEMMA AppendIs ==
    ASSUME NEW S, NEW s \in Seq(S), NEW x \in S, NEW t, t = Append(s, x)
    PROVE  /\ t \in Seq(S) /\ Len(t) = Len(s) + 1 /\ Len(s) \in Nat
           /\ t[Len(s) + 1] = x /\ \A i \in 1 .. Len(s) : t[i] = s[i]
OBVIOUS

LEMMA TailIs ==
    ASSUME NEW S, NEW s \in Seq(S), s # <<>>, NEW t, t = Tail(s)
    PROVE  /\ t \in Seq(S) /\ Len(t) = Len(s) - 1 /\ Len(s) \in Nat
           /\ \A i \in 1 .. Len(t) : t[i] = s[i + 1]
OBVIOUS

LEMMA NewestIs ==
    ASSUME NEW S, NEW s \in Seq(S), NEW n \in Nat
    PROVE  /\ Newest(s, n) \in Seq(S)
           /\ Len(Newest(s, n)) = IF Len(s) <= n THEN Len(s) ELSE n
           /\ \A i \in 1 .. Len(Newest(s, n)) :
                 Newest(s, n)[i] = s[i + Len(s) - Len(Newest(s, n))]
<1>1. CASE Len(s) <= n BY <1>1 DEF Newest
<1>2. CASE Len(s) > n
  <2> DEFINE t == SubSeq(s, Len(s) - n + 1, Len(s))
  <2>1. Newest(s, n) = t BY <1>2 DEF Newest
  <2>2. Len(s) - n + 1 \in 1 .. Len(s) + 1 /\ Len(s) \in Nat BY <1>2
  <2>3. t \in Seq(S) /\ Len(t) = n BY <2>2
  <2>4. \A i \in 1 .. n : t[i] = s[i + Len(s) - n] BY <2>2
  <2> HIDE DEF t
  <2> QED BY <1>2, <2>1, <2>3, <2>4
<1> QED BY <1>1, <1>2

(* A ring of n that takes one more is the newest n of everything taken. *)
LEMMA NewestOfOneMore ==
    ASSUME NEW S, NEW s \in Seq(S), NEW x \in S, NEW n \in Nat \ {0},
           NEW kept, kept = Newest(s, n)
    PROVE  Append(IF Len(kept) = n THEN Tail(kept) ELSE kept, x) = Newest(Append(s, x), n)
<1> DEFINE room == IF Len(kept) = n THEN Tail(kept) ELSE kept
           more == Append(s, x)
           new == Newest(more, n)
<1>1. /\ more \in Seq(S) /\ Len(more) = Len(s) + 1 /\ Len(s) \in Nat
      /\ more[Len(s) + 1] = x /\ \A i \in 1 .. Len(s) : more[i] = s[i]
  BY AppendIs
<1> HIDE DEF more
<1>2. /\ kept \in Seq(S) /\ Len(kept) = IF Len(s) <= n THEN Len(s) ELSE n
      /\ \A i \in 1 .. Len(kept) : kept[i] = s[i + Len(s) - Len(kept)]
  BY NewestIs
<1>3. /\ new \in Seq(S) /\ Len(new) = IF Len(more) <= n THEN Len(more) ELSE n
      /\ \A i \in 1 .. Len(new) : new[i] = more[i + Len(more) - Len(new)]
  BY <1>1, NewestIs
<1> HIDE DEF new
<1>4. /\ room \in Seq(S) /\ Len(room) = Len(new) - 1
      /\ \A i \in 1 .. Len(room) : room[i] = s[i + Len(s) - Len(room)]
  <2>1. CASE Len(kept) = n
    <3>1. kept # <<>> BY <1>2, <2>1
    <3>2. room = Tail(kept) BY <2>1
    <3> HIDE DEF room
    <3>3. /\ room \in Seq(S) /\ Len(room) = n - 1
          /\ \A i \in 1 .. (n - 1) : room[i] = kept[i + 1]
      BY <1>2, <2>1, <3>1, <3>2, TailIs
    <3>4. \A i \in 1 .. (n - 1) : i + 1 \in 1 .. n /\ (i + 1) + Len(s) - n = i + Len(s) - (n - 1)
      BY <1>1
    <3>5. \A i \in 1 .. (n - 1) : kept[i + 1] = s[i + Len(s) - (n - 1)]
      BY <1>2, <2>1, <3>4
    <3>6. Len(new) = n BY <1>1, <1>2, <1>3, <2>1
    <3> QED BY <3>3, <3>5, <3>6
  <2>2. CASE Len(kept) # n
    <3>1. room = kept /\ Len(s) < n BY <1>1, <1>2, <2>2
    <3> HIDE DEF room
    <3>2. Len(kept) = Len(s) /\ Len(new) = Len(s) + 1 BY <1>1, <1>2, <1>3, <3>1
    <3>3. Len(room) = Len(new) - 1 /\ room \in Seq(S) BY <1>1, <1>2, <3>1, <3>2
    <3>4. \A i \in 1 .. Len(room) : room[i] = s[i + Len(s) - Len(room)] BY <1>2, <3>1
    <3> QED BY <3>3, <3>4
  <2> QED BY <2>1, <2>2
<1> HIDE DEF room
<1> DEFINE end == Append(room, x)
<1>5. /\ end \in Seq(S) /\ Len(end) = Len(new) /\ end[Len(new)] = x
      /\ \A i \in 1 .. (Len(new) - 1) : end[i] = room[i]
  <2>1. /\ end \in Seq(S) /\ Len(end) = Len(room) + 1 /\ Len(room) \in Nat
        /\ end[Len(room) + 1] = x /\ \A i \in 1 .. Len(room) : end[i] = room[i]
    BY <1>4, AppendIs
  <2>2. Len(room) + 1 = Len(new) BY <1>3, <1>4, <2>1
  <2> HIDE DEF end
  <2> QED BY <1>4, <2>1, <2>2
<1> HIDE DEF end
<1>6. new[Len(new)] = x
  <2>1. /\ Len(new) \in 1 .. Len(new) /\ Len(new) + Len(more) - Len(new) = Len(s) + 1
    BY <1>1, <1>3
  <2> QED BY <1>1, <1>3, <2>1
<1>7. ASSUME NEW i \in 1 .. (Len(new) - 1) PROVE end[i] = new[i]
  <2>1. room[i] = s[i + Len(s) - (Len(new) - 1)] BY <1>4
  <2>2. i + Len(s) - (Len(new) - 1) \in 1 .. Len(s) BY <1>1, <1>3
  <2>3. new[i] = more[i + Len(more) - Len(new)]
    <3>1. i \in 1 .. Len(new) BY <1>3
    <3> QED BY <1>3, <3>1
  <2>4. i + Len(more) - Len(new) = i + Len(s) - (Len(new) - 1) BY <1>1, <1>3
  <2> QED BY <1>1, <1>5, <2>1, <2>2, <2>3, <2>4
<1>8. \A i \in 1 .. Len(new) : end[i] = new[i]
  BY <1>3, <1>5, <1>6, <1>7
<1>9. end = new BY <1>3, <1>5, <1>8, SameSequence
<1> QED BY <1>9 DEF end, room, new, more

-----------------------------------------------------------------------------
(* The memories *)

USE ChatAssumption, MemoriesAssumption

MemoriesInv ==
    /\ holder \in [Keys -> Seq(MemoryRecord) \cup {NoHolder}]
    /\ arrived \in [Keys -> Seq(MemoryRecord)]
    /\ NothingLost

(* All that ever happens to them. *)
MemoriesStep ==
    \/ UNCHANGED memoryVars
    \/ \E k \in Keys : AddMemoryHolder(k)
    \/ \E k \in Keys, mem \in MemoryRecord : Memory(k) /\ Store(k, mem)

LEMMA MemoriesKeep ==
    ASSUME MemoriesInv, MemoriesStep
    PROVE  /\ MemoriesInv'
           /\ \A k \in Keys : Memory(k) => Memory(k)'
           /\ \A k \in Keys : /\ Len(arrived[k]) <= Len(arrived'[k])
                              /\ \A i \in 1 .. Len(arrived[k]) : arrived'[k][i] = arrived[k][i]
<1> DEFINE Goal == /\ MemoriesInv'
                   /\ \A k \in Keys : Memory(k) => Memory(k)'
                   /\ \A k \in Keys :
                         /\ Len(arrived[k]) <= Len(arrived'[k])
                         /\ \A i \in 1 .. Len(arrived[k]) : arrived'[k][i] = arrived[k][i]
<1>0. \A k \in Keys : arrived[k] \in Seq(MemoryRecord) /\ Len(arrived[k]) \in Nat
  BY DEF MemoriesInv
<1>1. CASE UNCHANGED memoryVars
  <2>1. MemoriesInv' BY <1>1 DEF MemoriesInv, NothingLost, Memory, memoryVars
  <2> QED BY <1>0, <1>1, <2>1 DEF Memory, memoryVars
<1>2. ASSUME NEW k \in Keys, AddMemoryHolder(k) PROVE Goal
  <2>1. arrived' = arrived BY <1>2 DEF AddMemoryHolder
  <2>2. <<>> \in Seq(MemoryRecord) /\ <<>> # NoHolder
    <3>1. <<>> \in Seq(MemoryRecord) OBVIOUS
    <3> QED BY <3>1
  <2>3. CASE Memory(k)
    <3>1. holder' = holder BY <1>2, <2>3 DEF AddMemoryHolder, MemoriesInv
    <3>2. MemoriesInv' BY <2>1, <3>1 DEF MemoriesInv, NothingLost, Memory
    <3> QED BY <1>0, <2>1, <3>1, <3>2 DEF Memory
  <2>4. CASE ~Memory(k)
    <3>1. holder' = [holder EXCEPT ![k] = <<>>] BY <1>2, <2>4 DEF AddMemoryHolder
    <3>2. \A l \in Keys : holder'[l] = IF l = k THEN <<>> ELSE holder[l]
      BY <3>1 DEF MemoriesInv
    <3>3. holder' \in [Keys -> Seq(MemoryRecord) \cup {NoHolder}]
      BY <2>2, <3>1 DEF MemoriesInv
    <3>4. arrived[k] = <<>> BY <2>4 DEF MemoriesInv, NothingLost
    <3>5. Newest(<<>>, HistorySize) = <<>> BY DEF Newest
    <3>6. NothingLost' BY <2>1, <2>2, <3>2, <3>4, <3>5 DEF MemoriesInv, NothingLost, Memory
    <3>7. MemoriesInv' BY <2>1, <3>3, <3>6 DEF MemoriesInv
    <3>8. \A l \in Keys : Memory(l) => Memory(l)' BY <2>2, <3>2 DEF Memory
    <3> QED BY <1>0, <2>1, <3>7, <3>8
  <2> QED BY <2>3, <2>4
<1>3. ASSUME NEW k \in Keys, NEW mem \in MemoryRecord, Memory(k), Store(k, mem) PROVE Goal
  <2> DEFINE kept == holder[k]
             new == Append(IF Len(kept) = HistorySize THEN Tail(kept) ELSE kept, mem)
             more == Append(arrived[k], mem)
  <2>1. kept = Newest(arrived[k], HistorySize) BY <1>3 DEF MemoriesInv, NothingLost
  <2>2. new = Newest(more, HistorySize)
    <3>1. arrived[k] \in Seq(MemoryRecord) BY <1>0
    <3> HIDE DEF kept
    <3> QED BY <2>1, <3>1, NewestOfOneMore
  <2> HIDE DEF kept, new
  <2>3. /\ more \in Seq(MemoryRecord) /\ Len(more) = Len(arrived[k]) + 1
        /\ \A i \in 1 .. Len(arrived[k]) : more[i] = arrived[k][i]
    BY <1>0, AppendIs
  <2>5. /\ holder' = [holder EXCEPT ![k] = new] /\ arrived' = [arrived EXCEPT ![k] = more]
    BY <1>3 DEF Store, MemoriesInv, kept, new
  <2> HIDE DEF more
  <2>4. new \in Seq(MemoryRecord)
    <3>1. HistorySize \in Nat OBVIOUS
    <3> QED BY <2>2, <2>3, <3>1, NewestIs
  <2>6. /\ holder' \in [Keys -> Seq(MemoryRecord) \cup {NoHolder}]
        /\ arrived' \in [Keys -> Seq(MemoryRecord)]
    BY <2>3, <2>4, <2>5 DEF MemoriesInv
  <2>7. \A l \in Keys : /\ holder'[l] = IF l = k THEN new ELSE holder[l]
                        /\ arrived'[l] = IF l = k THEN more ELSE arrived[l]
    BY <2>5 DEF MemoriesInv
  <2>8. new # NoHolder BY <2>4
  <2>9. NothingLost' BY <2>2, <2>7, <2>8 DEF MemoriesInv, NothingLost, Memory
  <2>10. \A l \in Keys : Memory(l) => Memory(l)' BY <2>7, <2>8 DEF Memory
  <2>11. \A l \in Keys :
            /\ Len(arrived[l]) <= Len(arrived'[l])
            /\ \A i \in 1 .. Len(arrived[l]) : arrived'[l][i] = arrived[l][i]
    BY <1>0, <2>3, <2>7
  <2> QED BY <2>6, <2>9, <2>10, <2>11 DEF MemoriesInv
<1> QED BY <1>1, <1>2, <1>3 DEF MemoriesStep

-----------------------------------------------------------------------------
(* The locals of the handlers *)

Asking == {"prompt", "ask", "tools", "note_add", "note"}
Chatting == {"choose", "finish"} \cup Asking
Pcs == {"unwritten", "remember", "reply", "history", "history_add", "done"} \cup Chatting
Rpcs == {"none", "lookup", "add", "store", "stored"}

(* The ids models give. *)
CallIds == {id \in CallId : Given(id)}

ChatRec == [asked : 0 .. Length, toolRounds : 0 .. MaxToolRounds, rounds : Nat,
            pending : Seq(CallIds), calls : Seq(CallId), text : BOOLEAN,
            seen : SUBSET MemoryRecord, arrivals : Nat]

(* Chat's loop: where a handler is and what its counters say. *)
Loop(p, x) ==
    /\ p \notin Chatting => x = NoChat
    /\ p = "choose" => x.asked < Length /\ x.rounds = x.asked + x.toolRounds
    /\ p \in Asking => x.asked > 0 /\ x.rounds + 1 = x.asked + x.toolRounds
    /\ p = "finish" => x.rounds = x.asked + x.toolRounds
    /\ p \in {"tools", "note_add", "note"} => x.pending # <<>>

(* Nobody stores, or reads the history, before there is a holder. *)
There(p, r) ==
    /\ r \in {"store", "stored"} \/ p \in Chatting => Memory(Channel)
    /\ p = "note" => Memory(ShortTerm)

LocalTypes ==
    /\ pc \in [Messages -> Pcs]
    /\ rpc \in [Messages -> Rpcs]
    /\ clock \in Nat /\ said \in [Messages -> 0 .. clock]
    /\ remembered \in [Messages -> BOOLEAN]
    /\ chat \in [Messages -> ChatRec]
    /\ outcome \in [Messages -> {"none", "posted", "silent", "error"}]
    /\ personality \in Personalities \cup {NoPersonality}

LocalsInv ==
    /\ LocalTypes
    /\ \A m \in Messages : Loop(pc[m], chat[m]) /\ There(pc[m], rpc[m])

BaseInv == RotationTypeOK /\ SelectedInService /\ MemoriesInv /\ LocalsInv

LEMMA NoChatIs == NoChat \in ChatRec
<1>1. <<>> \in Seq(CallId) /\ <<>> \in Seq(CallIds) OBVIOUS
<1> QED BY <1>1, RotationAssumption DEF NoChat, ChatRec

LEMMA ChatIs ==
    ASSUME LocalsInv, NEW m \in Messages
    PROVE  /\ chat[m] \in ChatRec /\ pc[m] \in Pcs /\ rpc[m] \in Rpcs
           /\ Loop(pc[m], chat[m]) /\ There(pc[m], rpc[m])
           /\ chat[m].asked \in 0 .. Length /\ chat[m].toolRounds \in 0 .. MaxToolRounds
           /\ chat[m].rounds \in Nat /\ chat[m].pending \in Seq(CallIds)
           /\ chat[m].calls \in Seq(CallId) /\ chat[m].text \in BOOLEAN
           /\ chat[m].seen \subseteq MemoryRecord /\ chat[m].arrivals \in Nat
BY DEF LocalsInv, LocalTypes, ChatRec

(* A new id is an id. *)
LEMMA FreshIdIs ==
    ASSUME NEW x \in ChatRec, NEW id \in CallIds
    PROVE  FreshId(x, id) \in CallId
<1>1. /\ x.calls \in Seq(CallId) /\ Len(x.calls) \in Nat
      /\ id.name \in CallNames /\ id.suffixes \in Seq(Nat) /\ id \in CallId
  BY DEF ChatRec, CallIds, CallId
<1>2. Append(id.suffixes, Len(x.calls)) \in Seq(Nat) BY <1>1
<1> QED BY <1>1, <1>2 DEF FreshId, CallId

(* What the return of a tool call does to its chat. *)
LEMMA CallReturnsIs ==
    ASSUME LocalsInv, NEW m \in Messages, pc[m] \in {"tools", "note"}, CallReturns(m)
    PROVE  \E x \in ChatRec, to \in {"ask", "tools"}, id \in CallIds :
              /\ pc' = [pc EXCEPT ![m] = to] /\ chat' = [chat EXCEPT ![m] = x]
              /\ Loop(to, x) /\ x.calls = Append(chat[m].calls, FreshId(chat[m], id))
              /\ x.asked = chat[m].asked /\ x.seen = chat[m].seen
              /\ x.arrivals = chat[m].arrivals /\ x.text = chat[m].text
<1> DEFINE old == chat[m]
<1> DEFINE id == Head(old.pending)
           to == IF Len(old.pending) = 1 THEN "ask" ELSE "tools"
           calls == Append(old.calls, FreshId(old, id))
           pending == Tail(old.pending)
           x == [old EXCEPT !.calls = calls, !.pending = pending]
<1>1. chat' = [chat EXCEPT ![m].calls = calls, ![m].pending = pending]
  BY DEF CallReturns, LocalsInv, LocalTypes, ChatRec
<1>2. /\ old \in ChatRec /\ old.pending \in Seq(CallIds) /\ old.pending # <<>> /\ old.asked > 0
      /\ old.rounds + 1 = old.asked + old.toolRounds
  BY ChatIs DEF Loop, Asking, Chatting
<1>21. /\ id \in CallIds /\ pending \in Seq(CallIds)
       /\ Len(old.pending) # 1 => pending # <<>>
  <2> DEFINE s == old.pending
             t == Tail(s)
  <2>1. s \in Seq(CallIds) /\ s # <<>> BY <1>2
  <2> HIDE DEF s
  <2>2. Head(s) \in CallIds BY <2>1
  <2>3. t \in Seq(CallIds) /\ Len(t) = Len(s) - 1 /\ Len(s) \in Nat BY <2>1, TailIs
  <2> HIDE DEF t
  <2>4. Len(s) # 1 => t # <<>> BY <2>3
  <2> QED BY <2>2, <2>3, <2>4 DEF s, t
<1>3. pc' = [pc EXCEPT ![m] = to] BY DEF CallReturns, Goto
<1>4. chat' = [chat EXCEPT ![m] = x] BY <1>1 DEF LocalsInv, LocalTypes, ChatRec
<1>5. calls \in Seq(CallId)
  <2>1. old.calls \in Seq(CallId) BY <1>2 DEF ChatRec
  <2> HIDE DEF id
  <2> QED BY <1>2, <1>21, <2>1, FreshIdIs
<1> HIDE DEF calls, pending
<1>6. /\ x \in ChatRec /\ x.calls = calls /\ x.pending = pending
      /\ x.asked = old.asked /\ x.seen = old.seen /\ x.arrivals = old.arrivals
      /\ x.text = old.text /\ x.rounds = old.rounds /\ x.toolRounds = old.toolRounds
  BY <1>2, <1>21, <1>5 DEF ChatRec
<1> HIDE DEF x
<1>7. Loop(to, x) BY <1>2, <1>21, <1>6 DEF Loop, Asking, Chatting
<1> HIDE DEF to, id
<1>8. to \in {"ask", "tools"} BY DEF to
<1> QED BY <1>21, <1>3, <1>4, <1>6, <1>7, <1>8 DEF calls

-----------------------------------------------------------------------------
(* Every step is one of the rotation's and one of the memories'. *)

LEMMA ChatStepIsRotationStep == [Next]_vars => [RotationNext]_rotationVars
<1> SUFFICES ASSUME [Next]_vars PROVE [RotationNext]_rotationVars OBVIOUS
<1>1. CASE Tick BY <1>1 DEF Tick, RotationNext
<1>2. CASE UNCHANGED vars BY <1>2 DEF vars, rotationVars
<1>3. ASSUME NEW m \in Messages, Write(m) \/ Memorize(m) PROVE UNCHANGED rotationVars
  BY <1>3 DEF Write, Memorize, MemorizeLooks, MemorizeAdds, MemorizeStores, RpcStep
<1>4. ASSUME NEW m \in Messages, Handle(m) PROVE [RotationNext]_rotationVars
  <2>1. CASE \/ Remembered(m) \/ RememberFails(m) \/ ApplyPersonality(m) \/ History(m)
             \/ HistoryAdds(m) \/ Prompt(m) \/ CallsTools(m) \/ NoteLooks(m) \/ NoteAdds(m)
             \/ Finish(m)
    BY <2>1 DEF Remembered, RememberFails, ApplyPersonality, History, HistoryAdds, Prompt,
                CallsTools, NoteLooks, NoteAdds, Finish
  <2>2. CASE Choose(m) BY <2>2 DEF Choose, RotationNext, Messages
  <2>3. CASE SaysNothing(m) BY <2>3 DEF SaysNothing, RotationNext, Messages
  <2>4. CASE Says(m) \/ Errors(m) BY <2>4 DEF Says, Errors, RotationNext, Messages
  <2>5. CASE NoteStores(m) \/ SwitchPersonality(m) \/ OtherTool(m)
    BY <2>5 DEF NoteStores, SwitchPersonality, OtherTool, CallReturns
  <2> QED BY <1>4, <2>1, <2>2, <2>3, <2>4, <2>5 DEF Handle
<1> QED BY <1>1, <1>2, <1>3, <1>4 DEF Next

LEMMA MemIs ==
    ASSUME NEW owner \in {"self", "other", "none"}, NEW m \in Messages, NEW at \in Nat,
           NEW says \in BOOLEAN, NEW ids \in Seq(CallId)
    PROVE  Mem(owner, m, at, says, ids) \in MemoryRecord
BY DEF Mem, MemoryRecord

LEMMA ChatStepIsMemoriesStep ==
    ASSUME LocalsInv, [Next]_vars
    PROVE  MemoriesStep
<1>0. /\ Channel \in Keys /\ ShortTerm \in Keys /\ <<>> \in Seq(CallId)
      /\ clock \in Nat /\ \A m \in Messages : said[m] \in Nat
  <2>1. <<>> \in Seq(CallId) OBVIOUS
  <2>2. \A m \in Messages : said[m] \in Nat BY DEF LocalsInv, LocalTypes
  <2>3. clock \in Nat BY DEF LocalsInv, LocalTypes
  <2>4. Channel \in Keys /\ ShortTerm \in Keys OBVIOUS
  <2> QED BY <2>1, <2>2, <2>3, <2>4
<1>1. CASE Tick \/ UNCHANGED vars BY <1>1 DEF Tick, vars, MemoriesStep
<1>2. ASSUME NEW m \in Messages, Write(m) \/ MemorizeLooks(m) PROVE MemoriesStep
  BY <1>2 DEF Write, MemorizeLooks, MemoriesStep
<1>3. ASSUME NEW m \in Messages, MemorizeAdds(m) \/ HistoryAdds(m) \/ NoteAdds(m)
      PROVE  MemoriesStep
  BY <1>0, <1>3 DEF MemorizeAdds, HistoryAdds, NoteAdds, MemoriesStep
<1>4. ASSUME NEW m \in Messages, MemorizeStores(m) PROVE MemoriesStep
  <2> DEFINE mem == Mem("other", m, said[m], TRUE, <<>>)
  <2>1. mem \in MemoryRecord BY <1>0, MemIs
  <2>2. Memory(Channel) BY <1>4, ChatIs DEF MemorizeStores, RpcStep, There
  <2>3. Store(Channel, mem) BY <1>4 DEF MemorizeStores
  <2> HIDE DEF mem
  <2> QED BY <1>0, <2>1, <2>2, <2>3 DEF MemoriesStep
<1>5. ASSUME NEW m \in Messages, NoteStores(m) PROVE MemoriesStep
  <2> DEFINE mem == Mem("none", m, clock, TRUE, <<>>)
  <2>1. mem \in MemoryRecord BY <1>0, MemIs
  <2>2. Memory(ShortTerm) BY <1>5, ChatIs DEF NoteStores, There
  <2>3. Store(ShortTerm, mem) BY <1>5 DEF NoteStores
  <2> HIDE DEF mem
  <2> QED BY <1>0, <2>1, <2>2, <2>3 DEF MemoriesStep
<1>6. ASSUME NEW m \in Messages, Finish(m) PROVE MemoriesStep
  <2> DEFINE mem == Mem("self", m, clock + 1, chat[m].text, chat[m].calls)
  <2>1. mem \in MemoryRecord BY <1>0, ChatIs, MemIs
  <2>2. Memory(Channel) BY <1>6, ChatIs DEF Finish, There, Chatting
  <2>3. UNCHANGED memoryVars \/ Store(Channel, mem) BY <1>6 DEF Finish
  <2> HIDE DEF mem
  <2> QED BY <1>0, <2>1, <2>2, <2>3 DEF MemoriesStep
<1>7. ASSUME NEW m \in Messages,
             \/ Remembered(m) \/ RememberFails(m) \/ ApplyPersonality(m) \/ History(m)
             \/ Choose(m) \/ Prompt(m) \/ SaysNothing(m) \/ Says(m) \/ CallsTools(m)
             \/ Errors(m) \/ NoteLooks(m) \/ SwitchPersonality(m) \/ OtherTool(m)
      PROVE  MemoriesStep
  BY <1>7 DEF Remembered, RememberFails, ApplyPersonality, History, Choose, Prompt,
     SaysNothing, Says, CallsTools, Errors, NoteLooks, SwitchPersonality, OtherTool,
     MemoriesStep
<1> QED BY <1>1, <1>2, <1>3, <1>4, <1>5, <1>6, <1>7 DEF Next, Memorize, Handle

-----------------------------------------------------------------------------
(* Each step keeps the locals. *)

(* What a handler does to everything else... *)
HandlerStep ==
    /\ rpc' = rpc /\ said' = said /\ clock' \in Nat /\ clock <= clock'
    /\ remembered' \in [Messages -> BOOLEAN]
    /\ outcome' \in [Messages -> {"none", "posted", "silent", "error"}]
    /\ personality' \in Personalities \cup {NoPersonality}

LEMMA NothingElse ==
    ASSUME LocalsInv, UNCHANGED <<rpc, said, clock, remembered, outcome, personality>>
    PROVE  HandlerStep
BY DEF HandlerStep, LocalsInv, LocalTypes

(* ...while it goes on, with its chat as it is then. *)
LEMMA HandlerGoesOn ==
    ASSUME LocalsInv, \A k \in Keys : Memory(k) => Memory(k)',
           NEW m \in Messages, NEW to \in Pcs, NEW x \in ChatRec,
           pc' = [pc EXCEPT ![m] = to], chat' = [chat EXCEPT ![m] = x],
           Loop(to, x),
           to \in Chatting => pc[m] \in Chatting \/ Memory(Channel)',
           to = "note" => pc[m] = "note" \/ Memory(ShortTerm)',
           HandlerStep
    PROVE  LocalsInv'
<1> USE DEF HandlerStep
<1>1. /\ \A n \in Messages : pc'[n] = IF n = m THEN to ELSE pc[n]
      /\ \A n \in Messages : chat'[n] = IF n = m THEN x ELSE chat[n]
      /\ pc' \in [Messages -> Pcs] /\ chat' \in [Messages -> ChatRec]
  BY DEF LocalsInv, LocalTypes
<1>2. said' \in [Messages -> 0 .. clock'] /\ rpc' \in [Messages -> Rpcs]
  BY DEF LocalsInv, LocalTypes
<1>3. LocalTypes' BY <1>1, <1>2 DEF LocalTypes
<1>4. \A n \in Messages : Loop(pc'[n], chat'[n]) BY <1>1, ChatIs
<1>5. Channel \in Keys /\ ShortTerm \in Keys OBVIOUS
<1>6. \A n \in Messages : There(pc[n], rpc[n]) BY DEF LocalsInv
<1>7. ASSUME NEW n \in Messages PROVE There(pc[n], rpc[n])'
  <2>1. rpc'[n] = rpc[n] OBVIOUS
  <2>2. CASE n = m BY <1>1, <1>5, <1>6, <2>1, <2>2 DEF There
  <2>3. CASE n # m BY <1>1, <1>5, <1>6, <2>1, <2>3 DEF There
  <2> QED BY <2>2, <2>3
<1> QED BY <1>3, <1>4, <1>7 DEF LocalsInv, Loop

(* The llm goes on with a Memorize. *)
LEMMA RpcGoesOn ==
    ASSUME LocalsInv, \A k \in Keys : Memory(k) => Memory(k)',
           NEW m \in Messages, NEW from, NEW to \in Rpcs, RpcStep(m, from, to),
           to \in {"store", "stored"} => Memory(Channel)'
    PROVE  LocalsInv'
<1>1. /\ UNCHANGED <<pc, said, clock, remembered, chat, outcome, personality>>
      /\ rpc' = [rpc EXCEPT ![m] = to]
  BY DEF RpcStep, guildVars
<1>2. LocalTypes' BY <1>1 DEF LocalsInv, LocalTypes
<1>3. \A n \in Messages : rpc'[n] = IF n = m THEN to ELSE rpc[n]
  BY <1>1 DEF LocalsInv, LocalTypes
<1>4. Channel \in Keys /\ ShortTerm \in Keys OBVIOUS
<1>5. \A n \in Messages : There(pc[n], rpc[n]) /\ Loop(pc[n], chat[n]) BY DEF LocalsInv
<1>6. ASSUME NEW n \in Messages PROVE There(pc[n], rpc[n])'
  BY <1>1, <1>3, <1>4, <1>5 DEF There
<1>7. ASSUME NEW n \in Messages PROVE Loop(pc[n], chat[n])'
  BY <1>1, <1>5 DEF Loop
<1> QED BY <1>2, <1>6, <1>7 DEF LocalsInv

LEMMA WriteKeeps ==
    ASSUME LocalsInv, NEW m \in Messages, Write(m) PROVE LocalsInv'
<1>1. /\ UNCHANGED <<remembered, memoryVars, chat, outcome, personality>>
      /\ pc[m] = "unwritten" /\ pc' = [pc EXCEPT ![m] = "remember"]
      /\ rpc' = [rpc EXCEPT ![m] = "lookup"]
      /\ clock' = clock + 1 /\ said' = [said EXCEPT ![m] = clock + 1]
  BY DEF Write, Goto, guildVars
<1>2. clock' \in Nat /\ said' \in [Messages -> 0 .. clock']
  BY <1>1 DEF LocalsInv, LocalTypes
<1>3. pc' \in [Messages -> Pcs] /\ rpc' \in [Messages -> Rpcs]
  BY <1>1 DEF LocalsInv, LocalTypes, Pcs, Rpcs
<1>4. LocalTypes' BY <1>1, <1>2, <1>3 DEF LocalsInv, LocalTypes
<1>5. /\ \A n \in Messages : pc'[n] = IF n = m THEN "remember" ELSE pc[n]
      /\ \A n \in Messages : rpc'[n] = IF n = m THEN "lookup" ELSE rpc[n]
  BY <1>1 DEF LocalsInv, LocalTypes
<1>6. \A n \in Messages : There(pc[n], rpc[n]) /\ Loop(pc[n], chat[n]) BY DEF LocalsInv
<1>7. ASSUME NEW n \in Messages PROVE There(pc[n], rpc[n])'
  BY <1>1, <1>5, <1>6 DEF There, Memory, memoryVars, Chatting, Asking
<1>8. ASSUME NEW n \in Messages PROVE Loop(pc[n], chat[n])'
  BY <1>1, <1>5, <1>6 DEF Loop, Chatting, Asking
<1> QED BY <1>4, <1>7, <1>8 DEF LocalsInv

LEMMA HolderAdded ==
    ASSUME MemoriesInv, NEW k \in Keys, AddMemoryHolder(k) PROVE Memory(k)'
<1>1. <<>> \in Seq(MemoryRecord) OBVIOUS
<1>2. <<>> # NoHolder BY <1>1
<1>3. holder' = [holder EXCEPT ![k] = IF Memory(k) THEN @ ELSE <<>>]
  BY DEF AddMemoryHolder
<1> QED BY <1>2, <1>3 DEF MemoriesInv, Memory

LEMMA MemorizeKeeps ==
    ASSUME LocalsInv, MemoriesInv, \A k \in Keys : Memory(k) => Memory(k)',
           NEW m \in Messages, Memorize(m)
    PROVE  LocalsInv'
<1>1. Channel \in Keys OBVIOUS
<1>2. CASE MemorizeLooks(m)
  BY <1>1, <1>2, RpcGoesOn DEF MemorizeLooks, Rpcs
<1>3. CASE MemorizeAdds(m)
  <2>1. Memory(Channel)' BY <1>1, <1>3, HolderAdded DEF MemorizeAdds
  <2> QED BY <1>3, <2>1, RpcGoesOn DEF MemorizeAdds, Rpcs
<1>4. CASE MemorizeStores(m)
  <2>1. Memory(Channel) BY <1>4, ChatIs DEF MemorizeStores, RpcStep, There
  <2> QED BY <1>1, <1>4, <2>1, RpcGoesOn DEF MemorizeStores, Rpcs
<1> QED BY <1>2, <1>3, <1>4 DEF Memorize

(* Before a chat there is nothing in it. *)
LEMMA BeforeChatKeeps ==
    ASSUME LocalsInv, \A k \in Keys : Memory(k) => Memory(k)', NEW m \in Messages,
           Remembered(m) \/ RememberFails(m) \/ ApplyPersonality(m) \/ History(m)
    PROVE  LocalsInv'
<1>0. Channel \in Keys /\ NoChat \in ChatRec /\ chat \in [Messages -> ChatRec]
  BY NoChatIs DEF LocalsInv, LocalTypes
<1>1. /\ clock \in Nat /\ remembered \in [Messages -> BOOLEAN]
      /\ outcome \in [Messages -> {"none", "posted", "silent", "error"}]
      /\ personality \in Personalities \cup {NoPersonality}
  BY DEF LocalsInv, LocalTypes
<1>2. /\ pc[m] \notin Chatting /\ chat[m] = NoChat /\ chat' = chat /\ clock' = clock /\ said' = said
      /\ outcome' = outcome
  BY ChatIs DEF Remembered, RememberFails, ApplyPersonality, History, Loop, botVars, Chatting, Asking
<1>3. chat' = [chat EXCEPT ![m] = NoChat] BY <1>0, <1>2
<1>4. Loop("reply", NoChat) /\ Loop("done", NoChat) /\ Loop("history", NoChat)
      /\ Loop("history_add", NoChat) /\ Loop("choose", NoChat)
  BY RotationAssumption DEF Loop, NoChat, Chatting, Asking
<1>5. CASE Remembered(m)
  <2> DEFINE to == IF m \in Mentions THEN "reply" ELSE "done"
  <2>1. pc' = [pc EXCEPT ![m] = to] /\ UNCHANGED <<rpc, personality>>
        /\ remembered' = [remembered EXCEPT ![m] = TRUE]
    BY <1>5 DEF Remembered, Goto, guildVars
  <2>2. HandlerStep BY <1>1, <1>2, <2>1 DEF HandlerStep
  <2>3. to \in Pcs /\ to \notin Chatting /\ to # "note" /\ Loop(to, NoChat)
    BY <1>4 DEF Pcs, Chatting, Asking
  <2> HIDE DEF to
  <2> QED BY <1>0, <1>3, <2>1, <2>2, <2>3, HandlerGoesOn
<1>6. CASE RememberFails(m)
  <2> DEFINE to == IF m \in Mentions THEN "reply" ELSE "done"
  <2>1. /\ pc' = [pc EXCEPT ![m] = to] /\ UNCHANGED <<remembered, personality>>
        /\ rpc' = rpc \/ rpc' = [rpc EXCEPT ![m] = "none"]
    BY <1>6 DEF RememberFails, Goto, guildVars
  <2>2. to \in Pcs /\ to \notin Chatting /\ Loop(to, NoChat) /\ to # "note"
    BY <1>4 DEF Pcs, Chatting, Asking
  <2> HIDE DEF to
  <2>3. LocalTypes' BY <1>2, <2>1, <2>2 DEF LocalsInv, LocalTypes, Rpcs
  <2>4. \A n \in Messages :
          /\ pc'[n] = IF n = m THEN to ELSE pc[n]
          /\ rpc'[n] = rpc[n] \/ rpc'[n] = "none"
    BY <2>1 DEF LocalsInv, LocalTypes
  <2>5. \A n \in Messages : There(pc[n], rpc[n]) /\ Loop(pc[n], chat[n]) BY DEF LocalsInv
  <2>6. Memory(Channel) => Memory(Channel)' BY <1>0
  <2>7. Memory(ShortTerm) => Memory(ShortTerm)' OBVIOUS
  <2>8. ASSUME NEW n \in Messages PROVE There(pc[n], rpc[n])'
    BY <2>2, <2>4, <2>5, <2>6, <2>7 DEF There
  <2>9. ASSUME NEW n \in Messages PROVE Loop(pc[n], chat[n])'
    <3>1. pc'[n] = pc[n] \/ (pc'[n] = to /\ n = m) BY <2>4
    <3> QED BY <1>2, <2>2, <2>5, <3>1 DEF Loop
  <2> QED BY <2>3, <2>8, <2>9 DEF LocalsInv
<1>7. CASE ApplyPersonality(m)
  <2>1. /\ pc' = [pc EXCEPT ![m] = "history"] /\ UNCHANGED <<rpc, remembered>>
        /\ personality' = IF applied THEN personality ELSE Default
    BY <1>7 DEF ApplyPersonality, Goto, botVars
  <2>2. HandlerStep BY <1>1, <1>2, <2>1 DEF HandlerStep
  <2>3. "history" \in Pcs /\ "history" \notin Chatting BY DEF Pcs, Chatting, Asking
  <2> QED BY <1>0, <1>3, <1>4, <2>1, <2>2, <2>3, HandlerGoesOn
<1>8. CASE History(m)
  <2> DEFINE to == IF Memory(Channel) THEN "choose" ELSE "history_add"
  <2>1. pc' = [pc EXCEPT ![m] = to] /\ UNCHANGED <<rpc, remembered, personality, memoryVars>>
    BY <1>8 DEF History, Goto, botVars, guildVars
  <2>2. to \in Pcs /\ Loop(to, NoChat) /\ to # "note" /\ (to \in Chatting => Memory(Channel)')
    BY <1>0, <1>4 DEF Pcs, Chatting, Asking
  <2>3. HandlerStep BY <1>2, <2>1, NothingElse
  <2> HIDE DEF to
  <2> QED BY <1>0, <1>3, <2>1, <2>2, <2>3, HandlerGoesOn
<1> QED BY <1>5, <1>6, <1>7, <1>8

(* Up to the prompt. *)
LEMMA PromptKeeps ==
    ASSUME LocalsInv, MemoriesInv, \A k \in Keys : Memory(k) => Memory(k)', NEW m \in Messages,
           HistoryAdds(m) \/ Choose(m) \/ Prompt(m)
    PROVE  LocalsInv'
<1> DEFINE old == chat[m]
<1>0. Channel \in Keys /\ old \in ChatRec /\ Loop(pc[m], old) /\ There(pc[m], rpc[m])
  BY ChatIs
<1>1. HandlerStep
  <2>1. UNCHANGED <<rpc, said, clock, remembered, outcome, personality>>
    BY DEF HistoryAdds, Choose, Prompt, botVars, guildVars
  <2> QED BY <2>1, NothingElse
<1>2. CASE HistoryAdds(m)
  <2>1. /\ pc[m] = "history_add" /\ pc' = [pc EXCEPT ![m] = "choose"] /\ chat' = chat
    BY <1>2 DEF HistoryAdds, Goto
  <2>2. Memory(Channel)' BY <1>0, <1>2, HolderAdded DEF HistoryAdds
  <2>3. old = NoChat BY <1>0, <2>1 DEF Loop, Chatting, Asking
  <2>4. Loop("choose", old) BY <2>3, RotationAssumption DEF Loop, NoChat, Chatting, Asking
  <2>5. chat' = [chat EXCEPT ![m] = old] BY <2>1 DEF LocalsInv, LocalTypes
  <2>6. "choose" \in Pcs BY DEF Pcs, Chatting
  <2> QED BY <1>0, <1>1, <2>1, <2>2, <2>4, <2>5, <2>6, HandlerGoesOn
<1>3. CASE Choose(m)
  <2> DEFINE asked == old.asked + 1
             x == [old EXCEPT !.asked = asked]
             to == IF old.asked = 0 THEN "prompt" ELSE "ask"
  <2>1. /\ pc[m] = "choose" /\ pc' = [pc EXCEPT ![m] = to] /\ chat' = [chat EXCEPT ![m] = x]
    BY <1>3 DEF Choose, Goto, LocalsInv, LocalTypes
  <2>2. /\ old.asked \in 0 .. Length /\ old.asked < Length
        /\ old.rounds = old.asked + old.toolRounds
    BY <1>0, <2>1, ChatIs DEF Loop
  <2>4. to \in {"prompt", "ask"} OBVIOUS
  <2>7. asked \in 0 .. Length /\ asked = old.asked + 1 BY <2>2, RotationAssumption
  <2> HIDE DEF to, asked
  <2>3. /\ x \in ChatRec /\ x.asked = asked /\ x.rounds = old.rounds
        /\ x.toolRounds = old.toolRounds
    BY <1>0, <2>7 DEF ChatRec
  <2> HIDE DEF x
  <2>8. old.toolRounds \in Nat BY <1>0, ChatIs
  <2>5. Loop(to, x) BY <2>2, <2>3, <2>4, <2>7, <2>8 DEF Loop, Chatting, Asking
  <2>6. to \in Pcs /\ to # "note" /\ pc[m] \in Chatting BY <2>1, <2>4 DEF Pcs, Chatting, Asking
  <2> QED BY <1>1, <2>1, <2>3, <2>5, <2>6, HandlerGoesOn
<1>4. CASE Prompt(m)
  <2> DEFINE seen == {holder[Channel][i] : i \in DOMAIN holder[Channel]}
             arrivals == Len(arrived[Channel])
             x == [old EXCEPT !.seen = seen, !.arrivals = arrivals]
  <2>1. /\ pc[m] = "prompt" /\ pc' = [pc EXCEPT ![m] = "ask"] /\ chat' = [chat EXCEPT ![m] = x]
    BY <1>4 DEF Prompt, Goto, LocalsInv, LocalTypes
  <2>2. Memory(Channel) BY <1>0, <2>1 DEF There, Chatting, Asking
  <2>3. seen \in SUBSET MemoryRecord
    <3>1. holder[Channel] \in Seq(MemoryRecord) BY <1>0, <2>2 DEF MemoriesInv, Memory
    <3> QED BY <3>1
  <2>4. arrivals \in Nat
    <3>1. arrived[Channel] \in Seq(MemoryRecord) BY <1>0 DEF MemoriesInv
    <3> QED BY <3>1
  <2> HIDE DEF seen, arrivals
  <2>5. /\ x \in ChatRec /\ x.asked = old.asked /\ x.rounds = old.rounds
        /\ x.toolRounds = old.toolRounds /\ x.pending = old.pending
    BY <1>0, <2>3, <2>4 DEF ChatRec
  <2> HIDE DEF x
  <2>6. Loop("ask", x) BY <1>0, <2>1, <2>5 DEF Loop, Chatting, Asking
  <2>7. "ask" \in Pcs /\ pc[m] \in Chatting BY <2>1 DEF Pcs, Chatting, Asking
  <2> QED BY <1>1, <2>1, <2>5, <2>6, <2>7, HandlerGoesOn
<1> QED BY <1>2, <1>3, <1>4

(* A completion. *)
LEMMA AskKeeps ==
    ASSUME LocalsInv, \A k \in Keys : Memory(k) => Memory(k)', NEW m \in Messages,
           SaysNothing(m) \/ Says(m) \/ CallsTools(m) \/ Errors(m)
    PROVE  LocalsInv'
<1> DEFINE old == chat[m]
<1>0. /\ old \in ChatRec /\ Loop("ask", old) /\ pc[m] = "ask" /\ pc[m] \in Chatting
      /\ old.asked \in 0 .. Length /\ old.toolRounds \in 0 .. MaxToolRounds /\ old.rounds \in Nat
      /\ old.asked > 0 /\ old.rounds + 1 = old.asked + old.toolRounds
  <2>1. pc[m] = "ask" BY DEF SaysNothing, Says, CallsTools, Errors
  <2> QED BY <2>1, ChatIs DEF Loop, Chatting, Asking
<1>1. CASE SaysNothing(m)
  <2> DEFINE rounds == old.rounds + 1
             x == [old EXCEPT !.rounds = rounds]
             to == IF old.asked < Length THEN "choose" ELSE "finish"
  <2>1. pc' = [pc EXCEPT ![m] = to] /\ chat' = [chat EXCEPT ![m] = x]
    BY <1>1 DEF SaysNothing, Goto, LocalsInv, LocalTypes
  <2>2. UNCHANGED <<rpc, said, clock, remembered, outcome, personality>>
    BY <1>1 DEF SaysNothing, botVars, guildVars
  <2>8. rounds \in Nat /\ rounds = old.rounds + 1 BY <1>0
  <2> HIDE DEF rounds
  <2>3. /\ x \in ChatRec /\ x.asked = old.asked /\ x.rounds = rounds
        /\ x.toolRounds = old.toolRounds
    BY <1>0, <2>8 DEF ChatRec
  <2>4. to \in {"choose", "finish"} /\ (to = "choose" => old.asked < Length) OBVIOUS
  <2> HIDE DEF x, to
  <2>5. Loop(to, x) BY <1>0, <2>3, <2>4, <2>8 DEF Loop, Chatting, Asking
  <2>6. to \in Pcs /\ to # "note" BY <2>4 DEF Pcs, Chatting
  <2>7. HandlerStep BY <2>2, NothingElse
  <2> QED BY <1>0, <2>1, <2>3, <2>5, <2>6, <2>7, HandlerGoesOn
<1>2. CASE Says(m)
  <2> DEFINE rounds == old.rounds + 1
             x == [old EXCEPT !.rounds = rounds, !.text = TRUE]
  <2>1. pc' = [pc EXCEPT ![m] = "finish"] /\ chat' = [chat EXCEPT ![m] = x]
    BY <1>2 DEF Says, Goto, LocalsInv, LocalTypes
  <2>2. UNCHANGED <<rpc, said, clock, remembered, outcome, personality>>
    BY <1>2 DEF Says, botVars, guildVars
  <2>6. rounds \in Nat /\ rounds = old.rounds + 1 BY <1>0
  <2> HIDE DEF rounds
  <2>3. /\ x \in ChatRec /\ x.asked = old.asked /\ x.rounds = rounds
        /\ x.toolRounds = old.toolRounds
    BY <1>0, <2>6 DEF ChatRec
  <2> HIDE DEF x
  <2>4. Loop("finish", x) /\ "finish" \in Pcs BY <1>0, <2>3, <2>6 DEF Loop, Pcs, Chatting, Asking
  <2>5. HandlerStep BY <2>2, NothingElse
  <2> QED BY <1>0, <2>1, <2>3, <2>4, <2>5, HandlerGoesOn
<1>3. CASE CallsTools(m)
  <2>1. PICK ids \in Completions[old.toolRounds] :
          chat' = [chat EXCEPT ![m].rounds = @ + 1, ![m].toolRounds = @ + 1, ![m].pending = ids]
    BY <1>3 DEF CallsTools
  <2> DEFINE rounds == old.rounds + 1
             toolRounds == old.toolRounds + 1
             x == [old EXCEPT !.rounds = rounds, !.toolRounds = toolRounds, !.pending = ids]
  <2>2. pc' = [pc EXCEPT ![m] = "tools"] /\ chat' = [chat EXCEPT ![m] = x]
    BY <1>3, <2>1 DEF CallsTools, Goto, LocalsInv, LocalTypes
  <2>3. UNCHANGED <<rpc, said, clock, remembered, outcome, personality>>
    BY <1>3 DEF CallsTools, botVars, guildVars
  <2>4. /\ toolRounds \in 0 .. MaxToolRounds /\ toolRounds = old.toolRounds + 1
        /\ rounds \in Nat /\ rounds = old.rounds + 1
    <3>1. old.toolRounds < MaxToolRounds BY <1>3 DEF CallsTools, OffersTools
    <3>2. /\ old.toolRounds \in 0 .. MaxToolRounds /\ old.rounds \in Nat
          /\ MaxToolRounds \in Nat
      BY <1>0
    <3> HIDE DEF old
    <3> QED BY <3>1, <3>2
  <2>41. ids \in Seq(CallIds) /\ ids # <<>>
    <3>1. old.toolRounds \in 0 .. MaxToolRounds BY <1>0
    <3>2. ids \in Seq(CallId) /\ ids # <<>> BY <3>1, CompletionsAssumption
    <3>3. \A i \in DOMAIN ids : ids[i] \in CallIds BY <3>1, <3>2 DEF CallIds, Given
    <3> QED BY <3>2, <3>3
  <2> HIDE DEF rounds, toolRounds
  <2>5. /\ x \in ChatRec /\ x.asked = old.asked /\ x.rounds = rounds
        /\ x.toolRounds = toolRounds /\ x.pending = ids
    BY <1>0, <2>4, <2>41 DEF ChatRec
  <2> HIDE DEF x
  <2>8. /\ x.asked > 0 /\ x.rounds + 1 = x.asked + x.toolRounds /\ x.pending # <<>>
    <3>1. x.asked > 0 BY <1>0, <2>5
    <3>2. x.pending # <<>> BY <2>41, <2>5
    <3>3. rounds + 1 = old.asked + toolRounds
      <4>1. /\ old.asked \in Nat /\ old.toolRounds \in Nat /\ old.rounds \in Nat
            /\ old.rounds + 1 = old.asked + old.toolRounds
        BY <1>0, RotationAssumption
      <4> HIDE DEF old
      <4> QED BY <2>4, <4>1
    <3> QED BY <2>5, <3>1, <3>2, <3>3
  <2>6. Loop("tools", x) /\ "tools" \in Pcs BY <2>8 DEF Loop, Pcs, Chatting, Asking
  <2>7. HandlerStep BY <2>3, NothingElse
  <2> QED BY <1>0, <2>2, <2>5, <2>6, <2>7, HandlerGoesOn
<1>4. CASE Errors(m)
  <2>1. /\ pc' = [pc EXCEPT ![m] = "done"] /\ chat' = [chat EXCEPT ![m] = NoChat]
        /\ remembered' = [remembered EXCEPT ![m] = FALSE]
        /\ outcome' = [outcome EXCEPT ![m] = "error"]
        /\ UNCHANGED <<rpc, said, clock, personality>>
    BY <1>4 DEF Errors, Ended, Goto, guildVars
  <2>2. HandlerStep BY <2>1 DEF HandlerStep, LocalsInv, LocalTypes
  <2>3. Loop("done", NoChat) /\ "done" \in Pcs BY DEF Loop, Pcs, Chatting, Asking
  <2> QED BY <1>0, <2>1, <2>2, <2>3, NoChatIs, HandlerGoesOn DEF Chatting, Asking
<1> QED BY <1>1, <1>2, <1>3, <1>4

(* The tools, and the end. *)
LEMMA ToolsKeep ==
    ASSUME LocalsInv, MemoriesInv, \A k \in Keys : Memory(k) => Memory(k)', NEW m \in Messages,
           \/ NoteLooks(m) \/ NoteAdds(m) \/ NoteStores(m)
           \/ SwitchPersonality(m) \/ OtherTool(m)
    PROVE  LocalsInv'
<1> DEFINE old == chat[m]
<1>0. ShortTerm \in Keys /\ old \in ChatRec /\ Loop(pc[m], old)
  BY ChatIs
<1>1. pc[m] \in {"tools", "note_add", "note"} /\ pc[m] \in Chatting
  BY DEF NoteLooks, NoteAdds, NoteStores, SwitchPersonality, OtherTool, Chatting, Asking
<1>2. CASE NoteLooks(m) \/ NoteAdds(m)
  <2>1. PICK to \in {"note", "note_add"} :
          pc' = [pc EXCEPT ![m] = to] /\ (to = "note" => Memory(ShortTerm)')
    <3>1. CASE NoteLooks(m)
      BY <1>0, <3>1 DEF NoteLooks, Goto
    <3>2. CASE NoteAdds(m)
      BY <1>0, <3>2, HolderAdded DEF NoteAdds, Goto
    <3> QED BY <1>2, <3>1, <3>2
  <2>2. /\ UNCHANGED <<rpc, said, clock, remembered, outcome, personality>> /\ chat' = chat
    BY <1>2 DEF NoteLooks, NoteAdds, botVars, guildVars
  <2>3. chat' = [chat EXCEPT ![m] = old] BY <2>2 DEF LocalsInv, LocalTypes
  <2>4. Loop(to, old) /\ to \in Pcs BY <1>0, <1>1 DEF Loop, Pcs, Chatting, Asking
  <2>5. HandlerStep BY <2>2, NothingElse
  <2> QED BY <1>0, <1>1, <2>1, <2>3, <2>4, <2>5, HandlerGoesOn
<1>3. CASE NoteStores(m) \/ SwitchPersonality(m) \/ OtherTool(m)
  <2>1. CallReturns(m) /\ pc[m] \in {"tools", "note"}
    BY <1>3 DEF NoteStores, SwitchPersonality, OtherTool
  <2>2. PICK x \in ChatRec, to \in {"ask", "tools"} :
          pc' = [pc EXCEPT ![m] = to] /\ chat' = [chat EXCEPT ![m] = x] /\ Loop(to, x)
    BY <2>1, CallReturnsIs
  <2>3. HandlerStep
    <3>1. UNCHANGED <<rpc, said, clock, remembered, outcome>>
      BY <2>1 DEF CallReturns, botVars
    <3>2. personality' \in Personalities \cup {NoPersonality}
      BY <1>3 DEF NoteStores, SwitchPersonality, OtherTool, guildVars, LocalsInv, LocalTypes
    <3> QED BY <3>1, <3>2 DEF HandlerStep, LocalsInv, LocalTypes
  <2>4. to \in Pcs /\ to # "note" BY DEF Pcs, Chatting, Asking
  <2> QED BY <1>1, <2>2, <2>3, <2>4, HandlerGoesOn
<1> QED BY <1>2, <1>3

LEMMA FinishKeeps ==
    ASSUME LocalsInv, \A k \in Keys : Memory(k) => Memory(k)', NEW m \in Messages, Finish(m)
    PROVE  LocalsInv'
<1>1. /\ pc' = [pc EXCEPT ![m] = "done"] /\ chat' = [chat EXCEPT ![m] = NoChat]
      /\ remembered' = [remembered EXCEPT ![m] = FALSE]
      /\ outcome' = [outcome EXCEPT ![m] = IF chat[m].text THEN "posted" ELSE "silent"]
      /\ UNCHANGED <<rpc, said, personality>>
  BY DEF Finish, Ended, Goto, guildVars
<1>2. clock \in Nat /\ clock' \in {clock, clock + 1} BY DEF Finish, LocalsInv, LocalTypes
<1>3. HandlerStep BY <1>1, <1>2 DEF HandlerStep, LocalsInv, LocalTypes
<1>4. Loop("done", NoChat) /\ "done" \in Pcs /\ "done" \notin Chatting
  BY DEF Loop, Pcs, Chatting, Asking
<1> QED BY <1>1, <1>3, <1>4, NoChatIs, HandlerGoesOn

-----------------------------------------------------------------------------
LEMMA BaseStep ==
    ASSUME BaseInv, [Next]_vars
    PROVE  BaseInv'
<1>1. RotationTypeOK' /\ SelectedInService'
  BY ChatStepIsRotationStep, RotationStepKeeps DEF BaseInv
<1>2. MemoriesInv' /\ \A k \in Keys : Memory(k) => Memory(k)'
  BY ChatStepIsMemoriesStep, MemoriesKeep DEF BaseInv
<1>3. LocalsInv /\ MemoriesInv BY DEF BaseInv
<1>4. ASSUME pc' = pc, rpc' = rpc, said' = said, clock' = clock, remembered' = remembered,
             chat' = chat, outcome' = outcome, personality' = personality, holder' = holder
      PROVE  LocalsInv'
  <2>1. LocalTypes' BY <1>3, <1>4 DEF LocalsInv, LocalTypes
  <2>2. ASSUME NEW m \in Messages PROVE Loop(pc[m], chat[m])' /\ There(pc[m], rpc[m])'
    <3>1. Loop(pc[m], chat[m]) /\ There(pc[m], rpc[m]) BY <1>3, ChatIs
    <3> QED BY <1>4, <3>1 DEF Loop, There, Memory
  <2> QED BY <2>1, <2>2 DEF LocalsInv
<1>5. ASSUME Tick PROVE LocalsInv'
  <2>1. UNCHANGED <<memoryVars, pc, botVars, chat, outcome, guildVars>> BY <1>5 DEF Tick
  <2> QED BY <1>4, <2>1 DEF memoryVars, botVars, guildVars
<1>6. ASSUME UNCHANGED vars PROVE LocalsInv'
  <2>1. UNCHANGED <<memoryVars, pc, botVars, chat, outcome, guildVars>> BY <1>6 DEF vars
  <2> QED BY <1>4, <2>1 DEF memoryVars, botVars, guildVars
<1>7. ASSUME NEW m \in Messages, Write(m) \/ Memorize(m) PROVE LocalsInv'
  BY <1>2, <1>3, <1>7, WriteKeeps, MemorizeKeeps
<1>8. ASSUME NEW m \in Messages, Handle(m) PROVE LocalsInv'
  BY <1>2, <1>3, <1>8, BeforeChatKeeps, PromptKeeps, AskKeeps, ToolsKeep, FinishKeeps DEF Handle
<1>9. LocalsInv'
  <2>1. CASE Next
    <3>1. Tick \/ \E m \in Messages : Write(m) \/ Memorize(m) \/ Handle(m) BY <2>1 DEF Next
    <3> QED BY <1>5, <1>7, <1>8, <3>1
  <2> QED BY <1>6, <2>1
<1> QED BY <1>1, <1>2, <1>9 DEF BaseInv

LEMMA BaseInit == Init => BaseInv
<1> SUFFICES ASSUME Init PROVE BaseInv OBVIOUS
<1>1. RotationTypeOK /\ SelectedInService BY RotationInitHolds DEF Init
<1>2. MemoriesInv
  <2>1. <<>> \in Seq(MemoryRecord) OBVIOUS
  <2>2. holder = [k \in Keys |-> NoHolder] /\ arrived = [k \in Keys |-> <<>>]
    BY DEF Init, MemoriesInit
  <2> QED BY <2>1, <2>2 DEF MemoriesInv, NothingLost, Memory
<1>3. LocalTypes BY NoChatIs DEF Init, LocalTypes, Pcs, Rpcs
<1>4. ASSUME NEW m \in Messages PROVE Loop(pc[m], chat[m]) /\ There(pc[m], rpc[m])
  BY DEF Init, Loop, There, Chatting, Asking
<1> QED BY <1>1, <1>2, <1>3, <1>4 DEF BaseInv, LocalsInv

LEMMA Base == Spec => []BaseInv
BY BaseInit, BaseStep, PTL DEF Spec

(* For any number of messages at once: the types hold, and no chat asks    *)
(* more models than there are or makes more completions than models and    *)
(* rounds of tools together.                                               *)
THEOREM ChatsAreBounded == Spec => []TypeOK
<1>1. BaseInv => TypeOK
  <2> SUFFICES ASSUME BaseInv PROVE TypeOK OBVIOUS
  <2>1. RotationTypeOK /\ LocalsInv /\ MemoriesInv BY DEF BaseInv
  <2>2. \A k \in Keys : Memory(k) => holder[k] \in Seq(MemoryRecord)
    BY <2>1 DEF MemoriesInv, Memory
  <2>3. ASSUME NEW m \in Messages
        PROVE  /\ chat[m].asked \in 0 .. Length /\ chat[m].toolRounds \in 0 .. MaxToolRounds
               /\ chat[m].rounds \in 0 .. (Length + MaxToolRounds)
               /\ chat[m].pending \in Seq(CallId) /\ chat[m].calls \in Seq(CallId)
    <3> DEFINE x == chat[m]
    <3>1. /\ x.asked \in 0 .. Length /\ x.toolRounds \in 0 .. MaxToolRounds /\ x.rounds \in Nat
          /\ x.pending \in Seq(CallIds) /\ x.calls \in Seq(CallId) /\ Loop(pc[m], x)
      BY <2>1, ChatIs
    <3>6. x.pending \in Seq(CallId)
      <4> HIDE DEF x
      <4> QED BY <3>1 DEF CallIds
    <3>2. \/ x = NoChat
          \/ x.rounds = x.asked + x.toolRounds
          \/ x.rounds + 1 = x.asked + x.toolRounds
      BY <2>1, <3>1, ChatIs DEF Loop, Chatting
    <3>3. NoChat.rounds = 0 BY DEF NoChat
    <3>4. Length \in Nat /\ MaxToolRounds \in Nat BY RotationAssumption
    <3>5. x.rounds <= Length + MaxToolRounds BY <3>1, <3>2, <3>3, <3>4
    <3> QED BY <3>1, <3>5, <3>6
  <2>4. /\ pc \in [Messages -> Pcs] /\ rpc \in [Messages -> Rpcs]
        /\ clock \in Nat /\ said \in [Messages -> 0 .. clock]
        /\ remembered \in [Messages -> BOOLEAN]
        /\ outcome \in [Messages -> {"none", "posted", "silent", "error"}]
        /\ personality \in Personalities \cup {NoPersonality}
    BY <2>1 DEF LocalsInv, LocalTypes
  <2>5. Pcs = {"unwritten", "remember", "reply", "history", "history_add", "choose", "prompt",
               "ask", "tools", "note_add", "note", "finish", "done"}
    BY DEF Pcs, Chatting, Asking
  <2> QED BY <2>1, <2>2, <2>3, <2>4, <2>5 DEF TypeOK, Rpcs
<1> QED BY <1>1, Base, PTL

(* However many look for a holder that is not there yet and make one each, *)
(* nothing stored at its key is lost.                                      *)
THEOREM MemoriesAreKept == Spec => []NothingLost
<1>1. BaseInv => NothingLost BY DEF BaseInv, MemoriesInv
<1> QED BY <1>1, Base, PTL

(* The chats share one rotation of models and each of them is only one of  *)
(* its callers: interleaved with memories, tools and each other, they use  *)
(* it as the rotation allows,                                              *)
THEOREM ChatsRotate == Spec => RotationSpec
<1>1. Init => RotationInit BY DEF Init
<1> QED BY <1>1, ChatStepIsRotationStep, PTL DEF Spec, RotationSpec

(* so the model the next message gets is never a benched one: a benched    *)
(* one comes back early only when all others are benched too, and then it  *)
(* is the one benched longest.                                             *)
THEOREM ChatsGoRound == Spec => []SelectedInService /\ LastResort /\ LongestBenchedFirst
BY ChatsRotate, RotationCorrect, NobodyElseIsLeft, LongestBenchedIsTaken, PTL

-----------------------------------------------------------------------------
(* A holder's memories are in a bounded queue of shared/queue.go: what it   *)
(* holds, and what the latest Store made room by pushing out.              *)

Kept(k) == IF Memory(k) THEN holder[k] ELSE <<>>

PushedOut(k) ==
    IF Len(arrived[k]) > HistorySize
    THEN <<arrived[k][Len(arrived[k]) - HistorySize], TRUE>> ELSE <<NoHolder, FALSE>>

ChannelFifo == INSTANCE BoundedFifo WITH
    Values <- MemoryRecord, Zero <- NoHolder, Capacity <- HistorySize,
    items <- Kept(Channel), returned <- PushedOut(Channel)

NotesFifo == INSTANCE BoundedFifo WITH
    Values <- MemoryRecord, Zero <- NoHolder, Capacity <- HistorySize,
    items <- Kept(ShortTerm), returned <- PushedOut(ShortTerm)

(* Whoever stores, and whoever looks for a holder, adds one or finds       *)
(* another's, of one key's queue sees nothing but an Enqueue.              *)
LEMMA HoldersQueue ==
    ASSUME MemoriesInv, MemoriesStep, NEW l \in Keys
    PROVE  \/ UNCHANGED <<Kept(l), PushedOut(l)>>
           \/ \E mem \in MemoryRecord :
                IF Len(Kept(l)) < HistorySize
                THEN /\ Kept(l)' = Append(Kept(l), mem)
                     /\ PushedOut(l)' = <<NoHolder, FALSE>>
                ELSE /\ Kept(l)' = Append(Tail(Kept(l)), mem)
                     /\ PushedOut(l)' = <<Head(Kept(l)), TRUE>>
<1>0. arrived[l] \in Seq(MemoryRecord) /\ Len(arrived[l]) \in Nat BY DEF MemoriesInv
<1>1. ASSUME arrived'[l] = arrived[l], holder'[l] = holder[l]
      PROVE  UNCHANGED <<Kept(l), PushedOut(l)>>
  BY <1>1 DEF Kept, PushedOut, Memory
<1>2. CASE UNCHANGED memoryVars BY <1>1, <1>2 DEF memoryVars
<1>3. ASSUME NEW k \in Keys, AddMemoryHolder(k) PROVE UNCHANGED <<Kept(l), PushedOut(l)>>
  <2>1. arrived' = arrived BY <1>3 DEF AddMemoryHolder
  <2>2. holder'[l] = IF l = k /\ ~Memory(l) THEN <<>> ELSE holder[l]
    BY <1>3 DEF AddMemoryHolder, MemoriesInv, Memory
  <2>3. PushedOut(l)' = PushedOut(l) BY <2>1 DEF PushedOut
  <2>4. Kept(l)' = Kept(l) BY <2>2 DEF Kept, Memory
  <2> QED BY <2>3, <2>4
<1>4. ASSUME NEW k \in Keys, NEW mem \in MemoryRecord, Memory(k), Store(k, mem), l # k
      PROVE  UNCHANGED <<Kept(l), PushedOut(l)>>
  BY <1>1, <1>4 DEF Store, MemoriesInv
<1>5. ASSUME NEW mem \in MemoryRecord, Memory(l), Store(l, mem)
      PROVE  IF Len(Kept(l)) < HistorySize
             THEN Kept(l)' = Append(Kept(l), mem) /\ PushedOut(l)' = <<NoHolder, FALSE>>
             ELSE /\ Kept(l)' = Append(Tail(Kept(l)), mem)
                  /\ PushedOut(l)' = <<Head(Kept(l)), TRUE>>
  <2> DEFINE kept == holder[l]
             new == Append(IF Len(kept) = HistorySize THEN Tail(kept) ELSE kept, mem)
             n == Len(arrived[l])
  <2>1. kept = Newest(arrived[l], HistorySize) /\ Kept(l) = kept
    BY <1>5 DEF MemoriesInv, NothingLost, Kept
  <2>2. /\ Len(kept) = IF n <= HistorySize THEN n ELSE HistorySize
        /\ kept \in Seq(MemoryRecord)
        /\ \A i \in 1 .. Len(kept) : kept[i] = arrived[l][i + n - Len(kept)]
    BY <1>0, <2>1, NewestIs
  <2>3. holder'[l] = new /\ arrived'[l] = Append(arrived[l], mem)
    BY <1>5 DEF Store, MemoriesInv
  <2>4. Kept(l)' = new
    <3>1. Memory(l)' BY <1>5, MemoriesKeep
    <3> QED BY <2>3, <3>1 DEF Kept
  <2>5. /\ arrived'[l] \in Seq(MemoryRecord) /\ Len(arrived'[l]) = n + 1
        /\ \A i \in 1 .. n : arrived'[l][i] = arrived[l][i]
    BY <1>0, <2>3, AppendIs
  <2> HIDE DEF kept
  <2>6. CASE Len(kept) < HistorySize
    <3>1. new = Append(kept, mem) BY <2>6
    <3>2. n + 1 <= HistorySize BY <1>0, <2>2, <2>6
    <3>3. ~ (Len(arrived'[l]) > HistorySize) BY <1>0, <2>5, <3>2
    <3>4. PushedOut(l)' = <<NoHolder, FALSE>> BY <3>3, Zenon DEF PushedOut
    <3> QED BY <2>1, <2>4, <2>6, <3>1, <3>4
  <2>7. CASE ~ (Len(kept) < HistorySize)
    <3>1. Len(kept) = HistorySize /\ n >= HistorySize BY <1>0, <2>2, <2>7
    <3>2. new = Append(Tail(kept), mem) BY <3>1
    <3>3. Head(kept) = arrived[l][n + 1 - HistorySize]
      <4>1. Head(kept) = kept[1] /\ 1 \in 1 .. Len(kept) BY <2>2, <3>1
      <4>2. kept[1] = arrived[l][1 + n - Len(kept)] BY <2>2, <4>1
      <4> QED BY <1>0, <3>1, <4>1, <4>2
    <3>4. n + 1 - HistorySize \in 1 .. n BY <1>0, <3>1
    <3>5. PushedOut(l)' = <<arrived'[l][n + 1 - HistorySize], TRUE>>
      <4>1. Len(arrived'[l]) > HistorySize BY <1>0, <2>5, <3>1
      <4>2. Len(arrived'[l]) - HistorySize = n + 1 - HistorySize BY <2>5
      <4> QED BY <4>1, <4>2, Zenon DEF PushedOut
    <3>6. PushedOut(l)' = <<Head(kept), TRUE>> BY <2>5, <3>3, <3>4, <3>5
    <3> QED BY <2>1, <2>4, <2>7, <3>2, <3>6
  <2> QED BY <2>6, <2>7
<1> QED BY <1>2, <1>3, <1>4, <1>5 DEF MemoriesStep

(* However Remember, replies and the note tool race for a holder, each     *)
(* key's memories are one bounded queue, empty at first, whose only steps  *)
(* are Enqueues (HoldersQueue). It is the queue the ring implements        *)
(* (RingIsFifo): nobody sees the one of a holder that was dropped.         *)
THEOREM MemoriesAreFifos == Spec => ChannelFifo!Spec /\ NotesFifo!Spec
<1>1. Init => ChannelFifo!Init /\ NotesFifo!Init
  <2> SUFFICES ASSUME Init PROVE ChannelFifo!Init /\ NotesFifo!Init OBVIOUS
  <2>1. \A k \in Keys : ~Memory(k) /\ arrived[k] = <<>>
    BY DEF Init, MemoriesInit, Memory
  <2>2. \A k \in Keys : Kept(k) = <<>> BY <2>1 DEF Kept
  <2>3. \A k \in Keys : ~ (Len(arrived[k]) > HistorySize) BY <2>1
  <2>4. \A k \in Keys : PushedOut(k) = <<NoHolder, FALSE>>
    BY <2>3, Zenon DEF PushedOut
  <2> QED BY <2>2, <2>4 DEF ChannelFifo!Init, NotesFifo!Init
<1>2. BaseInv /\ [Next]_vars =>
        /\ [ChannelFifo!Next]_<<Kept(Channel), PushedOut(Channel)>>
        /\ [NotesFifo!Next]_<<Kept(ShortTerm), PushedOut(ShortTerm)>>
  <2> SUFFICES ASSUME BaseInv, [Next]_vars
               PROVE /\ [ChannelFifo!Next]_<<Kept(Channel), PushedOut(Channel)>>
                     /\ [NotesFifo!Next]_<<Kept(ShortTerm), PushedOut(ShortTerm)>>
    OBVIOUS
  <2>1. MemoriesInv /\ MemoriesStep BY ChatStepIsMemoriesStep DEF BaseInv
  <2>2. Channel \in Keys /\ ShortTerm \in Keys OBVIOUS
  <2>3. [ChannelFifo!Next]_<<Kept(Channel), PushedOut(Channel)>>
    BY <2>1, <2>2, HoldersQueue DEF ChannelFifo!Next, ChannelFifo!Enqueue
  <2>4. [NotesFifo!Next]_<<Kept(ShortTerm), PushedOut(ShortTerm)>>
    BY <2>1, <2>2, HoldersQueue DEF NotesFifo!Next, NotesFifo!Enqueue
  <2> QED BY <2>3, <2>4
<1> QED BY <1>1, <1>2, Base, PTL DEF Spec, ChannelFifo!Spec, NotesFifo!Spec

-----------------------------------------------------------------------------
(* What a step does to a chat, and to what has arrived. *)

LEMMA ChatChanges ==
    ASSUME LocalsInv, [Next]_vars, NEW n \in Messages
    PROVE  \/ chat'[n] = NoChat
           \/ /\ chat'[n].calls = chat[n].calls
              /\ \/ chat'[n].seen = chat[n].seen /\ chat'[n].arrivals = chat[n].arrivals
                 \/ Prompt(n)
           \/ \E id \in CallIds :
                 /\ chat'[n].calls = Append(chat[n].calls, FreshId(chat[n], id))
                 /\ chat'[n].seen = chat[n].seen /\ chat'[n].arrivals = chat[n].arrivals
<1> DEFINE Goal == \/ chat'[n] = NoChat
                   \/ /\ chat'[n].calls = chat[n].calls
                      /\ \/ chat'[n].seen = chat[n].seen /\ chat'[n].arrivals = chat[n].arrivals
                         \/ Prompt(n)
                   \/ \E id \in CallIds :
                         /\ chat'[n].calls = Append(chat[n].calls, FreshId(chat[n], id))
                         /\ chat'[n].seen = chat[n].seen
                         /\ chat'[n].arrivals = chat[n].arrivals
<1>0. chat \in [Messages -> ChatRec] BY DEF LocalsInv, LocalTypes
<1>1. ASSUME chat' = chat PROVE Goal BY <1>1
<1>2. CASE Tick \/ UNCHANGED vars BY <1>1, <1>2 DEF Tick, vars
<1>3. ASSUME NEW m \in Messages, Write(m) \/ Memorize(m) PROVE chat' = chat
  BY <1>3 DEF Write, Memorize, MemorizeLooks, MemorizeAdds, MemorizeStores, RpcStep
<1>4. ASSUME NEW m \in Messages, Handle(m) PROVE Goal
  <2>1. CASE \/ Remembered(m) \/ RememberFails(m) \/ ApplyPersonality(m) \/ History(m)
             \/ HistoryAdds(m) \/ NoteLooks(m) \/ NoteAdds(m)
    BY <1>1, <2>1 DEF Remembered, RememberFails, ApplyPersonality, History, HistoryAdds,
                      NoteLooks, NoteAdds
  <2>2. CASE Choose(m) \/ SaysNothing(m) \/ Says(m) \/ CallsTools(m)
    <3>1. chat[n] \in ChatRec BY <1>0
    <3>2. /\ chat'[n].calls = chat[n].calls /\ chat'[n].seen = chat[n].seen
          /\ chat'[n].arrivals = chat[n].arrivals
      <4>1. CASE Choose(m) BY <1>0, <3>1, <4>1 DEF Choose, ChatRec
      <4>2. CASE SaysNothing(m) BY <1>0, <3>1, <4>2 DEF SaysNothing, ChatRec
      <4>3. CASE Says(m) BY <1>0, <3>1, <4>3 DEF Says, ChatRec
      <4>4. CASE CallsTools(m) BY <1>0, <3>1, <4>4 DEF CallsTools, ChatRec
      <4> QED BY <2>2, <4>1, <4>2, <4>3, <4>4
    <3> QED BY <3>2
  <2>3. CASE Prompt(m)
    <3>1. n # m => chat'[n] = chat[n] BY <1>0, <2>3 DEF Prompt
    <3>2. chat'[m].calls = chat[m].calls BY <1>0, <2>3 DEF Prompt, ChatRec
    <3> QED BY <2>3, <3>1, <3>2
  <2>4. CASE Errors(m) \/ Finish(m)
    <3>1. chat' = [chat EXCEPT ![m] = NoChat] BY <2>4 DEF Errors, Finish, Ended
    <3> QED BY <1>0, <3>1
  <2>5. CASE NoteStores(m) \/ SwitchPersonality(m) \/ OtherTool(m)
    <3>1. pc[m] \in {"tools", "note"} /\ CallReturns(m)
      BY <2>5 DEF NoteStores, SwitchPersonality, OtherTool
    <3>2. PICK x \in ChatRec, id \in CallIds :
            /\ chat' = [chat EXCEPT ![m] = x]
            /\ x.calls = Append(chat[m].calls, FreshId(chat[m], id))
            /\ x.seen = chat[m].seen /\ x.arrivals = chat[m].arrivals
      BY <3>1, CallReturnsIs
    <3>3. chat'[n] = IF n = m THEN x ELSE chat[n] BY <1>0, <3>2
    <3> QED BY <3>2, <3>3
  <2> QED BY <1>4, <2>1, <2>2, <2>3, <2>4, <2>5 DEF Handle
<1>5. CASE Next
  <2>1. Tick \/ \E m \in Messages : Write(m) \/ Memorize(m) \/ Handle(m) BY <1>5 DEF Next
  <2> QED BY <1>1, <1>2, <1>3, <1>4, <2>1
<1> QED BY <1>2, <1>5

(* A reply that is stored is what its chat has. *)
LEMMA ArrivedChanges ==
    ASSUME LocalsInv, [Next]_vars
    PROVE  \/ arrived' = arrived
           \/ \E k \in Keys, mem \in MemoryRecord :
                 /\ arrived' = [arrived EXCEPT ![k] = Append(arrived[k], mem)]
                 /\ mem.owner = "self" =>
                      \E m \in Messages : /\ mem.says = chat[m].text /\ mem.calls = chat[m].calls
                                          /\ chat[m].text \/ chat[m].calls # <<>>
<1> DEFINE Goal ==
      \E k \in Keys, mem \in MemoryRecord :
          /\ arrived' = [arrived EXCEPT ![k] = Append(arrived[k], mem)]
          /\ mem.owner = "self" =>
               \E m \in Messages : /\ mem.says = chat[m].text /\ mem.calls = chat[m].calls
                                   /\ chat[m].text \/ chat[m].calls # <<>>
<1>0. /\ Channel \in Keys /\ ShortTerm \in Keys /\ <<>> \in Seq(CallId)
      /\ clock \in Nat /\ \A m \in Messages : said[m] \in Nat
  <2>1. <<>> \in Seq(CallId) OBVIOUS
  <2>2. clock \in Nat /\ \A m \in Messages : said[m] \in Nat BY DEF LocalsInv, LocalTypes
  <2> QED BY <2>1, <2>2
<1>1. ASSUME NEW k \in Keys, NEW mem \in MemoryRecord, Store(k, mem), mem.owner # "self" PROVE Goal
  BY <1>1 DEF Store
<1>2. CASE Tick \/ UNCHANGED vars BY <1>2 DEF Tick, vars, memoryVars
<1>3. ASSUME NEW m \in Messages, MemorizeStores(m) PROVE Goal
  <2> DEFINE mem == Mem("other", m, said[m], TRUE, <<>>)
  <2>1. mem \in MemoryRecord /\ mem.owner = "other" /\ Store(Channel, mem)
    BY <1>0, <1>3, MemIs DEF MemorizeStores, Mem
  <2> HIDE DEF mem, Goal
  <2> QED BY <1>0, <1>1, <2>1
<1>4. ASSUME NEW m \in Messages, NoteStores(m) PROVE Goal
  <2> DEFINE mem == Mem("none", m, clock, TRUE, <<>>)
  <2>1. mem \in MemoryRecord /\ mem.owner = "none" /\ Store(ShortTerm, mem)
    BY <1>0, <1>4, MemIs DEF NoteStores, Mem
  <2> HIDE DEF mem, Goal
  <2> QED BY <1>0, <1>1, <2>1
<1>5. ASSUME NEW m \in Messages, Finish(m) PROVE arrived' = arrived \/ Goal
  <2> DEFINE mem == Mem("self", m, clock + 1, chat[m].text, chat[m].calls)
  <2>1. mem \in MemoryRecord /\ mem.says = chat[m].text /\ mem.calls = chat[m].calls
    <3>1. mem \in MemoryRecord BY <1>0, ChatIs, MemIs
    <3>2. mem.says = chat[m].text /\ mem.calls = chat[m].calls BY DEF Mem
    <3> QED BY <3>1, <3>2
  <2>2. \/ UNCHANGED memoryVars
        \/ Store(Channel, mem) /\ (chat[m].text \/ chat[m].calls # <<>>)
    BY <1>5 DEF Finish
  <2> HIDE DEF mem
  <2> QED BY <1>0, <2>1, <2>2 DEF Store, memoryVars
<1>6. ASSUME NEW m \in Messages, Write(m) \/ Memorize(m) \/ Handle(m),
             ~MemorizeStores(m), ~NoteStores(m), ~Finish(m)
      PROVE  arrived' = arrived
  <2>1. CASE Write(m) BY <2>1 DEF Write, memoryVars
  <2>2. CASE Memorize(m)
    BY <1>6, <2>2 DEF Memorize, MemorizeLooks, MemorizeAdds, AddMemoryHolder, memoryVars
  <2>3. CASE Handle(m)
    BY <1>6, <2>3 DEF Handle, Remembered, RememberFails, ApplyPersonality, History, HistoryAdds,
       Choose, Prompt, SaysNothing, Says, CallsTools, Errors, NoteLooks, NoteAdds,
       SwitchPersonality, OtherTool, AddMemoryHolder, memoryVars
  <2> QED BY <1>6, <2>1, <2>2, <2>3
<1> HIDE DEF Goal
<1>7. CASE Next
  <2>1. Tick \/ \E m \in Messages : Write(m) \/ Memorize(m) \/ Handle(m) BY <1>7 DEF Next
  <2> QED BY <1>2, <1>3, <1>4, <1>5, <1>6, <2>1 DEF Goal
<1> QED BY <1>2, <1>7

-----------------------------------------------------------------------------
(* Histories can be replayed. *)

(* Two calls have one id only if a model gave the second's new one. *)
Apart(ids) ==
    \A i, j \in DOMAIN ids : i < j /\ ids[i] = ids[j] =>
        Given(ids[i]) /\ LooksRenamed(ids[i], j - 1)

Replays(mem) == mem.owner = "self" => (mem.says \/ mem.calls # <<>>) /\ Apart(mem.calls)

(* An id that no model gave has the number of calls before it appended. *)
IdsApart(ids) ==
    Apart(ids) /\ \A i \in DOMAIN ids : Given(ids[i]) \/ LooksRenamed(ids[i], i - 1)

ReplayInv ==
    /\ \A m \in Messages : IdsApart(chat[m].calls) /\ \A mem \in chat[m].seen : Replays(mem)
    /\ \A k \in Keys : \A i \in 1 .. Len(arrived[k]) : Replays(arrived[k][i])

LEMMA FreshIdIsFresh ==
    ASSUME NEW x \in ChatRec, NEW id \in CallIds, IdsApart(x.calls)
    PROVE  IdsApart(Append(x.calls, FreshId(x, id)))
<1> DEFINE ids == x.calls
           new == FreshId(x, id)
           more == Append(ids, new)
           n == Len(ids)
<1>1. ids \in Seq(CallId) /\ n \in Nat /\ new \in CallId BY FreshIdIs DEF ChatRec
<1>2. \/ Given(new) /\ \A i \in 1 .. n : ids[i] # new
      \/ LooksRenamed(new, n)
  <2>1. CASE \E i \in DOMAIN ids : ids[i] = id
    <3>1. new = [id EXCEPT !.suffixes = Append(@, n)] BY <2>1 DEF FreshId
    <3>2. id \in CallId /\ id.suffixes \in Seq(Nat) BY DEF CallIds, CallId
    <3>3. new.suffixes = Append(id.suffixes, n) BY <3>1, <3>2 DEF CallId
    <3> DEFINE t == Append(id.suffixes, n)
    <3> HIDE DEF n
    <3>4. /\ t \in Seq(Nat) /\ Len(t) = Len(id.suffixes) + 1 /\ Len(id.suffixes) \in Nat
          /\ t[Len(id.suffixes) + 1] = n
      BY <1>1, <3>2
    <3>5. t # <<>> /\ t[Len(t)] = n
      <4> HIDE DEF t
      <4> QED BY <3>4
    <3> HIDE DEF t, new
    <3> QED BY <3>3, <3>5 DEF LooksRenamed, t
  <2>2. CASE ~\E i \in DOMAIN ids : ids[i] = id
    <3>1. new = id /\ Given(id) BY <2>2 DEF FreshId, CallIds
    <3> HIDE DEF new
    <3> QED BY <1>1, <2>2, <3>1
  <2> QED BY <2>1, <2>2
<1> HIDE DEF new
<1>3. /\ more \in Seq(CallId) /\ Len(more) = n + 1
      /\ more[n + 1] = new /\ \A i \in 1 .. n : more[i] = ids[i]
  BY <1>1, AppendIs
<1>4. DOMAIN more = 1 .. (n + 1) /\ DOMAIN ids = 1 .. n BY <1>1, <1>3
<1>5. Apart(ids) /\ \A i \in 1 .. n : Given(ids[i]) \/ LooksRenamed(ids[i], i - 1)
  BY <1>4 DEF IdsApart
<1> HIDE DEF more, ids, n
<1>6. \A i \in 1 .. (n + 1) : i \in 1 .. n \/ i = n + 1 BY <1>1
<1>7. ASSUME NEW i \in DOMAIN more, NEW j \in DOMAIN more, i < j, more[i] = more[j]
      PROVE  Given(more[i]) /\ LooksRenamed(more[i], j - 1)
  <2>1. i \in 1 .. n BY <1>1, <1>4, <1>7
  <2>2. CASE j \in 1 .. n BY <1>3, <1>4, <1>5, <1>7, <2>1, <2>2 DEF Apart
  <2>3. CASE j = n + 1
    <3>1. ids[i] = new /\ more[i] = new /\ j - 1 = n /\ i - 1 < n
      BY <1>1, <1>3, <1>7, <2>1, <2>3
    <3>2. LooksRenamed(new, n) BY <1>2, <2>1, <3>1
    <3>3. ~LooksRenamed(new, i - 1) BY <3>1, <3>2, <1>1, <2>1 DEF LooksRenamed
    <3> QED BY <1>5, <2>1, <3>1, <3>2, <3>3
  <2> QED BY <1>4, <1>6, <2>2, <2>3
<1>8. ASSUME NEW i \in DOMAIN more PROVE Given(more[i]) \/ LooksRenamed(more[i], i - 1)
  <2>1. CASE i \in 1 .. n BY <1>3, <1>5, <2>1
  <2>2. CASE i = n + 1
    <3>1. more[i] = new /\ i - 1 = n BY <1>1, <1>3, <2>2
    <3> QED BY <1>2, <3>1
  <2> QED BY <1>4, <1>6, <2>1, <2>2
<1>9. IdsApart(more) BY <1>7, <1>8 DEF IdsApart, Apart
<1> QED BY <1>9 DEF more, ids, new

LEMMA ReplayStep ==
    ASSUME BaseInv, ReplayInv, [Next]_vars
    PROVE  ReplayInv'
<1>0. LocalsInv /\ MemoriesInv /\ Channel \in Keys BY DEF BaseInv
<1>1. ASSUME NEW m \in Messages
      PROVE  IdsApart(chat'[m].calls) /\ \A mem \in chat'[m].seen : Replays(mem)
  <2>1. CASE chat'[m] = NoChat
    <3>1. chat'[m].calls = <<>> /\ chat'[m].seen = {} BY <2>1 DEF NoChat
    <3> QED BY <3>1 DEF IdsApart, Apart
  <2>2. CASE \E id \in CallIds : /\ chat'[m].calls = Append(chat[m].calls, FreshId(chat[m], id))
                                 /\ chat'[m].seen = chat[m].seen
    <3>1. chat[m] \in ChatRec BY <1>0, ChatIs
    <3> QED BY <2>2, <3>1, FreshIdIsFresh DEF ReplayInv
  <2>3. CASE chat'[m].calls = chat[m].calls /\ chat'[m].seen = chat[m].seen
    BY <2>3 DEF ReplayInv
  <2>4. CASE chat'[m].calls = chat[m].calls /\ Prompt(m)
    <3> DEFINE s == arrived[Channel]
               kept == holder[Channel]
    <3>1. pc[m] = "prompt" /\ chat'[m].seen = {kept[i] : i \in DOMAIN kept}
      BY <1>0, <2>4 DEF Prompt, LocalsInv, LocalTypes, ChatRec
    <3>2. Memory(Channel) BY <1>0, <3>1, ChatIs DEF There, Chatting, Asking
    <3>3. kept = Newest(s, HistorySize) /\ s \in Seq(MemoryRecord)
      BY <1>0, <3>2 DEF MemoriesInv, NothingLost
    <3> HIDE DEF kept
    <3>4. /\ kept \in Seq(MemoryRecord) /\ Len(kept) <= Len(s) /\ Len(s) \in Nat
          /\ \A i \in 1 .. Len(kept) : kept[i] = s[i + Len(s) - Len(kept)]
      <4>1. HistorySize \in Nat OBVIOUS
      <4> QED BY <3>3, <4>1, NewestIs
    <3>5. ASSUME NEW i \in 1 .. Len(kept) PROVE Replays(kept[i])
      <4> DEFINE j == i + Len(s) - Len(kept)
      <4>1. j \in 1 .. Len(s) /\ kept[i] = s[j] BY <3>4
      <4> HIDE DEF j
      <4> QED BY <1>0, <4>1 DEF ReplayInv
    <3>6. DOMAIN kept = 1 .. Len(kept) BY <3>4
    <3> QED BY <2>4, <3>1, <3>5, <3>6 DEF ReplayInv
  <2> QED BY <1>0, <2>1, <2>2, <2>3, <2>4, ChatChanges
<1>2. ASSUME NEW k \in Keys PROVE \A i \in 1 .. Len(arrived'[k]) : Replays(arrived'[k][i])
  <2>1. CASE arrived' = arrived BY <2>1 DEF ReplayInv
  <2>2. ASSUME NEW l \in Keys, NEW mem \in MemoryRecord,
               arrived' = [arrived EXCEPT ![l] = Append(arrived[l], mem)],
               mem.owner = "self" =>
                 \E m \in Messages : /\ mem.says = chat[m].text /\ mem.calls = chat[m].calls
                                     /\ chat[m].text \/ chat[m].calls # <<>>
        PROVE  \A i \in 1 .. Len(arrived'[k]) : Replays(arrived'[k][i])
    <3>1. Replays(mem) BY <2>2 DEF ReplayInv, IdsApart, Replays
    <3>2. CASE k # l BY <1>0, <2>2, <3>2 DEF ReplayInv, MemoriesInv
    <3>3. CASE k = l
      <4>1. arrived'[k] = Append(arrived[k], mem) /\ arrived[k] \in Seq(MemoryRecord)
        BY <1>0, <2>2, <3>3 DEF MemoriesInv
      <4>2. /\ Len(arrived'[k]) = Len(arrived[k]) + 1 /\ Len(arrived[k]) \in Nat
            /\ arrived'[k][Len(arrived[k]) + 1] = mem
            /\ \A i \in 1 .. Len(arrived[k]) : arrived'[k][i] = arrived[k][i]
        BY <4>1, AppendIs
      <4>3. \A i \in 1 .. Len(arrived'[k]) : i \in 1 .. Len(arrived[k]) \/ i = Len(arrived[k]) + 1
        BY <4>2
      <4> QED BY <3>1, <4>2, <4>3 DEF ReplayInv
    <3> QED BY <3>2, <3>3
  <2> QED BY <1>0, <2>1, <2>2, ArrivedChanges
<1> QED BY <1>1, <1>2 DEF ReplayInv

(* However the chats, their tool calls and the notes interleave, a reply   *)
(* in a prompt says something or has tool calls, and their results can be  *)
(* told apart unless a model chose the id that brain.go:255 makes.         *)
THEOREM PromptsAreWellFormed == Spec => []HistoryReplays
<1>1. Init => ReplayInv
  BY DEF Init, MemoriesInit, ReplayInv, NoChat, IdsApart, Apart
<1>2. BaseInv /\ ReplayInv /\ [Next]_vars => ReplayInv' BY ReplayStep
<1>3. ReplayInv => HistoryReplays BY DEF ReplayInv, HistoryReplays, Replays, Apart
<1> QED BY <1>1, <1>2, <1>3, Base, PTL DEF Spec

-----------------------------------------------------------------------------
(* Personalities *)

PersonalityInv ==
    /\ ~applied => personality = NoPersonality
    /\ \A m \in Messages : pc[m] \in {"history", "history_add"} \cup Chatting => applied

(* Only two actions set a personality. *)
LEMMA PersonalityChanges ==
    ASSUME [Next]_vars
    PROVE  \/ UNCHANGED guildVars
           \/ \E m \in Messages : ApplyPersonality(m) \/ SwitchPersonality(m)
<1>1. CASE Tick \/ UNCHANGED vars BY <1>1 DEF Tick, vars
<1>2. ASSUME NEW m \in Messages, Write(m) \/ Memorize(m) PROVE UNCHANGED guildVars
  BY <1>2 DEF Write, Memorize, MemorizeLooks, MemorizeAdds, MemorizeStores, RpcStep
<1>3. ASSUME NEW m \in Messages, Handle(m)
      PROVE  UNCHANGED guildVars \/ ApplyPersonality(m) \/ SwitchPersonality(m)
  BY <1>3 DEF Handle, Remembered, RememberFails, History, HistoryAdds, Choose, Prompt,
     SaysNothing, Says, CallsTools, Errors, NoteLooks, NoteAdds, NoteStores, OtherTool, Finish
<1>4. CASE Next
  <2>1. Tick \/ \E m \in Messages : Write(m) \/ Memorize(m) \/ Handle(m) BY <1>4 DEF Next
  <2> QED BY <1>1, <1>2, <1>3, <2>1
<1> QED BY <1>1, <1>4

(* Nobody gets past "reply" but through ApplyPersonality. *)
LEMMA PcChanges ==
    ASSUME LocalsInv, [Next]_vars, NEW n \in Messages
    PROVE  \/ pc'[n] = pc[n]
           \/ pc'[n] \in {"remember", "reply", "done"}
           \/ pc[n] = "reply" /\ ApplyPersonality(n)
           \/ pc[n] \in {"history", "history_add"} \cup Chatting
<1>0. pc \in [Messages -> Pcs] BY DEF LocalsInv, LocalTypes
<1>1. CASE Tick \/ UNCHANGED vars BY <1>1 DEF Tick, vars
<1>2. ASSUME NEW m \in Messages, Memorize(m) PROVE pc' = pc
  BY <1>2 DEF Memorize, MemorizeLooks, MemorizeAdds, MemorizeStores, RpcStep
<1>3. ASSUME NEW m \in Messages, Write(m) \/ Remembered(m) \/ RememberFails(m)
      PROVE  pc'[n] = pc[n] \/ pc'[n] \in {"remember", "reply", "done"}
  BY <1>0, <1>3 DEF Write, Remembered, RememberFails, Goto
<1>4. ASSUME NEW m \in Messages, ApplyPersonality(m)
      PROVE  pc'[n] = pc[n] \/ (pc[n] = "reply" /\ ApplyPersonality(n))
  BY <1>0, <1>4 DEF ApplyPersonality, Goto
<1>5. ASSUME NEW m \in Messages, Handle(m),
             ~Remembered(m), ~RememberFails(m), ~ApplyPersonality(m)
      PROVE  \/ pc'[n] = pc[n]
             \/ pc[n] \in {"history", "history_add"} \cup Chatting
  <2>1. /\ pc[m] \in {"history", "history_add"} \cup Chatting
        /\ \E to : pc' = [pc EXCEPT ![m] = to]
    BY <1>5 DEF Handle, History, HistoryAdds, Choose, Prompt, SaysNothing, Says, CallsTools,
       Errors, NoteLooks, NoteAdds, NoteStores, SwitchPersonality, OtherTool, Finish, Ended,
       CallReturns, Goto, Chatting, Asking
  <2> QED BY <1>0, <2>1
<1>6. CASE Next
  <2>1. Tick \/ \E m \in Messages : Write(m) \/ Memorize(m) \/ Handle(m) BY <1>6 DEF Next
  <2> QED BY <1>1, <1>2, <1>3, <1>4, <1>5, <2>1
<1> QED BY <1>1, <1>6

LEMMA PersonalityStep ==
    ASSUME LocalsInv, PersonalityInv, [Next]_vars
    PROVE  /\ PersonalityInv'
           /\ personality' # personality =>
                \/ personality = NoPersonality
                \/ \E m \in Messages : Len(chat'[m].calls) > Len(chat[m].calls)
<1>1. \/ UNCHANGED <<personality, applied>>
      \/ /\ \E m \in Messages : ApplyPersonality(m)
         /\ applied' /\ (applied => personality' = personality)
      \/ /\ \E m \in Messages : SwitchPersonality(m) /\ pc[m] \in Chatting
         /\ applied' = applied
  BY PersonalityChanges DEF ApplyPersonality, SwitchPersonality, guildVars, Chatting, Asking
<1>2. (~applied => personality = NoPersonality)' BY <1>1 DEF PersonalityInv
<1>3. applied => applied' BY <1>1
<1>4. ASSUME NEW n \in Messages, pc'[n] \in {"history", "history_add"} \cup Chatting
      PROVE  applied'
  <2>1. ApplyPersonality(n) => applied' BY DEF ApplyPersonality
  <2>2. pc'[n] \notin {"remember", "reply", "done"} BY <1>4 DEF Chatting, Asking
  <2> QED BY <1>3, <1>4, <2>1, <2>2, PcChanges DEF PersonalityInv
<1>5. ASSUME NEW m \in Messages, SwitchPersonality(m)
      PROVE  Len(chat'[m].calls) > Len(chat[m].calls)
  <2>1. pc[m] = "tools" /\ CallReturns(m) BY <1>5 DEF SwitchPersonality
  <2>2. PICK x \in ChatRec, id \in CallIds :
          /\ chat' = [chat EXCEPT ![m] = x]
          /\ x.calls = Append(chat[m].calls, FreshId(chat[m], id))
    BY <2>1, CallReturnsIs
  <2>3. chat'[m] = x BY <2>2 DEF LocalsInv, LocalTypes
  <2>4. FreshId(chat[m], id) \in CallId /\ chat[m].calls \in Seq(CallId) BY ChatIs, FreshIdIs
  <2>5. Len(x.calls) = Len(chat[m].calls) + 1 /\ Len(chat[m].calls) \in Nat
    BY <2>2, <2>4, AppendIs
  <2> QED BY <2>3, <2>5
<1>6. personality' # personality =>
        \/ personality = NoPersonality
        \/ \E m \in Messages : Len(chat'[m].calls) > Len(chat[m].calls)
  BY <1>1, <1>5 DEF PersonalityInv
<1> QED BY <1>2, <1>4, <1>6 DEF PersonalityInv

(* Whoever chats at once: once a guild has a personality, nothing but a    *)
(* chat's own tool call changes it, and least of all the default.          *)
THEOREM OnlyToolsSwitch == Spec => SwitchSticks
<1>1. Init => PersonalityInv BY DEF Init, PersonalityInv, Chatting, Asking
<1>2. BaseInv /\ PersonalityInv /\ [Next]_vars =>
        /\ PersonalityInv'
        /\ [personality' # personality =>
               \/ personality = NoPersonality
               \/ \E m \in Messages : Len(chat'[m].calls) > Len(chat[m].calls)]_vars
  BY PersonalityStep DEF BaseInv
<1> QED BY <1>1, <1>2, Base, PTL DEF Spec, SwitchSticks

-----------------------------------------------------------------------------
(* A reply sees its message. *)

(* Has the prompt been made? *)
Prompted(p, x) == p \in {"ask", "tools", "note_add", "note"} \/ (p = "choose" /\ x.asked > 0)

HasSeen(x, m) ==
    /\ x.arrivals <= Len(arrived[Channel])
    /\ \E i \in 1 .. x.arrivals :
          /\ arrived[Channel][i].owner = "other" /\ arrived[Channel][i].of = m
          /\ arrived[Channel][i] \in x.seen \/ x.arrivals - i >= HistorySize

HasArrived(m) ==
    \E i \in 1 .. Len(arrived[Channel]) :
        arrived[Channel][i].owner = "other" /\ arrived[Channel][i].of = m

SeesInv ==
    \A m \in Messages :
        /\ rpc[m] = "stored" => HasArrived(m)
        /\ remembered[m] => rpc[m] = "stored" /\ pc[m] \notin {"unwritten", "remember"}
        /\ remembered[m] /\ Prompted(pc[m], chat[m]) => HasSeen(chat[m], m)

(* What a step does to one message's handler and to its Memorize. *)
LEMMA RpcChanges ==
    ASSUME LocalsInv, [Next]_vars, NEW n \in Messages
    PROVE  \/ rpc'[n] = rpc[n]
           \/ rpc[n] # "stored" /\ rpc'[n] # "stored"
           \/ MemorizeStores(n)
           \/ pc[n] = "unwritten" /\ rpc'[n] # "stored"
<1>0. rpc \in [Messages -> Rpcs] BY DEF LocalsInv, LocalTypes
<1>1. CASE Tick \/ UNCHANGED vars BY <1>1 DEF Tick, vars, botVars
<1>2. ASSUME NEW m \in Messages, Write(m) \/ RememberFails(m)
      PROVE  \/ rpc'[n] = rpc[n]
             \/ rpc[n] # "stored" /\ rpc'[n] # "stored"
             \/ pc[n] = "unwritten" /\ rpc'[n] # "stored"
  <2>1. CASE Write(m)
    <3>1. pc[m] = "unwritten" /\ rpc' = [rpc EXCEPT ![m] = "lookup"] BY <2>1 DEF Write
    <3> QED BY <1>0, <3>1
  <2>2. CASE RememberFails(m)
    <3>1. rpc' = rpc \/ (rpc[m] = "lookup" /\ rpc' = [rpc EXCEPT ![m] = "none"])
      BY <2>2 DEF RememberFails
    <3> QED BY <1>0, <3>1
  <2> QED BY <1>2, <2>1, <2>2
<1>3. ASSUME NEW m \in Messages, Memorize(m)
      PROVE  \/ rpc'[n] = rpc[n]
             \/ rpc[n] # "stored" /\ rpc'[n] # "stored"
             \/ MemorizeStores(n)
  <2>1. ASSUME NEW from, NEW to, from # "stored", to # "stored", RpcStep(m, from, to)
        PROVE  rpc'[n] = rpc[n] \/ (rpc[n] # "stored" /\ rpc'[n] # "stored")
    BY <1>0, <2>1 DEF RpcStep
  <2>2. CASE MemorizeLooks(m) BY <2>1, <2>2 DEF MemorizeLooks
  <2>3. CASE MemorizeAdds(m) BY <2>1, <2>3 DEF MemorizeAdds
  <2>4. CASE MemorizeStores(m) /\ n # m BY <1>0, <2>4 DEF MemorizeStores, RpcStep
  <2> QED BY <1>3, <2>2, <2>3, <2>4 DEF Memorize
<1>4. ASSUME NEW m \in Messages, Handle(m), ~RememberFails(m) PROVE rpc' = rpc
  BY <1>4 DEF Handle, Remembered, ApplyPersonality, History, HistoryAdds, Choose, Prompt,
     SaysNothing, Says, CallsTools, Errors, NoteLooks, NoteAdds, NoteStores,
     SwitchPersonality, OtherTool, CallReturns, Finish, botVars
<1>5. CASE Next
  <2>1. Tick \/ \E m \in Messages : Write(m) \/ Memorize(m) \/ Handle(m) BY <1>5 DEF Next
  <2> QED BY <1>1, <1>2, <1>3, <1>4, <2>1
<1> QED BY <1>1, <1>5

LEMMA HandlerChanges ==
    ASSUME LocalsInv, [Next]_vars, NEW n \in Messages
    PROVE  /\ remembered'[n] => remembered[n] \/ Remembered(n)
           /\ pc'[n] \in {"unwritten", "remember"} => pc[n] \in {"unwritten", "remember"}
           /\ Prompted(pc'[n], chat'[n]) =>
                 \/ Prompt(n)
                 \/ /\ Prompted(pc[n], chat[n])
                    /\ chat'[n].seen = chat[n].seen /\ chat'[n].arrivals = chat[n].arrivals
<1> DEFINE Goal ==
      /\ remembered'[n] => remembered[n] \/ Remembered(n)
      /\ pc'[n] \in {"unwritten", "remember"} => pc[n] \in {"unwritten", "remember"}
      /\ Prompted(pc'[n], chat'[n]) =>
            \/ Prompt(n)
            \/ /\ Prompted(pc[n], chat[n])
               /\ chat'[n].seen = chat[n].seen /\ chat'[n].arrivals = chat[n].arrivals
<1>0. /\ pc \in [Messages -> Pcs] /\ chat \in [Messages -> ChatRec]
      /\ remembered \in [Messages -> BOOLEAN] /\ chat[n] \in ChatRec
  BY DEF LocalsInv, LocalTypes
<1>1. ASSUME pc'[n] = pc[n], chat'[n] = chat[n], remembered'[n] = remembered[n] PROVE Goal
  BY <1>1
<1>2. ASSUME Tick \/ UNCHANGED vars PROVE Goal BY <1>1, <1>2 DEF Tick, vars, botVars
<1>3. ASSUME NEW m \in Messages, Memorize(m) PROVE Goal
  BY <1>1, <1>3 DEF Memorize, MemorizeLooks, MemorizeAdds, MemorizeStores, RpcStep
<1>4. ASSUME NEW m \in Messages,
             \/ Write(m) \/ Remembered(m) \/ RememberFails(m) \/ ApplyPersonality(m)
             \/ History(m) \/ HistoryAdds(m)
      PROVE  Goal
  <2>1. CASE n # m
    <3>1. pc'[n] = pc[n] /\ chat'[n] = chat[n] /\ remembered'[n] = remembered[n]
      BY <1>0, <1>4, <2>1 DEF Write, Remembered, RememberFails, ApplyPersonality, History,
         HistoryAdds, Goto, botVars
    <3> QED BY <1>1, <3>1
  <2>2. CASE n = m
    <3>1. /\ chat' = chat /\ pc[n] # "choose"
          /\ pc[n] \in {"unwritten", "remember", "reply", "history", "history_add"}
      BY <1>4, <2>2 DEF Write, Remembered, RememberFails, ApplyPersonality, History, HistoryAdds
    <3>2. chat[n].asked = 0 BY <3>1, ChatIs DEF Loop, Chatting, Asking, NoChat
    <3>3. pc'[n] \notin {"ask", "tools", "note_add", "note"}
      BY <1>0, <1>4, <2>2 DEF Write, Remembered, RememberFails, ApplyPersonality, History,
         HistoryAdds, Goto
    <3>4. pc'[n] \in {"unwritten", "remember"} => pc[n] \in {"unwritten", "remember"}
      BY <1>0, <1>4, <2>2 DEF Write, Remembered, RememberFails, ApplyPersonality, History,
         HistoryAdds, Goto
    <3>5. remembered'[n] => remembered[n] \/ Remembered(n)
      BY <1>0, <1>4, <2>2 DEF Write, RememberFails, ApplyPersonality, History, HistoryAdds, botVars
    <3> QED BY <3>1, <3>2, <3>3, <3>4, <3>5 DEF Prompted
  <2> QED BY <2>1, <2>2
<1>5. ASSUME NEW m \in Messages, Errors(m) \/ Finish(m) PROVE Goal
  <2>1. /\ pc' = [pc EXCEPT ![m] = "done"] /\ chat' = [chat EXCEPT ![m] = NoChat]
        /\ remembered' = [remembered EXCEPT ![m] = FALSE]
    BY <1>5 DEF Errors, Finish, Ended, Goto
  <2>2. CASE n # m BY <1>0, <1>1, <2>1, <2>2
  <2>3. CASE n = m BY <1>0, <2>1, <2>3 DEF Prompted
  <2> QED BY <2>2, <2>3
<1>6. ASSUME NEW m \in Messages,
             \/ Choose(m) \/ Prompt(m) \/ SaysNothing(m) \/ Says(m) \/ CallsTools(m)
             \/ NoteLooks(m) \/ NoteAdds(m)
             \/ NoteStores(m) \/ SwitchPersonality(m) \/ OtherTool(m)
      PROVE  Goal
  <2>1. remembered' = remembered
    BY <1>6 DEF Choose, Prompt, SaysNothing, Says, CallsTools, NoteLooks, NoteAdds, NoteStores,
       SwitchPersonality, OtherTool, CallReturns, botVars
  <2>2. /\ \E to \in Chatting : pc' = [pc EXCEPT ![m] = to]
        /\ \E x : chat' = [chat EXCEPT ![m] = x]
    <3>1. \E to \in Chatting : pc' = [pc EXCEPT ![m] = to]
      BY <1>6 DEF Choose, Prompt, SaysNothing, Says, CallsTools, NoteLooks, NoteAdds,
         NoteStores, SwitchPersonality, OtherTool, CallReturns, Goto, Chatting, Asking
    <3>2. CASE NoteLooks(m) \/ NoteAdds(m)
      <4>1. chat' = [chat EXCEPT ![m] = chat[m]] BY <1>0, <3>2 DEF NoteLooks, NoteAdds
      <4> QED BY <3>1, <4>1
    <3>3. CASE Choose(m) BY <3>1, <3>3 DEF Choose
    <3>4. CASE Prompt(m) BY <3>1, <3>4 DEF Prompt
    <3>5. CASE SaysNothing(m) BY <3>1, <3>5 DEF SaysNothing
    <3>6. CASE Says(m) BY <3>1, <3>6 DEF Says
    <3>7. CASE CallsTools(m) BY <3>1, <3>7 DEF CallsTools
    <3>8. CASE NoteStores(m) \/ SwitchPersonality(m) \/ OtherTool(m)
      BY <3>1, <3>8 DEF NoteStores, SwitchPersonality, OtherTool, CallReturns
    <3> QED BY <1>6, <3>2, <3>3, <3>4, <3>5, <3>6, <3>7, <3>8
  <2>3. CASE n # m BY <1>0, <1>1, <2>1, <2>2, <2>3
  <2>4. CASE n = m
    <3>1. pc'[n] \notin {"unwritten", "remember"} BY <1>0, <2>2, <2>4 DEF Chatting, Asking
    <3>2. \/ Prompt(n)
          \/ chat'[n] = NoChat
          \/ chat'[n].seen = chat[n].seen /\ chat'[n].arrivals = chat[n].arrivals
      BY ChatChanges
    <3>3. CASE Prompt(n) BY <2>1, <3>1, <3>3
    <3>4. CASE Choose(n)
      <4>1. /\ pc[n] = "choose" /\ pc'[n] = IF chat[n].asked = 0 THEN "prompt" ELSE "ask"
            /\ chat'[n].seen = chat[n].seen /\ chat'[n].arrivals = chat[n].arrivals
        BY <1>0, <3>4 DEF Choose, Goto, ChatRec
      <4>2. chat[n].asked \in 0 .. Length BY ChatIs
      <4> QED BY <2>1, <3>1, <4>1, <4>2, RotationAssumption DEF Prompted
    <3>5. ASSUME ~Prompt(n), ~Choose(n)
          PROVE  /\ pc[n] \in {"ask", "tools", "note_add", "note"}
                 /\ chat'[n].seen = chat[n].seen /\ chat'[n].arrivals = chat[n].arrivals
      <4>1. pc[n] \in {"ask", "tools", "note_add", "note"}
        BY <1>6, <2>4, <3>5 DEF SaysNothing, Says, CallsTools, NoteLooks, NoteAdds, NoteStores,
           SwitchPersonality, OtherTool
      <4>2. CASE NoteLooks(n) \/ NoteAdds(n) BY <4>1, <4>2 DEF NoteLooks, NoteAdds
      <4>3. CASE SaysNothing(n) BY <1>0, <4>1, <4>3 DEF SaysNothing, ChatRec
      <4>4. CASE Says(n) BY <1>0, <4>1, <4>4 DEF Says, ChatRec
      <4>5. CASE CallsTools(n) BY <1>0, <4>1, <4>5 DEF CallsTools, ChatRec
      <4>6. CASE NoteStores(n) \/ SwitchPersonality(n) \/ OtherTool(n)
        <5>1. pc[n] \in {"tools", "note"} /\ CallReturns(n)
          BY <4>6 DEF NoteStores, SwitchPersonality, OtherTool
        <5>2. PICK x \in ChatRec :
                /\ chat' = [chat EXCEPT ![n] = x]
                /\ x.seen = chat[n].seen /\ x.arrivals = chat[n].arrivals
          BY <5>1, CallReturnsIs
        <5> QED BY <1>0, <4>1, <5>2
      <4> QED BY <1>6, <2>4, <3>5, <4>2, <4>3, <4>4, <4>5, <4>6
    <3> QED BY <2>1, <3>1, <3>3, <3>4, <3>5 DEF Prompted
  <2> QED BY <2>3, <2>4
<1> HIDE DEF Goal
<1>7. ASSUME Next PROVE Goal
  <2>1. Tick \/ \E m \in Messages : Write(m) \/ Memorize(m) \/ Handle(m) BY <1>7 DEF Next
  <2> QED BY <1>2, <1>3, <1>4, <1>5, <1>6, <2>1 DEF Handle
<1>8. Goal BY <1>2, <1>7
<1> QED BY <1>8 DEF Goal

(* The history's newest, when a prompt is made of them. *)
LEMMA PromptSees ==
    ASSUME LocalsInv, MemoriesInv, NEW m \in Messages, Prompt(m), HasArrived(m)
    PROVE  HasSeen(chat'[m], m) /\ arrived' = arrived
<1> DEFINE s == arrived[Channel]
           kept == holder[Channel]
           x == chat'[m]
<1>0. Channel \in Keys OBVIOUS
<1>1. /\ pc[m] = "prompt" /\ arrived' = arrived
      /\ x.seen = {kept[i] : i \in DOMAIN kept} /\ x.arrivals = Len(s)
  BY DEF Prompt, LocalsInv, LocalTypes, ChatRec, memoryVars
<1>2. Memory(Channel) BY <1>1, ChatIs DEF There, Chatting, Asking
<1>3. kept = Newest(s, HistorySize) /\ s \in Seq(MemoryRecord)
  BY <1>0, <1>2 DEF MemoriesInv, NothingLost
<1>4. PICK i \in 1 .. Len(s) : s[i].owner = "other" /\ s[i].of = m BY DEF HasArrived
<1> HIDE DEF kept, x
<1>5. /\ kept \in Seq(MemoryRecord) /\ Len(s) \in Nat
      /\ Len(kept) = IF Len(s) <= HistorySize THEN Len(s) ELSE HistorySize
      /\ \A j \in 1 .. Len(kept) : kept[j] = s[j + Len(s) - Len(kept)]
  <2>1. HistorySize \in Nat OBVIOUS
  <2>2. Len(s) \in Nat BY <1>3
  <2> HIDE DEF s
  <2>3. /\ Newest(s, HistorySize) \in Seq(MemoryRecord)
        /\ Len(Newest(s, HistorySize)) = IF Len(s) <= HistorySize THEN Len(s) ELSE HistorySize
        /\ \A j \in 1 .. Len(Newest(s, HistorySize)) :
              Newest(s, HistorySize)[j] = s[j + Len(s) - Len(Newest(s, HistorySize))]
    BY <1>3, <2>1, NewestIs
  <2> QED BY <1>3, <2>2, <2>3
<1>6. s[i] \in x.seen \/ x.arrivals - i >= HistorySize
  <2>1. SUFFICES ASSUME ~(Len(s) - i >= HistorySize) PROVE s[i] \in x.seen BY <1>1
  <2> DEFINE j == i - (Len(s) - Len(kept))
  <2>2. j \in 1 .. Len(kept) /\ j + Len(s) - Len(kept) = i
    <3>1. HistorySize \in Nat OBVIOUS
    <3> DEFINE n == Len(s)
               k == Len(kept)
    <3>2. /\ n \in Nat /\ i \in 1 .. n /\ k = IF n <= HistorySize THEN n ELSE HistorySize
          /\ ~(n - i >= HistorySize)
      BY <1>4, <1>5, <2>1
    <3> HIDE DEF n, k
    <3>3. i - (n - k) \in 1 .. k /\ i - (n - k) + n - k = i BY <3>1, <3>2
    <3> QED BY <3>3 DEF n, k
  <2> HIDE DEF j
  <2>3. kept[j] = s[i] /\ j \in DOMAIN kept
    <3>1. kept[j] = s[j + Len(s) - Len(kept)] BY <1>5, <2>2
    <3>2. DOMAIN kept = 1 .. Len(kept) BY <1>5
    <3> QED BY <2>2, <3>1, <3>2
  <2> QED BY <1>1, <2>3
<1>7. x.arrivals <= Len(arrived[Channel])
  <2>1. x.arrivals = Len(arrived[Channel]) /\ Len(arrived[Channel]) \in Nat BY <1>1, <1>5
  <2> QED BY <2>1
<1>8. i \in 1 .. x.arrivals BY <1>1, <1>4
<1> QED BY <1>1, <1>4, <1>6, <1>7, <1>8 DEF HasSeen, x

LEMMA SeesStep ==
    ASSUME BaseInv, SeesInv, [Next]_vars
    PROVE  SeesInv'
<1>0. LocalsInv /\ MemoriesInv /\ Channel \in Keys BY DEF BaseInv
<1>1. /\ Len(arrived[Channel]) <= Len(arrived'[Channel])
      /\ \A i \in 1 .. Len(arrived[Channel]) : arrived'[Channel][i] = arrived[Channel][i]
      /\ Len(arrived[Channel]) \in Nat /\ Len(arrived'[Channel]) \in Nat
  <2>1. MemoriesInv' BY <1>0, ChatStepIsMemoriesStep, MemoriesKeep
  <2>2. Len(arrived[Channel]) \in Nat BY <1>0 DEF MemoriesInv
  <2>3. Len(arrived'[Channel]) \in Nat BY <1>0, <2>1 DEF MemoriesInv
  <2> QED BY <1>0, <2>2, <2>3, ChatStepIsMemoriesStep, MemoriesKeep
<1>2. \A m \in Messages : HasArrived(m) => HasArrived(m)'
  BY <1>1 DEF HasArrived
<1> SUFFICES ASSUME NEW m \in Messages
    PROVE  /\ rpc'[m] = "stored" => HasArrived(m)'
           /\ remembered'[m] => rpc'[m] = "stored" /\ pc'[m] \notin {"unwritten", "remember"}
           /\ remembered'[m] /\ Prompted(pc'[m], chat'[m]) => HasSeen(chat[m], m)'
  BY DEF SeesInv
<1>3. rpc'[m] = "stored" => HasArrived(m)'
  <2>1. CASE rpc'[m] = rpc[m] BY <1>2, <2>1 DEF SeesInv
  <2>2. CASE MemorizeStores(m)
    <3> DEFINE mem == Mem("other", m, said[m], TRUE, <<>>)
    <3>1. arrived'[Channel] = Append(arrived[Channel], mem) /\ mem.owner = "other" /\ mem.of = m
      BY <1>0, <2>2 DEF MemorizeStores, Store, Mem, MemoriesInv
    <3>2. mem \in MemoryRecord
      <4>1. <<>> \in Seq(CallId) OBVIOUS
      <4>2. said[m] \in Nat BY <1>0 DEF LocalsInv, LocalTypes
      <4> QED BY <4>1, <4>2, MemIs
    <3> HIDE DEF mem
    <3>3. /\ Len(arrived'[Channel]) = Len(arrived[Channel]) + 1
          /\ arrived'[Channel][Len(arrived[Channel]) + 1] = mem
      BY <1>0, <3>1, <3>2, AppendIs DEF MemoriesInv
    <3>4. Len(arrived'[Channel]) \in 1 .. Len(arrived'[Channel]) BY <1>1, <3>3
    <3> QED BY <3>1, <3>3, <3>4 DEF HasArrived
  <2> QED BY <1>0, <2>1, <2>2, RpcChanges
<1>4. ASSUME remembered'[m]
      PROVE  /\ rpc[m] = "stored" /\ pc'[m] \notin {"unwritten", "remember"}
             /\ Remembered(m) \/ remembered[m]
  <2>1. CASE Remembered(m)
    BY <1>0, <2>1 DEF Remembered, Goto, LocalsInv, LocalTypes
  <2>2. CASE remembered[m] BY <1>0, <2>2, HandlerChanges DEF SeesInv
  <2> QED BY <1>0, <1>4, <2>1, <2>2, HandlerChanges
<1>5. remembered'[m] => rpc'[m] = "stored"
  <2>1. pc[m] = "unwritten" => ~remembered[m] /\ ~Remembered(m) BY DEF SeesInv, Remembered
  <2>2. MemorizeStores(m) => rpc'[m] = "stored"
    BY <1>0 DEF MemorizeStores, RpcStep, LocalsInv, LocalTypes
  <2> QED BY <1>0, <1>4, <2>1, <2>2, RpcChanges
<1>6. ASSUME remembered'[m], Prompted(pc'[m], chat'[m]) PROVE HasSeen(chat[m], m)'
  <2>1. CASE Prompt(m)
    <3>1. HasArrived(m) BY <1>4, <1>6 DEF SeesInv
    <3>2. HasSeen(chat'[m], m) /\ arrived' = arrived BY <1>0, <2>1, <3>1, PromptSees
    <3> QED BY <3>2 DEF HasSeen
  <2>2. CASE /\ Prompted(pc[m], chat[m])
             /\ chat'[m].seen = chat[m].seen /\ chat'[m].arrivals = chat[m].arrivals
    <3>1. ~Remembered(m) BY <2>2 DEF Prompted, Remembered
    <3>2. HasSeen(chat[m], m) BY <1>4, <1>6, <2>2, <3>1 DEF SeesInv
    <3>3. chat[m].arrivals \in Nat BY <1>0, ChatIs
    <3> QED BY <1>1, <2>2, <3>2, <3>3 DEF HasSeen
  <2> QED BY <1>0, <1>6, <2>1, <2>2, HandlerChanges
<1> QED BY <1>3, <1>4, <1>5, <1>6

(* Whatever else is remembered, replied to and evicted meanwhile: a reply  *)
(* whose Remember returned has its message in the prompt, or too many came *)
(* after it.                                                               *)
THEOREM RepliesSeeTheirMessages == Spec => []ReplySeesMessage
<1>1. Init => SeesInv BY DEF Init, SeesInv
<1>2. BaseInv /\ SeesInv /\ [Next]_vars => SeesInv' BY SeesStep
<1>3. SeesInv => ReplySeesMessage
  <2> SUFFICES ASSUME SeesInv, NEW m \in Messages, remembered[m], pc[m] = "ask"
      PROVE  \E i \in 1 .. chat[m].arrivals :
                LET mem == arrived[Channel][i]
                IN  /\ mem.owner = "other" /\ mem.of = m
                    /\ mem \in chat[m].seen \/ chat[m].arrivals - i >= HistorySize
    BY DEF ReplySeesMessage
  <2>1. HasSeen(chat[m], m) BY DEF SeesInv, Prompted
  <2> QED BY <2>1 DEF HasSeen
<1> QED BY <1>1, <1>2, <1>3, Base, PTL DEF Spec

-----------------------------------------------------------------------------
(* A talkative model h is found: whoever asks has not passed it. *)

(* One handler, at p with chat x and outcome o, holding e; sel is selected. *)
NotPassed(h, sel, p, e, x, o) ==
    /\ p = "choose" => Way(sel, h) + x.asked < Length
    /\ p \in Asking => e \in Slots /\ Way(e, h) + x.asked <= Length /\ Way(sel, h) <= Way(e, h)
    /\ p = "finish" => x.text
    /\ o # "silent"

TalksInv(h) ==
    /\ score[h] < BenchScore
    /\ \A m \in Messages : NotPassed(h, selected, pc[m], held[m], chat[m], outcome[m])

LEMMA NearerIsNotPassed ==
    ASSUME NEW h \in Slots, NEW sel \in Slots, NEW sel2 \in Slots, Way(sel2, h) <= Way(sel, h),
           NEW p, NEW e, NEW x \in ChatRec, NEW o, NotPassed(h, sel, p, e, x, o)
    PROVE  NotPassed(h, sel2, p, e, x, o)
<1>1. Way(sel, h) \in Nat /\ Way(sel2, h) \in Nat /\ x.asked \in Nat /\ Length \in Nat
  BY WayBounds, RotationAssumption DEF ChatRec
<1>2. e \in Slots => Way(e, h) \in Nat BY WayBounds
<1> QED BY <1>1, <1>2 DEF NotPassed

(* A step of m that brings the selection no farther from h. *)
LEMMA OthersNotPassed ==
    ASSUME LocalsInv, RotationTypeOK, selected' \in Slots, NEW h \in Slots, TalksInv(h),
           NEW m \in Messages, score'[h] < BenchScore, Way(selected', h) <= Way(selected, h),
           \A n \in Messages \ {m} : /\ pc'[n] = pc[n] /\ held'[n] = held[n]
                                    /\ chat'[n] = chat[n] /\ outcome'[n] = outcome[n],
           NotPassed(h, selected', pc'[m], held'[m], chat'[m], outcome'[m])
    PROVE  TalksInv(h)'
<1>1. ASSUME NEW n \in Messages
      PROVE  NotPassed(h, selected', pc'[n], held'[n], chat'[n], outcome'[n])
  <2>1. CASE n = m BY <2>1
  <2>2. CASE n # m
    <3>1. NotPassed(h, selected, pc[n], held[n], chat[n], outcome[n]) BY DEF TalksInv
    <3>2. chat[n] \in ChatRec /\ selected \in Slots BY ChatIs DEF RotationTypeOK
    <3> QED BY <2>2, <3>1, <3>2, NearerIsNotPassed
  <2> QED BY <2>1, <2>2
<1> QED BY <1>1 DEF TalksInv

LEMMA ChooseTalks ==
    ASSUME LocalsInv, RotationTypeOK, NEW h \in Slots, TalksInv(h), NEW m \in Messages, Choose(m)
    PROVE  TalksInv(h)'
<1> DEFINE old == chat[m]
           asked == old.asked + 1
           to == IF old.asked = 0 THEN "prompt" ELSE "ask"
<1>1. /\ pc[m] = "choose" /\ pc' = [pc EXCEPT ![m] = to] /\ held' = [held EXCEPT ![m] = selected]
      /\ chat' = [chat EXCEPT ![m].asked = asked]
      /\ UNCHANGED <<selected, score, outcome>>
  BY DEF Choose, Current, Goto, LocalsInv, LocalTypes
<1>2. /\ selected \in Slots /\ Way(selected, h) \in Nat /\ old.asked \in Nat /\ Length \in Nat
      /\ Way(selected, h) + old.asked < Length /\ outcome[m] # "silent" /\ score[h] < BenchScore
  <2>1. selected \in Slots BY DEF RotationTypeOK
  <2>2. old.asked \in Nat BY ChatIs, RotationAssumption
  <2>3. NotPassed(h, selected, pc[m], held[m], old, outcome[m]) /\ score[h] < BenchScore
    BY DEF TalksInv
  <2> QED BY <1>1, <2>1, <2>2, <2>3, WayBounds, RotationAssumption DEF NotPassed
<1>3. Way(selected, h) + asked <= Length BY <1>2
<1>4. to \in Asking /\ to \notin {"choose", "finish"} BY DEF Asking
<1> HIDE DEF asked, to
<1>5. /\ pc'[m] = to /\ held'[m] = selected /\ chat'[m].asked = asked
      /\ \A n \in Messages \ {m} : /\ pc'[n] = pc[n] /\ held'[n] = held[n] /\ chat'[n] = chat[n]
  <2>1. held \in [Messages -> Slots \cup {NoEntry}] BY DEF RotationTypeOK, Messages
  <2>2. pc \in [Messages -> Pcs] /\ chat \in [Messages -> ChatRec] BY DEF LocalsInv, LocalTypes
  <2>3. pc'[m] = to /\ \A n \in Messages \ {m} : pc'[n] = pc[n] BY <1>1, <2>2
  <2>4. held'[m] = selected /\ \A n \in Messages \ {m} : held'[n] = held[n] BY <1>1, <2>1
  <2>5. chat'[m].asked = asked /\ \A n \in Messages \ {m} : chat'[n] = chat[n]
    BY <1>1, <2>2 DEF ChatRec
  <2> QED BY <2>3, <2>4, <2>5
<1>6. NotPassed(h, selected', pc'[m], held'[m], chat'[m], outcome'[m])
  BY <1>1, <1>2, <1>3, <1>4, <1>5 DEF NotPassed
<1>7. Way(selected', h) <= Way(selected, h) BY <1>1, <1>2
<1> QED BY <1>1, <1>2, <1>5, <1>6, <1>7, OthersNotPassed

LEMMA SaysNothingTalks ==
    ASSUME LocalsInv, RotationTypeOK, selected' \in Slots, NEW h \in Talkative, TalksInv(h),
           NEW m \in Messages, SaysNothing(m)
    PROVE  TalksInv(h)'
<1> DEFINE old == chat[m]
           i == held[m]
           rounds == old.rounds + 1
<1>1. /\ pc[m] = "ask" /\ i # h /\ held' = [held EXCEPT ![m] = NoEntry]
      /\ chat' = [chat EXCEPT ![m].rounds = rounds] /\ UNCHANGED outcome
  BY DEF SaysNothing, Fail, Drop, LocalsInv, LocalTypes
<1>2. h \in Slots OBVIOUS
<1>3. /\ selected \in Slots /\ i \in Slots /\ old.asked \in 0 .. Length
      /\ Way(i, h) + old.asked <= Length /\ Way(selected, h) <= Way(i, h)
      /\ outcome[m] # "silent" /\ score[h] < BenchScore
  <2>1. NotPassed(h, selected, pc[m], i, old, outcome[m]) /\ score[h] < BenchScore
    BY DEF TalksInv
  <2>2. selected \in Slots /\ old.asked \in 0 .. Length BY ChatIs DEF RotationTypeOK
  <2> QED BY <1>1, <2>1, <2>2 DEF NotPassed, Asking
<1>4. /\ Way(i, h) \in Nat /\ Way(selected, h) \in Nat /\ Way(selected', h) \in Nat
      /\ Length \in Nat /\ Way(h, h) = 0 /\ Way(i, h) # 0
      /\ i # selected => Way(selected, h) # Way(i, h)
  <2>1. Way(h, h) = 0 BY <1>2 DEF Way, Slots
  <2>2. Way(i, h) # Way(h, h) BY <1>1, <1>2, <1>3, WayBounds
  <2> QED BY <1>2, <1>3, <2>1, <2>2, WayBounds, RotationAssumption
<1>5. /\ old.asked < Length /\ Fail(m) /\ pc' = [pc EXCEPT ![m] = "choose"]
  <2>1. old.asked < Length
    <3> HIDE DEF old, i
    <3> QED BY <1>3, <1>4
  <2> QED BY <2>1 DEF SaysNothing, Goto
<1>6. /\ score'[h] < BenchScore
      /\ i = selected => Way(selected', h) < Way(selected, h)
      /\ i # selected => selected' = selected
  <2>1. Bench(i, [score EXCEPT ![i] = BenchScore]) BY <1>5 DEF Fail
  <2>2. BenchScore \in Nat BY RotationAssumption
  <2> HIDE DEF i
  <2> QED BY <1>1, <1>2, <1>3, <2>1, <2>2, BenchIsNearer
<1> HIDE DEF i
<1>7. Way(selected', h) <= Way(selected, h) /\ Way(selected', h) < Way(i, h)
  BY <1>3, <1>4, <1>6
<1>8. Way(selected', h) + old.asked < Length BY <1>3, <1>4, <1>7
<1>9. /\ pc'[m] = "choose" /\ chat'[m].asked = old.asked
      /\ \A n \in Messages \ {m} : /\ pc'[n] = pc[n] /\ held'[n] = held[n] /\ chat'[n] = chat[n]
  BY <1>1, <1>5 DEF LocalsInv, LocalTypes, ChatRec, RotationTypeOK
<1>10. NotPassed(h, selected', pc'[m], held'[m], chat'[m], outcome'[m])
  BY <1>1, <1>3, <1>8, <1>9 DEF NotPassed, Asking
<1> QED BY <1>1, <1>2, <1>6, <1>7, <1>9, <1>10, OthersNotPassed

LEMMA EndingTalks ==
    ASSUME LocalsInv, RotationTypeOK, NEW h \in Slots, TalksInv(h), NEW m \in Messages,
           Says(m) \/ Errors(m) \/ Finish(m)
    PROVE  TalksInv(h)'
<1>1. /\ UNCHANGED <<selected, score>> /\ held' \in {held, [held EXCEPT ![m] = NoEntry]}
      /\ selected \in Slots /\ score[h] < BenchScore
      /\ NotPassed(h, selected, pc[m], held[m], chat[m], outcome[m])
  BY DEF Says, Errors, Finish, Drop, rotationVars, RotationTypeOK, TalksInv
<1>2. Way(selected', h) <= Way(selected, h) /\ selected' \in Slots
  BY <1>1, WayBounds
<1>3. /\ \A n \in Messages \ {m} : /\ pc'[n] = pc[n] /\ held'[n] = held[n]
                                   /\ chat'[n] = chat[n] /\ outcome'[n] = outcome[n]
      /\ \/ pc'[m] = "finish" /\ chat'[m].text /\ outcome'[m] = outcome[m]
         \/ pc'[m] = "done" /\ outcome'[m] # "silent"
  <2>1. \A n \in Messages \ {m} : held'[n] = held[n]
    <3>1. held \in [Messages -> Slots \cup {NoEntry}] BY DEF RotationTypeOK, Messages
    <3> QED BY <1>1, <3>1
  <2>2. CASE Says(m)
    <3>1. /\ pc' = [pc EXCEPT ![m] = "finish"] /\ outcome' = outcome
          /\ chat' = [chat EXCEPT ![m].rounds = @ + 1, ![m].text = TRUE]
      BY <2>2 DEF Says, Goto
    <3>2. chat'[m].text /\ \A n \in Messages \ {m} : chat'[n] = chat[n]
      BY <3>1 DEF LocalsInv, LocalTypes, ChatRec
    <3> QED BY <2>1, <3>1, <3>2 DEF LocalsInv, LocalTypes
  <2>3. CASE Errors(m) \/ Finish(m)
    <3>1. PICK how : /\ pc' = [pc EXCEPT ![m] = "done"] /\ chat' = [chat EXCEPT ![m] = NoChat]
                     /\ outcome' = [outcome EXCEPT ![m] = how] /\ how # "silent"
      <4>1. CASE Errors(m) BY <4>1 DEF Errors, Ended, Goto
      <4>2. CASE Finish(m)
        <5>1. chat[m].text BY <1>1, <4>2 DEF NotPassed, Finish
        <5> QED BY <4>2, <5>1 DEF Finish, Ended, Goto
      <4> QED BY <2>3, <4>1, <4>2
    <3> QED BY <2>1, <3>1 DEF LocalsInv, LocalTypes
  <2> QED BY <2>2, <2>3
<1>4. NotPassed(h, selected', pc'[m], held'[m], chat'[m], outcome'[m])
  BY <1>1, <1>3 DEF NotPassed, Asking
<1>5. score'[h] < BenchScore BY <1>1
<1> QED BY <1>2, <1>3, <1>4, <1>5, OthersNotPassed

(* The rest leave the rotation alone, and nobody's count of models asked. *)
LEMMA QuietTalks ==
    ASSUME LocalsInv, RotationTypeOK, NEW h \in Slots, TalksInv(h), NEW m \in Messages,
           UNCHANGED <<rotationVars, outcome>>,
           NEW to, NEW x, pc' = [pc EXCEPT ![m] = to], chat' = [chat EXCEPT ![m] = x],
           \/ to \notin {"choose", "finish"} \cup Asking
           \/ to = "choose" /\ x.asked = 0
           \/ pc[m] \in Asking /\ to \in Asking /\ x.asked = chat[m].asked
    PROVE  TalksInv(h)'
<1>1. /\ UNCHANGED <<selected, score, held, outcome>> /\ selected \in Slots /\ score[h] < BenchScore
      /\ NotPassed(h, selected, pc[m], held[m], chat[m], outcome[m])
  BY DEF rotationVars, RotationTypeOK, TalksInv
<1>2. Way(selected, h) \in Nat /\ Way(selected, h) < Length BY <1>1, WayBounds
<1>3. /\ pc'[m] = to /\ chat'[m] = x
      /\ \A n \in Messages \ {m} : pc'[n] = pc[n] /\ chat'[n] = chat[n]
  BY DEF LocalsInv, LocalTypes
<1>4. NotPassed(h, selected, to, held[m], x, outcome[m])
  <2>1. CASE to \notin {"choose", "finish"} \cup Asking BY <1>1, <2>1 DEF NotPassed
  <2>2. CASE to = "choose" /\ x.asked = 0 BY <1>1, <1>2, <2>2 DEF NotPassed, Asking
  <2>3. CASE pc[m] \in Asking /\ to \in Asking /\ x.asked = chat[m].asked
    <3>1. to \notin {"choose", "finish"} BY <2>3 DEF Asking
    <3> QED BY <1>1, <2>3, <3>1 DEF NotPassed
  <2> QED BY <2>1, <2>2, <2>3
<1>5. Way(selected', h) <= Way(selected, h) /\ selected' \in Slots /\ score'[h] < BenchScore
  BY <1>1, <1>2
<1>6. NotPassed(h, selected', pc'[m], held'[m], chat'[m], outcome'[m]) BY <1>1, <1>3, <1>4
<1> QED BY <1>1, <1>3, <1>5, <1>6, OthersNotPassed

LEMMA TalksStep ==
    ASSUME BaseInv, NEW h \in Talkative, TalksInv(h), [Next]_vars
    PROVE  TalksInv(h)'
<1>0. /\ LocalsInv /\ RotationTypeOK /\ h \in Slots /\ selected' \in Slots
  <2>1. RotationTypeOK' BY ChatStepIsRotationStep, RotationStepKeeps DEF BaseInv
  <2> QED BY <2>1 DEF BaseInv, RotationTypeOK
<1>1. ASSUME UNCHANGED <<selected, score, held, pc, chat, outcome>> PROVE TalksInv(h)'
  BY <1>1 DEF TalksInv
<1>2. ASSUME Tick \/ UNCHANGED vars PROVE TalksInv(h)'
  BY <1>1, <1>2 DEF Tick, Pass, vars, rotationVars
<1>3. ASSUME NEW m \in Messages, Memorize(m) PROVE TalksInv(h)'
  BY <1>1, <1>3 DEF Memorize, MemorizeLooks, MemorizeAdds, MemorizeStores, RpcStep, rotationVars
<1>4. ASSUME NEW m \in Messages,
             \/ Write(m) \/ Remembered(m) \/ RememberFails(m) \/ ApplyPersonality(m)
             \/ History(m) \/ HistoryAdds(m)
      PROVE  TalksInv(h)'
  <2>1. /\ UNCHANGED <<rotationVars, outcome>> /\ chat' = chat
        /\ \/ \E to \in {"remember", "reply", "done", "history", "history_add"} :
                pc' = [pc EXCEPT ![m] = to]
           \/ /\ pc[m] \in {"history", "history_add"}
              /\ pc' = [pc EXCEPT ![m] = "choose"]
    <3>1. UNCHANGED <<rotationVars, outcome>> /\ chat' = chat
      BY <1>4 DEF Write, Remembered, RememberFails, ApplyPersonality, History, HistoryAdds
    <3>2. CASE Write(m) \/ Remembered(m) \/ RememberFails(m) \/ ApplyPersonality(m)
      BY <3>1, <3>2 DEF Write, Remembered, RememberFails, ApplyPersonality, Goto
    <3>3. CASE History(m) \/ HistoryAdds(m) BY <3>1, <3>3 DEF History, HistoryAdds, Goto
    <3> QED BY <1>4, <3>2, <3>3
  <2>2. chat' = [chat EXCEPT ![m] = chat[m]] BY <1>0, <2>1 DEF LocalsInv, LocalTypes
  <2>3. pc[m] \in {"history", "history_add"} => chat[m].asked = 0
    BY <1>0, ChatIs DEF Loop, Chatting, Asking, NoChat
  <2>4. ASSUME NEW to \in {"remember", "reply", "done", "history", "history_add"}
        PROVE  to \notin {"choose", "finish"} \cup Asking
    BY DEF Asking
  <2>5. PICK to : /\ pc' = [pc EXCEPT ![m] = to]
                  /\ \/ to \notin {"choose", "finish"} \cup Asking
                     \/ to = "choose" /\ chat[m].asked = 0
    BY <2>1, <2>3, <2>4
  <2> QED BY <1>0, <2>1, <2>2, <2>5, QuietTalks
<1>5. ASSUME NEW m \in Messages, NoteLooks(m) \/ NoteAdds(m) PROVE TalksInv(h)'
  <2>1. /\ UNCHANGED <<rotationVars, outcome>> /\ chat' = chat /\ pc[m] \in Asking
        /\ \E to \in Asking : pc' = [pc EXCEPT ![m] = to]
    BY <1>5 DEF NoteLooks, NoteAdds, Goto, Asking
  <2>2. chat' = [chat EXCEPT ![m] = chat[m]] BY <1>0, <2>1 DEF LocalsInv, LocalTypes
  <2> QED BY <1>0, <2>1, <2>2, QuietTalks
<1>6. ASSUME NEW m \in Messages, Prompt(m) \/ CallsTools(m) PROVE TalksInv(h)'
  <2>1. /\ UNCHANGED <<rotationVars, outcome>> /\ pc[m] \in Asking
        /\ \E to \in Asking : pc' = [pc EXCEPT ![m] = to]
    BY <1>6 DEF Prompt, CallsTools, Goto, Asking
  <2>2. chat \in [Messages -> ChatRec] /\ chat[m] \in ChatRec BY <1>0 DEF LocalsInv, LocalTypes
  <2>3. \E x : chat' = [chat EXCEPT ![m] = x] /\ x.asked = chat[m].asked
    <3>1. CASE Prompt(m)
      <4>1. chat' = [chat EXCEPT ![m] = chat'[m]] /\ chat'[m].asked = chat[m].asked
        BY <2>2, <3>1 DEF Prompt, ChatRec
      <4> QED BY <4>1
    <3>2. CASE CallsTools(m)
      <4>1. chat' = [chat EXCEPT ![m] = chat'[m]] /\ chat'[m].asked = chat[m].asked
        BY <2>2, <3>2 DEF CallsTools, ChatRec
      <4> QED BY <4>1
    <3> QED BY <1>6, <3>1, <3>2
  <2> QED BY <1>0, <2>1, <2>3, QuietTalks
<1>7. ASSUME NEW m \in Messages, NoteStores(m) \/ SwitchPersonality(m) \/ OtherTool(m)
      PROVE  TalksInv(h)'
  <2>1. pc[m] \in {"tools", "note"} /\ CallReturns(m)
    BY <1>7 DEF NoteStores, SwitchPersonality, OtherTool
  <2>2. PICK x \in ChatRec, to \in {"ask", "tools"} :
          pc' = [pc EXCEPT ![m] = to] /\ chat' = [chat EXCEPT ![m] = x] /\ x.asked = chat[m].asked
    BY <1>0, <2>1, CallReturnsIs
  <2>3. UNCHANGED <<rotationVars, outcome>> /\ pc[m] \in Asking /\ to \in Asking
    BY <2>1 DEF CallReturns, Asking
  <2> QED BY <1>0, <2>2, <2>3, QuietTalks
<1>8. ASSUME NEW m \in Messages,
             Choose(m) \/ SaysNothing(m) \/ Says(m) \/ Errors(m) \/ Finish(m)
      PROVE  TalksInv(h)'
  BY <1>0, <1>8, ChooseTalks, SaysNothingTalks, EndingTalks
<1>9. ASSUME Next PROVE TalksInv(h)'
  <2>1. Tick \/ \E m \in Messages : Write(m) \/ Memorize(m) \/ Handle(m) BY <1>9 DEF Next
  <2> QED BY <1>2, <1>3, <1>4, <1>5, <1>6, <1>7, <1>8, <2>1 DEF Handle
<1> QED BY <1>2, <1>9

AllTalk == \A h \in Talkative : TalksInv(h)

(* Whatever models the other chats bench meanwhile, a chat that goes on    *)
(* asking comes to a talkative one before it has asked them all.           *)
THEOREM TalkativeModelIsFound == Spec => []TalkativeAnswers
<1>1. Init => AllTalk
  <2> SUFFICES ASSUME Init, NEW h \in Talkative PROVE TalksInv(h) BY DEF AllTalk
  <2>1. score[h] < BenchScore BY RotationAssumption DEF Init, RotationInit
  <2>2. \A m \in Messages : pc[m] = "unwritten" /\ outcome[m] = "none" BY DEF Init
  <2> QED BY <2>1, <2>2 DEF TalksInv, NotPassed, Asking
<1>2. BaseInv /\ AllTalk /\ [Next]_vars => AllTalk'
  BY TalksStep DEF AllTalk
<1>3. AllTalk => TalkativeAnswers
  BY DEF AllTalk, TalkativeAnswers, TalksInv, NotPassed
<1> QED BY <1>1, <1>2, <1>3, Base, PTL DEF Spec
===============================================================================
