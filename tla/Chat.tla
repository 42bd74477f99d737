-------------------------------- MODULE Chat --------------------------------
(***************************************************************************)
(* A channel's messages, from the bot's ChatListener to the brain's Chat.  *)
(* The bot handles every message in a goroutine of its own: Remember, then *)
(* Reply if the message mentions the bot.  The llm serves both calls       *)
(* concurrently with everybody else's, over memories and a rotation of     *)
(* chat models they all share.                                             *)
(*                                                                         *)
(* One guild, whose keys are its channel and the brain's notes.  A user of *)
(* the rotation is the Chat of one message; it holds an entry from         *)
(* Current until the model has given its final answer.                     *)
(***************************************************************************)
EXTENDS Rotation, Memories

CONSTANTS
    Mentions,       \* the messages (among Users) that mention the bot
    Channel, ShortTerm,     \* the keys of the history and of the notes
    MaxToolRounds,  \* maxToolRounds, 2 in the code
    CallNames,      \* what ids begin with, before any suffixes that renaming adds
    Completions,    \* bound: per round of tools, the ids a model may give its calls
    MaxNotes,       \* bound: notes after which no more are begun
    Personalities, Default, NoPersonality,
    Talkative       \* models that never answer with nothing

Messages == Users

(* An id is a string; read backwards, the numbers "_%d" may have put there *)
(* and what is before them.  A model may give one that has some.           *)
CallId == [name : CallNames, suffixes : Seq(Nat)]
MemoryRecord == [owner : {"self", "other", "none"}, of : Messages, at : Nat,
                 says : BOOLEAN, calls : Seq(CallId)]

ASSUME ChatAssumption ==
    /\ Mentions \subseteq Messages
    /\ Keys = {Channel, ShortTerm} /\ Channel # ShortTerm
    /\ MaxToolRounds \in Nat /\ MaxNotes \in Nat
    /\ Default \in Personalities /\ NoPersonality \notin Personalities
    /\ Talkative \subseteq Slots
    /\ NoHolder \notin Seq(MemoryRecord)

ASSUME CompletionsAssumption ==
    \A n \in 0 .. MaxToolRounds : Completions[n] \subseteq Seq(CallId) \ {<<>>}

VARIABLES
    pc,         \* where the handling of each message is
    rpc,        \* where the llm is with its Memorize
    said,       \* when it was written, 0 before that
    clock,      \* counts messages written and replies stored
    remembered, \* did Remember return without an error?
    chat,       \* the locals of its Chat
    outcome,    \* how the message ended
    personality, applied        \* systemNames of the guild; is it in guilds?

botVars == <<rpc, said, clock, remembered>>
guildVars == <<personality, applied>>
vars == <<rotationVars, memoryVars, pc, botVars, chat, outcome, guildVars>>

(* asked, toolRounds and rounds are Chat's counters; pending are the ids   *)
(* of the calls of the last completion still to run, calls the ids of      *)
(* those made as they are stored, text whether the model said something;   *)
(* seen is what went into the prompt and arrivals how much had arrived by  *)
(* then.                                                                   *)
NoChat == [asked |-> 0, toolRounds |-> 0, rounds |-> 0, pending |-> <<>>,
           calls |-> <<>>, text |-> FALSE, seen |-> {}, arrivals |-> 0]

Init ==
    /\ RotationInit /\ MemoriesInit
    /\ pc = [m \in Messages |-> "unwritten"]
    /\ rpc = [m \in Messages |-> "none"]
    /\ said = [m \in Messages |-> 0]
    /\ clock = 0
    /\ remembered = [m \in Messages |-> FALSE]
    /\ chat = [m \in Messages |-> NoChat]
    /\ outcome = [m \in Messages |-> "none"]
    /\ personality = NoPersonality /\ applied = FALSE

Goto(m, where) == pc' = [pc EXCEPT ![m] = where]

Mem(owner, m, at, says, ids) ==
    [owner |-> owner, of |-> m, at |-> at, says |-> says, calls |-> ids]

-----------------------------------------------------------------------------
(* Remember *)

(* Someone writes; handle() calls Memorize. *)
Write(m) ==
    /\ pc[m] = "unwritten"
    /\ Goto(m, "remember")
    /\ clock' = clock + 1
    /\ said' = [said EXCEPT ![m] = clock + 1]
    /\ rpc' = [rpc EXCEPT ![m] = "lookup"]
    /\ UNCHANGED <<remembered, rotationVars, memoryVars, chat, outcome, guildVars>>

RpcStep(m, from, to) ==
    /\ rpc[m] = from
    /\ rpc' = [rpc EXCEPT ![m] = to]
    /\ UNCHANGED <<pc, said, clock, remembered, rotationVars, chat, outcome, guildVars>>

MemorizeLooks(m) ==
    /\ RpcStep(m, "lookup", IF Memory(Channel) THEN "store" ELSE "add")
    /\ UNCHANGED memoryVars

MemorizeAdds(m) == RpcStep(m, "add", "store") /\ AddMemoryHolder(Channel)

MemorizeStores(m) ==
    /\ RpcStep(m, "store", "stored")
    /\ Store(Channel, Mem("other", m, said[m], TRUE, <<>>))

(* Mutant: the reply does not wait for the memory. *)
RememberedAtOnce(m) ==
    /\ pc[m] = "remember" /\ rpc[m] # "none"
    /\ remembered' = [remembered EXCEPT ![m] = TRUE]
    /\ Goto(m, IF m \in Mentions THEN "reply" ELSE "done")
    /\ UNCHANGED <<rpc, said, clock, rotationVars, memoryVars, chat, outcome, guildVars>>

(* Memorize has returned; only a mention is replied to. *)
Remembered(m) ==
    /\ pc[m] = "remember" /\ rpc[m] = "stored"
    /\ remembered' = [remembered EXCEPT ![m] = TRUE]
    /\ Goto(m, IF m \in Mentions THEN "reply" ELSE "done")
    /\ UNCHANGED <<rpc, said, clock, rotationVars, memoryVars, chat, outcome, guildVars>>

(* The call fails or runs into rememberTimeout, which is only logged.  It  *)
(* may never have reached the llm, or be served there all the same.        *)
RememberFails(m) ==
    /\ pc[m] = "remember"
    /\ \/ rpc[m] = "lookup" /\ rpc' = [rpc EXCEPT ![m] = "none"]
       \/ UNCHANGED rpc
    /\ Goto(m, IF m \in Mentions THEN "reply" ELSE "done")
    /\ UNCHANGED <<said, clock, remembered, rotationVars, memoryVars, chat, outcome, guildVars>>

-----------------------------------------------------------------------------
(* Chat, up to its prompt *)

(* Mutant: the default comes back with every chat. *)
ApplyPersonalityAlways(m) ==
    /\ pc[m] = "reply"
    /\ personality' = Default
    /\ applied' = TRUE
    /\ Goto(m, "history")
    /\ UNCHANGED <<botVars, rotationVars, memoryVars, chat, outcome>>

(* The default personality, the first time the guild chats. *)
ApplyPersonality(m) ==
    /\ pc[m] = "reply"
    /\ personality' = IF applied THEN personality ELSE Default
    /\ applied' = TRUE
    /\ Goto(m, "history")
    /\ UNCHANGED <<botVars, rotationVars, memoryVars, chat, outcome>>

History(m) ==
    /\ pc[m] = "history"
    /\ Goto(m, IF Memory(Channel) THEN "choose" ELSE "history_add")
    /\ UNCHANGED <<botVars, rotationVars, memoryVars, chat, outcome, guildVars>>

HistoryAdds(m) ==
    /\ pc[m] = "history_add"
    /\ AddMemoryHolder(Channel)
    /\ Goto(m, "choose")
    /\ UNCHANGED <<botVars, rotationVars, chat, outcome, guildVars>>

(* entry := chatters.Current(), for the prompt or after a Fail. *)
Choose(m) ==
    /\ pc[m] = "choose"
    /\ Current(m)
    /\ chat' = [chat EXCEPT ![m].asked = @ + 1]
    /\ Goto(m, IF chat[m].asked = 0 THEN "prompt" ELSE "ask")
    /\ UNCHANGED <<botVars, memoryVars, outcome, guildVars>>

(* messages(): the history as it is now; the loop never reads it again. *)
Prompt(m) ==
    /\ pc[m] = "prompt"
    /\ chat' = [chat EXCEPT
          ![m].seen = {holder[Channel][i] : i \in DOMAIN holder[Channel]},
          ![m].arrivals = Len(arrived[Channel])]
    /\ Goto(m, "ask")
    /\ UNCHANGED <<botVars, rotationVars, memoryVars, outcome, guildVars>>

-----------------------------------------------------------------------------
(* Chat, the loop: one action per way a completion can end *)

(* Mutant: a model that ran tools may keep silent. *)
SaysNothingAfterTools(m) ==
    /\ pc[m] = "ask" /\ held[m] \notin Talkative
    /\ IF chat[m].asked < Length /\ chat[m].calls = <<>>
       THEN Fail(m) /\ Goto(m, "choose")
       ELSE Drop(m) /\ Goto(m, "finish")
    /\ chat' = [chat EXCEPT ![m].rounds = @ + 1]
    /\ UNCHANGED <<botVars, memoryVars, outcome, guildVars>>

(* An empty reply: the next model is asked, unless all were. *)
SaysNothing(m) ==
    /\ pc[m] = "ask" /\ held[m] \notin Talkative
    /\ IF chat[m].asked < Length
       THEN Fail(m) /\ Goto(m, "choose")
       ELSE Drop(m) /\ Goto(m, "finish")
    /\ chat' = [chat EXCEPT ![m].rounds = @ + 1]
    /\ UNCHANGED <<botVars, memoryVars, outcome, guildVars>>

Says(m) ==
    /\ pc[m] = "ask"
    /\ Drop(m) /\ Goto(m, "finish")
    /\ chat' = [chat EXCEPT ![m].rounds = @ + 1, ![m].text = TRUE]
    /\ UNCHANGED <<botVars, memoryVars, outcome, guildVars>>

(* Mutant: tools are offered once more than the limit. *)
OffersToolsOnceMore(m) == chat[m].toolRounds <= MaxToolRounds

(* params.Tools is set: only then does a model call tools. *)
OffersTools(m) == chat[m].toolRounds < MaxToolRounds

CallsTools(m) ==
    /\ pc[m] = "ask" /\ OffersTools(m)
    /\ \E ids \in Completions[chat[m].toolRounds] :
          chat' = [chat EXCEPT ![m].rounds = @ + 1, ![m].toolRounds = @ + 1,
                               ![m].pending = ids]
    /\ Goto(m, "tools")
    /\ UNCHANGED <<botVars, rotationVars, memoryVars, outcome, guildVars>>

(* The locals of handle() and Chat go with them. *)
Ended(m, how) ==
    /\ Goto(m, "done")
    /\ chat' = [chat EXCEPT ![m] = NoChat]
    /\ remembered' = [remembered EXCEPT ![m] = FALSE]
    /\ outcome' = [outcome EXCEPT ![m] = how]

(* An error, no choices or a deadline ends the chat, without a verdict.    *)
Errors(m) ==
    /\ pc[m] = "ask"
    /\ Drop(m) /\ Ended(m, "error")
    /\ UNCHANGED <<rpc, said, clock, memoryVars, guildVars>>

-----------------------------------------------------------------------------
(* The tools *)

(* Mutant: ids are kept as the model gave them. *)
FreshIdAsGiven(c, id) == id

(* An id already used in this reply gets "_" and the number of calls so far *)
(* appended; whether that id has been used is not looked at.               *)
FreshId(c, id) ==
    IF \E i \in DOMAIN c.calls : c.calls[i] = id
    THEN [id EXCEPT !.suffixes = Append(@, Len(c.calls))] ELSE id

(* A call has returned, with a result or "error: ...". *)
CallReturns(m) ==
    /\ chat' = [chat EXCEPT ![m].calls = Append(@, FreshId(chat[m], Head(chat[m].pending))),
                            ![m].pending = Tail(@)]
    /\ Goto(m, IF Len(chat[m].pending) = 1 THEN "ask" ELSE "tools")
    /\ UNCHANGED <<botVars, rotationVars, outcome>>

(* MemorizeTool, which makes the notes' holder as Memorize makes a channel's. *)
NoteLooks(m) ==
    /\ pc[m] = "tools" /\ Len(arrived[ShortTerm]) < MaxNotes
    /\ Goto(m, IF Memory(ShortTerm) THEN "note" ELSE "note_add")
    /\ UNCHANGED <<botVars, rotationVars, memoryVars, chat, outcome, guildVars>>

NoteAdds(m) ==
    /\ pc[m] = "note_add"
    /\ AddMemoryHolder(ShortTerm)
    /\ Goto(m, "note")
    /\ UNCHANGED <<botVars, rotationVars, chat, outcome, guildVars>>

NoteStores(m) ==
    /\ pc[m] = "note"
    /\ Store(ShortTerm, Mem("none", m, clock, TRUE, <<>>))
    /\ CallReturns(m)
    /\ UNCHANGED guildVars

SwitchPersonality(m) ==
    /\ pc[m] = "tools"
    /\ personality' \in Personalities
    /\ CallReturns(m)
    /\ UNCHANGED <<memoryVars, applied>>

(* A tool of the bot, one that is not found, or arguments that do not      *)
(* parse, which MemorizeTool looks at after it has its holder.             *)
OtherTool(m) ==
    /\ pc[m] \in {"tools", "note"}
    /\ CallReturns(m)
    /\ UNCHANGED <<memoryVars, guildVars>>

-----------------------------------------------------------------------------
(* The reply is stored, unless there is nothing in it, and the bot posts   *)
(* it, unless it is empty.                                                 *)
Finish(m) ==
    /\ pc[m] = "finish"
    /\ IF ~chat[m].text /\ chat[m].calls = <<>>
       THEN UNCHANGED <<memoryVars, clock>>
       ELSE /\ Store(Channel, Mem("self", m, clock + 1, chat[m].text, chat[m].calls))
            /\ clock' = clock + 1
    /\ Ended(m, IF chat[m].text THEN "posted" ELSE "silent")
    /\ UNCHANGED <<rpc, said, rotationVars, guildVars>>

(* Time passes for benched models. *)
Tick == Pass /\ UNCHANGED <<memoryVars, pc, botVars, chat, outcome, guildVars>>

Handle(m) ==
    \/ Remembered(m) \/ RememberFails(m) \/ ApplyPersonality(m)
    \/ History(m) \/ HistoryAdds(m) \/ Choose(m) \/ Prompt(m)
    \/ SaysNothing(m) \/ Says(m) \/ CallsTools(m) \/ Errors(m)
    \/ NoteLooks(m) \/ NoteAdds(m) \/ NoteStores(m) \/ SwitchPersonality(m) \/ OtherTool(m)
    \/ Finish(m)

Memorize(m) == MemorizeLooks(m) \/ MemorizeAdds(m) \/ MemorizeStores(m)

Next == Tick \/ \E m \in Messages : Write(m) \/ Memorize(m) \/ Handle(m)

Spec == Init /\ [][Next]_vars

(* Both processes' goroutines run and every call they wait for has a       *)
(* deadline.  Nobody has to write, and no timeout has to strike.           *)
FairSpec == Spec /\ \A m \in Messages : WF_vars(Handle(m)) /\ WF_vars(Memorize(m))

-----------------------------------------------------------------------------
(* Types; and Chat's loop is bounded: no more completions than models and  *)
(* rounds of tools together, no more models asked than there are.          *)
TypeOK ==
    /\ RotationTypeOK
    /\ \A k \in Keys : Memory(k) => holder[k] \in Seq(MemoryRecord)
    /\ pc \in [Messages -> {"unwritten", "remember", "reply", "history", "history_add",
                            "choose", "prompt", "ask", "tools", "note_add", "note",
                            "finish", "done"}]
    /\ rpc \in [Messages -> {"none", "lookup", "add", "store", "stored"}]
    /\ clock \in Nat /\ said \in [Messages -> 0 .. clock]
    /\ remembered \in [Messages -> BOOLEAN]
    /\ \A m \in Messages :
          /\ chat[m].asked \in 0 .. Length
          /\ chat[m].toolRounds \in 0 .. MaxToolRounds
          /\ chat[m].rounds \in 0 .. (Length + MaxToolRounds)
          /\ chat[m].pending \in Seq(CallId)
          /\ chat[m].calls \in Seq(CallId)
    /\ outcome \in [Messages -> {"none", "posted", "silent", "error"}]
    /\ personality \in Personalities \cup {NoPersonality}

(* "remember runs before reply so the reply sees the message": if Remember *)
(* succeeded, the message is in the prompt of its reply, or as many others *)
(* as the history has room for came after it.                              *)
ReplySeesMessage ==
    \A m \in Messages : (remembered[m] /\ pc[m] = "ask") =>
        \E i \in 1 .. chat[m].arrivals :
            LET mem == arrived[Channel][i]
            IN  /\ mem.owner = "other" /\ mem.of = m
                /\ mem \in chat[m].seen \/ chat[m].arrivals - i >= HistorySize

(* As long as one chat model always finds something to say, no chat ends   *)
(* with nothing said, whatever models the other chats bench meanwhile.     *)
TalkativeAnswers ==
    Talkative # {} => \A m \in Messages : outcome[m] # "silent"

(* "so a later switch isn't overwritten by the default": once a guild has  *)
(* a personality, only a chat's personality tool changes it.               *)
SwitchSticks ==
    [][personality' # personality =>
          personality = NoPersonality \/ \E m \in Messages : Len(chat'[m].calls) > Len(chat[m].calls)]_vars

(* A model gives this id; it has the shape of one renamed with n. *)
Given(id) ==
    \E r \in 0 .. MaxToolRounds : \E ids \in Completions[r] : \E i \in DOMAIN ids : ids[i] = id

LooksRenamed(id, n) == id.suffixes # <<>> /\ id.suffixes[Len(id.suffixes)] = n

(* What a prompt makes of the history: a reply that says nothing has tool  *)
(* calls, and a reply's results can be told apart by their ids, however    *)
(* often a model repeats one, unless a model gave the very id that a later *)
(* call is renamed to.                                                     *)
HistoryReplays ==
    \A m \in Messages : \A mem \in chat[m].seen : mem.owner = "self" =>
        /\ mem.says \/ mem.calls # <<>>
        /\ \A i, j \in DOMAIN mem.calls : i < j /\ mem.calls[i] = mem.calls[j] =>
              Given(mem.calls[i]) /\ LooksRenamed(mem.calls[i], j - 1)

(* _docs/openai/05-tool-calling.md:89-90, "A `tool` message must follow an *)
(* `assistant` message containing a tool call with that `tool_call_id`":   *)
(* a result belongs to one call, whatever ids models give.                 *)
ResultsApart ==
    \A m \in Messages : \A mem \in chat[m].seen :
        \A i, j \in DOMAIN mem.calls : mem.calls[i] = mem.calls[j] => i = j

(* "an empty reply isn't kept, the model would start copying it".          *)
EmptyIsNotKept ==
    \A m \in Messages : \A mem \in chat[m].seen : mem.says

(* "always evicting the oldest memories": no memory kept is older than one *)
(* that was evicted.                                                       *)
KeepsNewest ==
    \A k \in Keys : \A i \in 1 .. (Len(arrived[k]) - HistorySize) :
        \A j \in (Len(arrived[k]) - HistorySize + 1) .. Len(arrived[k]) :
            arrived[k][i].at <= arrived[k][j].at

(* Every message is handled to its end, and every reply ends.              *)
MessagesHandled == \A m \in Messages : pc[m] # "unwritten" ~> pc[m] = "done"
=============================================================================
