----------------------------- MODULE ToolStream -----------------------------
(***************************************************************************)
(* The bot's tools, offered to the llm over gRPC: llm/server/tools.go on   *)
(* the llm's side, discord-bot/network/tools.go on the bot's.              *)
(*                                                                         *)
(* The bot registers its tools one call at a time, opens a ToolCalls       *)
(* stream and runs what the llm sends over it, each call in a goroutine.   *)
(* When the stream ends it waits five seconds and begins again.  The llm   *)
(* sends to the stream opened last, waits for the result with the call's   *)
(* id, and gives up when the request's context or the stream ends.         *)
(*                                                                         *)
(* Either process may restart and a connection may break at any point; the *)
(* llm's restart loses its tools, its streams and the requests under way,  *)
(* and its call ids begin again at one.                                    *)
(***************************************************************************)
EXTENDS Integers, FiniteSets

CONSTANTS
    Tools,          \* the bot's tools
    Streams,        \* stream objects, used again once nothing refers to them
    NoStream,
    Ids,            \* call ids; one process never uses an id twice at once
    MaxRestarts,    \* bound: restarts of the llm
    MaxFaults       \* bound: broken connections and restarts of the bot

ASSUME ToolAssumption ==
    NoStream \notin Streams /\ MaxRestarts \in Nat /\ MaxFaults \in Nat

VARIABLES
    (* the llm *)
    up,             \* the process is running
    epoch,          \* how often it has restarted
    tools,          \* the remote tools in its tool set
    bot,            \* s.bot, the stream new calls go to
    handler,        \* per stream: "none", "dialed", "serving", "unset", "closed"
    call,           \* per id, the executor: "idle", "ready", "sent"
    via,            \* the stream a call is made on
    got,            \* the epoch of the result in the call's channel, -1: empty
    (* the bot *)
    loop,           \* RegisterTools: "registering", "receiving", "waiting"
    todo,           \* tools serveOnce has yet to register
    current,        \* the stream serveOnce receives from
    running,        \* the calls whose tools are running
    (* the network *)
    link,           \* streams whose connection is up
    calls, results, \* messages on the way to the bot and to the llm
    faults

llmVars == <<up, epoch, tools, bot, handler, call, via, got>>
botVars == <<loop, todo, current, running>>
netVars == <<link, calls, results, faults>>
vars == <<up, epoch, tools, bot, handler, call, via, got,
          loop, todo, current, running, link, calls, results, faults>>

(* A call and its result, on a stream; the epoch tells apart the calls     *)
(* that two lives of the llm gave the same id.                             *)
Message == [id : Ids, stream : Streams, epoch : 0 .. MaxRestarts]

Init ==
    /\ up = TRUE /\ epoch = 0 /\ tools = {} /\ bot = NoStream
    /\ handler = [st \in Streams |-> "none"]
    /\ call = [i \in Ids |-> "idle"]
    /\ via = [i \in Ids |-> NoStream]
    /\ got = [i \in Ids |-> -1]
    /\ loop = "registering" /\ todo = Tools
    /\ current = NoStream /\ running = {}
    /\ link = {} /\ calls = {} /\ results = {} /\ faults = 0

-----------------------------------------------------------------------------
(* The bot: serveOnce registers each tool; AlreadyExists is as good. *)
RegisterTool(t) ==
    /\ loop = "registering" /\ t \in todo
    /\ up
    /\ tools' = tools \cup {t}
    /\ todo' = todo \ {t}
    /\ UNCHANGED <<up, epoch, bot, handler, call, via, got, loop, current, running, netVars>>

(* Registering or opening the stream fails while the llm is away. *)
ConnectFails ==
    /\ loop = "registering" /\ ~up
    /\ loop' = "waiting"
    /\ UNCHANGED <<llmVars, todo, current, running, netVars>>

Unused(st) ==
    /\ handler[st] \in {"none", "closed"} /\ st \notin link /\ st # current
    /\ \A i \in Ids : call[i] # "idle" => via[i] # st
    /\ \A m \in running \cup calls \cup results : m.stream # st

(* Every tool is registered: the stream is opened.  The five seconds before *)
(* a retry are taken to be enough for an earlier handler to have begun.    *)
OpenStream(st) ==
    /\ loop = "registering" /\ todo = {} /\ up
    /\ Unused(st)
    /\ \A s \in Streams : handler[s] # "dialed"
    /\ handler' = [handler EXCEPT ![st] = "dialed"]
    /\ link' = link \cup {st}
    /\ current' = st
    /\ loop' = "receiving"
    /\ UNCHANGED <<up, epoch, tools, bot, call, via, got, todo, running, calls, results, faults>>

(* A goroutine per call runs the tool... *)
ReceiveCall(m) ==
    /\ loop = "receiving" /\ m.stream = current /\ m \in calls
    /\ calls' = calls \ {m}
    /\ running' = running \cup {m}
    /\ UNCHANGED <<llmVars, loop, todo, current, link, results, faults>>

(* Mutant: the result goes out on the stream of the day. *)
ToolDoneOnCurrent(m) ==
    /\ m \in running
    /\ running' = running \ {m}
    /\ results' = IF current \in link
                  THEN results \cup {[m EXCEPT !.stream = current]} ELSE results
    /\ UNCHANGED <<llmVars, loop, todo, current, link, calls, faults>>

(* ...and sends the result on the stream the call came by; a Send on a     *)
(* stream that has ended fails and nobody looks.                           *)
ToolDone(m) ==
    /\ m \in running
    /\ running' = running \ {m}
    /\ results' = IF m.stream \in link THEN results \cup {m} ELSE results
    /\ UNCHANGED <<llmVars, loop, todo, current, link, calls, faults>>

(* Recv fails: serveOnce returns. *)
StreamEnds ==
    /\ loop = "receiving" /\ current \notin link
    /\ loop' = "waiting"
    /\ current' = NoStream
    /\ UNCHANGED <<llmVars, todo, running, netVars>>

(* Five seconds later. *)
Retry ==
    /\ loop = "waiting"
    /\ loop' = "registering"
    /\ todo' = Tools
    /\ UNCHANGED <<llmVars, current, running, netVars>>

-----------------------------------------------------------------------------
(* Mutant: the stream already there keeps the calls. *)
ServeIfNone(st) ==
    /\ up /\ handler[st] = "dialed"
    /\ handler' = [handler EXCEPT ![st] = "serving"]
    /\ bot' = IF bot = NoStream THEN st ELSE bot
    /\ UNCHANGED <<up, epoch, tools, call, via, got, botVars, netVars>>

(* The llm: ToolCalls makes the stream the one new calls go to... *)
Serve(st) ==
    /\ up /\ handler[st] = "dialed"
    /\ handler' = [handler EXCEPT ![st] = "serving"]
    /\ bot' = st
    /\ UNCHANGED <<up, epoch, tools, call, via, got, botVars, netVars>>

(* Mutant: whichever stream is there is taken back. *)
UnsetAny(st) ==
    /\ handler[st] = "serving" /\ st \notin link
    /\ handler' = [handler EXCEPT ![st] = "unset"]
    /\ bot' = NoStream
    /\ UNCHANGED <<up, epoch, tools, call, via, got, botVars, netVars>>

(* ...takes it back, if it still is, when Recv fails... *)
Unset(st) ==
    /\ handler[st] = "serving" /\ st \notin link
    /\ handler' = [handler EXCEPT ![st] = "unset"]
    /\ bot' = IF bot = st THEN NoStream ELSE bot
    /\ UNCHANGED <<up, epoch, tools, call, via, got, botVars, netVars>>

(* ...and wakes the calls still waiting on it. *)
Close(st) ==
    /\ handler[st] = "unset"
    /\ handler' = [handler EXCEPT ![st] = "closed"]
    /\ UNCHANGED <<up, epoch, tools, bot, call, via, got, botVars, netVars>>

(* deliver: a result goes to the call waiting for that id on this stream;  *)
(* nobody waiting, it is dropped.                                          *)
Deliver(m) ==
    /\ m \in results /\ handler[m.stream] = "serving"
    /\ results' = results \ {m}
    /\ got' = IF call[m.id] = "sent" /\ via[m.id] = m.stream
              THEN [got EXCEPT ![m.id] = m.epoch]
              ELSE got
    /\ UNCHANGED <<up, epoch, tools, bot, handler, call, via, botVars, link, calls, faults>>

(* nextID: no call of this life of the llm still goes by this id. *)
Fresh(i) == \A m \in running \cup calls \cup results : m.id = i => m.epoch # epoch

(* remoteExecutor reads s.bot; with no bot connected the call just fails.  *)
StartCall(i) ==
    /\ up /\ tools # {} /\ bot # NoStream
    /\ call[i] = "idle" /\ Fresh(i)
    /\ call' = [call EXCEPT ![i] = "ready"]
    /\ via' = [via EXCEPT ![i] = bot]
    /\ got' = [got EXCEPT ![i] = -1]
    /\ UNCHANGED <<up, epoch, tools, bot, handler, botVars, netVars>>

(* call(): an entry in pending, then send, which fails on a closed stream   *)
(* and loses the message on a broken one.                                  *)
SendCall(i) ==
    /\ call[i] = "ready"
    /\ IF handler[via[i]] = "closed"
       THEN call' = [call EXCEPT ![i] = "idle"] /\ UNCHANGED calls
       ELSE /\ call' = [call EXCEPT ![i] = "sent"]
            /\ calls' = IF via[i] \in link
                        THEN calls \cup {[id |-> i, stream |-> via[i], epoch |-> epoch]}
                        ELSE calls
    /\ UNCHANGED <<up, epoch, tools, bot, handler, via, got, botVars, link, results, faults>>

(* Mutant: nobody wakes the calls when the stream is done. *)
CallReturnsOnResult(i) ==
    /\ call[i] = "sent" /\ got[i] # -1
    /\ call' = [call EXCEPT ![i] = "idle"]
    /\ UNCHANGED <<up, epoch, tools, bot, handler, via, got, botVars, netVars>>

(* The select: a result, or the stream is done... *)
CallReturns(i) ==
    /\ call[i] = "sent"
    /\ got[i] # -1 \/ handler[via[i]] = "closed"
    /\ call' = [call EXCEPT ![i] = "idle"]
    /\ UNCHANGED <<up, epoch, tools, bot, handler, via, got, botVars, netVars>>

(* ...or the request's context is. *)
CallTimesOut(i) ==
    /\ call[i] = "sent"
    /\ call' = [call EXCEPT ![i] = "idle"]
    /\ UNCHANGED <<up, epoch, tools, bot, handler, via, got, botVars, netVars>>

-----------------------------------------------------------------------------
OnLink(ms, up_) == {m \in ms : m.stream \in up_}

Cut(broken) ==
    /\ link' = link \ broken
    /\ calls' = OnLink(calls, link \ broken)
    /\ results' = OnLink(results, link \ broken)

(* A connection breaks: both ends will notice, in their own time. *)
LinkBreaks ==
    /\ faults < MaxFaults /\ link # {}
    /\ \E st \in link : Cut({st})
    /\ faults' = faults + 1
    /\ UNCHANGED <<llmVars, botVars>>

BotRestarts ==
    /\ faults < MaxFaults
    /\ Cut(link)
    /\ loop' = "registering" /\ todo' = Tools /\ current' = NoStream /\ running' = {}
    /\ faults' = faults + 1
    /\ UNCHANGED llmVars

LlmStops ==
    /\ up /\ epoch < MaxRestarts
    /\ up' = FALSE
    /\ tools' = {} /\ bot' = NoStream
    /\ handler' = [st \in Streams |-> "none"]
    /\ call' = [i \in Ids |-> "idle"]
    /\ via' = [i \in Ids |-> NoStream]
    /\ got' = [i \in Ids |-> -1]
    /\ Cut(link)
    /\ UNCHANGED <<epoch, botVars, faults>>

LlmStarts ==
    /\ ~up
    /\ up' = TRUE
    /\ epoch' = epoch + 1
    /\ UNCHANGED <<tools, bot, handler, call, via, got, botVars, netVars>>

Bot ==
    \/ \E t \in Tools : RegisterTool(t)
    \/ ConnectFails
    \/ \E st \in Streams : OpenStream(st)
    \/ \E m \in calls : ReceiveCall(m)
    \/ \E m \in running : ToolDone(m)
    \/ StreamEnds
    \/ Retry

Llm ==
    \/ \E st \in Streams : Serve(st) \/ Unset(st) \/ Close(st)
    \/ \E m \in results : Deliver(m)
    \/ \E i \in Ids : StartCall(i) \/ SendCall(i) \/ CallReturns(i) \/ CallTimesOut(i)

Faults == LinkBreaks \/ BotRestarts \/ LlmStops \/ LlmStarts

Next == Bot \/ Llm \/ Faults

Spec == Init /\ [][Next]_vars

(* The bot's loop and the llm's handlers and executors run, a stream's     *)
(* messages arrive, tools finish, and the llm is started again by whoever  *)
(* stopped it.  No request has to run into its timeout.                    *)
Fairness ==
    /\ WF_vars(LlmStarts)
    /\ \A t \in Tools : WF_vars(RegisterTool(t))
    /\ WF_vars(ConnectFails) /\ WF_vars(StreamEnds) /\ WF_vars(Retry)
    /\ WF_vars(\E st \in Streams : OpenStream(st))
    /\ \A st \in Streams : WF_vars(Serve(st)) /\ WF_vars(Unset(st) \/ Close(st))
    /\ \A i \in Ids :
          /\ WF_vars(\E m \in calls : m.id = i /\ ReceiveCall(m))
          /\ WF_vars(\E m \in running : m.id = i /\ ToolDone(m))
          /\ WF_vars(\E m \in results : m.id = i /\ Deliver(m))
          /\ WF_vars(SendCall(i)) /\ WF_vars(CallReturns(i))

FairSpec == Spec /\ Fairness

-----------------------------------------------------------------------------
(* Every variable keeps its shape; a message under way is on a live link. *)
TypeOK ==
    /\ up \in BOOLEAN /\ epoch \in 0 .. MaxRestarts /\ tools \subseteq Tools
    /\ bot \in Streams \cup {NoStream} /\ current \in Streams \cup {NoStream}
    /\ handler \in [Streams -> {"none", "dialed", "serving", "unset", "closed"}]
    /\ call \in [Ids -> {"idle", "ready", "sent"}]
    /\ via \in [Ids -> Streams \cup {NoStream}]
    /\ got \in [Ids -> -1 .. MaxRestarts]
    /\ loop \in {"registering", "receiving", "waiting"} /\ todo \subseteq Tools
    /\ running \subseteq Message /\ link \subseteq Streams
    /\ calls \subseteq OnLink(Message, link) /\ results \subseteq OnLink(Message, link)
    /\ faults \in 0 .. MaxFaults

(* tools.go:72: the newest stream gets new calls.  However the handlers of *)
(* an old and a new stream overlap, the bot's own stream, once its handler *)
(* runs on a live link, is the one s.bot names, and s.bot never names a    *)
(* stream whose handler has let go of it.                                  *)
NewestStreamGetsCalls ==
    /\ bot # NoStream => handler[bot] = "serving"
    /\ loop = "receiving" /\ current \in link /\ handler[current] = "serving" => bot = current

(* A call never takes the result of another: ids begin again when the llm  *)
(* restarts, while tools of its earlier life may still be running.         *)
ResultsMatch ==
    \A i \in Ids : call[i] = "sent" /\ got[i] # -1 => got[i] = epoch

(* tools.go:162-170: a call ends without its request's timeout: its result *)
(* comes, or the stream it was made on ends and done wakes it, whenever    *)
(* between registering the call and sending it that happens.               *)
CallsEnd == \A i \in Ids : call[i] # "idle" ~> call[i] = "idle"

(* Once nothing breaks any more, the bot is connected for good and new     *)
(* calls go to the stream it reads.                                        *)
BotComesBack == <>[](loop = "receiving" /\ bot = current)

(* network/tools.go:49: "the llm forgets tools when it restarts so they    *)
(* are registered on every connect": it ends up knowing them all.          *)
ToolsComeBack == <>[](tools = Tools)
=============================================================================
