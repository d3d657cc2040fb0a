----------------------------- MODULE AgentRuntime -----------------------------
(***************************************************************************)
(* One agent of the Go backend (internal/agent/agent.go) and the goroutines *)
(* that touch it: the agent's own event loop, the reader of the current LLM *)
(* stream, and one goroutine per WebSocket client (readPump), which reaches *)
(* the agent through internal/agent/manager.go.                             *)
(*                                                                         *)
(* The initial state is the one in which Manager.CreateAgent returns: Start *)
(* has published "idle" and the agent is in the manager's map.              *)
(*                                                                         *)
(* A request is a text a user sends, as a message or as the content of an   *)
(* interrupt.  NoText is the empty content of a stop_agent frame, and also  *)
(* stands for "no request".                                                 *)
(***************************************************************************)
EXTENDS Naturals, Sequences

CONSTANTS
  Clients,       \* the client goroutines
  Texts,         \* the texts the users send, each at most once
  NoText,        \* empty interrupt content; no current request
  QueueCap,      \* capacity of incomingMessages (10 in the code)
  StreamCap,     \* the chunk channel (32 in the code) and the producer's hand
  MaxTools,      \* bound: tool calls in one reply
  ContextBound,  \* bound: the model asks for tools only below this length
  StopBound,     \* bound: stop_agent frames sent
  DbMayFail      \* whether a statement may fail (the errors are ignored)

ASSUME RuntimeAssumption ==
  /\ NoText \notin Texts
  /\ QueueCap \in Nat \ {0} /\ StreamCap \in Nat \ {0}
  /\ MaxTools \in Nat /\ ContextBound \in Nat /\ StopBound \in Nat
  /\ DbMayFail \in BOOLEAN

VARIABLES
  state,      \* Agent.state
  pub,        \* what is left of the agent goroutine's last setState
  status,     \* agents.status in the database
  shown,      \* status in the last agent_status frame broadcast
  pc,         \* where the agent goroutine is
  task,       \* the request it works on, NoText if none
  reply,      \* fullContent # "" and the tool calls not yet executed
  context,    \* Agent.context, the conversation sent to the LLM
  log,        \* the agent's rows of the messages table
  inbox,      \* incomingMessages
  slot,       \* interruptChan (capacity 1)
  cancelled,  \* the context of currentCancel is cancelled (or there is none)
  stopped,    \* Agent.ctx is cancelled
  stream,     \* the chunk channel of the current reply
  open,       \* the stream's producer has not closed the channel
  listed,     \* the agent is in the manager's map
  cpc,        \* where each client goroutine is
  arg,        \* the text it carries
  stops,      \* stop_agent frames sent so far
  outcome     \* history: what has become of each request

pubVars == <<state, pub, status, shown>>
loopVars == <<pc, task, reply>>
talkVars == <<context, log>>
streamVars == <<stream, open>>
clientVars == <<cpc, arg, stops>>
vars == <<state, pub, status, shown, pc, task, reply, context, log, inbox, slot,
          cancelled, stopped, stream, open, listed, cpc, arg, stops, outcome>>

States == {"idle", "thinking", "executing", "interrupted", "error", "deleted"}
Statuses == {"idle", "working", "error"}
Final == {"answered", "failed", "canceled", "interrupted", "abandoned", "dropped"}
Outcomes == {"unsent", "sending", "queued", "signal", "current"} \cup Final
Chunks == {"content", "tool", "done", "failed", "canceled"}

Entries == [role : {"system", "user", "assistant", "tool"},
            text : Texts \cup {NoText}, calls : Nat]
Replies == [text : BOOLEAN, calls : Nat]
Signals == [full : BOOLEAN, text : Texts \cup {NoText}, busy : BOOLEAN]
Publications == [step : {"done", "db", "wire"}, value : States]

Entry(role, text, calls) == [role |-> role, text |-> text, calls |-> calls]
User(t) == Entry("user", t, 0)
Notice == Entry("system", NoText, 0)
ToolResult == Entry("tool", NoText, 0)
Answer == Entry("assistant", NoText, 0)
ToolRequest(n) == Entry("assistant", NoText, n)

Settled == pub.step = "done"
Published == [step |-> "done", value |-> "idle"]
NoReply == [text |-> FALSE, calls |-> 0]
Empty == [full |-> FALSE, text |-> NoText, busy |-> FALSE]
Signal(t) == [full |-> TRUE, text |-> t, busy |-> pc # "select" \/ inbox # <<>>]

\* Mutant: the call's context is not derived from the agent's.
DeadAlone == cancelled

\* The context of the current call is done.
Dead == cancelled \/ stopped

Init ==
  /\ state = "idle" /\ pub = Published /\ status = "idle" /\ shown = "idle"
  /\ pc = "select" /\ task = NoText /\ reply = NoReply
  /\ context = <<Notice>> /\ log = <<>>
  /\ inbox = <<>> /\ slot = Empty
  /\ cancelled = TRUE /\ stopped = FALSE
  /\ stream = <<>> /\ open = FALSE
  /\ listed = TRUE
  /\ cpc = [c \in Clients |-> "idle"] /\ arg = [c \in Clients |-> NoText]
  /\ stops = 0
  /\ outcome = [t \in Texts |-> "unsent"]

-----------------------------------------------------------------------------
(* setState: the field under its lock, then the database, then the frame.   *)

Normalised(s) ==
  CASE s \in {"thinking", "executing"} -> "working"
    [] s = "error" -> "error"
    [] OTHER -> "idle"

\* UpdateAgentStatus, whose error setState ignores.
WriteStatus(s) == \/ status' = s
                  \/ DbMayFail /\ status' = status

ShownFor(s) == IF s = "interrupted" THEN "working" ELSE Normalised(s)

\* Mutant: becoming idle is not published.
QuietIdle(s) ==
  /\ state' = s
  /\ pub' = IF s = "idle" THEN Published ELSE [step |-> "db", value |-> s]

SetState(s) ==
  /\ state' = s
  /\ pub' = [step |-> "db", value |-> s]

PublishDb ==
  /\ pub.step = "db"
  /\ WriteStatus(Normalised(pub.value))
  /\ pub' = [pub EXCEPT !.step = "wire"]
  /\ UNCHANGED <<state, shown, loopVars, talkVars, inbox, slot, cancelled, stopped,
                 streamVars, listed, clientVars, outcome>>

PublishWire ==
  /\ pub.step = "wire"
  /\ shown' = ShownFor(pub.value)
  /\ pub' = Published
  /\ UNCHANGED <<state, status, loopVars, talkVars, inbox, slot, cancelled, stopped,
                 streamVars, listed, clientVars, outcome>>

\* SaveMessage, whose error every caller ignores.
Save(e) == \/ log' = Append(log, e)
           \/ DbMayFail /\ log' = log

\* Mutant: the text is saved and the LLM is not told.
SaveOnly(t) == Save(User(t)) /\ UNCHANGED context

\* A user's text enters the history and the conversation.
Hear(t) == Save(User(t)) /\ context' = Append(context, User(t))

\* The current request leaves the loop with result o.
Conclude(o) == outcome' = [t \in Texts |-> IF t = task THEN o ELSE outcome[t]]

-----------------------------------------------------------------------------
(* run: one select over Done and incomingMessages.                          *)

\* A user message is taken, saved, appended and published as "thinking".
ProcessMessage ==
  /\ pc = "select" /\ Settled /\ inbox # <<>>
  /\ inbox' = Tail(inbox)
  /\ task' = Head(inbox)
  /\ outcome' = [outcome EXCEPT ![Head(inbox)] = "current"]
  /\ Hear(Head(inbox))
  /\ SetState("thinking")
  /\ pc' = "top"
  /\ UNCHANGED <<status, shown, reply, slot, cancelled, stopped, streamVars, listed,
                 clientVars>>

RunExits ==
  /\ pc = "select" /\ Settled /\ stopped
  /\ SetState("deleted")
  /\ pc' = "ended"
  /\ UNCHANGED <<status, shown, task, reply, talkVars, inbox, slot, cancelled, stopped,
                 streamVars, listed, clientVars, outcome>>

-----------------------------------------------------------------------------
(* handleInterrupt, from the top of the loop or from the drain loop.        *)

TakeInterrupt ==
  /\ slot.full
  /\ slot' = Empty
  /\ task' = slot.text
  /\ outcome' = [t \in Texts |-> IF t = task THEN "interrupted"
                                 ELSE IF t = slot.text THEN "current" ELSE outcome[t]]
  /\ reply' = NoReply /\ stream' = <<>> /\ open' = FALSE
  /\ SetState("interrupted")
  /\ pc' = "interrupted"
  /\ UNCHANGED <<status, shown, talkVars, inbox, cancelled, stopped, listed, clientVars>>

\* The notice, the new request if there is one, the acknowledgement.
ResumeAfterInterrupt ==
  /\ pc = "interrupted" /\ Settled
  /\ IF task # NoText
     THEN /\ Save(User(task))
          /\ context' = context \o <<Notice, User(task)>>
          /\ SetState("thinking")
          /\ pc' = "top"
     ELSE /\ context' = Append(context, Notice)
          /\ SetState("idle")
          /\ pc' = "select"
          /\ UNCHANGED log
  /\ UNCHANGED <<status, shown, task, reply, inbox, slot, cancelled, stopped, streamVars,
                 listed, clientVars, outcome>>

-----------------------------------------------------------------------------
(* thinkingLoop: the select at its top and the LLM call.                    *)

\* Mutant: the interrupt is looked at before each tool as well.
InterruptBeforeTools == pc \in {"top", "tools"} /\ Settled /\ TakeInterrupt

InterruptAtTop == pc = "top" /\ Settled /\ TakeInterrupt

StoppedAtTop ==
  /\ pc = "top" /\ Settled /\ stopped
  /\ Conclude("abandoned")
  /\ task' = NoText
  /\ pc' = "select"
  /\ UNCHANGED <<pubVars, reply, talkVars, inbox, slot, cancelled, stopped, streamVars,
                 listed, clientVars>>

\* The select's default: neither an interrupt nor a stop is there yet.
PassTop ==
  /\ pc = "top" /\ Settled /\ ~slot.full /\ ~stopped
  /\ pc' = "ready"
  /\ UNCHANGED <<pubVars, task, reply, talkVars, inbox, slot, cancelled, stopped, streamVars,
                 listed, clientVars, outcome>>

\* The per-call context is created and stored as currentCancel.  The cancel of an
\* interrupt that came after the select has ended the call before, and is lost.
StartCall ==
  /\ pc = "ready"
  /\ cancelled' = FALSE
  /\ pc' = "call"
  /\ UNCHANGED <<pubVars, task, reply, talkVars, inbox, slot, stopped, streamVars, listed,
                 clientVars, outcome>>

\* ChatCompletion returns an error: its context is done, or the provider failed.
CallFails ==
  /\ pc = "call" /\ Settled
  /\ Conclude(IF Dead THEN "canceled" ELSE "failed")
  /\ task' = NoText
  /\ cancelled' = TRUE
  /\ SetState("error")
  /\ pc' = "select"
  /\ UNCHANGED <<status, shown, reply, talkVars, inbox, slot, stopped, streamVars, listed,
                 clientVars>>

CallOpens ==
  /\ pc = "call" /\ Settled /\ ~Dead
  /\ stream' = <<>> /\ open' = TRUE /\ reply' = NoReply
  /\ pc' = "opened"
  /\ UNCHANGED <<pubVars, task, talkVars, inbox, slot, cancelled, stopped, listed,
                 clientVars, outcome>>

\* cancel(), called as soon as ChatCompletion has returned the channel.
ReleaseCall ==
  /\ pc = "opened"
  /\ cancelled' = TRUE
  /\ pc' = "stream"
  /\ UNCHANGED <<pubVars, task, reply, talkVars, inbox, slot, stopped, streamVars, listed,
                 clientVars, outcome>>

-----------------------------------------------------------------------------
(* The producer of the stream checks its context before every line, but not *)
(* when the body ends.  A chunk it has in hand counts as in the channel: it *)
(* was let through by a check made before.                                  *)

ToolChunks == Len(SelectSeq(stream, LAMBDA k : k = "tool"))

\* The chunk k is sent, and more may follow or the channel is closed: a step of its own
\* (see LlmStream), which nobody looks at before the chunk is received.
Produces(k, more) == stream' = Append(stream, k) /\ open' = more

Produce ==
  /\ open /\ Len(stream) < StreamCap
  /\ \/ Dead /\ Produces("canceled", FALSE)
     \/ ~Dead /\ Produces("content", TRUE)
     \/ ~Dead /\ Len(context) < ContextBound /\ reply.calls + ToolChunks < MaxTools
        /\ Produces("tool", TRUE)
     \/ \E k \in {"done", "failed"} : Produces(k, FALSE)
  /\ UNCHANGED <<pubVars, loopVars, talkVars, inbox, slot, cancelled, stopped, listed,
                 clientVars, outcome>>

-----------------------------------------------------------------------------
(* The drain loop: the interrupt is looked at before the chunk received.    *)

InterruptInStream == pc = "stream" /\ stream # <<>> /\ TakeInterrupt

ReadChunk ==
  /\ pc = "stream" /\ stream # <<>> /\ ~slot.full
  /\ Head(stream) \in {"content", "tool", "done"}
  /\ reply' = CASE Head(stream) = "content" -> [reply EXCEPT !.text = TRUE]
                [] Head(stream) = "tool" -> [reply EXCEPT !.calls = @ + 1]
                [] OTHER -> reply
  /\ stream' = Tail(stream)
  /\ UNCHANGED <<pubVars, pc, task, talkVars, inbox, slot, cancelled, stopped, open, listed,
                 clientVars, outcome>>

ReadError ==
  /\ pc = "stream" /\ stream # <<>> /\ ~slot.full
  /\ Head(stream) \in {"failed", "canceled"}
  /\ Conclude(Head(stream))
  /\ task' = NoText /\ reply' = NoReply
  /\ stream' = <<>>
  /\ SetState("error")
  /\ pc' = "select"
  /\ UNCHANGED <<status, shown, talkVars, inbox, slot, cancelled, stopped, open, listed,
                 clientVars>>

StreamEnded == pc = "stream" /\ stream = <<>> /\ ~open

EndWithTools ==
  /\ StreamEnded /\ reply.calls > 0
  /\ context' = Append(context, ToolRequest(reply.calls))
  /\ SetState("executing")
  /\ pc' = "tools"
  /\ UNCHANGED <<status, shown, task, reply, log, inbox, slot, cancelled, stopped,
                 streamVars, listed, clientVars, outcome>>

EndWithAnswer ==
  /\ StreamEnded /\ reply.calls = 0
  /\ IF reply.text THEN Save(Answer) /\ context' = Append(context, Answer)
                   ELSE UNCHANGED talkVars
  /\ Conclude("answered")
  /\ task' = NoText /\ reply' = NoReply
  /\ SetState("idle")
  /\ pc' = "select"
  /\ UNCHANGED <<status, shown, inbox, slot, cancelled, stopped, streamVars, listed,
                 clientVars>>

-----------------------------------------------------------------------------
(* executeTool, once for each tool call; nothing looks at the interrupt.    *)

\* The arguments do not parse: the message goes to the LLM and is not saved.
BadArguments ==
  /\ pc = "tools" /\ Settled /\ reply.calls > 0
  /\ shown' = "working"
  /\ context' = Append(context, ToolResult)
  /\ reply' = [reply EXCEPT !.calls = @ - 1]
  /\ UNCHANGED <<state, pub, status, pc, task, log, inbox, slot, cancelled, stopped,
                 streamVars, listed, clientVars, outcome>>

StartTool ==
  /\ pc = "tools" /\ Settled /\ reply.calls > 0
  /\ shown' = "working"
  /\ cancelled' = FALSE
  /\ pc' = "running"
  /\ UNCHANGED <<state, pub, status, task, reply, talkVars, inbox, slot, stopped,
                 streamVars, listed, clientVars, outcome>>

\* The tool is done, failed or was cancelled: its output is saved and kept.
FinishTool ==
  /\ pc = "running"
  /\ Save(ToolResult)
  /\ context' = Append(context, ToolResult)
  /\ reply' = [reply EXCEPT !.calls = @ - 1]
  /\ cancelled' = TRUE
  /\ pc' = "tools"
  /\ UNCHANGED <<pubVars, task, inbox, slot, stopped, streamVars, listed, clientVars,
                 outcome>>

ToolsDone ==
  /\ pc = "tools" /\ Settled /\ reply.calls = 0
  /\ reply' = NoReply
  /\ SetState("thinking")
  /\ pc' = "top"
  /\ UNCHANGED <<status, shown, task, talkVars, inbox, slot, cancelled, stopped,
                 streamVars, listed, clientVars, outcome>>

-----------------------------------------------------------------------------
(* The client goroutines.  Looking the agent up and using it are two steps. *)

Goto(c, where) == cpc' = [cpc EXCEPT ![c] = where]
Return(c) == Goto(c, "idle") /\ arg' = [arg EXCEPT ![c] = NoText]
Mark(t, o) == outcome' = [u \in Texts |-> IF u = t THEN o ELSE outcome[u]]

RouteMessage(c, t) ==
  /\ cpc[c] = "idle" /\ listed /\ outcome[t] = "unsent"
  /\ Goto(c, "send") /\ arg' = [arg EXCEPT ![c] = t]
  /\ Mark(t, "sending")
  /\ UNCHANGED <<pubVars, loopVars, talkVars, inbox, slot, cancelled, stopped, streamVars,
                 listed, stops>>

\* Mutant: one message too many is let in.
HasRoomForOneMore == Len(inbox) <= QueueCap

HasRoom == Len(inbox) < QueueCap

\* Mutant: a full queue drops its oldest message instead.
SendDroppingOldest(c) ==
  /\ cpc[c] = "send"
  /\ inbox' = Append(IF HasRoom THEN inbox ELSE Tail(inbox), arg[c])
  /\ Mark(arg[c], "queued")
  /\ Return(c)
  /\ UNCHANGED <<pubVars, loopVars, talkVars, slot, cancelled, stopped, streamVars, listed,
                 stops>>

\* A full queue drops the message; only the server's log says so.
SendMessage(c) ==
  /\ cpc[c] = "send"
  /\ IF HasRoom
     THEN inbox' = Append(inbox, arg[c]) /\ Mark(arg[c], "queued")
     ELSE UNCHANGED inbox /\ Mark(arg[c], "dropped")
  /\ Return(c)
  /\ UNCHANGED <<pubVars, loopVars, talkVars, slot, cancelled, stopped, streamVars, listed,
                 stops>>

InterruptAgent(c, t) ==
  /\ cpc[c] = "idle" /\ listed
  /\ \/ t \in Texts /\ outcome[t] = "unsent" /\ stops' = stops
     \/ t = NoText /\ stops < StopBound /\ stops' = stops + 1
  /\ Goto(c, "try") /\ arg' = [arg EXCEPT ![c] = t]
  /\ Mark(t, "sending")
  /\ UNCHANGED <<pubVars, loopVars, talkVars, inbox, slot, cancelled, stopped, streamVars,
                 listed>>

\* The non-blocking send; a full channel leads to the drain.
TrySend(c) ==
  /\ cpc[c] = "try"
  /\ IF slot.full THEN Goto(c, "drain") /\ UNCHANGED <<slot, outcome>>
     ELSE Goto(c, "cancel") /\ slot' = Signal(arg[c]) /\ Mark(arg[c], "signal")
  /\ UNCHANGED <<pubVars, loopVars, talkVars, inbox, cancelled, stopped, streamVars, listed,
                 arg, stops>>

DrainSlot(c) ==
  /\ cpc[c] = "drain"
  /\ slot' = Empty
  /\ Mark(slot.text, "dropped")
  /\ Goto(c, "put")
  /\ UNCHANGED <<pubVars, loopVars, talkVars, inbox, cancelled, stopped, streamVars, listed,
                 arg, stops>>

\* The second send blocks while another client's interrupt is in the channel.
BlockingSend(c) ==
  /\ cpc[c] = "put" /\ ~slot.full
  /\ slot' = Signal(arg[c]) /\ Mark(arg[c], "signal")
  /\ Goto(c, "cancel")
  /\ UNCHANGED <<pubVars, loopVars, talkVars, inbox, cancelled, stopped, streamVars, listed,
                 arg, stops>>

CancelCurrent(c) ==
  /\ cpc[c] = "cancel"
  /\ cancelled' = TRUE
  /\ Return(c)
  /\ UNCHANGED <<pubVars, loopVars, talkVars, inbox, slot, stopped, streamVars, listed,
                 stops, outcome>>

RetryAgent(c) ==
  /\ cpc[c] = "idle" /\ listed
  /\ Goto(c, "check")
  /\ UNCHANGED <<pubVars, loopVars, talkVars, inbox, slot, cancelled, stopped, streamVars,
                 listed, arg, stops, outcome>>

CheckError(c) ==
  /\ cpc[c] = "check"
  /\ Goto(c, IF state = "error" THEN "reset" ELSE "idle")
  /\ UNCHANGED <<pubVars, loopVars, talkVars, inbox, slot, cancelled, stopped, streamVars,
                 listed, arg, stops, outcome>>

\* ResetState is setState("idle") on the client's goroutine: three steps.
ResetState(c) ==
  /\ \/ cpc[c] = "reset" /\ state' = "idle" /\ Goto(c, "resetDb") /\ UNCHANGED <<status, shown>>
     \/ cpc[c] = "resetDb" /\ WriteStatus("idle") /\ Goto(c, "resetWire") /\ UNCHANGED <<state, shown>>
     \/ cpc[c] = "resetWire" /\ shown' = "idle" /\ Goto(c, "idle") /\ UNCHANGED <<state, status>>
  /\ UNCHANGED <<pub, loopVars, talkVars, inbox, slot, cancelled, stopped, streamVars,
                 listed, arg, stops, outcome>>

\* Under the manager's lock: Stop, then the map entry goes.
DeleteAgent(c) ==
  /\ cpc[c] = "idle" /\ listed
  /\ listed' = FALSE /\ stopped' = TRUE
  /\ UNCHANGED <<pubVars, loopVars, talkVars, inbox, slot, cancelled, streamVars, clientVars,
                 outcome>>

-----------------------------------------------------------------------------
Publish == PublishDb \/ PublishWire

ThinkingLoop ==
  \/ InterruptAtTop \/ StoppedAtTop \/ PassTop \/ StartCall \/ ReleaseCall
  \/ InterruptInStream \/ ReadChunk \/ ReadError \/ EndWithTools \/ EndWithAnswer
  \/ BadArguments \/ StartTool \/ ToolsDone

Agent == Publish \/ ProcessMessage \/ RunExits \/ ResumeAfterInterrupt \/ ThinkingLoop

\* What the agent goroutine waits for: the provider and the tools.
Provider == CallFails \/ CallOpens \/ Produce
Environment == Provider \/ FinishTool

\* What a client goroutine does once it has been given a frame to handle.
Client(c) ==
  \/ SendMessage(c) \/ TrySend(c) \/ DrainSlot(c) \/ BlockingSend(c) \/ CancelCurrent(c)
  \/ CheckError(c) \/ ResetState(c)

Frame(c) ==
  \/ \E t \in Texts : RouteMessage(c, t)
  \/ \E t \in Texts \cup {NoText} : InterruptAgent(c, t)
  \/ RetryAgent(c) \/ DeleteAgent(c)

Next == Agent \/ Environment \/ \E c \in Clients : Client(c) \/ Frame(c)

Spec == Init /\ [][Next]_vars

\* The goroutines are scheduled, and a call whose context is done returns.  A
\* provider may never answer: its client has no timeout.  A tool may never return:
\* a timeout or a cancellation kills the shell and not what the shell has started.
FairSpec ==
  /\ Spec
  /\ WF_vars(Agent)
  /\ WF_vars(Dead /\ CallFails) /\ WF_vars(Dead /\ Produce)
  /\ \A c \in Clients : WF_vars(Client(c))

-----------------------------------------------------------------------------
(* Invariants.                                                              *)

\* Every variable has its type; both channels stay within their capacity.
TypeOK ==
  /\ state \in States
  /\ pub \in Publications
  /\ status \in Statuses /\ shown \in Statuses
  /\ pc \in {"select", "top", "ready", "call", "opened", "stream", "tools", "running",
             "interrupted", "ended"}
  /\ task \in Texts \cup {NoText}
  /\ reply \in Replies
  /\ context \in Seq(Entries) /\ log \in Seq(Entries)
  /\ inbox \in Seq(Texts) /\ Len(inbox) <= QueueCap
  /\ slot \in Signals
  /\ cancelled \in BOOLEAN /\ stopped \in BOOLEAN /\ listed \in BOOLEAN
  /\ stream \in Seq(Chunks) /\ open \in BOOLEAN
  /\ cpc \in [Clients -> {"idle", "send", "try", "drain", "put", "cancel", "check",
                          "reset", "resetDb", "resetWire"}]
  /\ arg \in [Clients -> Texts \cup {NoText}]
  /\ stops \in 0..StopBound
  /\ outcome \in [Texts -> Outcomes]

Waiting == Settled /\ (pc = "ended" \/ (pc = "select" /\ ~stopped))

\* Whatever ended the last task (an answer, a failure, a stop, a deletion) and
\* whoever else resets the state meanwhile, an agent that waits for a message is
\* shown as working neither by its field, nor to the clients, nor in the database
\* unless a statement failed.
WaitingShowsNotWorking ==
  Waiting => /\ state \in {"idle", "error", "deleted"}
             /\ shown # "working" /\ (DbMayFail \/ status # "working")

\* A conversation the LLM is sent answers every tool call before anything else
\* follows, as chat APIs require: each assistant entry that asks for n tools is
\* followed by its n results, and a result stands nowhere else, although an
\* interrupt, a stop or a bad argument may come at any time.
ToolPairing ==
  \A i \in DOMAIN context :
    /\ \A k \in 1..context[i].calls :
         \/ i + k \in DOMAIN context /\ context[i + k].role = "tool"
         \/ i + k > Len(context) /\ pc \in {"tools", "running"}
    /\ context[i].role = "tool" =>
         \E j \in 1..(i - 1) : i - j <= context[j].calls

\* The LLM is always asked about the current request: it is the last text of a
\* user in the conversation, and only tool rounds have followed it.
CallAsksCurrentTask ==
  pc \in {"ready", "call", "opened", "stream"} =>
    \E i \in DOMAIN context :
      /\ context[i] = User(task)
      /\ \A j \in (i + 1)..Len(context) : context[j].role \in {"assistant", "tool"}
      /\ context[Len(context)].role # "assistant"

\* part is whole with some entries left out: taking each entry of whole that comes
\* next in part uses up part.
KeptIn(part, whole) ==
  LET matched[n \in 0..Len(whole)] ==
        IF n = 0 THEN 0
        ELSE LET m == matched[n - 1]
             IN IF m < Len(part) /\ part[m + 1] = whole[n] THEN m + 1 ELSE m
  IN matched[Len(whole)] = Len(part)

\* The history the app shows is what the LLM was told, in the same order, with
\* some entries possibly missing: nothing is saved that the LLM does not see.
HistoryInContext == KeptIn(log, context)

-----------------------------------------------------------------------------
(* The abstract specification.                                              *)

Promised == INSTANCE RequestQueue WITH
  queue <- inbox, current <- task,
  outcome <- [t \in Texts |-> IF outcome[t] \in {"unsent", "sending", "signal"}
                              THEN "new" ELSE outcome[t]]

\* Requests are taken in the order they were queued, one at a time, each once,
\* and are settled once, through every race of messages, interrupts and stops.
KeepsPromise == Promised!RSpec

-----------------------------------------------------------------------------
(* Liveness.                                                                *)

ToolsReturn == WF_vars(FinishTool)
ProviderAnswers == WF_vars(CallFails \/ CallOpens)

\* A deleted agent's goroutine ends even if its provider never answers, provided
\* that its tools return: cancelling the agent cancels the call it is in.
StopEnds == ToolsReturn => (stopped ~> pc = "ended")

\* If the provider answers or fails in the end and the tools return, every queued
\* message is settled (or the agent is deleted): no error, interrupt or stop
\* strands the queue.
QueuedIsSettled ==
  ProviderAnswers /\ ToolsReturn =>
    \A t \in Texts : outcome[t] = "queued" ~> (outcome[t] \in Final \/ stopped)

-----------------------------------------------------------------------------
(* What the comments and the documents say and the code does not keep.      *)

\* "Agents must never ignore user input while working" (docs/ARCHITECTURE.md:354):
\* an interrupt put in the channel while the agent has work is taken or replaced,
\* or the agent is deleted.
InterruptServed ==
  ProviderAnswers /\ ToolsReturn =>
    ((slot.full /\ slot.busy) ~> (~slot.full \/ stopped))

\* cancel() is there to "release per-call cancel" (agent.go:269): a call is cut short
\* only because somebody asked for it, by a deletion, a stop or another text.
CanceledOnRequest ==
  \A t \in Texts : outcome[t] = "canceled" =>
    stopped \/ stops > 0 \/ \E u \in Texts \ {t} : outcome[u] # "unsent"

\* "Replace any queued interrupt with the latest one" (agent.go:121): a call of
\* Interrupt returns (or the agent is deleted), as a replacement waits for nobody.
\* But the send after the drain blocks (agent.go:129): between the two another client
\* may fill the channel, and an agent that waits for a message takes nothing out of it.
InterruptReturns ==
  ProviderAnswers /\ ToolsReturn =>
    \A c \in Clients : cpc[c] = "try" ~> (cpc[c] = "idle" \/ stopped)
=============================================================================
