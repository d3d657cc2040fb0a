---------------------------------- MODULE Chat ----------------------------------
(***************************************************************************)
(* The way between one agent and one Flutter app: the frames the backend    *)
(* broadcasts (internal/agent/agent.go), the hub and its per-client send    *)
(* channel (internal/server/server.go, handlers.go), the WebSocket client   *)
(* and its reconnections (websocket_client.dart), and what the app makes of *)
(* the frames (main.dart, providers.dart, chat_screen.dart).                *)
(*                                                                         *)
(* The agent is the one of AgentRuntime, reduced to what it broadcasts and  *)
(* saves.  The pieces of text it streams are numbered.                      *)
(***************************************************************************)
EXTENDS Naturals, Sequences, SequencesExt

CONSTANTS
  Texts,      \* what the user types, each once
  NoText,     \* no text; the content of a stop
  SendCap,    \* capacity of Client.send (256 in the code)
  QueueCap,   \* capacity of incomingMessages (10 in the code)
  PageSize,   \* the limit the app asks a history with (50 in the code)
  MaxPieces,  \* bound: pieces streamed
  MaxBreaks,  \* bound: lost connections and restarts of the backend
  MaxAsks     \* bound: other requests of the user (select, stop, retry, dismiss)

ASSUME ChatAssumption ==
  /\ NoText \notin Texts
  /\ SendCap \in Nat \ {0} /\ QueueCap \in Nat \ {0} /\ PageSize \in Nat \ {0}
  /\ MaxPieces \in Nat /\ MaxBreaks \in Nat /\ MaxAsks \in Nat

VARIABLES
  state,      \* Agent.state: "idle", "thinking" or "error"
  busy,       \* the agent is in its thinking loop
  inbox,      \* incomingMessages
  slot,       \* interruptChan: a set of at most one text
  said,       \* pieces broadcast so far
  from,       \* pieces broadcast before the current stream
  saved,      \* the answer is saved and its final frame is not broadcast yet
  log,        \* the messages table
  linked,     \* the client is in Server.clients
  down,       \* the frames in Client.send and on the wire
  up,         \* the app's frames on their way to readPump
  pending,    \* the response readPump has read and not sent: at most one
  online,     \* isConnected
  asked,      \* the get_agents of the start was attempted
  known,      \* the app has the agent in its list, and it is the active one
  status,     \* the status the app shows
  bubbles,    \* MessagesNotifier's messages of the agent
  typed,      \* texts the user has typed
  breaks,     \* times the connection was lost
  lost,       \* history: a frame was dropped at a full send channel
  asks        \* other requests of the user so far

agentVars == <<state, busy, inbox, slot, said, from, saved, log>>
linkVars == <<linked, up, pending, online, breaks>>
appVars == <<asked, known, status, bubbles, typed, asks>>
vars == <<state, busy, inbox, slot, said, from, saved, log, linked, down, up, pending,
          online, asked, known, status, bubbles, typed, breaks, lost, asks>>

Bubble(who, text, pieces, streaming) ==
  [who |-> who, text |-> text, pieces |-> pieces, streaming |-> streaming]
User(t) == Bubble("user", t, <<>>, FALSE)
Tool == Bubble("tool", NoText, <<>>, FALSE)
Answer(pieces) == Bubble("assistant", NoText, pieces, FALSE)

Frame(kind, value, piece, items) ==
  [kind |-> kind, value |-> value, piece |-> piece, items |-> items]
Status(s) == Frame("status", s, 0, <<>>)
Piece(n) == Frame("piece", "", n, <<>>)
FinalPiece == Frame("final", "", 0, <<>>)
List(s) == Frame("list", s, 0, <<>>)
History(items) == Frame("history", "", 0, items)
Request(kind, t) == [kind |-> kind, text |-> t]

Init ==
  /\ state = "idle" /\ busy = FALSE /\ inbox = <<>> /\ slot = {}
  /\ said = 0 /\ from = 0 /\ saved = FALSE /\ log = <<>>
  /\ linked = FALSE /\ down = <<>> /\ up = <<>> /\ pending = {}
  /\ online = FALSE /\ asked = FALSE /\ known = FALSE
  /\ status = "idle" /\ bubbles = <<>> /\ typed = {}
  /\ breaks = 0 /\ lost = FALSE /\ asks = 0

-----------------------------------------------------------------------------
(* Broadcast and SendToClient: a full send channel drops the frame.         *)

Room == SendCap - Len(down)

\* Mutant: a full channel takes the frame all the same.
BroadcastAll(frames) ==
  /\ down' = IF linked THEN down \o frames ELSE down
  /\ lost' = lost

\* The frames are offered one after the other.
Broadcast(frames) ==
  /\ down' = IF linked THEN down \o SubSeq(frames, 1, IF Len(frames) <= Room THEN Len(frames)
                                                      ELSE Room)
                       ELSE down
  /\ lost' = (lost \/ (linked /\ Len(frames) > Room))

-----------------------------------------------------------------------------
(* The agent.                                                               *)

Begin ==
  /\ ~busy /\ inbox # <<>>
  /\ inbox' = Tail(inbox) /\ busy' = TRUE
  /\ log' = Append(log, User(Head(inbox)))
  /\ from' = said /\ state' = "thinking"
  /\ Broadcast(<<Status("working")>>)
  /\ UNCHANGED <<slot, said, saved, linkVars, appVars>>

Streaming == busy /\ ~saved

Say ==
  /\ Streaming /\ said < MaxPieces
  /\ said' = said + 1
  /\ Broadcast(<<Piece(said + 1)>>)
  /\ UNCHANGED <<state, busy, inbox, slot, from, saved, log, linkVars, appVars>>

\* The text that came with the tool calls is never saved; the result is.
ToolRound ==
  /\ Streaming /\ said > from
  /\ from' = said
  /\ log' = Append(log, Tool)
  /\ Broadcast(<<Status("working"), Status("working"), Status("working")>>)
  /\ UNCHANGED <<state, busy, inbox, slot, said, saved, linkVars, appVars>>

SaveAnswer ==
  /\ Streaming /\ said > from
  /\ log' = Append(log, Answer([k \in 1..(said - from) |-> from + k]))
  /\ saved' = TRUE
  /\ UNCHANGED <<state, busy, inbox, slot, said, from, down, lost, linkVars, appVars>>

FinishReply ==
  /\ busy /\ (saved \/ said = from)
  /\ saved' = FALSE /\ busy' = FALSE /\ state' = "idle"
  /\ Broadcast(<<FinalPiece, Status("idle")>>)
  /\ UNCHANGED <<inbox, slot, said, from, log, linkVars, appVars>>

\* Mutant: a failure is not broadcast.
FailQuietly ==
  /\ Streaming
  /\ busy' = FALSE /\ state' = "error"
  /\ UNCHANGED <<inbox, slot, said, from, saved, log, down, lost, linkVars, appVars>>

\* The partial text is neither saved nor closed by a final frame.
Fail ==
  /\ Streaming
  /\ busy' = FALSE /\ state' = "error"
  /\ Broadcast(<<Status("error")>>)
  /\ UNCHANGED <<inbox, slot, said, from, saved, log, linkVars, appVars>>

\* handleInterrupt, with a new request or, after a stop, without.
TakeInterrupt ==
  /\ Streaming /\ slot # {}
  /\ slot' = {} /\ from' = said
  /\ \E t \in slot :
       IF t = NoText
       THEN /\ busy' = FALSE /\ state' = "idle" /\ UNCHANGED log
            /\ Broadcast(<<Status("working"), Status("idle")>>)
       ELSE /\ log' = Append(log, User(t)) /\ state' = "thinking" /\ UNCHANGED busy
            /\ Broadcast(<<Status("working"), Status("working")>>)
  /\ UNCHANGED <<inbox, said, saved, linkVars, appVars>>

-----------------------------------------------------------------------------
(* readPump: one frame of the app after the other.                          *)

\* The frame at the head of the connection, if it is of that kind.
Reads(kind) ==
  /\ linked /\ pending = {} /\ up # <<>> /\ Head(up).kind = kind
  /\ up' = Tail(up)

\* get_agents: the snapshot holds the raw state, which the app reads as idle
\* unless it is "error" (or "working", which no state is called).
HandleGetAgents ==
  /\ Reads("agents")
  /\ pending' = {List(IF state = "error" THEN "error" ELSE "idle")}
  /\ UNCHANGED <<agentVars, linked, down, online, breaks, lost, appVars>>

\* GetMessages without a cursor (HistoryPages): the newest entries, in their order.
NewestPage ==
  SubSeq(log, IF Len(log) > PageSize THEN Len(log) - PageSize + 1 ELSE 1, Len(log))

HandleGetHistory ==
  /\ Reads("history")
  /\ pending' = {History(NewestPage)}
  /\ UNCHANGED <<agentVars, linked, down, online, breaks, lost, appVars>>

SendResponse ==
  /\ pending # {}
  /\ \E frame \in pending : Broadcast(<<frame>>)
  /\ pending' = {}
  /\ UNCHANGED <<agentVars, linked, up, online, breaks, appVars>>

HandleUserMessage ==
  /\ Reads("message")
  /\ inbox' = IF Len(inbox) < QueueCap THEN Append(inbox, Head(up).text) ELSE inbox
  /\ UNCHANGED <<state, busy, slot, said, from, saved, log, linked, down, pending, online,
                 breaks, lost, appVars>>

\* interrupt and stop_agent: the latest interrupt replaces a queued one.
HandleInterrupt ==
  /\ Reads("interrupt")
  /\ slot' = {Head(up).text}
  /\ UNCHANGED <<state, busy, inbox, said, from, saved, log, linked, down, pending, online,
                 breaks, lost, appVars>>

\* RetryAgent resets the state; then the list is read and sent as for get_agents.
HandleRetryAgent ==
  /\ linked /\ pending = {} /\ up # <<>> /\ Head(up).kind = "retry"
  /\ IF state = "error"
     THEN /\ state' = "idle" /\ Broadcast(<<Status("idle")>>)
          /\ up' = <<Request("agents", NoText)>> \o Tail(up)
     ELSE up' = Tail(up) /\ UNCHANGED <<state, down, lost>>
  /\ UNCHANGED <<busy, inbox, slot, said, from, saved, log, linked, pending, online, breaks,
                 appVars>>

-----------------------------------------------------------------------------
(* The connection.                                                          *)

\* The app counts as connected before the server has registered the client.  More
\* than the code may do: it listens to the channel's stream twice
\* (websocket_client.dart:63 and :68), and if the second listen is refused, as a
\* single-subscription stream does, the catch only plans the next attempt.  Both
\* are runs of this action: taken, or not taken yet.
Connect ==
  /\ ~online /\ online' = TRUE
  /\ UNCHANGED <<agentVars, linked, down, up, pending, breaks, lost, appVars>>

Register ==
  /\ online /\ ~linked /\ linked' = TRUE
  /\ UNCHANGED <<agentVars, down, up, pending, online, breaks, lost, appVars>>

\* Whatever was on its way is gone.
Unlink ==
  /\ online /\ breaks < MaxBreaks /\ breaks' = breaks + 1
  /\ online' = FALSE /\ linked' = FALSE
  /\ down' = <<>> /\ up' = <<>> /\ pending' = {}
  /\ UNCHANGED <<lost, appVars>>

Disconnect == Unlink /\ UNCHANGED agentVars

\* The backend dies with the connection; a new one loads the agent as idle.
BackendRestart ==
  /\ Unlink
  /\ state' = "idle" /\ busy' = FALSE /\ inbox' = <<>> /\ slot' = {} /\ saved' = FALSE
  /\ UNCHANGED <<said, from, log>>

-----------------------------------------------------------------------------
(* The app.  A frame sent while not connected is lost without a word.       *)

Emit(frames) == up' = IF online THEN up \o frames ELSE up

\* 500 ms after the start, once.
RequestInitialState ==
  /\ ~asked /\ asked' = TRUE
  /\ Emit(<<Request("agents", NoText)>>)
  /\ UNCHANGED <<agentVars, linked, down, pending, online, breaks, lost, known, status,
                 bubbles, typed, asks>>

Receives(kind) == down # <<>> /\ Head(down).kind = kind /\ down' = Tail(down)

\* The first list selects the agent and asks for its history.
OnAgentList ==
  /\ Receives("list")
  /\ status' = Head(down).value /\ known' = TRUE
  /\ Emit(IF known THEN <<>> ELSE <<Request("history", NoText)>>)
  /\ UNCHANGED <<agentVars, linked, pending, online, breaks, lost, asked, bubbles, typed, asks>>

OnAgentStatus ==
  /\ Receives("status")
  /\ status' = IF known THEN Head(down).value ELSE status
  /\ UNCHANGED <<agentVars, linkVars, lost, asked, known, bubbles, typed, asks>>

StreamingBubbles == {k \in DOMAIN bubbles : bubbles[k].streaming}

\* appendToLastStreaming, which opens a bubble if none is streaming.
OnAgentMessage ==
  /\ Receives("piece")
  /\ bubbles' = IF StreamingBubbles = {}
                THEN Append(bubbles, Bubble("assistant", NoText, <<Head(down).piece>>, TRUE))
                ELSE [bubbles EXCEPT ![Max(StreamingBubbles)].pieces =
                        Append(@, Head(down).piece)]
  /\ UNCHANGED <<agentVars, linkVars, lost, asked, known, status, typed, asks>>

OnFinal ==
  /\ Receives("final")
  /\ bubbles' = IF StreamingBubbles = {} THEN bubbles
                ELSE [bubbles EXCEPT ![Max(StreamingBubbles)].streaming = FALSE]
  /\ UNCHANGED <<agentVars, linkVars, lost, asked, known, status, typed, asks>>

\* Mutant: the history is put before what is there.
MergeHistory ==
  /\ Receives("history")
  /\ bubbles' = Head(down).items \o bubbles
  /\ UNCHANGED <<agentVars, linkVars, lost, asked, known, status, typed, asks>>

\* setMessages: the history takes the place of all that is there.
OnHistory ==
  /\ Receives("history")
  /\ bubbles' = Head(down).items
  /\ UNCHANGED <<agentVars, linkVars, lost, asked, known, status, typed, asks>>

\* The bubble is shown at once; a working agent is interrupted.
SendMessage(t) ==
  /\ known /\ t \in Texts \ typed
  /\ typed' = typed \cup {t}
  /\ bubbles' = Append(bubbles, User(t))
  /\ Emit(<<Request(IF status = "working" THEN "interrupt" ELSE "message", t)>>)
  /\ UNCHANGED <<agentVars, linked, down, pending, online, breaks, lost, asked, known,
                 status, asks>>

\* The dropdown's onSelect, and the dashboard's stop and retry buttons.
Ask ==
  /\ known /\ asks < MaxAsks /\ asks' = asks + 1
  /\ \/ Emit(<<Request("history", NoText)>>)
     \/ status = "working" /\ Emit(<<Request("interrupt", NoText)>>)
     \/ status = "error" /\ Emit(<<Request("retry", NoText)>>)
  /\ UNCHANGED <<agentVars, linked, down, pending, online, breaks, lost, asked, known,
                 status, bubbles, typed>>

Dismiss ==
  /\ known /\ status = "error" /\ status' = "idle"
  /\ asks < MaxAsks /\ asks' = asks + 1
  /\ UNCHANGED <<agentVars, linkVars, down, lost, asked, known, bubbles, typed>>

-----------------------------------------------------------------------------
Agent == Begin \/ Say \/ ToolRound \/ SaveAnswer \/ FinishReply \/ Fail \/ TakeInterrupt

ReadPump ==
  \/ HandleGetAgents \/ HandleGetHistory \/ SendResponse
  \/ HandleUserMessage \/ HandleInterrupt \/ HandleRetryAgent

Link == Connect \/ Register \/ Disconnect \/ BackendRestart

App ==
  \/ RequestInitialState
  \/ OnAgentList \/ OnAgentStatus \/ OnAgentMessage \/ OnFinal \/ OnHistory
  \/ \E t \in Texts : SendMessage(t)
  \/ Ask \/ Dismiss

Next == Agent \/ ReadPump \/ Link \/ App

Spec == Init /\ [][Next]_vars

-----------------------------------------------------------------------------
Bubbles == [who : {"user", "assistant", "tool"}, text : Texts \cup {NoText},
            pieces : Seq(1..MaxPieces), streaming : BOOLEAN]

TypeOK ==
  /\ state \in {"idle", "thinking", "error"}
  /\ busy \in BOOLEAN /\ saved \in BOOLEAN
  /\ inbox \in Seq(Texts) /\ Len(inbox) <= QueueCap
  /\ slot \subseteq Texts \cup {NoText}
  /\ said \in 0..MaxPieces /\ from \in 0..said
  /\ log \in Seq(Bubbles) /\ bubbles \in Seq(Bubbles)
  /\ linked \in BOOLEAN /\ online \in BOOLEAN /\ lost \in BOOLEAN
  /\ Len(down) <= SendCap
  /\ \A k \in DOMAIN down : down[k].kind \in {"status", "piece", "final", "list", "history"}
  /\ \A k \in DOMAIN up : up[k] \in [kind : {"agents", "history", "message", "interrupt", "retry"},
                                     text : Texts \cup {NoText}]
  /\ asked \in BOOLEAN /\ known \in BOOLEAN
  /\ status \in {"idle", "working", "error"}
  /\ typed \subseteq Texts
  /\ breaks \in 0..MaxBreaks /\ asks \in 0..MaxAsks

\* Every piece of text comes after all those above it.
Rising(pieces) == \A i, j \in DOMAIN pieces : i < j => pieces[i] < pieces[j]
InOrder(items) ==
  /\ \A k \in DOMAIN items : Rising(items[k].pieces)
  /\ \A k, l \in DOMAIN items : k < l =>
       \A i \in DOMAIN items[k].pieces, j \in DOMAIN items[l].pieces :
         items[k].pieces[i] < items[l].pieces[j]

\* The screen shows what the agent said in the order it was said, and no piece of
\* it twice, although the same text arrives streamed and again in a history, frames
\* are dropped and connections lost, and bubbles are left open by an interrupt.
SaidInOrder == InOrder(bubbles)

\* What the user typed is never shown twice, as typed and as saved.
TypedOnce ==
  \A k, l \in DOMAIN bubbles :
    bubbles[k].who = "user" /\ bubbles[k] = bubbles[l] => k = l

Quiet == ~busy /\ online /\ linked /\ down = <<>> /\ up = <<>> /\ pending = {}

\* On a connection that was never lost and dropped nothing, an agent that waits is
\* not shown as working once its frames have arrived, whatever lists, retries and
\* stops they crossed.
QuietNotWorking == Quiet /\ breaks = 0 /\ ~lost => status # "working"
=============================================================================
