--------------------------------- MODULE Reply ---------------------------------
(***************************************************************************)
(* One reply of the LLM: the parser (LlmStream) and the agent's drain loop  *)
(* (thinkingLoop, internal/agent/agent.go), each in its goroutine, and the  *)
(* buffered channel between them.  The agent releases the call's context as *)
(* soon as it has the channel, so most of the reading is done under a       *)
(* context that is done.                                                    *)
(***************************************************************************)
EXTENDS LlmStream

CONSTANT ChanCap  \* the capacity of the channel (32 in the code)

ASSUME ChannelAssumption == ChanCap \in Nat \ {0}

VARIABLES
  taken,   \* how many of the chunks sent were received
  reader   \* the agent: "calling" (it has not released the context), "draining",
           \* "interrupted" (it went on, a goroutine drains), "error" or "ended"

replyVars == <<vars, taken, reader>>

Received == sent[taken + 1]

ReplyInit == Init /\ taken = 0 /\ reader = "calling"

-----------------------------------------------------------------------------
(* The parser blocks on a full channel.                                     *)

ParserStep ==
  \/ \E line \in Lines : CloudLine(line) \/ OllamaLine(line)
  \/ DoneMarker \/ CancelSeen \/ BodyEnds \/ ReadFails

Parse == ParserStep /\ UNCHANGED <<taken, reader>>

SendChunk ==
  /\ Len(sent) - taken < ChanCap
  /\ Send
  /\ UNCHANGED <<taken, reader>>

CloseChannel == Close /\ UNCHANGED <<taken, reader>>

\* Agent.Interrupt calls currentCancel, or the agent's context is done.
CancelCall == Cancel /\ UNCHANGED <<taken, reader>>

-----------------------------------------------------------------------------
(* The agent.                                                               *)

\* cancel(), once ChatCompletion has returned the channel.
Release ==
  /\ reader = "calling" /\ reader' = "draining"
  /\ Cancel \/ (cancelled /\ UNCHANGED vars)
  /\ UNCHANGED taken

\* Mutant: an error in a chunk is passed over.
ReceiveAll ==
  /\ reader = "draining" /\ taken < Len(sent)
  /\ taken' = taken + 1
  /\ UNCHANGED <<vars, reader>>

\* The next chunk; the loop ends at an error.
Receive ==
  /\ reader = "draining" /\ taken < Len(sent)
  /\ taken' = taken + 1
  /\ reader' = IF Received.kind \in {"failed", "canceled"} THEN "error" ELSE reader
  /\ UNCHANGED vars

\* An interrupt is found when a chunk was received, and comes before the chunk's error.
FindInterrupt ==
  /\ reader = "draining" /\ taken < Len(sent)
  /\ taken' = taken + 1 /\ reader' = "interrupted"
  /\ UNCHANGED vars

\* Mutant: an interrupted reply is not drained.
DrainNothing == FALSE /\ UNCHANGED replyVars

\* The goroutine that an interrupted loop leaves behind.
DrainRest ==
  /\ reader = "interrupted" /\ taken < Len(sent)
  /\ taken' = taken + 1
  /\ UNCHANGED <<vars, reader>>

\* The channel is closed and empty: what was received is the answer.
LoopEnds ==
  /\ reader = "draining" /\ taken = Len(sent) /\ ~open
  /\ reader' = "ended"
  /\ UNCHANGED <<vars, taken>>

-----------------------------------------------------------------------------
ReplyNext ==
  \/ Parse \/ SendChunk \/ CloseChannel \/ CancelCall
  \/ Release \/ Receive \/ FindInterrupt \/ DrainRest \/ LoopEnds

ReplySpec == ReplyInit /\ [][ReplyNext]_replyVars

\* A read of the body returns once the call's context is done: with a line, the end
\* of the body or an error.
CutOff == cancelled /\ (CancelSeen \/ BodyEnds \/ ReadFails) /\ UNCHANGED <<taken, reader>>

\* The Go runtime schedules both goroutines and the one that drains.
FairReplySpec ==
  /\ ReplySpec
  /\ WF_replyVars(CutOff) /\ WF_replyVars(SendChunk) /\ WF_replyVars(CloseChannel)
  /\ WF_replyVars(Release)
  /\ WF_replyVars(Receive \/ FindInterrupt \/ LoopEnds) /\ WF_replyVars(DrainRest)

-----------------------------------------------------------------------------
\* The loop may leave the channel for good at an error: the parser is over then, with
\* nothing more to send that nobody would receive (client.go:13 asks callers to drain).
NobodyNeeded == reader = "error" => due = <<>> /\ ended # "no"

\* A reply that was cut short is never taken for the answer: when the loop ends by
\* itself, it has received all there was, and the body ended by itself, even though
\* the context was done all along.
NoPartialAnswer ==
  reader = "ended" => taken = Len(sent) /\ due = <<>> /\ ended \in {"marker", "body"}

\* No goroutine is left behind on the channel: the parser ends whatever the body holds
\* and wherever the agent was interrupted (agent.go:285, "to avoid goroutine leak").
ParserEnds == <>~open
=============================================================================
