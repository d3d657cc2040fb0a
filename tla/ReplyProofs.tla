------------------------------ MODULE ReplyProofs ------------------------------
(***************************************************************************)
(* Proofs about Reply, for every capacity of the channel: the parser in a   *)
(* reply is the parser of LlmStream, whose theorems carry over, and the     *)
(* agent may leave the channel at an error and trust it at its end.         *)
(***************************************************************************)
EXTENDS Reply, LlmStreamProofs

\* Every step of a reply is a step of the parser or none.
LEMMA ReplyStepIsParsers == [ReplyNext]_replyVars => [Next]_vars
BY DEF ReplyNext, replyVars, Parse, ParserStep, SendChunk, CloseChannel, CancelCall, Release, Receive,
   FindInterrupt, DrainRest, LoopEnds, Next

\* A reply implements the parser alone (cloud.go:170-280, ollama.go:165-231), however
\* slowly the agent receives and wherever it stops.
THEOREM ReplyIsStream == ReplySpec => Spec
<1>1. ReplyInit => Init
  BY DEF ReplyInit
<1>. QED
  BY <1>1, ReplyStepIsParsers, PTL DEF ReplySpec, Spec

\* In a reply too, the variables of both parsers keep their types, and the stream is
\* text and tool calls, then one verdict.
THEOREM ReplyKeepsProtocol == ReplySpec => []TypeOK /\ KeepsProtocol
BY ReplyIsStream, StreamTypes, ParsersKeepProtocol, PTL

\* In a reply too, calls are handed over whole, once and without loss, wherever the agent
\* stops receiving and whatever the channel holds (agent.go:263-316).
THEOREM ReplyHandsOverCalls == ReplySpec => [](WholeCalls /\ CallOnce /\ NothingLostAtBodyEnd)
BY ReplyIsStream, CallsAreWhole, CallsRunOnce, NothingIsLost, PTL

-----------------------------------------------------------------------------
(* The agent and the verdict.                                               *)

\* The verdict says how the reading ended.
Fits(kind, how) ==
  /\ kind = "done" => how \in {"marker", "body"}
  /\ kind = "failed" => how = "failed"
  /\ kind = "canceled" => how = "canceled"

DueFits == \A k \in 1..Len(due) : due[k].kind \notin Bodies => Fits(due[k].kind, ended)

SentFits == \A k \in 1..Len(sent) : sent[k].kind \notin Bodies => Fits(sent[k].kind, ended)

ReaderInv ==
  /\ taken \in 0..Len(sent)
  /\ reader \in {"calling", "draining"} =>
       \A k \in 1..taken : sent[k].kind \notin {"failed", "canceled"}
  /\ reader = "error" => due = <<>> /\ ended # "no"
  /\ reader = "ended" => taken = Len(sent) /\ ~open /\ ended \in {"marker", "body"}

ReplyInv == StreamInv /\ DueFits /\ SentFits /\ ReaderInv

LEMMA ReplyInvInit == ReplyInit => ReplyInv
<1>. SUFFICES ASSUME ReplyInit PROVE ReplyInv
  OBVIOUS
<1>1. StreamInv
  BY StreamInit DEF ReplyInit
<1>2. Len(due) = 0 /\ Len(sent) = 0 /\ open /\ taken = 0 /\ reader = "calling"
  BY DEF ReplyInit, Init
<1>. QED
  BY <1>1, <1>2 DEF ReplyInv, DueFits, SentFits, ReaderInv

\* While the parser still reads, only text and tool calls were sent.
LEMMA ScanningKeeps ==
  ASSUME ReplyInv, Scanning, DueFits', StreamInv', UNCHANGED <<sent, open, taken, reader>>
  PROVE ReplyInv'
<1>1. ended = "no" /\ open /\ \A k \in 1..Len(sent) : sent[k].kind \in Bodies
  BY DEF ReplyInv, StreamInv, DueInv, Plain, Scanning
<1>2. SentFits'
  BY <1>1 DEF SentFits
<1>3. ReaderInv'
  BY <1>1 DEF ReplyInv, ReaderInv
<1>. QED
  BY <1>2, <1>3 DEF ReplyInv

LEMMA PlainFits ==
  ASSUME NEW s, Plain(s), due' = s
  PROVE DueFits'
BY DEF Plain, DueFits

\* Text and tool calls, then a verdict that fits.
LEMMA PlainThenVerdictFits ==
  ASSUME NEW s, Plain(s), NEW kind \in Verdicts, NEW n \in Nat,
         due' = s \o <<Verdict(kind, n)>>, Fits(kind, ended')
  PROVE DueFits'
<1>. s \in Seq(Chunks)
  BY DEF Plain
<1>1. <<Verdict(kind, n)>> \in Seq(Chunks)
  BY VerdictType DEF Verdicts, Kinds
<1>2. Len(due') = Len(s) + 1 /\ \A k \in 1..Len(s) : due'[k] = s[k]
  BY <1>1
<1>3. due'[Len(s) + 1].kind = kind
  BY <1>1, VerdictType DEF Verdicts, Kinds
<1>4. ASSUME NEW k \in 1..Len(due'), due'[k].kind \notin Bodies
      PROVE Fits(due'[k].kind, ended')
  <2>1. k = Len(s) + 1
    BY <1>2, <1>4 DEF Plain
  <2>2. due'[k].kind = kind
    BY <1>3, <2>1
  <2>. QED
    BY <2>2 DEF Fits
<1>. QED
  BY <1>4 DEF DueFits

LEMMA ParseKeeps == ReplyInv /\ Parse => ReplyInv'
<1>. SUFFICES ASSUME ReplyInv, Parse PROVE ReplyInv'
  OBVIOUS
<1>. StreamInv /\ TypeOK
  BY DEF ReplyInv, StreamInv
<1>0. StreamInv' /\ UNCHANGED <<taken, reader>>
  BY StreamStep DEF Parse, ParserStep, Next
<1>1. Len(given) \in Nat /\ accum \in [Indexes -> Seq(Nat)]
  <2>1. Len(given) \in Nat /\ 1..Len(given) \subseteq Nat
    BY DEF TypeOK
  <2>2. ASSUME NEW i \in Indexes PROVE accum[i] \in Seq(Nat)
    BY <2>1 DEF TypeOK
  <2>. QED
    BY <2>1, <2>2 DEF TypeOK
<1>2. ASSUME NEW line \in Lines, CloudLine(line) PROVE ReplyInv'
  <2>1. /\ Scanning /\ given' = Append(given, line) /\ Accumulate(line, Len(given'))
        /\ UNCHANGED <<sent, open>>
    BY <1>2 DEF CloudLine, Reads
  <2>2. accum' \in [Indexes -> Seq(Nat)] /\ Len(given') \in Nat
    BY <2>1, AccumulateType
  <2>3. PICK tools \in (IF line.last THEN Flush(accum', Len(given')) ELSE {<<>>}) :
          due' = Opening(line, Len(given')) \o tools
    BY <1>2 DEF CloudLine
  <2>4. Plain(due')
    BY <2>2, <2>3, FlushPlain, EmptyPlain, OpeningPlain, PlainConcat
  <2>. QED
    BY <1>0, <2>1, <2>4, PlainFits, ScanningKeeps
<1>3. ASSUME NEW line \in Lines, OllamaLine(line) PROVE ReplyInv'
  <2>. DEFINE n == Len(given')
              whole == [i \in Indexes |-> IF i \in line.calls THEN <<n>> ELSE <<>>]
  <2>1. /\ Scanning /\ given' = Append(given, line) /\ UNCHANGED <<sent, open>>
        /\ ended' = IF line.last THEN "marker" ELSE ended
    BY <1>3 DEF OllamaLine, Reads
  <2>2. n \in Nat
    BY <1>1, <2>1 DEF TypeOK
  <2>3. whole \in [Indexes -> Seq(Nat)]
    BY <2>2
  <2>4. PICK tools \in Flush(whole, n) :
          due' = Opening(line, n) \o tools \o (IF line.last THEN <<Verdict("done", n)>> ELSE <<>>)
    BY <1>3 DEF OllamaLine
  <2>5. Plain(Opening(line, n) \o tools)
    BY <2>2, <2>3, <2>4, FlushPlain, OpeningPlain, PlainConcat
  <2>6. DueFits'
    <3>1. CASE line.last
      <4>1. Fits("done", ended')
        BY <2>1, <3>1 DEF Fits
      <4>. QED
        BY <2>2, <2>4, <2>5, <3>1, <4>1, PlainThenVerdictFits DEF Verdicts
    <3>2. CASE ~line.last
      BY <2>4, <2>5, <3>2, EmptyPlain, PlainConcat, PlainFits
    <3>. QED
      BY <3>1, <3>2
  <2>. QED
    BY <1>0, <2>1, <2>6, ScanningKeeps
<1>4. ASSUME NEW kind \in Verdicts, due' = <<Verdict(kind, Len(given))>>, Fits(kind, ended'),
             Scanning, UNCHANGED <<sent, open>>
      PROVE ReplyInv'
  <2>1. <<>> \o due' = due'
    BY <1>4, <1>1, VerdictType DEF Verdicts, Kinds
  <2>2. DueFits'
    BY <1>1, <1>4, <2>1, EmptyPlain, PlainThenVerdictFits
  <2>. QED
    BY <1>0, <1>4, <2>2, ScanningKeeps
<1>5. CASE DoneMarker
  BY <1>4, <1>5 DEF DoneMarker, Fits, Verdicts
<1>6. CASE CancelSeen
  BY <1>4, <1>6 DEF CancelSeen, Fits, Verdicts
<1>7. CASE ReadFails
  BY <1>4, <1>7 DEF ReadFails, Fits, Verdicts
<1>8. CASE BodyEnds
  <2>1. PICK tools \in (IF provider = "cloud" THEN Flush(accum, Len(given)) ELSE {<<>>}) :
          due' = tools \o <<Verdict("done", Len(given))>>
    BY <1>8 DEF BodyEnds
  <2>2. Plain(tools)
    BY <1>1, <2>1, FlushPlain, EmptyPlain
  <2>3. Fits("done", ended')
    BY <1>8 DEF BodyEnds, Fits
  <2>4. DueFits'
    BY <1>1, <2>1, <2>2, <2>3, PlainThenVerdictFits DEF Verdicts
  <2>. QED
    BY <1>0, <1>8, <2>4, ScanningKeeps DEF BodyEnds
<1>. QED
  BY <1>2, <1>3, <1>5, <1>6, <1>7, <1>8 DEF Parse, ParserStep

LEMMA SendKeeps == ReplyInv /\ SendChunk => ReplyInv'
<1>. SUFFICES ASSUME ReplyInv, SendChunk PROVE ReplyInv'
  OBVIOUS
<1>0. StreamInv'
  BY StreamStep DEF ReplyInv, SendChunk, Next
<1>1. due \in Seq(Chunks) /\ due # <<>> /\ open /\ sent \in Seq(Chunks)
  BY DEF SendChunk, Send, ReplyInv, StreamInv, DueInv, TypeOK
<1>2. /\ Head(due) \in Chunks /\ Head(due) = due[1]
      /\ due' = Tail(due) /\ Len(due') = Len(due) - 1
      /\ \A k \in 1..Len(due') : due'[k] = due[k + 1]
  BY <1>1 DEF SendChunk, Send
<1>3. /\ sent' = Append(sent, due[1]) /\ Len(sent') = Len(sent) + 1
      /\ \A k \in 1..Len(sent) : sent'[k] = sent[k]
      /\ sent'[Len(sent')] = due[1]
  BY <1>1, <1>2 DEF SendChunk, Send
<1>4. UNCHANGED <<open, ended, taken, reader>>
  BY DEF SendChunk, Send
<1>5. ended' = ended
  BY <1>4
<1>6. DueFits'
  BY <1>1, <1>2, <1>5 DEF DueFits, ReplyInv
<1>7. SentFits'
  <2>1. 1 \in 1..Len(due) /\ Len(sent) \in Nat
    BY <1>1
  <2>2. due[1].kind \notin Bodies => Fits(due[1].kind, ended')
    BY <2>1, <1>5 DEF ReplyInv, DueFits
  <2>. QED
    BY <1>3, <1>5, <2>1, <2>2 DEF ReplyInv, SentFits
<1>8. ReaderInv'
  <2>1. Len(sent) \in Nat
    BY <1>1
  <2>. QED
    BY <1>1, <1>3, <1>4, <2>1 DEF ReplyInv, ReaderInv
<1>. QED
  BY <1>0, <1>6, <1>7, <1>8 DEF ReplyInv

LEMMA CloseKeeps == ReplyInv /\ CloseChannel => ReplyInv'
<1>. SUFFICES ASSUME ReplyInv, CloseChannel PROVE ReplyInv'
  OBVIOUS
<1>1. StreamInv'
  BY StreamStep DEF ReplyInv, CloseChannel, Next
<1>2. open /\ UNCHANGED <<due, sent, ended, taken, reader>>
  BY DEF CloseChannel, Close
<1>. QED
  BY <1>1, <1>2 DEF ReplyInv, DueFits, SentFits, Fits, ReaderInv

LEMMA AgentKeeps ==
  ReplyInv /\ (CancelCall \/ Release \/ Receive \/ FindInterrupt \/ DrainRest \/ LoopEnds)
    => ReplyInv'
<1>. SUFFICES ASSUME ReplyInv,
                     CancelCall \/ Release \/ Receive \/ FindInterrupt \/ DrainRest \/ LoopEnds
              PROVE ReplyInv'
  OBVIOUS
<1>1. StreamInv'
  BY StreamStep, ReplyStepIsParsers DEF ReplyInv, ReplyNext
<1>2. UNCHANGED <<due, sent, open, ended>>
  BY DEF CancelCall, Cancel, Release, Receive, FindInterrupt, DrainRest, LoopEnds, vars
<1>3. DueFits' /\ SentFits'
  BY <1>2 DEF ReplyInv, DueFits, SentFits, Fits
<1>4. Len(sent) \in Nat /\ taken \in 0..Len(sent)
  BY DEF ReplyInv, StreamInv, TypeOK, ReaderInv
<1>5. CASE CancelCall \/ Release
  <2>1. /\ taken' = taken
        /\ reader' = reader \/ (reader = "calling" /\ reader' = "draining")
    BY <1>5 DEF CancelCall, Release
  <2>2. ReaderInv'
    BY <1>2, <1>4, <2>1 DEF ReplyInv, ReaderInv
  <2>. QED
    BY <1>1, <1>3, <2>2 DEF ReplyInv
<1>6. CASE Receive
  <2>1. reader = "draining" /\ taken < Len(sent) /\ taken' = taken + 1
    BY <1>6 DEF Receive
  <2>2. CASE Received.kind \in {"failed", "canceled"}
    <3>1. due = <<>> /\ ended # "no"
      <4>1. taken + 1 \in 1..Len(sent) /\ sent[taken + 1].kind \notin Bodies
        BY <1>4, <2>1, <2>2 DEF Received, Bodies
      <4>. QED
        BY <4>1 DEF ReplyInv, StreamInv, DueInv, Plain
    <3>2. reader' = "error"
      BY <1>6, <2>2 DEF Receive
    <3>3. ReaderInv'
      BY <1>2, <1>4, <2>1, <3>1, <3>2 DEF ReaderInv
    <3>. QED
      BY <1>1, <1>3, <3>3 DEF ReplyInv
  <2>3. CASE Received.kind \notin {"failed", "canceled"}
    <3>1. reader' = "draining"
      BY <1>6, <2>1, <2>3 DEF Receive
    <3>2. ReaderInv'
      BY <1>2, <1>4, <2>1, <2>3, <3>1 DEF ReplyInv, ReaderInv, Received
    <3>. QED
      BY <1>1, <1>3, <3>2 DEF ReplyInv
  <2>. QED
    BY <2>2, <2>3
<1>7. CASE FindInterrupt \/ DrainRest
  <2>1. ReaderInv'
    BY <1>2, <1>4, <1>7 DEF FindInterrupt, DrainRest, ReaderInv
  <2>. QED
    BY <1>1, <1>3, <2>1 DEF ReplyInv
<1>8. CASE LoopEnds
  <2>1. reader = "draining" /\ taken = Len(sent) /\ ~open /\ reader' = "ended" /\ taken' = taken
    BY <1>8 DEF LoopEnds
  <2>2. Len(sent) \in 1..Len(sent) /\ sent[Len(sent)].kind \notin Bodies
    BY <1>4, <2>1 DEF ReplyInv, StreamInv, DueInv, Judged
  <2>3. sent[Len(sent)].kind \notin {"failed", "canceled"}
    BY <2>1, <2>2 DEF ReplyInv, ReaderInv
  <2>4. sent[Len(sent)].kind \in Kinds
    <3>1. sent \in Seq(Chunks)
      BY DEF ReplyInv, StreamInv, TypeOK
    <3>2. sent[Len(sent)] \in Chunks
      BY <2>2, <3>1
    <3>. QED
      BY <3>2 DEF Chunks
  <2>5. Fits("done", ended)
    BY <2>2, <2>3, <2>4 DEF ReplyInv, SentFits, Kinds, Bodies
  <2>6. ReaderInv'
    BY <1>2, <1>4, <2>1, <2>5 DEF ReaderInv, Fits
  <2>. QED
    BY <1>1, <1>3, <2>6 DEF ReplyInv
<1>. QED
  BY <1>1, <1>3, <1>5, <1>6, <1>7, <1>8 DEF ReplyInv

LEMMA ReplySafe == ReplySpec => []ReplyInv
<1>1. ReplyInv /\ UNCHANGED replyVars => ReplyInv'
  <2>. SUFFICES ASSUME ReplyInv, UNCHANGED replyVars PROVE ReplyInv'
    OBVIOUS
  <2>1. StreamInv'
    BY StreamStep DEF ReplyInv, replyVars
  <2>. QED
    BY <2>1 DEF ReplyInv, DueFits, SentFits, ReaderInv, Fits, replyVars, vars
<1>2. ReplyInv /\ [ReplyNext]_replyVars => ReplyInv'
  BY <1>1, ParseKeeps, SendKeeps, CloseKeeps, AgentKeeps DEF ReplyNext
<1>. QED
  BY <1>2, ReplyInvInit, PTL DEF ReplySpec

\* The loop leaves the channel at an error without leaving the parser behind: it has
\* stopped reading and sent its last chunk, whatever the capacity (agent.go:296-301, client.go:13-15).
THEOREM NobodyIsNeeded == ReplySpec => []NobodyNeeded
<1>1. ReplyInv => NobodyNeeded
  BY DEF ReplyInv, ReaderInv, NobodyNeeded
<1>. QED
  BY <1>1, ReplySafe, PTL

\* What the agent takes for the answer is the whole of a body that ended by itself,
\* although the call's context is done from the start (agent.go:269, 333-352).
THEOREM AnswersAreWhole == ReplySpec => []NoPartialAnswer
<1>1. ReplyInv => NoPartialAnswer
  BY DEF ReplyInv, ReaderInv, StreamInv, DueInv, NoPartialAnswer
<1>. QED
  BY <1>1, ReplySafe, PTL
=============================================================================
