------------------------------- MODULE LlmStream -------------------------------
(***************************************************************************)
(* The producers of the chunk channel: CloudClient.parseSSE, which puts a   *)
(* tool call together from fragments, and OllamaClient.parseNDJSON, which   *)
(* gets it whole (internal/llm/cloud.go, internal/llm/ollama.go).           *)
(*                                                                         *)
(* A line of the body says whether it carries text, the indexes of the tool *)
(* calls it carries a fragment of (the whole call, for Ollama) and whether  *)
(* it ends the reply (finish_reason, or Ollama's done).  The fragment of a  *)
(* line is named by the line's number.  A line that does not parse changes  *)
(* nothing, and is left out.                                                *)
(***************************************************************************)
EXTENDS Naturals, Sequences, FiniteSets, SequencesExt

CONSTANTS
  Indexes,    \* the indexes of the tool calls of a reply
  MaxLines    \* bound: lines in a body

ASSUME StreamAssumption == IsFiniteSet(Indexes) /\ MaxLines \in Nat

VARIABLES
  provider,   \* "cloud" or "ollama"
  given,      \* history: the lines read so far
  accum,      \* toolAccum: the fragments put together for each index
  due,        \* the chunks the last line calls for and not yet sent
  sent,       \* history: the chunks sent
  open,       \* the producer has not closed the channel
  cancelled,  \* its context is done
  ended       \* history: what ended the reading

vars == <<provider, given, accum, due, sent, open, cancelled, ended>>

Lines == [text : BOOLEAN, calls : SUBSET Indexes, last : BOOLEAN]
Calls == [index : Indexes, parts : Seq(Nat)]
Kinds == {"content", "tools", "done", "failed", "canceled"}
Chunks == [kind : Kinds, line : Nat, calls : Seq(Calls)]

Chunk(kind, n, calls) == [kind |-> kind, line |-> n, calls |-> calls]
Text(n) == Chunk("content", n, <<>>)
Verdict(kind, n) == Chunk(kind, n, <<>>)

\* The calls put together so far, in the order in which Go ranges over a map: any.
Collected(acc, n) ==
  {Chunk("tools", n, [k \in DOMAIN order |-> [index |-> order[k], parts |-> acc[order[k]]]]) :
     order \in SetToSeqs({i \in Indexes : acc[i] # <<>>})}

\* The same, as the chunks to send: none if there is no call.
Flush(acc, n) == IF \E i \in Indexes : acc[i] # <<>>
                 THEN {<<chunk>> : chunk \in Collected(acc, n)}
                 ELSE {<<>>}

Init ==
  /\ provider \in {"cloud", "ollama"}
  /\ given = <<>> /\ accum = [i \in Indexes |-> <<>>]
  /\ due = <<>> /\ sent = <<>>
  /\ open = TRUE /\ cancelled = FALSE /\ ended = "no"

Scanning == ended = "no" /\ due = <<>>
Reads(line) == Scanning /\ ~cancelled /\ Len(given) < MaxLines /\ given' = Append(given, line)
Opening(line, n) == IF line.text THEN <<Text(n)>> ELSE <<>>

-----------------------------------------------------------------------------
\* Mutant: a fragment replaces what was there.
AccumulateLast(line, n) ==
  accum' = [i \in Indexes |-> IF i \in line.calls THEN <<n>> ELSE accum[i]]

\* Mutant: the fragment is filed under the number of the next line.
AccumulateNext(line, n) ==
  accum' = [i \in Indexes |-> IF i \in line.calls THEN Append(accum[i], n + 1) ELSE accum[i]]

\* Each fragment is added to the call of its index.
Accumulate(line, n) ==
  accum' = [i \in Indexes |-> IF i \in line.calls THEN Append(accum[i], n) ELSE accum[i]]

\* Mutant: what was put together is sent with every line.
CloudEager(line) ==
  /\ provider = "cloud" /\ Reads(line)
  /\ Accumulate(line, Len(given'))
  /\ \E tools \in Flush(accum', Len(given')) : due' = Opening(line, Len(given')) \o tools
  /\ UNCHANGED <<provider, sent, open, cancelled, ended>>

\* The text goes first; a finish_reason sends what was put together, which is kept.
CloudLine(line) ==
  /\ provider = "cloud" /\ Reads(line)
  /\ Accumulate(line, Len(given'))
  /\ \E tools \in (IF line.last THEN Flush(accum', Len(given')) ELSE {<<>>}) :
       due' = Opening(line, Len(given')) \o tools
  /\ UNCHANGED <<provider, sent, open, cancelled, ended>>

\* Text, whole calls, and the verdict if the line says done.
OllamaLine(line) ==
  /\ provider = "ollama" /\ Reads(line)
  /\ LET n == Len(given')
         whole == [i \in Indexes |-> IF i \in line.calls THEN <<n>> ELSE <<>>]
     IN \E tools \in Flush(whole, n) :
          due' = Opening(line, n) \o tools \o (IF line.last THEN <<Verdict("done", n)>> ELSE <<>>)
  /\ ended' = IF line.last THEN "marker" ELSE ended
  /\ UNCHANGED <<provider, accum, sent, open, cancelled>>

\* The line "data: [DONE]".
DoneMarker ==
  /\ provider = "cloud" /\ Scanning /\ ~cancelled
  /\ due' = <<Verdict("done", Len(given))>>
  /\ ended' = "marker"
  /\ UNCHANGED <<provider, given, accum, sent, open, cancelled>>

\* A line arrives and the context is done.
CancelSeen ==
  /\ Scanning /\ cancelled
  /\ due' = <<Verdict("canceled", Len(given))>>
  /\ ended' = "canceled"
  /\ UNCHANGED <<provider, given, accum, sent, open, cancelled>>

\* Mutant: the end of the body sends what was put together and no verdict.
BodyEndsSilently ==
  /\ Scanning
  /\ due' \in IF provider = "cloud" THEN Flush(accum, Len(given)) ELSE {<<>>}
  /\ ended' = "body"
  /\ UNCHANGED <<provider, given, accum, sent, open, cancelled>>

\* Mutant: the end of the body forgets what was put together.
BodyEndsEmpty ==
  /\ Scanning
  /\ due' = <<Verdict("done", Len(given))>>
  /\ ended' = "body"
  /\ UNCHANGED <<provider, given, accum, sent, open, cancelled>>

\* The body ends without a marker; the context is not looked at.
BodyEnds ==
  /\ Scanning
  /\ \E tools \in (IF provider = "cloud" THEN Flush(accum, Len(given)) ELSE {<<>>}) :
       due' = tools \o <<Verdict("done", Len(given))>>
  /\ ended' = "body"
  /\ UNCHANGED <<provider, given, accum, sent, open, cancelled>>

\* Mutant: the sentinel follows the error.
ReadFailsThenDone ==
  /\ Scanning
  /\ due' = <<Verdict("failed", Len(given)), Verdict("done", Len(given))>>
  /\ ended' = "failed"
  /\ UNCHANGED <<provider, given, accum, sent, open, cancelled>>

\* Reading fails, a line is too long, or Ollama reports an error.
ReadFails ==
  /\ Scanning
  /\ due' = <<Verdict("failed", Len(given))>>
  /\ ended' = "failed"
  /\ UNCHANGED <<provider, given, accum, sent, open, cancelled>>

Send ==
  /\ due # <<>>
  /\ sent' = Append(sent, Head(due)) /\ due' = Tail(due)
  /\ UNCHANGED <<provider, given, accum, open, cancelled, ended>>

\* The deferred close(ch), once the parser has returned.
Close ==
  /\ open /\ ended # "no" /\ due = <<>>
  /\ open' = FALSE
  /\ UNCHANGED <<provider, given, accum, due, sent, cancelled, ended>>

\* The agent releases the call, is interrupted or is deleted.
Cancel ==
  /\ ~cancelled /\ cancelled' = TRUE
  /\ UNCHANGED <<provider, given, accum, due, sent, open, ended>>

Next ==
  \/ \E line \in Lines : CloudLine(line) \/ OllamaLine(line)
  \/ DoneMarker \/ CancelSeen \/ BodyEnds \/ ReadFails \/ Send \/ Close \/ Cancel

Spec == Init /\ [][Next]_vars

-----------------------------------------------------------------------------
TypeOK ==
  /\ provider \in {"cloud", "ollama"}
  /\ given \in Seq(Lines)
  /\ accum \in [Indexes -> Seq(1..Len(given))]
  /\ due \in Seq(Chunks) /\ sent \in Seq(Chunks)
  /\ open \in BOOLEAN /\ cancelled \in BOOLEAN
  /\ ended \in {"no", "marker", "body", "canceled", "failed"}

\* The lines among the first n of a body that carry a fragment of call i.
FragmentLines(body, i, n) == {k \in 1..n : i \in body[k].calls}

\* parts names the lines of S, each once and in their order.
Lists(parts, S) ==
  /\ {parts[j] : j \in DOMAIN parts} = S
  /\ \A j, l \in DOMAIN parts : j < l => parts[j] < parts[l]

\* All of the call that was there to be read when it was sent with line n.
Whole(call, n) ==
  IF provider = "cloud" THEN Lists(call.parts, FragmentLines(given, call.index, n))
  ELSE n \in DOMAIN given /\ call.index \in given[n].calls /\ call.parts = <<n>>

\* A tool call the agent receives is whole: although the calls of a reply arrive
\* interleaved, its arguments are all the fragments read of it, in their order, and
\* none of another call's.
WholeCalls ==
  \A k \in DOMAIN sent : \A j \in DOMAIN sent[k].calls : Whole(sent[k].calls[j], sent[k].line)

\* The times call i reached the agent.
Deliveries(i) ==
  {k \in DOMAIN sent : \E j \in DOMAIN sent[k].calls : sent[k].calls[j].index = i}

Stops == {k \in DOMAIN given : given[k].last}

\* A tool runs once: a reply that names one finish reason and ends with its marker
\* hands each call over at most once.
CallOnce ==
  provider = "cloud" /\ (\A k, l \in Stops : k = l) /\ ended # "body" =>
    \A i \in Indexes : \A k, l \in Deliveries(i) : k = l

TextChunks == {k \in DOMAIN sent : sent[k].kind = "content"}

\* Nothing of a reply is lost at an end without a marker: once the channel is
\* closed, every text was sent once and in order, and every call was handed over,
\* by a cloud provider's parser after its last fragment.
NothingLostAtBodyEnd ==
  ended = "body" /\ ~open =>
    /\ {sent[k].line : k \in TextChunks} = {n \in DOMAIN given : given[n].text}
    /\ \A k, l \in TextChunks : k < l => sent[k].line < sent[l].line
    /\ \A i \in Indexes : \A n \in FragmentLines(given, i, Len(given)) : \E k \in Deliveries(i) :
         sent[k].line = IF provider = "cloud" THEN Len(given) ELSE n

Protocol == INSTANCE StreamProtocol WITH kinds <- [k \in DOMAIN sent |-> sent[k].kind]

\* However the body ends, one verdict is sent last, and then the channel is closed.
KeepsProtocol == Protocol!PSpec
=============================================================================
