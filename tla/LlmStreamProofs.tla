--------------------------- MODULE LlmStreamProofs ---------------------------
(***************************************************************************)
(* Proofs about LlmStream, for every finite set of tool calls and bodies of *)
(* any length: its types, that both parsers implement the protocol the      *)
(* agent's drain loop relies on, and that calls are handed over whole, once *)
(* and without loss.                                                        *)
(***************************************************************************)
EXTENDS LlmStream, FiniteSetTheorems, TLAPS

-----------------------------------------------------------------------------
(* The chunks a line calls for.                                             *)

LEMMA VerdictType ==
  ASSUME NEW kind \in Kinds, NEW n \in Nat
  PROVE Verdict(kind, n) \in Chunks /\ Verdict(kind, n).kind = kind
<1>1. <<>> \in Seq(Calls)
  OBVIOUS
<1>. QED
  BY <1>1 DEF Verdict, Chunk, Chunks

LEMMA TextType ==
  ASSUME NEW n \in Nat
  PROVE Text(n) \in Chunks /\ Text(n).kind = "content"
<1>1. <<>> \in Seq(Calls)
  OBVIOUS
<1>. QED
  BY <1>1 DEF Text, Chunk, Chunks, Kinds

Bodies == {"content", "tools"}

\* Text and tool calls, without a verdict.
Plain(chunks) ==
  chunks \in Seq(Chunks) /\ \A k \in 1..Len(chunks) : chunks[k].kind \in Bodies

\* The same, and then one verdict.
Judged(chunks) ==
  /\ chunks \in Seq(Chunks) /\ Len(chunks) > 0
  /\ \A k \in 1..(Len(chunks) - 1) : chunks[k].kind \in Bodies
  /\ chunks[Len(chunks)].kind \notin Bodies

Verdicts == {"done", "failed", "canceled"}

LEMMA FlushPlain ==
  ASSUME NEW acc \in [Indexes -> Seq(Nat)], NEW n \in Nat, NEW chunks \in Flush(acc, n)
  PROVE Plain(chunks)
<1>1. CASE chunks = <<>>
  BY <1>1 DEF Plain
<1>2. ASSUME NEW chunk \in Collected(acc, n), chunks = <<chunk>>
      PROVE Plain(chunks)
  <2>. DEFINE S == {i \in Indexes : acc[i] # <<>>}
  <2>1. PICK order \in SetToSeqs(S) :
          chunk = Chunk("tools", n,
                        [k \in DOMAIN order |-> [index |-> order[k], parts |-> acc[order[k]]]])
    BY <1>2 DEF Collected
  <2>2. Cardinality(S) \in Nat
    BY StreamAssumption, FS_Subset, FS_CardinalityType DEF StreamAssumption
  <2>3. order \in [1..Cardinality(S) -> S]
    BY <2>1 DEF SetToSeqs
  <2>. DEFINE calls == [k \in DOMAIN order |-> [index |-> order[k], parts |-> acc[order[k]]]]
  <2>4. \A k \in DOMAIN order : calls[k] \in Calls
    BY <2>3 DEF Calls
  <2>5. calls \in Seq(Calls)
    BY <2>2, <2>3, <2>4
  <2>6. chunk \in Chunks /\ chunk.kind = "tools"
    BY <2>1, <2>5 DEF Chunk, Chunks, Kinds
  <2>. QED
    BY <1>2, <2>6 DEF Plain, Bodies
<1>. QED
  BY <1>1, <1>2 DEF Flush

LEMMA OpeningPlain ==
  ASSUME NEW line, NEW n \in Nat
  PROVE Plain(Opening(line, n))
BY TextType DEF Opening, Plain, Bodies

LEMMA PlainConcat ==
  ASSUME NEW s, NEW t, Plain(s), Plain(t)
  PROVE Plain(s \o t)
<1>. s \in Seq(Chunks) /\ t \in Seq(Chunks)
  BY DEF Plain
<1>1. s \o t \in Seq(Chunks) /\ Len(s \o t) = Len(s) + Len(t)
  OBVIOUS
<1>2. ASSUME NEW k \in 1..Len(s \o t)
      PROVE (s \o t)[k].kind \in Bodies
  <2>1. CASE k <= Len(s)
    BY <2>1 DEF Plain
  <2>2. CASE k > Len(s)
    <3>1. (s \o t)[k] = t[k - Len(s)] /\ k - Len(s) \in 1..Len(t)
      BY <1>1, <2>2
    <3>. QED
      BY <3>1 DEF Plain
  <2>. QED
    BY <1>1, <2>1, <2>2
<1>. QED
  BY <1>1, <1>2 DEF Plain

LEMMA VerdictLast ==
  ASSUME NEW s, Plain(s), NEW kind \in Verdicts, NEW n \in Nat
  PROVE Judged(s \o <<Verdict(kind, n)>>)
<1>. s \in Seq(Chunks)
  BY DEF Plain
<1>0. Verdict(kind, n) \in Chunks /\ Verdict(kind, n).kind \notin Bodies
  BY VerdictType DEF Verdicts, Kinds, Bodies
<1>. SUFFICES ASSUME NEW v \in Chunks, v.kind \notin Bodies PROVE Judged(s \o <<v>>)
  BY <1>0
<1>1. /\ s \o <<v>> \in Seq(Chunks) /\ Len(s \o <<v>>) = Len(s) + 1 /\ Len(s) \in Nat
      /\ \A k \in 1..Len(s) : (s \o <<v>>)[k] = s[k]
      /\ (s \o <<v>>)[Len(s) + 1] = v
  OBVIOUS
<1>. QED
  BY <1>1 DEF Judged, Plain

LEMMA OneVerdict ==
  ASSUME NEW kind \in Verdicts, NEW n \in Nat
  PROVE Judged(<<Verdict(kind, n)>>)
BY VerdictType DEF Judged, Verdicts, Kinds, Bodies

\* One chunk goes from the front of due to the end of sent.
LEMMA PlainAppend ==
  ASSUME NEW s, Plain(s), NEW c \in Chunks, c.kind \in Bodies
  PROVE Plain(Append(s, c))
BY DEF Plain

LEMMA JudgedAppend ==
  ASSUME NEW s, Plain(s), NEW c \in Chunks, c.kind \notin Bodies
  PROVE Judged(Append(s, c))
BY DEF Plain, Judged

LEMMA TailPlain ==
  ASSUME NEW s, Plain(s), s # <<>>
  PROVE Plain(Tail(s))
BY DEF Plain

LEMMA TailLast ==
  ASSUME NEW s \in Seq(Chunks), Len(s) >= 2
  PROVE Len(Tail(s)) = Len(s) - 1 /\ Tail(s)[Len(Tail(s))] = s[Len(s)]
<1>0. Len(s) \in Nat /\ s # <<>> /\ Len(s) - 1 \in 1..(Len(s) - 1)
  OBVIOUS
<1>1. Len(Tail(s)) = Len(s) - 1
  BY <1>0
<1>2. \A k \in 1..(Len(s) - 1) : Tail(s)[k] = s[k + 1]
  BY <1>0
<1>. QED
  BY <1>0, <1>1, <1>2

LEMMA TailJudged ==
  ASSUME NEW s, Judged(s), Len(s) >= 2
  PROVE Judged(Tail(s))
<1>. s \in Seq(Chunks) /\ s # <<>> /\ Len(s) \in Nat
  BY DEF Judged
<1>1. Tail(s) \in Seq(Chunks) /\ Len(Tail(s)) = Len(s) - 1
  OBVIOUS
<1>2. \A k \in 1..(Len(s) - 2) : Tail(s)[k] = s[k + 1]
  OBVIOUS
<1>3. Tail(s)[Len(Tail(s))] = s[Len(s)]
  BY TailLast
<1>. QED
  BY <1>1, <1>2, <1>3 DEF Judged

-----------------------------------------------------------------------------
(* Types.                                                                   *)

\* What is sent and what is due hold no verdict while the parser reads, and then one,
\* which is the last; the channel is open until it was sent.
DueInv ==
  /\ ended = "no" => Plain(sent) /\ Plain(due) /\ open
  /\ ended # "no" => \/ Plain(sent) /\ Judged(due) /\ open
                     \/ Judged(sent) /\ due = <<>>

StreamInv == TypeOK /\ DueInv

LEMMA Widen ==
  ASSUME NEW m \in Nat, NEW n \in Nat, m <= n, NEW s \in Seq(1..m)
  PROVE s \in Seq(1..n)
<1>1. Len(s) \in Nat /\ s \in [1..Len(s) -> 1..m]
  OBVIOUS
<1>2. 1..m \subseteq 1..n
  OBVIOUS
<1>3. s \in [1..Len(s) -> 1..n]
  BY <1>1, <1>2, Zenon
<1>. QED
  BY <1>1, <1>3

LEMMA AccumulateType ==
  ASSUME TypeOK, NEW line \in Lines, given' = Append(given, line),
         Accumulate(line, Len(given'))
  PROVE /\ accum' \in [Indexes -> Seq(1..Len(given'))]
        /\ accum' \in [Indexes -> Seq(Nat)]
        /\ Len(given') \in Nat
<1>1. Len(given) \in Nat /\ Len(given') = Len(given) + 1
  BY DEF TypeOK
<1>2. ASSUME NEW i \in Indexes
      PROVE accum[i] \in Seq(1..Len(given')) /\ Append(accum[i], Len(given')) \in Seq(1..Len(given'))
  <2>1. accum[i] \in Seq(1..Len(given))
    BY DEF TypeOK
  <2>2. Len(given') \in 1..Len(given')
    BY <1>1
  <2>3. accum[i] \in Seq(1..Len(given'))
    BY <1>1, <2>1, Widen
  <2>. QED
    BY <2>2, <2>3
<1>3. accum' \in [Indexes -> Seq(1..Len(given'))]
  BY <1>2 DEF Accumulate
<1>4. ASSUME NEW i \in Indexes PROVE accum'[i] \in Seq(Nat)
  <2>1. accum'[i] \in Seq(1..Len(given')) /\ 1..Len(given') \subseteq Nat
    BY <1>1, <1>3
  <2>. QED
    BY <2>1
<1>. QED
  BY <1>1, <1>3, <1>4 DEF Accumulate

LEMMA StreamInit == Init => StreamInv
<1>. SUFFICES ASSUME Init PROVE StreamInv
  OBVIOUS
<1>1. <<>> \in Seq(Lines) /\ <<>> \in Seq(Chunks) /\ <<>> \in Seq(1..Len(given))
  OBVIOUS
<1>2. TypeOK
  BY <1>1 DEF Init, TypeOK
<1>. QED
  BY <1>1, <1>2 DEF Init, StreamInv, DueInv, Plain

\* A step that reads or stops reading: a verdict is due if it stops, and nothing is sent.
LEMMA ScanningStep ==
  ASSUME StreamInv, Scanning, IF ended' = "no" THEN Plain(due') ELSE Judged(due'),
         given' \in Seq(Lines), accum' \in [Indexes -> Seq(1..Len(given'))],
         ended' \in {"no", "marker", "body", "canceled", "failed"},
         UNCHANGED <<provider, sent, open, cancelled>>
  PROVE StreamInv'
<1>1. TypeOK'
  BY DEF StreamInv, TypeOK, Plain, Judged
<1>2. DueInv'
  BY DEF StreamInv, DueInv, Scanning, Plain
<1>. QED
  BY <1>1, <1>2 DEF StreamInv

LEMMA EmptyPlain == Plain(<<>>)
BY DEF Plain

LEMMA StreamStep == StreamInv /\ [Next]_vars => StreamInv'
<1>. SUFFICES ASSUME StreamInv, [Next]_vars PROVE StreamInv'
  OBVIOUS
<1>. TypeOK /\ DueInv
  BY DEF StreamInv
<1>0. Len(given) \in Nat /\ accum \in [Indexes -> Seq(Nat)]
  <2>1. Len(given) \in Nat /\ 1..Len(given) \subseteq Nat
    BY DEF TypeOK
  <2>2. ASSUME NEW i \in Indexes PROVE accum[i] \in Seq(Nat)
    BY <2>1 DEF TypeOK
  <2>. QED
    BY <2>1, <2>2 DEF TypeOK
<1>1. ASSUME NEW line \in Lines, CloudLine(line) PROVE StreamInv'
  <2>1. /\ Scanning /\ given' = Append(given, line) /\ Accumulate(line, Len(given'))
        /\ UNCHANGED <<provider, sent, open, cancelled, ended>>
    BY <1>1 DEF CloudLine, Reads
  <2>2. /\ accum' \in [Indexes -> Seq(1..Len(given'))] /\ accum' \in [Indexes -> Seq(Nat)]
        /\ Len(given') \in Nat
    BY <2>1, AccumulateType
  <2>3. PICK tools \in (IF line.last THEN Flush(accum', Len(given')) ELSE {<<>>}) :
          due' = Opening(line, Len(given')) \o tools
    BY <1>1 DEF CloudLine
  <2>4. Plain(tools)
    BY <2>2, <2>3, FlushPlain, EmptyPlain
  <2>5. Plain(due') /\ ended' = "no"
    BY <2>1, <2>2, <2>3, <2>4, OpeningPlain, PlainConcat DEF Scanning
  <2>. QED
    BY <2>1, <2>2, <2>5, ScanningStep DEF TypeOK
<1>2. ASSUME NEW line \in Lines, OllamaLine(line) PROVE StreamInv'
  <2>. DEFINE n == Len(given')
              whole == [i \in Indexes |-> IF i \in line.calls THEN <<n>> ELSE <<>>]
  <2>1. /\ Scanning /\ given' = Append(given, line)
        /\ UNCHANGED <<provider, accum, sent, open, cancelled>>
        /\ ended' = IF line.last THEN "marker" ELSE ended
    BY <1>2 DEF OllamaLine, Reads
  <2>2. given' \in Seq(Lines) /\ n \in Nat /\ n = Len(given) + 1
    BY <2>1 DEF TypeOK
  <2>3. whole \in [Indexes -> Seq(Nat)]
    BY <2>2
  <2>4. PICK tools \in Flush(whole, n) :
          due' = Opening(line, n) \o tools \o (IF line.last THEN <<Verdict("done", n)>> ELSE <<>>)
    BY <1>2 DEF OllamaLine
  <2>5. Plain(Opening(line, n) \o tools)
    BY <2>2, <2>3, <2>4, FlushPlain, OpeningPlain, PlainConcat
  <2>6. IF ended' = "no" THEN Plain(due') ELSE Judged(due')
    <3>1. CASE line.last
      <4>1. Judged(due')
        BY <2>2, <2>4, <2>5, <3>1, VerdictLast DEF Verdicts
      <4>. QED
        BY <2>1, <3>1, <4>1
    <3>2. CASE ~line.last
      <4>1. Plain(due')
        BY <2>4, <2>5, <3>2, EmptyPlain, PlainConcat
      <4>. QED
        BY <2>1, <3>2, <4>1 DEF Scanning
    <3>. QED
      BY <3>1, <3>2
  <2>7. accum' \in [Indexes -> Seq(1..Len(given'))]
    <3>1. Len(given) \in Nat /\ Len(given') \in Nat /\ Len(given) <= Len(given')
      BY <2>2, <1>0
    <3>2. ASSUME NEW i \in Indexes PROVE accum[i] \in Seq(1..Len(given'))
      <4>1. accum[i] \in Seq(1..Len(given))
        BY DEF TypeOK
      <4>. QED
        BY <3>1, <4>1, Widen
    <3>. QED
      BY <2>1, <3>2 DEF TypeOK
  <2>. QED
    BY <2>1, <2>2, <2>6, <2>7, ScanningStep DEF TypeOK
<1>3. CASE DoneMarker \/ CancelSeen \/ ReadFails
  <2>1. Judged(due') /\ Scanning /\ ended' # "no"
    BY <1>0, <1>3, OneVerdict DEF DoneMarker, CancelSeen, ReadFails, Verdicts
  <2>. QED
    BY <1>3, <2>1, ScanningStep DEF DoneMarker, CancelSeen, ReadFails, TypeOK
<1>4. CASE BodyEnds
  <2>1. PICK tools \in (IF provider = "cloud" THEN Flush(accum, Len(given)) ELSE {<<>>}) :
          due' = tools \o <<Verdict("done", Len(given))>>
    BY <1>4 DEF BodyEnds
  <2>2. Judged(due')
    BY <1>0, <2>1, FlushPlain, EmptyPlain, VerdictLast DEF Verdicts
  <2>. QED
    BY <1>4, <2>2, ScanningStep DEF BodyEnds, TypeOK
<1>5. CASE Send
  <2>1. due \in Seq(Chunks) /\ due # <<>> /\ sent \in Seq(Chunks)
    BY <1>5 DEF Send, TypeOK
  <2>2. /\ due[1] \in Chunks /\ due' = Tail(due) /\ due' \in Seq(Chunks)
        /\ sent' = Append(sent, due[1]) /\ sent' \in Seq(Chunks)
        /\ UNCHANGED <<ended, open>>
    BY <1>5, <2>1 DEF Send
  <2>3. TypeOK'
    BY <1>5, <2>2 DEF Send, TypeOK
  <2>4. CASE ended = "no"
    <3>1. Plain(due') /\ due[1].kind \in Bodies
      BY <2>1, <2>2, <2>4, TailPlain DEF DueInv, Plain
    <3>2. Plain(sent')
      BY <2>2, <2>4, <3>1, PlainAppend DEF DueInv
    <3>. QED
      BY <2>2, <2>3, <2>4, <3>1, <3>2 DEF StreamInv, DueInv
  <2>5. CASE ended # "no" /\ Len(due) = 1
    <3>1. due' = <<>> /\ due[1].kind \notin Bodies /\ Plain(sent)
      BY <2>1, <2>2, <2>5 DEF DueInv, Judged
    <3>2. Judged(sent')
      BY <2>2, <3>1, JudgedAppend
    <3>. QED
      BY <2>2, <2>3, <2>5, <3>1, <3>2 DEF StreamInv, DueInv
  <2>6. CASE ended # "no" /\ Len(due) >= 2
    <3>1. Plain(sent) /\ Judged(due) /\ open
      BY <2>1, <2>6 DEF DueInv
    <3>2. Judged(due') /\ due[1].kind \in Bodies
      BY <2>2, <2>6, <3>1, TailJudged DEF Judged
    <3>3. Plain(sent')
      BY <2>2, <3>1, <3>2, PlainAppend
    <3>. QED
      BY <2>2, <2>3, <2>6, <3>1, <3>2, <3>3 DEF StreamInv, DueInv
  <2>7. Len(due) = 1 \/ Len(due) >= 2
    <3>1. Len(due) \in Nat /\ Len(due) # 0
      BY <2>1
    <3>. QED
      BY <3>1
  <2>. QED
    BY <2>4, <2>5, <2>6, <2>7
<1>8. CASE Close
  <2>1. TypeOK'
    BY <1>8 DEF Close, TypeOK
  <2>2. Judged(sent) /\ UNCHANGED <<ended, sent, due>> /\ ended # "no" /\ due = <<>>
    BY <1>8 DEF Close, DueInv, Judged
  <2>. QED
    BY <2>1, <2>2 DEF StreamInv, DueInv
<1>6. CASE Cancel
  BY <1>6 DEF Cancel, StreamInv, TypeOK, DueInv
<1>7. CASE UNCHANGED vars
  BY <1>7 DEF vars, StreamInv, TypeOK, DueInv
<1>. QED
  BY <1>1, <1>2, <1>3, <1>4, <1>5, <1>6, <1>7, <1>8 DEF Next

LEMMA StreamSafe == Spec => []StreamInv
BY StreamInit, StreamStep, PTL DEF Spec

\* Every variable of both parsers keeps its type, and fragments are filed under lines
\* that were read (cloud.go:170-280, ollama.go:165-231).
THEOREM StreamTypes == Spec => []TypeOK
<1>1. StreamInv => TypeOK
  BY DEF StreamInv
<1>. QED
  BY <1>1, StreamSafe, PTL

-----------------------------------------------------------------------------
(* The refinement.                                                          *)

\* Every step of a parser is a step of the protocol or changes nothing of it.
LEMMA ProtocolStep ==
  ASSUME StreamInv, [Next]_vars
  PROVE [Protocol!More \/ Protocol!Judge \/ Protocol!Close]_(Protocol!pvars)
<1>. DEFINE kinds == [k \in DOMAIN sent |-> sent[k].kind]
<1>0. sent \in Seq(Chunks) /\ due \in Seq(Chunks) /\ Len(sent) \in Nat /\ DOMAIN sent = 1..Len(sent)
  BY DEF StreamInv, TypeOK
<1>1. CASE Send
  <2>1. due # <<>> /\ sent' = Append(sent, Head(due)) /\ open' = open
    BY <1>1 DEF Send
  <2>2. Head(due) \in Chunks
    BY <1>0, <2>1
  <2>3. open /\ Plain(sent)
    BY <2>1 DEF StreamInv, DueInv
  <2>4. ~Protocol!Judged
    BY <1>0, <2>3 DEF Protocol!Judged, Protocol!Verdicts, Plain, Bodies
  <2>5. kinds' = Append(kinds, Head(due).kind)
    <3>1. DOMAIN sent' = 1..(Len(sent) + 1)
      BY <1>0, <2>1, <2>2
    <3>2. \A k \in 1..Len(sent) : sent'[k] = sent[k]
      BY <1>0, <2>1, <2>2
    <3>3. sent'[Len(sent) + 1] = Head(due)
      BY <1>0, <2>1, <2>2
    <3>. QED
      BY <1>0, <3>1, <3>2, <3>3
  <2>6. Head(due).kind \in Bodies \cup Verdicts
    BY <2>2 DEF Chunks, Kinds, Bodies, Verdicts
  <2>. HIDE DEF kinds
  <2>7. CASE Head(due).kind \in Bodies
    BY <2>1, <2>3, <2>4, <2>5, <2>7, Zenon DEF Protocol!More, Protocol!Bodies, Bodies, kinds
  <2>8. CASE Head(due).kind \in Verdicts
    BY <2>1, <2>3, <2>4, <2>5, <2>8, Zenon DEF Protocol!Judge, Protocol!Verdicts, Verdicts, kinds
  <2>. QED
    BY <2>6, <2>7, <2>8
<1>2. CASE Close
  <2>1. open /\ open' = FALSE /\ sent' = sent /\ Judged(sent)
    BY <1>2 DEF Close, StreamInv, DueInv, Judged
  <2>2. Len(sent) \in DOMAIN sent /\ sent[Len(sent)] \in Chunks /\ sent[Len(sent)].kind \notin Bodies
    BY <1>0, <2>1 DEF Judged
  <2>3. Protocol!Judged
    BY <2>2 DEF Protocol!Judged, Protocol!Verdicts, Chunks, Kinds, Bodies
  <2>. QED
    BY <2>1, <2>3 DEF Protocol!Close
<1>3. CASE UNCHANGED <<sent, open>>
  BY <1>3 DEF Protocol!pvars
<1>. QED
  BY <1>1, <1>2, <1>3 DEF Next, CloudLine, OllamaLine, DoneMarker, CancelSeen, BodyEnds,
     ReadFails, Cancel, vars

\* Both parsers implement the protocol of the chunk channel: whatever the body holds
\* and wherever it is cut, the agent reads text and tool calls, then one verdict.
THEOREM ParsersKeepProtocol == Spec => KeepsProtocol
<1>1. Init => Protocol!PInit
  BY DEF Init, Protocol!PInit
<1>. QED
  BY <1>1, StreamSafe, ProtocolStep, PTL DEF Spec, KeepsProtocol, Protocol!PSpec

-----------------------------------------------------------------------------
(* What the calls hold, and what is sent.  The invariants speak of all the  *)
(* chunks made so far, sent or still due: sending one changes nothing.      *)

Made == sent \o due

\* What can be said of a chunk alone.
Sound(c) ==
  /\ c.line \in 0..Len(given)
  /\ c.kind = "content" => c.line \in 1..Len(given) /\ given[c.line].text
  /\ c.kind # "tools" => c.calls = <<>>
  /\ \A j \in DOMAIN c.calls : Whole(c.calls[j], c.line)
  /\ \A j, l \in DOMAIN c.calls : c.calls[j].index = c.calls[l].index => j = l

\* Chunks follow their lines; a line has one text, and one delivery of calls unless
\* the end of the body repeats it.
Ordered(s, end) ==
  \A k, l \in 1..Len(s) : k < l =>
    /\ s[k].line <= s[l].line
    /\ s[k].kind = "content" /\ s[l].kind = "content" => s[k].line < s[l].line
    /\ s[k].kind = "tools" /\ s[l].kind = "tools" /\ end # "body" => s[k].line < s[l].line

Holds(s, c) == \E k \in 1..Len(s) : s[k] = c
Says(s, n) == \E k \in 1..Len(s) : s[k].kind = "content" /\ s[k].line = n
Brings(c, i) == \E j \in DOMAIN c.calls : c.calls[j].index = i
Hands(s, n, i) == \E k \in 1..Len(s) : s[k].line = n /\ Brings(s[k], i)

AccumInv == provider = "cloud" =>
  \A i \in Indexes : Lists(accum[i], FragmentLines(given, i, Len(given)))
SoundInv == \A c \in Chunks : Holds(Made, c) => Sound(c)
OrderInv == Ordered(Made, ended)
TextInv == \A n \in 1..Len(given) : given[n].text => Says(Made, n)
StopInv == provider = "cloud" /\ ended # "body" =>
  \A k \in 1..Len(Made) : Made[k].kind = "tools" => Made[k].line \in Stops
BodyInv == provider = "cloud" /\ ended = "body" =>
  \A i \in Indexes : FragmentLines(given, i, Len(given)) # {} => Hands(Made, Len(given), i)
OllamaInv == provider = "ollama" =>
  \A n \in 1..Len(given) : \A i \in given[n].calls : Hands(Made, n, i)

MadeInv == /\ AccumInv /\ SoundInv /\ OrderInv /\ TextInv
           /\ StopInv /\ BodyInv /\ OllamaInv

-----------------------------------------------------------------------------
(* The calls put together.                                                  *)

\* The next number is added at the end.
LEMMA ListsAppend ==
  ASSUME NEW n \in Nat, NEW S \in SUBSET (1..n), NEW parts \in Seq(1..n), Lists(parts, S)
  PROVE Lists(Append(parts, n + 1), S \cup {n + 1})
<1>. DEFINE more == Append(parts, n + 1)
<1>1. /\ DOMAIN parts = 1..Len(parts) /\ Len(parts) \in Nat
      /\ DOMAIN more = 1..(Len(parts) + 1)
      /\ \A j \in 1..Len(parts) : more[j] = parts[j] /\ parts[j] \in 1..n
      /\ more[Len(parts) + 1] = n + 1
  OBVIOUS
<1>. HIDE DEF more
<1>2. {more[j] : j \in DOMAIN more} = S \cup {n + 1}
  <2>1. S = {parts[j] : j \in 1..Len(parts)}
    BY <1>1 DEF Lists
  <2>2. ASSUME NEW j \in DOMAIN more PROVE more[j] \in S \cup {n + 1}
    <3>1. CASE j = Len(parts) + 1
      BY <1>1, <3>1
    <3>2. CASE j \in 1..Len(parts)
      <4>1. more[j] = parts[j]
        BY <1>1, <3>2
      <4>. QED
        BY <2>1, <3>2, <4>1
    <3>. QED
      BY <1>1, <3>1, <3>2
  <2>3. ASSUME NEW x \in S PROVE \E j \in DOMAIN more : more[j] = x
    <3>1. PICK j \in 1..Len(parts) : parts[j] = x
      BY <2>1
    <3>2. j \in DOMAIN more /\ more[j] = x
      BY <1>1, <3>1
    <3>. QED
      BY <3>2
  <2>4. \E j \in DOMAIN more : more[j] = n + 1
    BY <1>1
  <2>. QED
    BY <2>2, <2>3, <2>4
<1>3. ASSUME NEW j \in DOMAIN more, NEW l \in DOMAIN more, j < l PROVE more[j] < more[l]
  <2>1. CASE l = Len(parts) + 1
    BY <1>1, <1>3, <2>1
  <2>2. CASE l # Len(parts) + 1
    <3>1. j \in DOMAIN parts /\ l \in DOMAIN parts
      BY <1>1, <1>3, <2>2
    <3>. QED
      BY <1>1, <1>3, <3>1 DEF Lists
  <2>. QED
    BY <2>1, <2>2
<1>. QED
  BY <1>2, <1>3 DEF Lists, more

\* What a line adds to the fragments of a call.
LEMMA FragmentsKept ==
  ASSUME NEW body \in Seq(Lines), NEW line \in Lines, NEW i, NEW n \in 0..Len(body)
  PROVE FragmentLines(Append(body, line), i, n) = FragmentLines(body, i, n)
<1>1. \A k \in 1..n : Append(body, line)[k] = body[k]
  OBVIOUS
<1>. QED
  BY <1>1 DEF FragmentLines

LEMMA FragmentsGrow ==
  ASSUME NEW body \in Seq(Lines), NEW line \in Lines, NEW i
  PROVE FragmentLines(Append(body, line), i, Len(body) + 1) =
          IF i \in line.calls THEN FragmentLines(body, i, Len(body)) \cup {Len(body) + 1}
                              ELSE FragmentLines(body, i, Len(body))
<1>. DEFINE more == Append(body, line)
<1>1. /\ Len(body) \in Nat /\ more[Len(body) + 1] = line
      /\ \A k \in 1..Len(body) : more[k] = body[k]
  OBVIOUS
<1>. HIDE DEF more
<1>2. 1..(Len(body) + 1) = (1..Len(body)) \cup {Len(body) + 1}
  BY <1>1
<1>3. CASE i \in line.calls
  BY <1>1, <1>2, <1>3 DEF FragmentLines, more
<1>4. CASE i \notin line.calls
  BY <1>1, <1>2, <1>4 DEF FragmentLines, more
<1>. QED
  BY <1>3, <1>4

LEMMA AccumStep ==
  ASSUME TypeOK, AccumInv, NEW line \in Lines, given' = Append(given, line),
         Accumulate(line, Len(given')), provider = "cloud", provider' = provider
  PROVE AccumInv'
<1>1. Len(given) \in Nat /\ Len(given') = Len(given) + 1 /\ given \in Seq(Lines)
  BY DEF TypeOK
<1>2. ASSUME NEW i \in Indexes PROVE Lists(accum'[i], FragmentLines(given', i, Len(given')))
  <2>1. accum[i] \in Seq(1..Len(given)) /\ Lists(accum[i], FragmentLines(given, i, Len(given)))
    BY DEF TypeOK, AccumInv
  <2>2. FragmentLines(given, i, Len(given)) \in SUBSET (1..Len(given))
    BY DEF FragmentLines
  <2>3. CASE i \in line.calls
    <3>1. accum'[i] = Append(accum[i], Len(given) + 1)
      BY <1>1, <2>3 DEF Accumulate
    <3>2. Lists(Append(accum[i], Len(given) + 1), FragmentLines(given, i, Len(given)) \cup {Len(given) + 1})
      BY <1>1, <2>1, <2>2, ListsAppend
    <3>. QED
      BY <1>1, <2>3, <3>1, <3>2, FragmentsGrow
  <2>4. CASE i \notin line.calls
    <3>1. accum'[i] = accum[i]
      BY <2>4 DEF Accumulate
    <3>. QED
      BY <1>1, <2>1, <2>4, <3>1, FragmentsGrow
  <2>. QED
    BY <2>3, <2>4
<1>. QED
  BY <1>1, <1>2 DEF AccumInv

\* A delivery holds exactly the calls there is something of, each once.
Delivers(c, acc) ==
  /\ \A j \in DOMAIN c.calls : /\ c.calls[j].index \in Indexes
                               /\ c.calls[j].parts = acc[c.calls[j].index]
                               /\ acc[c.calls[j].index] # <<>>
  /\ \A j, l \in DOMAIN c.calls : c.calls[j].index = c.calls[l].index => j = l
  /\ \A i \in Indexes : acc[i] # <<>> => Brings(c, i)

LEMMA FlushDelivers ==
  ASSUME NEW acc \in [Indexes -> Seq(Nat)], NEW n \in Nat, NEW chunks \in Flush(acc, n)
  PROVE \/ chunks = <<>> /\ \A i \in Indexes : acc[i] = <<>>
        \/ \E c \in Chunks : chunks = <<c>> /\ c.kind = "tools" /\ c.line = n /\ Delivers(c, acc)
<1>. DEFINE S == {i \in Indexes : acc[i] # <<>>}
<1>1. CASE S = {}
  BY <1>1 DEF Flush
<1>2. CASE S # {}
  <2>1. PICK c \in Collected(acc, n) : chunks = <<c>>
    BY <1>2 DEF Flush
  <2>2. PICK order \in SetToSeqs(S) :
          c = Chunk("tools", n,
                    [k \in DOMAIN order |-> [index |-> order[k], parts |-> acc[order[k]]]])
    BY <2>1 DEF Collected
  <2>3. IsFiniteSet(S) /\ Cardinality(S) \in Nat
    BY StreamAssumption, FS_Subset, FS_CardinalityType DEF StreamAssumption
  <2>. DEFINE D == 1..Cardinality(S)
  <2>4. order \in [D -> S] /\ \A j, l \in D : j # l => order[j] # order[l]
    BY <2>2 DEF SetToSeqs
  <2>5. \A i \in S : \E j \in D : order[j] = i
    <3>. SUFFICES ASSUME NEW i \in S, \A j \in D : order[j] # i PROVE FALSE
      OBVIOUS
    <3>1. IsFiniteSet(D) /\ Cardinality(D) = Cardinality(S)
      BY <2>3, FS_Interval
    <3>2. IsFiniteSet(S \ {i}) /\ Cardinality(S \ {i}) = Cardinality(S) - 1
      BY <2>3, FS_RemoveElement
    <3>3. order \in [D -> S \ {i}]
      BY <2>4
    <3>4. Cardinality(S \ {i}) < Cardinality(D)
      BY <2>3, <3>1, <3>2
    <3>. HIDE DEF D, S
    <3>5. \E x, y \in D : x # y /\ order[x] = order[y]
      BY <3>1, <3>2, <3>3, <3>4, FS_PigeonHole
    <3>. QED
      BY <2>4, <3>5
  <2>6. Plain(<<c>>)
    BY <2>1, FlushPlain
  <2>7. c \in Chunks
    BY <2>6 DEF Plain
  <2>8. /\ c.kind = "tools" /\ c.line = n /\ DOMAIN c.calls = D
        /\ \A j \in D : c.calls[j].index = order[j] /\ c.calls[j].parts = acc[order[j]]
    BY <2>2, <2>4 DEF Chunk
  <2>9. Delivers(c, acc)
    <3>1. \A j \in D : order[j] \in Indexes /\ acc[order[j]] # <<>>
      BY <2>4
    <3>2. ASSUME NEW i \in Indexes, acc[i] # <<>> PROVE Brings(c, i)
      <4>1. i \in S
        BY <3>2
      <4>2. PICK j \in D : order[j] = i
        BY <2>5, <4>1
      <4>. QED
        BY <2>8, <4>2 DEF Brings
    <3>. HIDE DEF D, S
    <3>3. \A j, l \in D : c.calls[j].index = c.calls[l].index => j = l
      BY <2>4, <2>8
    <3>. QED
      BY <2>8, <3>1, <3>2, <3>3 DEF Delivers
  <2>. QED
    BY <2>1, <2>7, <2>8, <2>9
<1>. QED
  BY <1>1, <1>2

-----------------------------------------------------------------------------
(* A line's chunks: a text, a delivery and a verdict, each at most once.    *)

AtMost(s, kind, n) == s = <<>> \/ \E c \in Chunks : s = <<c>> /\ c.kind = kind /\ c.line = n

\* The chunks s of line n, of which there is one of each kind.
Batch(s, n) ==
  /\ s \in Seq(Chunks)
  /\ \A k \in 1..Len(s) : s[k].line = n
  /\ \A k, l \in 1..Len(s) : s[k].kind = s[l].kind => k = l

LEMMA BatchGrows ==
  ASSUME NEW n \in Nat, NEW s, Batch(s, n), NEW t, NEW kind, AtMost(t, kind, n),
         \A k \in 1..Len(s) : s[k].kind # kind
  PROVE /\ Batch(s \o t, n)
        /\ \A c : Holds(s \o t, c) <=> Holds(s, c) \/ t = <<c>>
        /\ t # <<>> => s \o t # <<>> /\ (s \o t)[Len(s \o t)].kind = kind
<1>0. s \in Seq(Chunks) /\ Len(s) \in Nat
  BY DEF Batch
<1>1. CASE t = <<>>
  <2>1. s \o t = s
    BY <1>0, <1>1
  <2>. QED
    BY <1>1, <2>1
<1>2. ASSUME NEW d \in Chunks, t = <<d>>, d.kind = kind, d.line = n
      PROVE /\ Batch(s \o t, n)
            /\ \A c : Holds(s \o t, c) <=> Holds(s, c) \/ t = <<c>>
            /\ s \o t # <<>> /\ (s \o t)[Len(s \o t)].kind = kind
  <2>. DEFINE u == s \o t
  <2>1. /\ u \in Seq(Chunks) /\ Len(u) = Len(s) + 1
        /\ \A k \in 1..Len(s) : u[k] = s[k]
        /\ u[Len(s) + 1] = d
    BY <1>0, <1>2
  <2>. HIDE DEF u
  <2>2. \A k \in 1..Len(u) : k \in 1..Len(s) \/ k = Len(s) + 1
    BY <1>0, <2>1
  <2>3. Batch(u, n)
    BY <1>2, <2>1, <2>2 DEF Batch
  <2>4. ASSUME NEW c PROVE Holds(u, c) <=> Holds(s, c) \/ t = <<c>>
    <3>1. t = <<c>> <=> c = d
      BY <1>2
    <3>2. Holds(u, c) => Holds(s, c) \/ c = d
      BY <2>1, <2>2 DEF Holds
    <3>3. 1..Len(s) \subseteq 1..Len(u) /\ Len(s) + 1 \in 1..Len(u)
      BY <1>0, <2>1
    <3>4. Holds(s, c) \/ c = d => Holds(u, c)
      BY <2>1, <3>3 DEF Holds
    <3>. QED
      BY <3>1, <3>2, <3>4
  <2>5. u # <<>> /\ u[Len(u)].kind = kind
    BY <1>0, <1>2, <2>1
  <2>. QED
    BY <2>3, <2>4, <2>5 DEF u
<1>. QED
  BY <1>1, <1>2 DEF AtMost

\* The chunks s of line n are those of a, b and v, in this order.
Gathers(s, n, a, b, v, kind) ==
  /\ Batch(s, n)
  /\ \A c : Holds(s, c) <=> a = <<c>> \/ b = <<c>> \/ v = <<c>>
  /\ v # <<>> => s # <<>> /\ s[Len(s)].kind = kind

LEMMA BatchFacts ==
  ASSUME NEW n \in Nat, NEW a, NEW b, NEW v, NEW kind \in {"done", "failed", "canceled"},
         AtMost(a, "content", n), AtMost(b, "tools", n), AtMost(v, kind, n),
         NEW s, s = a \o b \o v
  PROVE Gathers(s, n, a, b, v, kind)
<1>1. /\ Batch(a, n)
      /\ \A c : Holds(a, c) <=> a = <<c>>
      /\ \A k \in 1..Len(a) : a[k].kind = "content"
  <2>1. CASE a = <<>>
    BY <2>1 DEF Batch, Holds
  <2>2. ASSUME NEW d \in Chunks, a = <<d>>, d.kind = "content", d.line = n
        PROVE /\ Batch(a, n)
              /\ \A c : Holds(a, c) <=> a = <<c>>
              /\ \A k \in 1..Len(a) : a[k].kind = "content"
    <3>1. a \in Seq(Chunks) /\ Len(a) = 1 /\ a[1] = d
      BY <2>2
    <3>2. Batch(a, n)
      BY <2>2, <3>1 DEF Batch
    <3>3. ASSUME NEW c PROVE Holds(a, c) <=> a = <<c>>
      <4>1. a = <<c>> <=> c = d
        BY <2>2
      <4>. QED
        BY <3>1, <4>1 DEF Holds
    <3>. QED
      BY <2>2, <3>1, <3>2, <3>3
  <2>. QED
    BY <2>1, <2>2 DEF AtMost
<1>2. /\ Batch(a \o b, n)
      /\ \A c : Holds(a \o b, c) <=> Holds(a, c) \/ b = <<c>>
  BY <1>1, BatchGrows
<1>3. \A k \in 1..Len(a \o b) : (a \o b)[k].kind # kind
  <2>. SUFFICES ASSUME NEW k \in 1..Len(a \o b) PROVE (a \o b)[k].kind # kind
    OBVIOUS
  <2>1. Holds(a \o b, (a \o b)[k])
    BY DEF Holds
  <2>2. CASE Holds(a, (a \o b)[k])
    BY <1>1, <2>2 DEF Holds
  <2>3. CASE b = <<(a \o b)[k]>>
    BY <2>3 DEF AtMost
  <2>. QED
    BY <1>2, <2>1, <2>2, <2>3
<1>. DEFINE ab == a \o b
<1>. HIDE DEF ab
<1>4. Batch(ab, n) /\ \A k \in 1..Len(ab) : ab[k].kind # kind
  BY <1>2, <1>3 DEF ab
<1>5. s = ab \o v
  BY DEF ab
<1>6. /\ Batch(s, n)
      /\ \A c : Holds(s, c) <=> Holds(ab, c) \/ v = <<c>>
      /\ v # <<>> => s # <<>> /\ s[Len(s)].kind = kind
  BY <1>4, <1>5, BatchGrows
<1>. QED
  BY <1>1, <1>2, <1>6 DEF ab, Gathers

\* A chunk made is one of the sent ones or one of the due ones.
LEMMA MadeSplit ==
  ASSUME NEW s \in Seq(Chunks), NEW t \in Seq(Chunks)
  PROVE /\ Len(s) \in Nat /\ Len(t) \in Nat /\ Len(s \o t) = Len(s) + Len(t)
        /\ \A k \in 1..Len(s) : (s \o t)[k] = s[k]
        /\ \A j \in 1..Len(t) : (s \o t)[Len(s) + j] = t[j]
        /\ \A k \in 1..(Len(s) + Len(t)) :
             k \in 1..Len(s) \/ \E j \in 1..Len(t) : k = Len(s) + j
<1>0. Len(s) \in Nat /\ Len(t) \in Nat /\ Len(s \o t) = Len(s) + Len(t)
  OBVIOUS
<1>1. ASSUME NEW k \in 1..(Len(s) + Len(t))
      PROVE k \in 1..Len(s) \/ \E j \in 1..Len(t) : k = Len(s) + j
  <2>1. CASE k <= Len(s)
    BY <1>0, <2>1
  <2>2. CASE k > Len(s)
    <3>1. k - Len(s) \in 1..Len(t) /\ k = Len(s) + (k - Len(s))
      BY <1>0, <2>2
    <3>. QED
      BY <3>1
  <2>. QED
    BY <1>0, <2>1, <2>2
<1>2. \A j \in 1..Len(t) : (s \o t)[Len(s) + j] = t[j]
  OBVIOUS
<1>3. \A k \in 1..Len(s) : (s \o t)[k] = s[k]
  OBVIOUS
<1>. QED
  BY <1>0, <1>1, <1>2, <1>3

\* Later lines change nothing of what is said of a chunk.
LEMMA SoundKept ==
  ASSUME TypeOK, NEW c \in Chunks, Sound(c), provider' = provider,
         given' = given \/ \E line \in Lines : given' = Append(given, line)
  PROVE Sound(c)'
<1>1. CASE given' = given
  BY <1>1 DEF Sound, Whole
<1>2. ASSUME NEW line \in Lines, given' = Append(given, line) PROVE Sound(c)'
  <2>1. /\ given \in Seq(Lines) /\ Len(given) \in Nat /\ Len(given') = Len(given) + 1
        /\ DOMAIN given = 1..Len(given) /\ DOMAIN given' = 1..Len(given')
        /\ \A k \in 1..Len(given) : given'[k] = given[k]
    BY <1>2 DEF TypeOK
  <2>2. c.line \in 0..Len(given) /\ c.line \in 0..Len(given')
    BY <2>1 DEF Sound
  <2>3. \A i : FragmentLines(given', i, c.line) = FragmentLines(given, i, c.line)
    BY <1>2, <2>1, <2>2, FragmentsKept
  <2>4. ASSUME NEW j \in DOMAIN c.calls PROVE Whole(c.calls[j], c.line)'
    <3>1. Whole(c.calls[j], c.line)
      BY DEF Sound
    <3>2. CASE provider = "cloud"
      BY <2>3, <3>1, <3>2 DEF Whole
    <3>3. CASE provider # "cloud"
      BY <2>1, <3>1, <3>3 DEF Whole
    <3>. QED
      BY <3>2, <3>3
  <2>5. c.kind = "content" => c.line \in 1..Len(given') /\ given'[c.line].text
    BY <2>1 DEF Sound
  <2>. QED
    BY <2>2, <2>4, <2>5 DEF Sound
<1>. QED
  BY <1>1, <1>2

-----------------------------------------------------------------------------
(* Every step keeps what is said of the chunks made.                        *)

\* The parser looks at line n (or at the end, after line n) and makes the chunks new.
LEMMA ScanKeepsMade ==
  ASSUME StreamInv, MadeInv, Scanning, AccumInv',
         NEW n, n = Len(given'), NEW new, new = due', Batch(new, n),
         given' = given \/ \E line \in Lines : given' = Append(given, line),
         UNCHANGED <<provider, sent, open>>,
         \A c \in Chunks : Holds(new, c) => Sound(c)',
         given' = given => \A c : Holds(new, c) =>
           c.kind # "content" /\ (c.kind = "tools" => ended' = "body"),
         \A line : given' = Append(given, line) /\ line.text => Says(new, n),
         provider = "cloud" /\ ended' # "body" =>
           \A c : Holds(new, c) /\ c.kind = "tools" => n \in Stops',
         provider = "cloud" /\ ended' = "body" =>
           \A i \in Indexes : FragmentLines(given', i, n) # {} => Hands(new, n, i),
         provider = "ollama" =>
           \A line : given' = Append(given, line) => \A i \in line.calls : Hands(new, n, i)
  PROVE MadeInv'
<1>0. /\ sent \in Seq(Chunks) /\ new \in Seq(Chunks) /\ given \in Seq(Lines)
      /\ provider \in {"cloud", "ollama"} /\ due = <<>> /\ open
  BY DEF StreamInv, TypeOK, DueInv, Batch, Scanning
<1>. SUFFICES ASSUME NEW all, all = sent \o new PROVE MadeInv'
  OBVIOUS
<1>1. Made = sent /\ Made' = all /\ ended = "no"
  BY <1>0 DEF Made, MadeInv, Scanning
<1>2. /\ Len(sent) \in Nat /\ Len(new) \in Nat /\ Len(all) = Len(sent) + Len(new)
      /\ \A k \in 1..Len(sent) : all[k] = sent[k]
      /\ \A j \in 1..Len(new) : all[Len(sent) + j] = new[j]
      /\ \A k \in 1..(Len(sent) + Len(new)) :
           k \in 1..Len(sent) \/ \E j \in 1..Len(new) : k = Len(sent) + j
  <2>1. sent \in Seq(Chunks) /\ new \in Seq(Chunks)
    BY <1>0
  <2>2. /\ Len(sent) \in Nat /\ Len(new) \in Nat
        /\ Len(sent \o new) = Len(sent) + Len(new)
        /\ \A k \in 1..Len(sent) : (sent \o new)[k] = sent[k]
        /\ \A j \in 1..Len(new) : (sent \o new)[Len(sent) + j] = new[j]
        /\ \A k \in 1..(Len(sent) + Len(new)) :
             k \in 1..Len(sent) \/ \E j \in 1..Len(new) : k = Len(sent) + j
    BY ONLY <2>1, MadeSplit
  <2>. QED
    BY <2>2, Zenon
<1>3. /\ Len(given) \in Nat /\ n \in Nat
      /\ \/ n = Len(given) /\ given' = given
         \/ \E line \in Lines : n = Len(given) + 1 /\ given' = Append(given, line)
                                /\ given'[n] = line
      /\ \A m \in 1..Len(given) : given'[m] = given[m]
  <2>1. CASE given' = given
    BY <1>0, <2>1
  <2>2. ASSUME NEW line \in Lines, given' = Append(given, line)
        PROVE /\ n = Len(given) + 1 /\ given'[n] = line
              /\ \A m \in 1..Len(given) : given'[m] = given[m]
    BY <1>0, <2>2
  <2>. QED
    BY <1>0, <2>1, <2>2
<1>4. /\ \A k \in 1..Len(sent) : sent[k] \in Chunks /\ Sound(sent[k]) /\ sent[k].line \in 0..Len(given)
      /\ \A j \in 1..Len(new) : new[j] \in Chunks /\ new[j].line = n /\ Holds(new, new[j])
      /\ \A j, l \in 1..Len(new) : new[j].kind = new[l].kind => j = l
  <2>1. ASSUME NEW k \in 1..Len(sent)
        PROVE sent[k] \in Chunks /\ Sound(sent[k]) /\ sent[k].line \in 0..Len(given)
    <3>1. sent[k] \in Chunks /\ Holds(sent, sent[k])
      BY <1>0 DEF Holds
    <3>2. Sound(sent[k])
      BY <1>1, <3>1 DEF MadeInv, SoundInv
    <3>. QED
      BY <3>1, <3>2 DEF Sound
  <2>2. ASSUME NEW j \in 1..Len(new)
        PROVE new[j] \in Chunks /\ new[j].line = n /\ Holds(new, new[j])
    <3>1. new[j] \in Chunks
      BY <1>0
    <3>2. new[j].line = n
      BY DEF Batch
    <3>. QED
      BY <3>1, <3>2 DEF Holds
  <2>3. \A j, l \in 1..Len(new) : new[j].kind = new[l].kind => j = l
    BY DEF Batch
  <2>. QED
    BY <2>1, <2>2, <2>3
<1>5. SoundInv'
  <2>. SUFFICES ASSUME NEW c \in Chunks, Holds(all, c) PROVE Sound(c)'
    BY <1>1 DEF SoundInv
  <2>1. PICK k \in 1..(Len(sent) + Len(new)) : all[k] = c
    BY <1>2 DEF Holds
  <2>2. CASE k \in 1..Len(sent)
    <3>1. Sound(c)
      BY <1>2, <1>4, <2>1, <2>2
    <3>. QED
      BY <3>1, SoundKept DEF StreamInv
  <2>3. ASSUME NEW j \in 1..Len(new), k = Len(sent) + j PROVE Sound(c)'
    BY <1>2, <1>4, <2>1, <2>3
  <2>. QED
    BY <1>2, <2>2, <2>3
<1>6. OrderInv'
  <2>1. ASSUME NEW k \in 1..Len(sent), NEW l \in 1..Len(sent), k < l
        PROVE /\ sent[k].line <= sent[l].line
              /\ sent[k].kind = "content" /\ sent[l].kind = "content" => sent[k].line < sent[l].line
              /\ sent[k].kind = "tools" /\ sent[l].kind = "tools" => sent[k].line < sent[l].line
    BY <1>1, <2>1 DEF MadeInv, OrderInv, Ordered
  <2>2. ASSUME NEW k \in 1..Len(sent), NEW j \in 1..Len(new)
        PROVE /\ sent[k].line <= new[j].line
              /\ sent[k].kind = "content" /\ new[j].kind = "content" => sent[k].line < new[j].line
              /\ sent[k].kind = "tools" /\ new[j].kind = "tools" /\ ended' # "body" =>
                   sent[k].line < new[j].line
    <3>1. sent[k].line \in 0..Len(given) /\ new[j].line = n /\ Holds(new, new[j])
      BY <1>4
    <3>2. CASE given' = given
      <4>1. new[j].kind # "content" /\ (new[j].kind = "tools" => ended' = "body")
        BY <3>1, <3>2
      <4>2. sent[k].line <= n
        BY <1>3, <3>1, <3>2
      <4>. QED
        BY <3>1, <4>1, <4>2
    <3>3. CASE given' # given
      <4>1. sent[k].line < n
        BY <1>3, <3>1, <3>3
      <4>. QED
        BY <1>3, <3>1, <4>1
    <3>. QED
      BY <3>2, <3>3
  <2>3. ASSUME NEW k \in 1..Len(new), NEW l \in 1..Len(new), k < l
        PROVE new[k].line <= new[l].line /\ new[k].kind # new[l].kind
    BY <1>3, <1>4, <2>3
  <2>4. ASSUME NEW k \in 1..Len(all), NEW l \in 1..Len(all), k < l
        PROVE /\ all[k].line <= all[l].line
              /\ all[k].kind = "content" /\ all[l].kind = "content" => all[k].line < all[l].line
              /\ all[k].kind = "tools" /\ all[l].kind = "tools" /\ ended' # "body" =>
                   all[k].line < all[l].line
    <3>1. CASE l \in 1..Len(sent)
      <4>1. k \in 1..Len(sent) /\ all[k] = sent[k] /\ all[l] = sent[l]
        BY <1>2, <2>4, <3>1
      <4>. QED
        BY <2>1, <2>4, <3>1, <4>1
    <3>2. ASSUME NEW j \in 1..Len(new), l = Len(sent) + j, k \in 1..Len(sent)
          PROVE /\ all[k].line <= all[l].line
                /\ all[k].kind = "content" /\ all[l].kind = "content" => all[k].line < all[l].line
                /\ all[k].kind = "tools" /\ all[l].kind = "tools" /\ ended' # "body" =>
                     all[k].line < all[l].line
      <4>1. all[k] = sent[k] /\ all[l] = new[j]
        BY <1>2, <3>2
      <4>. QED
        BY <2>2, <3>2, <4>1
    <3>3. ASSUME NEW j \in 1..Len(new), l = Len(sent) + j, NEW i \in 1..Len(new), k = Len(sent) + i
          PROVE all[k].line <= all[l].line /\ all[k].kind # all[l].kind
      <4>1. all[k] = new[i] /\ all[l] = new[j]
        BY <1>2, <3>3
      <4>2. Len(sent) \in Nat /\ Len(new) \in Nat
        BY <1>2
      <4>3. i < j
        BY <2>4, <3>3, <4>2
      <4>. QED
        BY <2>3, <4>1, <4>3
    <3>4. /\ k \in 1..Len(sent) \/ \E i \in 1..Len(new) : k = Len(sent) + i
          /\ l \in 1..Len(sent) \/ \E j \in 1..Len(new) : l = Len(sent) + j
      BY <1>2
    <3>. QED
      BY <3>1, <3>2, <3>3, <3>4
  <2>5. Ordered(all, ended')
    BY <2>4 DEF Ordered
  <2>. QED
    BY <1>1, <2>5 DEF OrderInv
<1>7. ASSUME NEW m, NEW i
      PROVE /\ Says(sent, m) \/ Says(new, m) => Says(all, m)
            /\ Hands(sent, m, i) \/ Hands(new, m, i) => Hands(all, m, i)
  <2>1. \A k \in 1..Len(sent) : k \in 1..Len(all)
    BY <1>2
  <2>2. \A j \in 1..Len(new) : Len(sent) + j \in 1..Len(all)
    BY <1>2
  <2>3. Says(sent, m) => Says(all, m)
    BY <1>2, <2>1 DEF Says
  <2>4. ASSUME Says(new, m) PROVE Says(all, m)
    <3>1. PICK j \in 1..Len(new) : new[j].kind = "content" /\ new[j].line = m
      BY <2>4 DEF Says
    <3>2. Len(sent) + j \in 1..Len(all) /\ all[Len(sent) + j] = new[j]
      BY <1>2, <2>2
    <3>. QED
      BY <3>1, <3>2 DEF Says
  <2>5. Hands(sent, m, i) => Hands(all, m, i)
    BY <1>2, <2>1 DEF Hands
  <2>6. ASSUME Hands(new, m, i) PROVE Hands(all, m, i)
    <3>1. PICK j \in 1..Len(new) : new[j].line = m /\ Brings(new[j], i)
      BY <2>6 DEF Hands
    <3>2. Len(sent) + j \in 1..Len(all) /\ all[Len(sent) + j] = new[j]
      BY <1>2, <2>2
    <3>. QED
      BY <3>1, <3>2 DEF Hands
  <2>. QED
    BY <2>3, <2>4, <2>5, <2>6
<1>8. TextInv'
  <2>. SUFFICES ASSUME NEW m \in 1..Len(given'), given'[m].text PROVE Says(all, m)
    BY <1>1 DEF TextInv
  <2>1. CASE m \in 1..Len(given)
    <3>1. given[m].text
      BY <1>3, <2>1
    <3>. QED
      BY <1>1, <1>7, <2>1, <3>1 DEF MadeInv, TextInv
  <2>2. CASE m \notin 1..Len(given)
    <3>1. PICK line \in Lines : given' = Append(given, line) /\ m = n /\ given'[n] = line
      BY <1>3, <2>2
    <3>2. Says(new, n)
      BY <3>1
    <3>. QED
      BY <1>7, <3>1, <3>2
  <2>. QED
    BY <2>1, <2>2
<1>9. StopInv'
  <2>. SUFFICES ASSUME provider = "cloud", ended' # "body",
                       NEW k \in 1..Len(all), all[k].kind = "tools"
                PROVE all[k].line \in Stops'
    BY <1>1 DEF StopInv
  <2>1. CASE k \in 1..Len(sent)
    <3>1. sent[k].line \in Stops
      BY <1>1, <1>2, <2>1 DEF MadeInv, StopInv
    <3>2. DOMAIN given = 1..Len(given) /\ DOMAIN given' = 1..n /\ 1..Len(given) \subseteq 1..n
      BY <1>0, <1>3
    <3>3. Stops \subseteq Stops'
      BY <1>3, <3>2 DEF Stops
    <3>. QED
      BY <1>2, <2>1, <3>1, <3>3
  <2>2. ASSUME NEW j \in 1..Len(new), k = Len(sent) + j PROVE all[k].line \in Stops'
    BY <1>2, <1>4, <2>2
  <2>. QED
    BY <1>2, <2>1, <2>2
<1>10. BodyInv'
  BY <1>1, <1>7 DEF BodyInv
<1>11. OllamaInv'
  <2>. SUFFICES ASSUME provider = "ollama", NEW m \in 1..Len(given'), NEW i \in given'[m].calls
                PROVE Hands(all, m, i)
    BY <1>1 DEF OllamaInv
  <2>1. CASE m \in 1..Len(given)
    <3>1. i \in given[m].calls
      BY <1>3, <2>1
    <3>. QED
      BY <1>1, <1>7, <2>1, <3>1 DEF MadeInv, OllamaInv
  <2>2. CASE m \notin 1..Len(given)
    <3>1. PICK line \in Lines : given' = Append(given, line) /\ m = n /\ given'[n] = line
      BY <1>3, <2>2
    <3>2. Hands(new, n, i)
      BY <3>1
    <3>. QED
      BY <1>7, <3>1, <3>2
  <2>. QED
    BY <2>1, <2>2
<1>. QED
  BY <1>5, <1>6, <1>8, <1>9, <1>10, <1>11 DEF MadeInv

\* The chunks as the actions make them: a text if a line was read, the calls of acc or
\* nothing, a verdict or nothing.
Makes(n, a, tools, v, acc, kind) ==
  /\ n = Len(given') /\ due' = a \o tools \o v
  /\ tools = <<>> \/ tools \in Flush(acc, n)
  /\ v = <<>> \/ v = <<Verdict(kind, n)>>
  /\ \/ given' = given /\ a = <<>>
     \/ \E line \in Lines : given' = Append(given, line) /\ a = Opening(line, n)
  /\ \A i \in Indexes : acc[i] # <<>> =>
       IF provider = "cloud" THEN Lists(acc[i], FragmentLines(given', i, n))
       ELSE n \in DOMAIN given' /\ i \in given'[n].calls /\ acc[i] = <<n>>
  /\ given' = given /\ tools # <<>> => ended' = "body"
  /\ provider = "cloud" /\ ended' # "body" /\ tools # <<>> => n \in Stops'
  /\ provider = "cloud" /\ ended' = "body" =>
       /\ tools \in Flush(acc, n)
       /\ \A i \in Indexes : Lists(acc[i], FragmentLines(given', i, n))
  /\ provider = "ollama" => \A line \in Lines : given' = Append(given, line) =>
       tools \in Flush(acc, n) /\ \A i \in line.calls : acc[i] # <<>>

LEMMA ScanMakes ==
  ASSUME StreamInv, MadeInv, Scanning, AccumInv', UNCHANGED <<provider, sent, open>>,
         NEW n, NEW a, NEW tools, NEW v, NEW acc \in [Indexes -> Seq(Nat)],
         NEW kind \in {"done", "failed", "canceled"}, Makes(n, a, tools, v, acc, kind)
  PROVE MadeInv'
<1>. SUFFICES ASSUME NEW new, new = due' PROVE MadeInv'
  OBVIOUS
<1>. USE DEF Makes
<1>0. n = Len(given') /\ new = a \o tools \o v
  OBVIOUS
<1>1. /\ given \in Seq(Lines) /\ Len(given) \in Nat /\ n \in Nat
      /\ \A line : given' = Append(given, line) =>
           n = Len(given) + 1 /\ given'[n] = line /\ given' # given
      /\ given' \in Seq(Lines)
  <2>1. given \in Seq(Lines) /\ Len(given) \in Nat
    BY DEF StreamInv, TypeOK
  <2>2. ASSUME NEW line \in Lines, given' = Append(given, line)
        PROVE given' \in Seq(Lines) /\ n \in Nat
    BY <1>0, <2>1, <2>2
  <2>3. CASE given' = given
    <3>1. \A line : given' # Append(given, line)
      BY <1>0, <2>1, <2>3
    <3>. QED
      BY <1>0, <2>1, <2>3, <3>1
  <2>4. ASSUME NEW line \in Lines, given' = Append(given, line), NEW other,
               given' = Append(given, other)
        PROVE n = Len(given) + 1 /\ given'[n] = other /\ given' # given
    BY <1>0, <2>1, <2>4
  <2>. QED
    BY <1>0, <2>1, <2>2, <2>3, <2>4
<1>2. /\ AtMost(a, "content", n)
      /\ \A c : a = <<c>> => /\ c.kind = "content" /\ c.line = n /\ c.calls = <<>>
                             /\ given' # given /\ given'[n].text /\ n \in 1..n
      /\ \A line : given' = Append(given, line) /\ line.text => \E c : a = <<c>>
  <2>1. CASE a = <<>>
    <3>1. \A c : a # <<c>>
      BY <1>0, <2>1
    <3>2. ASSUME NEW line, given' = Append(given, line), line.text PROVE FALSE
      <4>1. PICK l \in Lines : given' = Append(given, l) /\ a = Opening(l, n)
        BY <1>0, <1>1, <3>2
      <4>2. given'[n] = l /\ given'[n] = line
        BY <1>0, <1>1, <3>2, <4>1
      <4>. QED
        BY <1>0, <2>1, <3>2, <4>1, <4>2 DEF Opening
    <3>. QED
      BY <1>0, <2>1, <3>1, <3>2 DEF AtMost
  <2>2. CASE a # <<>>
    <3>1. PICK line \in Lines : given' = Append(given, line) /\ a = Opening(line, n)
      BY <1>0, <2>2
    <3>2. a = <<Text(n)>> /\ line.text
      BY <1>0, <2>2, <3>1 DEF Opening
    <3>3. Text(n) \in Chunks /\ Text(n).kind = "content" /\ Text(n).line = n /\ Text(n).calls = <<>>
      BY <1>0, <1>1, TextType DEF Text, Chunk
    <3>4. \A c : a = <<c>> => c = Text(n)
      BY <1>0, <3>2
    <3>5. given' # given /\ given'[n].text /\ n \in 1..n
      BY <1>0, <1>1, <3>1, <3>2
    <3>. QED
      BY <1>0, <3>2, <3>3, <3>4, <3>5 DEF AtMost
  <2>. QED
    BY <1>0, <2>1, <2>2
<1>3. /\ AtMost(tools, "tools", n)
      /\ \A c : tools = <<c>> => c.kind = "tools" /\ c.line = n /\ Delivers(c, acc)
      /\ \A i \in Indexes : tools \in Flush(acc, n) /\ acc[i] # <<>> =>
           \E c : tools = <<c>> /\ Brings(c, i)
  <2>1. CASE tools = <<>>
    <3>1. \A c : tools # <<c>>
      BY <1>0, <2>1
    <3>2. ASSUME tools \in Flush(acc, n) PROVE \A i \in Indexes : acc[i] = <<>>
      <4>1. n \in Nat /\ ~ \E c \in Chunks : tools = <<c>> /\ c.kind = "tools" /\ c.line = n /\ Delivers(c, acc)
        BY <1>0, <1>1, <3>1
      <4>. QED
        BY <1>0, <3>2, <4>1, FlushDelivers, Zenon
    <3>. QED
      BY <1>0, <2>1, <3>1, <3>2 DEF AtMost
  <2>2. CASE tools # <<>>
    <3>1. PICK d \in Chunks : tools = <<d>> /\ d.kind = "tools" /\ d.line = n /\ Delivers(d, acc)
      BY <1>0, <1>1, <2>2, FlushDelivers
    <3>2. \A c : tools = <<c>> => c = d
      BY <1>0, <3>1
    <3>. QED
      BY <1>0, <3>1, <3>2 DEF AtMost, Delivers
  <2>. QED
    BY <1>0, <2>1, <2>2
<1>4. /\ AtMost(v, kind, n)
      /\ \A c : v = <<c>> => c.kind = kind /\ c.line = n /\ c.calls = <<>>
  <2>1. /\ Verdict(kind, n) \in Chunks /\ Verdict(kind, n).kind = kind
        /\ Verdict(kind, n).line = n /\ Verdict(kind, n).calls = <<>>
    BY <1>0, <1>1, VerdictType DEF Kinds, Verdict, Chunk
  <2>2. \A c : v = <<c>> => c = Verdict(kind, n)
    BY <1>0
  <2>. QED
    BY <1>0, <2>1, <2>2 DEF AtMost
<1>5. /\ Batch(new, n)
      /\ \A c : Holds(new, c) <=> a = <<c>> \/ tools = <<c>> \/ v = <<c>>
      /\ v # <<>> => new # <<>> /\ new[Len(new)].kind = kind
  <2>1. AtMost(a, "content", n) /\ AtMost(tools, "tools", n) /\ AtMost(v, kind, n) /\ n \in Nat
    BY <1>0, <1>1, <1>2, <1>3, <1>4
  <2>. QED
    <3>1. new = a \o tools \o v /\ kind \in {"done", "failed", "canceled"}
      BY <1>0
    <3>2. Gathers(new, n, a, tools, v, kind)
      BY <1>0, <2>1, <3>1, BatchFacts
    <3>. QED
      BY <1>0, <3>2 DEF Gathers
<1>6. ASSUME NEW c \in Chunks, Holds(new, c) PROVE Sound(c)'
  <2>1. n \in 0..Len(given')
    BY <1>0, <1>1
  <2>2. CASE a = <<c>>
    BY <1>0, <1>2, <2>1, <2>2 DEF Sound
  <2>3. CASE tools = <<c>>
    <3>1. c.kind = "tools" /\ c.line = n /\ Delivers(c, acc)
      BY <1>0, <1>3, <2>3
    <3>2. ASSUME NEW j \in DOMAIN c.calls PROVE Whole(c.calls[j], c.line)'
      BY <1>0, <3>1 DEF Delivers, Whole
    <3>. QED
      BY <1>0, <2>1, <3>1, <3>2 DEF Sound, Delivers
  <2>4. CASE v = <<c>>
    BY <1>0, <1>4, <2>1, <2>4 DEF Sound
  <2>. QED
    BY <1>0, <1>5, <1>6, <2>2, <2>3, <2>4
<1>7. \A c : Holds(new, c) => c.kind \in {"content", "tools", kind}
  BY <1>0, <1>2, <1>3, <1>4, <1>5
<1>8. given' = given => \A c : Holds(new, c) =>
        c.kind # "content" /\ (c.kind = "tools" => ended' = "body")
  <2>. SUFFICES ASSUME given' = given, NEW c, Holds(new, c)
                PROVE c.kind # "content" /\ (c.kind = "tools" => ended' = "body")
    BY <1>0
  <2>1. CASE a = <<c>>
    BY <1>0, <1>2, <2>1
  <2>2. CASE tools = <<c>>
    BY <1>0, <1>3, <2>2
  <2>3. CASE v = <<c>>
    BY <1>0, <1>4, <2>3
  <2>. QED
    BY <1>0, <1>5, <2>1, <2>2, <2>3
<1>9. ASSUME NEW line, given' = Append(given, line), line.text PROVE Says(new, n)
  <2>1. PICK c : a = <<c>>
    BY <1>0, <1>2, <1>9
  <2>. QED
    BY <1>0, <1>2, <1>5, <2>1 DEF Says, Holds
<1>10. provider = "cloud" /\ ended' # "body" => \A c : Holds(new, c) /\ c.kind = "tools" => n \in Stops'
  <2>. SUFFICES ASSUME provider = "cloud", ended' # "body", NEW c, Holds(new, c), c.kind = "tools"
                PROVE tools # <<>>
    BY <1>0
  <2>. QED
    BY <1>0, <1>2, <1>4, <1>5
<1>11. ASSUME NEW i \in Indexes, tools \in Flush(acc, n), acc[i] # <<>> PROVE Hands(new, n, i)
  <2>1. PICK c : tools = <<c>> /\ Brings(c, i)
    BY <1>0, <1>3, <1>11
  <2>2. c.line = n
    BY <1>0, <1>3, <2>1
  <2>3. PICK k \in 1..Len(new) : new[k] = c
    BY <1>0, <1>5, <2>1 DEF Holds
  <2>. QED
    BY <1>0, <2>1, <2>2, <2>3 DEF Hands
<1>12. provider = "cloud" /\ ended' = "body" =>
         \A i \in Indexes : FragmentLines(given', i, n) # {} => Hands(new, n, i)
  <2>1. \A S : Lists(<<>>, S) => S = {}
    BY DEF Lists
  <2>. QED
    BY <1>0, <1>11, <2>1
<1>13. provider = "ollama" =>
         \A line : given' = Append(given, line) => \A i \in line.calls : Hands(new, n, i)
  <2>. SUFFICES ASSUME provider = "ollama", NEW line, given' = Append(given, line), NEW i \in line.calls
                PROVE Hands(new, n, i)
    BY <1>0
  <2>1. line \in Lines
    <3>1. n \in 1..Len(given') /\ given'[n] = line
      BY <1>0, <1>1
    <3>. QED
      BY <1>0, <1>1, <3>1
  <2>2. i \in Indexes
    BY <1>0, <2>1 DEF Lines
  <2>. QED
    BY <1>0, <1>11, <2>1, <2>2
<1>14. given' = given \/ \E line \in Lines : given' = Append(given, line)
  BY <1>0
<1>. QED
  BY <1>0, <1>5, <1>6, <1>8, <1>9, <1>10, <1>12, <1>13, <1>14, ScanKeepsMade

\* Nothing is read and nothing is made.
LEMMA NothingMade ==
  ASSUME MadeInv, NEW made, made = Made, made = Made',
         UNCHANGED <<provider, given, accum, ended>>
  PROVE MadeInv'
<1>1. AccumInv' /\ TextInv'
  BY DEF MadeInv, AccumInv, TextInv
<1>2. SoundInv'
  BY DEF MadeInv, SoundInv, Sound, Whole
<1>3. OrderInv'
  BY DEF MadeInv, OrderInv
<1>4. StopInv'
  <2>1. Stops' = Stops
    BY DEF Stops
  <2>. QED
    BY <2>1 DEF MadeInv, StopInv
<1>5. BodyInv' /\ OllamaInv'
  BY DEF MadeInv, BodyInv, OllamaInv
<1>. QED
  BY <1>1, <1>2, <1>3, <1>4, <1>5 DEF MadeInv

LEMMA MadeInit == Init => MadeInv
<1>. SUFFICES ASSUME Init PROVE MadeInv
  OBVIOUS
<1>1. Made = <<>> /\ Len(Made) = 0 /\ Len(given) = 0
  BY DEF Init, Made
<1>2. AccumInv
  BY <1>1 DEF Init, AccumInv, Lists, FragmentLines
<1>3. SoundInv
  BY <1>1 DEF SoundInv, Holds
<1>. QED
  BY <1>1, <1>2, <1>3 DEF Init, MadeInv, OrderInv, Ordered, TextInv, StopInv, BodyInv, FragmentLines,
     OllamaInv

LEMMA SendKeepsMade ==
  ASSUME StreamInv, MadeInv, Send
  PROVE MadeInv'
<1>1. /\ due \in Seq(Chunks) /\ due # <<>> /\ sent \in Seq(Chunks)
      /\ sent' = Append(sent, Head(due)) /\ due' = Tail(due)
      /\ UNCHANGED <<provider, given, accum, ended>>
  BY DEF Send, StreamInv, TypeOK
<1>2. sent \o due = Append(sent, Head(due)) \o Tail(due)
  BY <1>1
<1>3. Made = sent \o due /\ Made' = sent \o due
  BY <1>1, <1>2 DEF Made
<1>. QED
  BY <1>1, <1>3, NothingMade

LEMMA MadeStep == StreamInv /\ MadeInv /\ [Next]_vars => MadeInv'
<1>. SUFFICES ASSUME StreamInv, MadeInv, [Next]_vars PROVE MadeInv'
  OBVIOUS
<1>. TypeOK /\ AccumInv
  BY DEF StreamInv, MadeInv
<1>0. /\ Len(given) \in Nat /\ given \in Seq(Lines) /\ accum \in [Indexes -> Seq(Nat)]
      /\ Scanning => ended = "no"
  <2>1. Len(given) \in Nat /\ 1..Len(given) \subseteq Nat
    BY DEF TypeOK
  <2>2. ASSUME NEW i \in Indexes PROVE accum[i] \in Seq(Nat)
    BY <2>1 DEF TypeOK
  <2>. QED
    BY <2>1, <2>2 DEF TypeOK, Scanning
<1>1. ASSUME NEW line \in Lines, CloudLine(line) PROVE MadeInv'
  <2>1. /\ Scanning /\ given' = Append(given, line) /\ Accumulate(line, Len(given'))
        /\ UNCHANGED <<provider, sent, open, cancelled, ended>> /\ provider = "cloud"
    BY <1>1 DEF CloudLine, Reads
  <2>2. accum' \in [Indexes -> Seq(Nat)] /\ Len(given') \in Nat
    BY <2>1, AccumulateType
  <2>3. AccumInv'
    BY <2>1, AccumStep
  <2>4. PICK tools \in (IF line.last THEN Flush(accum', Len(given')) ELSE {<<>>}) :
          due' = Opening(line, Len(given')) \o tools
    BY <1>1 DEF CloudLine
  <2>. SUFFICES ASSUME NEW n, n = Len(given'), NEW acc, acc = accum' PROVE MadeInv'
    OBVIOUS
  <2>5. due' = Opening(line, n) \o tools \o <<>>
    <3>1. Plain(tools)
      BY <2>2, <2>4, FlushPlain, EmptyPlain
    <3>2. Opening(line, n) \o tools \in Seq(Chunks)
      BY <2>2, <3>1, OpeningPlain, PlainConcat DEF Plain
    <3>. QED
      BY <2>4, <3>2
  <2>6. \A i \in Indexes : Lists(acc[i], FragmentLines(given', i, n))
    BY <2>1, <2>3 DEF AccumInv
  <2>7. given' # given
    BY <1>0, <2>1
  <2>8. tools # <<>> => n \in Stops'
    <3>1. n \in DOMAIN given' /\ given'[n] = line
      BY <1>0, <2>1
    <3>. QED
      BY <2>4, <3>1 DEF Stops
  <2>9. tools = <<>> \/ tools \in Flush(acc, n)
    BY <2>4
  <2>10. ended' = "no"
    BY <1>0, <2>1
  <2>11. Makes(n, Opening(line, n), tools, <<>>, acc, "done")
    BY <2>1, <2>5, <2>6, <2>7, <2>8, <2>9, <2>10 DEF Makes
  <2>. QED
    BY <2>1, <2>2, <2>3, <2>11, ScanMakes
<1>2. ASSUME NEW line \in Lines, OllamaLine(line) PROVE MadeInv'
  <2>. DEFINE m == Len(given')
              whole == [i \in Indexes |-> IF i \in line.calls THEN <<m>> ELSE <<>>]
  <2>1. /\ Scanning /\ given' = Append(given, line) /\ provider = "ollama"
        /\ UNCHANGED <<provider, accum, sent, open, cancelled>>
        /\ ended' = IF line.last THEN "marker" ELSE ended
    BY <1>2 DEF OllamaLine, Reads
  <2>2. m \in Nat /\ m \in DOMAIN given' /\ given'[m] = line /\ whole \in [Indexes -> Seq(Nat)]
    BY <1>0, <2>1
  <2>3. PICK tools \in Flush(whole, m) :
          due' = Opening(line, m) \o tools \o (IF line.last THEN <<Verdict("done", m)>> ELSE <<>>)
    BY <1>2 DEF OllamaLine
  <2>4. AccumInv'
    BY <2>1 DEF AccumInv
  <2>. SUFFICES ASSUME NEW n, n = Len(given'), NEW new, new = due', NEW acc, acc = whole,
                       NEW a, a = Opening(line, n), NEW v, v = IF line.last THEN <<Verdict("done", n)>> ELSE <<>>
                PROVE MadeInv'
    OBVIOUS
  <2>5. new = a \o tools \o v
    BY <2>3
  <2>6. \A i \in Indexes : acc[i] # <<>> => i \in given'[n].calls /\ acc[i] = <<n>>
    BY <2>2
  <2>7. \A i \in line.calls : acc[i] # <<>>
    BY <2>2 DEF Lines
  <2>8. given' # given
    BY <1>0, <2>1
  <2>9. /\ tools \in Flush(acc, n) /\ acc \in [Indexes -> Seq(Nat)] /\ n \in DOMAIN given'
        /\ \A l : given' = Append(given, l) => given'[n] = l
    <3>1. ASSUME NEW l, given' = Append(given, l) PROVE given'[n] = l
      BY <1>0, <2>1, <3>1
    <3>. QED
      BY <2>2, <2>3, <3>1
  <2>. HIDE DEF whole, m
  <2>10. /\ v = <<>> \/ v = <<Verdict("done", n)>>
         /\ ended' # "no" => v # <<>>
    BY <1>0, <2>1
  <2>11. \A l \in Lines : given' = Append(given, l) =>
           tools \in Flush(acc, n) /\ \A i \in l.calls : acc[i] # <<>>
    <3>1. given'[n] = line
      BY <2>2 DEF m
    <3>. QED
      BY <2>7, <2>9, <3>1
  <2>12. Makes(n, a, tools, v, acc, "done")
    BY <2>1, <2>5, <2>6, <2>8, <2>9, <2>10, <2>11 DEF Makes
  <2>. QED
    BY <2>1, <2>4, <2>9, <2>12, ScanMakes
<1>3. ASSUME NEW kind \in {"done", "failed", "canceled"}, Scanning,
             due' = <<Verdict(kind, Len(given))>>, ended' # "body",
             UNCHANGED <<provider, given, accum, sent, open>>
      PROVE MadeInv'
  <2>1. AccumInv'
    BY <1>3 DEF AccumInv
  <2>2. due' = <<>> \o <<>> \o <<Verdict(kind, Len(given))>>
    <3>1. <<Verdict(kind, Len(given))>> \in Seq(Chunks)
      BY <1>0, VerdictType DEF Kinds
    <3>. QED
      BY <1>3, <3>1
  <2>. DEFINE none == [i \in Indexes |-> <<>>]
  <2>3. none \in [Indexes -> Seq(Nat)] /\ \A i \in Indexes : none[i] = <<>>
    OBVIOUS
  <2>. HIDE DEF none
  <2>. SUFFICES ASSUME NEW n, n = Len(given'), NEW new, new = due', NEW a, a = <<>>,
                       NEW tools, tools = <<>>, NEW v, v = <<Verdict(kind, n)>>
                PROVE MadeInv'
    OBVIOUS
  <2>4. \A l \in Lines : given' # Append(given, l)
    BY <1>0, <1>3
  <2>5. new = a \o tools \o v /\ v # <<>>
    BY <1>3, <2>2
  <2>6. Makes(n, a, tools, v, none, kind)
    BY <1>3, <2>3, <2>4, <2>5 DEF Makes
  <2>. QED
    BY <1>3, <2>1, <2>3, <2>6, ScanMakes
<1>4. CASE DoneMarker \/ CancelSeen \/ ReadFails
  BY <1>3, <1>4 DEF DoneMarker, CancelSeen, ReadFails
<1>5. CASE BodyEnds
  <2>1. PICK tools \in (IF provider = "cloud" THEN Flush(accum, Len(given)) ELSE {<<>>}) :
          due' = tools \o <<Verdict("done", Len(given))>>
    BY <1>5 DEF BodyEnds
  <2>2. Scanning /\ ended' = "body" /\ UNCHANGED <<provider, given, accum, sent, open>>
    BY <1>5 DEF BodyEnds
  <2>3. AccumInv'
    BY <2>2 DEF AccumInv
  <2>4. due' = <<>> \o tools \o <<Verdict("done", Len(given))>>
    <3>1. Plain(tools)
      BY <1>0, <2>1, FlushPlain, EmptyPlain
    <3>2. <<>> \o tools = tools
      BY <3>1 DEF Plain
    <3>. QED
      BY <2>1, <3>2
  <2>5. provider = "cloud" => \A i \in Indexes : Lists(accum[i], FragmentLines(given, i, Len(given)))
    BY DEF AccumInv
  <2>6. \A l : given' # Append(given, l)
    BY <1>0, <2>2
  <2>. SUFFICES ASSUME NEW n, n = Len(given'), NEW new, new = due', NEW a, a = <<>>,
                       NEW v, v = <<Verdict("done", n)>>, NEW acc,
                       acc = IF provider = "cloud" THEN accum ELSE [i \in Indexes |-> <<>>]
                PROVE MadeInv'
    OBVIOUS
  <2>7. /\ acc \in [Indexes -> Seq(Nat)]
        /\ tools = <<>> \/ tools \in Flush(acc, n)
        /\ provider = "cloud" =>
             tools \in Flush(acc, n) /\ \A i \in Indexes : Lists(acc[i], FragmentLines(given', i, n))
        /\ provider # "cloud" => \A i \in Indexes : acc[i] = <<>>
    <3>1. CASE provider = "cloud"
      BY <1>0, <2>1, <2>2, <2>5, <3>1
    <3>2. CASE provider # "cloud"
      BY <2>1, <3>2
    <3>. QED
      BY <3>1, <3>2
  <2>8. new = a \o tools \o v /\ v # <<>>
    BY <2>2, <2>4
  <2>9. Makes(n, a, tools, v, acc, "done")
    BY <2>2, <2>6, <2>7, <2>8 DEF Makes
  <2>. QED
    BY <2>2, <2>3, <2>7, <2>9, ScanMakes
<1>6. CASE Send
  BY <1>6, SendKeepsMade
<1>7. CASE Close \/ Cancel \/ UNCHANGED vars
  <2>1. UNCHANGED <<provider, given, accum, ended, due, sent>>
    BY <1>7 DEF Close, Cancel, vars
  <2>2. Made = sent \o due /\ Made' = sent \o due
    BY <2>1 DEF Made
  <2>. QED
    BY <2>1, <2>2, NothingMade
<1>. QED
  BY <1>1, <1>2, <1>4, <1>5, <1>6, <1>7 DEF Next

LEMMA MadeSafe == Spec => [](StreamInv /\ MadeInv)
BY StreamInit, StreamStep, MadeInit, MadeStep, PTL DEF Spec

-----------------------------------------------------------------------------
(* What the agent receives.                                                 *)

\* What is said of the chunks made, said of the chunks sent.
LEMMA SentFacts ==
  ASSUME StreamInv, MadeInv
  PROVE /\ sent \in Seq(Chunks) /\ DOMAIN sent = 1..Len(sent) /\ Len(sent) \in Nat
        /\ \A k \in 1..Len(sent) : sent[k] \in Chunks /\ Sound(sent[k])
        /\ \A k \in 1..Len(sent) : k \in 1..Len(Made) /\ Made[k] = sent[k]
        /\ ~open => Made = sent
<1>1. sent \in Seq(Chunks) /\ due \in Seq(Chunks)
  BY DEF StreamInv, TypeOK
<1>2. /\ Len(sent) \in Nat /\ Len(Made) = Len(sent) + Len(due) /\ Len(due) \in Nat
      /\ \A k \in 1..Len(sent) : Made[k] = sent[k]
  BY <1>1, MadeSplit DEF Made
<1>3. \A k \in 1..Len(sent) : k \in 1..Len(Made)
  BY <1>2
<1>4. \A k \in 1..Len(sent) : sent[k] \in Chunks /\ Sound(sent[k])
  <2>. SUFFICES ASSUME NEW k \in 1..Len(sent) PROVE sent[k] \in Chunks /\ Sound(sent[k])
    OBVIOUS
  <2>1. sent[k] \in Chunks
    BY <1>1
  <2>2. Holds(Made, sent[k])
    BY <1>2, <1>3 DEF Holds
  <2>. QED
    BY <2>1, <2>2 DEF MadeInv, SoundInv
<1>5. ~open => Made = sent
  BY <1>1 DEF StreamInv, DueInv, Made
<1>. QED
  BY <1>1, <1>2, <1>3, <1>4, <1>5

\* A tool call the agent receives holds exactly the fragments read of it, in their
\* order, however the calls of the reply were interleaved in the body (toolAccum,
\* cloud.go:222-258; whole calls, ollama.go:199-216).
THEOREM CallsAreWhole == Spec => []WholeCalls
<1>1. StreamInv /\ MadeInv => WholeCalls
  <2>. SUFFICES ASSUME StreamInv, MadeInv, NEW k \in DOMAIN sent, NEW j \in DOMAIN sent[k].calls
                PROVE Whole(sent[k].calls[j], sent[k].line)
    BY DEF WholeCalls
  <2>. QED
    BY SentFacts DEF Sound
<1>. QED
  BY <1>1, MadeSafe, PTL

\* With one finish reason and no end of the body to repeat them, the calls of a reply
\* are handed over once (cloud.go:240-258).
THEOREM CallsRunOnce == Spec => []CallOnce
<1>1. StreamInv /\ MadeInv => CallOnce
  <2>. SUFFICES ASSUME StreamInv, MadeInv, provider = "cloud", \A k, l \in Stops : k = l,
                       ended # "body", NEW i \in Indexes,
                       NEW k \in Deliveries(i), NEW l \in Deliveries(i), k # l
                PROVE FALSE
    BY DEF CallOnce
  <2>1. ASSUME NEW d \in Deliveries(i)
        PROVE /\ d \in 1..Len(sent) /\ d \in 1..Len(Made) /\ Made[d] = sent[d]
              /\ sent[d].kind = "tools" /\ sent[d].line \in Stops
    <3>1. d \in 1..Len(sent) /\ sent[d].calls # <<>>
      BY SentFacts DEF Deliveries
    <3>2. sent[d].kind = "tools" /\ d \in 1..Len(Made) /\ Made[d] = sent[d]
      BY <3>1, SentFacts DEF Sound
    <3>. QED
      BY <3>1, <3>2 DEF MadeInv, StopInv
  <2>2. ASSUME NEW c \in Deliveries(i), NEW d \in Deliveries(i), c < d PROVE FALSE
    <3>1. Made[c].line < Made[d].line
      BY <2>1, <2>2 DEF MadeInv, OrderInv, Ordered
    <3>2. Made[c].line = Made[d].line
      BY <2>1
    <3>3. Made[c].line \in Nat
      BY <2>1, SentFacts DEF Chunks
    <3>. QED
      BY <3>1, <3>2, <3>3
  <2>3. k < l \/ l < k
    BY <2>1, SentFacts
  <2>. QED
    BY <2>2, <2>3
<1>. QED
  BY <1>1, MadeSafe, PTL

\* A body that stops without its marker costs nothing: every text and every call that
\* was read has reached the agent when the channel closes (cloud.go:264-280,
\* ollama.go:224-230).
THEOREM NothingIsLost == Spec => []NothingLostAtBodyEnd
<1>1. StreamInv /\ MadeInv => NothingLostAtBodyEnd
  <2>. SUFFICES ASSUME StreamInv, MadeInv, ended = "body", ~open
                PROVE /\ {sent[k].line : k \in TextChunks} = {n \in DOMAIN given : given[n].text}
                      /\ \A k, l \in TextChunks : k < l => sent[k].line < sent[l].line
                      /\ \A i \in Indexes : \A n \in FragmentLines(given, i, Len(given)) :
                           \E k \in Deliveries(i) :
                             sent[k].line = IF provider = "cloud" THEN Len(given) ELSE n
    BY DEF NothingLostAtBodyEnd
  <2>0. /\ Made = sent /\ DOMAIN sent = 1..Len(sent)
        /\ DOMAIN given = 1..Len(given) /\ provider \in {"cloud", "ollama"}
    BY SentFacts DEF StreamInv, TypeOK
  <2>1. ASSUME NEW k \in TextChunks
        PROVE k \in 1..Len(sent) /\ sent[k].kind = "content"
              /\ sent[k].line \in DOMAIN given /\ given[sent[k].line].text
    <3>1. k \in 1..Len(sent) /\ sent[k].kind = "content"
      BY <2>0 DEF TextChunks
    <3>. QED
      BY <2>0, <3>1, SentFacts DEF Sound
  <2>2. ASSUME NEW n \in DOMAIN given, given[n].text
        PROVE \E k \in TextChunks : sent[k].line = n
    BY <2>0, <2>2 DEF MadeInv, TextInv, Says, TextChunks
  <2>3. \A k, l \in TextChunks : k < l => sent[k].line < sent[l].line
    BY <2>0, <2>1 DEF MadeInv, OrderInv, Ordered
  <2>4. ASSUME NEW i \in Indexes, NEW n \in FragmentLines(given, i, Len(given))
        PROVE \E k \in Deliveries(i) :
                sent[k].line = IF provider = "cloud" THEN Len(given) ELSE n
    <3>1. n \in 1..Len(given) /\ i \in given[n].calls
      BY DEF FragmentLines
    <3>2. Hands(sent, IF provider = "cloud" THEN Len(given) ELSE n, i)
      BY <2>0, <3>1 DEF MadeInv, BodyInv, OllamaInv
    <3>. QED
      BY <2>0, <3>2 DEF Hands, Brings, Deliveries
  <2>. QED
    BY <2>1, <2>2, <2>3, <2>4
<1>. QED
  BY <1>1, MadeSafe, PTL
=============================================================================
