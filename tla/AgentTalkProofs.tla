---------------------------- MODULE AgentTalkProofs ----------------------------
(***************************************************************************)
(* Proofs about the conversation an agent keeps for the LLM: every tool     *)
(* call is answered before anything else follows, a call always asks about  *)
(* the current request, and the saved history is what the LLM was told,     *)
(* with entries left out.                                                   *)
(***************************************************************************)
EXTENDS AgentRuntimeProofs, WellFoundedInduction

-----------------------------------------------------------------------------
(* Tool calls and results.  PairedUpTo(conv, n): n results are still to     *)
(* come, and they belong to the last block of calls.                        *)

PairedUpTo(conv, n) ==
  /\ \A i \in 1..Len(conv) : \A k \in 1..conv[i].calls :
       i + k <= Len(conv) => conv[i + k].role = "tool"
  /\ \A i \in 1..Len(conv) :
       conv[i].role = "tool" => \E j \in 1..(i - 1) : i - j <= conv[j].calls
  /\ \A i \in 1..Len(conv) : i + conv[i].calls <= Len(conv) + n
  /\ n > 0 => \E i \in 1..Len(conv) : i + conv[i].calls = Len(conv) + n

Missing == IF pc \in {"tools", "running"} THEN reply.calls ELSE 0
PairInv == PairedUpTo(context, Missing)

LEMMA EntryFields ==
  /\ \A t : User(t).calls = 0 /\ User(t).role = "user"
  /\ Notice.calls = 0 /\ Notice.role = "system"
  /\ Answer.calls = 0 /\ Answer.role = "assistant"
  /\ ToolResult.calls = 0 /\ ToolResult.role = "tool"
  /\ \A n : ToolRequest(n).calls = n /\ ToolRequest(n).role = "assistant"
BY DEF User, Notice, Answer, ToolResult, ToolRequest, Entry

LEMMA AppendFacts ==
  ASSUME NEW conv \in Seq(Entries), NEW e \in Entries
  PROVE /\ Append(conv, e) \in Seq(Entries)
        /\ Len(Append(conv, e)) = Len(conv) + 1
        /\ Len(conv) \in Nat
        /\ \A i \in 1..Len(conv) : Append(conv, e)[i] = conv[i] /\ conv[i].calls \in Nat
        /\ Append(conv, e)[Len(conv) + 1] = e
<1>1. \A i \in 1..Len(conv) : conv[i] \in Entries
  OBVIOUS
<1>2. \A i \in 1..Len(conv) : conv[i].calls \in Nat
  BY <1>1 DEF Entries
<1>. QED
  BY <1>2

\* Anything but a tool's entry may follow a conversation that misses nothing.
LEMMA PairPlain ==
  ASSUME NEW conv \in Seq(Entries), NEW e \in Entries, PairedUpTo(conv, 0),
         e.calls = 0, e.role # "tool"
  PROVE PairedUpTo(Append(conv, e), 0)
<1>. DEFINE more == Append(conv, e)
<1>. HIDE DEF more
<1>0. /\ Len(more) = Len(conv) + 1 /\ Len(conv) \in Nat /\ more[Len(conv) + 1] = e
      /\ \A i \in 1..Len(conv) : more[i] = conv[i] /\ conv[i].calls \in Nat
  BY AppendFacts DEF more
<1>1. \A i \in 1..Len(more) : \A k \in 1..more[i].calls :
        i + k <= Len(more) => more[i + k].role = "tool"
  <2>. SUFFICES ASSUME NEW i \in 1..Len(more), NEW k \in 1..more[i].calls, i + k <= Len(more)
                PROVE more[i + k].role = "tool"
    OBVIOUS
  <2>1. i \in 1..Len(conv) /\ k \in 1..conv[i].calls /\ conv[i].calls \in Nat
    BY <1>0
  <2>2. i + conv[i].calls <= Len(conv)
    BY <1>0, <2>1 DEF PairedUpTo
  <2>3. i + k \in 1..Len(conv)
    BY <1>0, <2>1, <2>2
  <2>4. conv[i + k].role = "tool"
    BY <2>1, <2>3 DEF PairedUpTo
  <2>. QED
    BY <1>0, <2>3, <2>4
<1>2. \A i \in 1..Len(more) :
        more[i].role = "tool" => \E j \in 1..(i - 1) : i - j <= more[j].calls
  <2>. SUFFICES ASSUME NEW i \in 1..Len(more), more[i].role = "tool"
                PROVE \E j \in 1..(i - 1) : i - j <= more[j].calls
    OBVIOUS
  <2>1. i \in 1..Len(conv) /\ conv[i].role = "tool"
    BY <1>0
  <2>2. PICK j \in 1..(i - 1) : i - j <= conv[j].calls
    BY <2>1 DEF PairedUpTo
  <2>3. j \in 1..Len(conv) /\ more[j] = conv[j]
    BY <1>0, <2>1
  <2>. QED
    BY <2>2, <2>3
<1>3. \A i \in 1..Len(more) : i + more[i].calls <= Len(more) + 0
  BY <1>0 DEF PairedUpTo
<1>. QED
  BY <1>1, <1>2, <1>3 DEF PairedUpTo, more

\* A request for n tools opens a block that misses n results.
LEMMA PairRequest ==
  ASSUME NEW conv \in Seq(Entries), PairedUpTo(conv, 0), NEW n \in Nat
  PROVE PairedUpTo(Append(conv, ToolRequest(n)), n)
<1>. DEFINE more == Append(conv, ToolRequest(n))
<1>. HIDE DEF more
<1>0. /\ Len(more) = Len(conv) + 1 /\ Len(conv) \in Nat
      /\ more[Len(conv) + 1].calls = n /\ more[Len(conv) + 1].role = "assistant"
      /\ \A i \in 1..Len(conv) : more[i] = conv[i] /\ conv[i].calls \in Nat
  BY AppendFacts, EntryTypes, EntryFields DEF more
<1>1. \A i \in 1..Len(more) : \A k \in 1..more[i].calls :
        i + k <= Len(more) => more[i + k].role = "tool"
  <2>. SUFFICES ASSUME NEW i \in 1..Len(more), NEW k \in 1..more[i].calls, i + k <= Len(more)
                PROVE more[i + k].role = "tool"
    OBVIOUS
  <2>1. i \in 1..Len(conv) /\ k \in 1..conv[i].calls /\ conv[i].calls \in Nat
    BY <1>0
  <2>2. i + conv[i].calls <= Len(conv)
    BY <1>0, <2>1 DEF PairedUpTo
  <2>3. i + k \in 1..Len(conv)
    BY <1>0, <2>1, <2>2
  <2>4. conv[i + k].role = "tool"
    BY <2>1, <2>3 DEF PairedUpTo
  <2>. QED
    BY <1>0, <2>3, <2>4
<1>2. \A i \in 1..Len(more) :
        more[i].role = "tool" => \E j \in 1..(i - 1) : i - j <= more[j].calls
  <2>. SUFFICES ASSUME NEW i \in 1..Len(more), more[i].role = "tool"
                PROVE \E j \in 1..(i - 1) : i - j <= more[j].calls
    OBVIOUS
  <2>1. i \in 1..Len(conv) /\ conv[i].role = "tool"
    BY <1>0
  <2>2. PICK j \in 1..(i - 1) : i - j <= conv[j].calls
    BY <2>1 DEF PairedUpTo
  <2>3. j \in 1..Len(conv) /\ more[j] = conv[j]
    BY <1>0, <2>1
  <2>. QED
    BY <2>2, <2>3
<1>3. \A i \in 1..Len(more) : i + more[i].calls <= Len(more) + n
  BY <1>0 DEF PairedUpTo
<1>4. Len(conv) + 1 \in 1..Len(more) /\ Len(conv) + 1 + more[Len(conv) + 1].calls = Len(more) + n
  BY <1>0
<1>. QED
  BY <1>1, <1>2, <1>3, <1>4 DEF PairedUpTo, more

\* A result fills the open block, and one less is missing.
LEMMA PairResult ==
  ASSUME NEW conv \in Seq(Entries), NEW n \in Nat, PairedUpTo(conv, n), n > 0
  PROVE PairedUpTo(Append(conv, ToolResult), n - 1)
<1>. DEFINE more == Append(conv, ToolResult)
<1>. HIDE DEF more
<1>0. /\ Len(more) = Len(conv) + 1 /\ Len(conv) \in Nat
      /\ more[Len(conv) + 1].calls = 0 /\ more[Len(conv) + 1].role = "tool"
      /\ \A i \in 1..Len(conv) : more[i] = conv[i] /\ conv[i].calls \in Nat
  BY AppendFacts, EntryTypes, EntryFields DEF more
<1>1. \A i \in 1..Len(more) : \A k \in 1..more[i].calls :
        i + k <= Len(more) => more[i + k].role = "tool"
  <2>. SUFFICES ASSUME NEW i \in 1..Len(more), NEW k \in 1..more[i].calls, i + k <= Len(more)
                PROVE more[i + k].role = "tool"
    OBVIOUS
  <2>1. i \in 1..Len(conv) /\ k \in 1..conv[i].calls /\ k \in Nat \ {0}
    BY <1>0
  <2>2. CASE i + k = Len(more)
    BY <1>0, <2>2
  <2>3. CASE i + k # Len(more)
    <3>1. i + k \in 1..Len(conv)
      <4>1. i \in Nat /\ i >= 1 /\ k \in Nat /\ k >= 1 /\ i + k <= Len(conv) + 1
        BY <1>0, <2>1
      <4>2. Len(conv) \in Nat /\ i + k # Len(conv) + 1
        BY <1>0, <2>3
      <4>. QED
        BY <4>1, <4>2
    <3>2. conv[i + k].role = "tool"
      BY <2>1, <3>1 DEF PairedUpTo
    <3>. QED
      BY <1>0, <3>1, <3>2
  <2>. QED
    BY <2>2, <2>3
<1>2. PICK o \in 1..Len(conv) : o + conv[o].calls = Len(conv) + n
  BY DEF PairedUpTo
<1>3. \A i \in 1..Len(more) :
        more[i].role = "tool" => \E j \in 1..(i - 1) : i - j <= more[j].calls
  <2>. SUFFICES ASSUME NEW i \in 1..Len(more), more[i].role = "tool"
                PROVE \E j \in 1..(i - 1) : i - j <= more[j].calls
    OBVIOUS
  <2>1. CASE i = Len(more)
    <3>1. o \in 1..(i - 1) /\ i - o <= more[o].calls
      BY <1>0, <1>2, <2>1
    <3>. QED
      BY <3>1
  <2>2. CASE i # Len(more)
    <3>1. i \in 1..Len(conv) /\ conv[i].role = "tool"
      BY <1>0, <2>2
    <3>2. PICK j \in 1..(i - 1) : i - j <= conv[j].calls
      BY <3>1 DEF PairedUpTo
    <3>. QED
      BY <1>0, <3>1, <3>2
  <2>. QED
    BY <2>1, <2>2
<1>4. \A i \in 1..Len(more) : i + more[i].calls <= Len(more) + (n - 1)
  BY <1>0 DEF PairedUpTo
<1>5. o \in 1..Len(more) /\ o + more[o].calls = Len(more) + (n - 1)
  BY <1>0, <1>2
<1>. QED
  BY <1>1, <1>3, <1>4, <1>5 DEF PairedUpTo, more

LEMMA PairInit == Init => PairInv
<1>. SUFFICES ASSUME Init PROVE PairInv
  OBVIOUS
<1>1. context = <<Notice>> /\ Missing = 0
  BY DEF Init, Missing
<1>2. Len(<<Notice>>) = 1 /\ <<Notice>>[1] = Notice
  OBVIOUS
<1>. QED
  BY <1>1, <1>2, EntryFields DEF PairInv, PairedUpTo

LEMMA PairStep == TypeInv /\ PairInv /\ [Next]_vars => PairInv'
<1>. SUFFICES ASSUME TypeInv, PairInv, [Next]_vars PROVE PairInv'
  OBVIOUS
<1>. USE DEF Settled
<1>1. context \in Seq(Entries) /\ reply \in Replies /\ reply.calls \in Nat
  BY ReplyTypes DEF TypeInv, TypeOK
<1>2. PairedUpTo(context, Missing)
  BY DEF PairInv
<1>3. CASE ProcessMessage
  <2>1. /\ context' = Append(context, User(Head(inbox))) /\ User(Head(inbox)) \in Entries
        /\ Missing = 0 /\ Missing' = 0
    BY <1>3, EntryTypes DEF ProcessMessage, Hear, Missing, TypeInv, TypeOK
  <2>. QED
    BY <2>1, <1>1, <1>2, PairPlain, EntryFields DEF PairInv
<1>4. CASE ResumeAfterInterrupt
  <2>1. Missing = 0 /\ Missing' = 0
    BY <1>4 DEF ResumeAfterInterrupt, Missing
  <2>2. PairedUpTo(Append(context, Notice), 0) /\ Append(context, Notice) \in Seq(Entries)
    BY <2>1, <1>1, <1>2, PairPlain, EntryFields, EntryTypes
  <2>3. CASE task # NoText
    <3>1. context' = context \o <<Notice, User(task)>> /\ User(task) \in Entries
      BY <1>4, <2>3, EntryTypes DEF ResumeAfterInterrupt, TypeInv, TypeOK
    <3>2. context' = Append(Append(context, Notice), User(task))
      BY <3>1, <1>1, EntryTypes
    <3>3. PairedUpTo(Append(Append(context, Notice), User(task)), 0)
      BY <2>2, <3>1, PairPlain, EntryFields
    <3>. QED
      BY <2>1, <3>2, <3>3 DEF PairInv
  <2>4. CASE task = NoText
    <3>1. context' = Append(context, Notice)
      BY <1>4, <2>4, Zenon DEF ResumeAfterInterrupt
    <3>. QED
      BY <2>1, <2>2, <3>1 DEF PairInv
  <2>. QED
    BY <2>3, <2>4
<1>5. CASE EndWithAnswer
  <2>1. Missing = 0 /\ Missing' = 0
    BY <1>5 DEF EndWithAnswer, StreamEnded, Missing
  <2>2. context' = Append(context, Answer) \/ context' = context
    BY <1>5, Zenon DEF EndWithAnswer, talkVars
  <2>. QED
    BY <2>1, <2>2, <1>1, <1>2, PairPlain, EntryFields, EntryTypes DEF PairInv
<1>6. CASE EndWithTools
  <2>1. /\ context' = Append(context, ToolRequest(reply.calls))
        /\ Missing = 0 /\ Missing' = reply.calls
    BY <1>6, <1>1 DEF EndWithTools, StreamEnded, Missing
  <2>. QED
    BY <2>1, <1>1, <1>2, PairRequest DEF PairInv
<1>7. CASE BadArguments \/ FinishTool
  <2>1. /\ context' = Append(context, ToolResult)
        /\ Missing = reply.calls /\ reply.calls > 0 /\ Missing' = reply.calls - 1
    BY <1>7, <1>1 DEF BadArguments, FinishTool, Missing, TypeInv, RunningHasCall, Replies
  <2>. QED
    BY <2>1, <1>1, <1>2, PairResult DEF PairInv
<1>8. CASE ToolsDone
  <2>1. context' = context /\ Missing = 0 /\ Missing' = 0
    BY <1>8 DEF ToolsDone, talkVars, Missing
  <2>. QED
    BY <2>1, <1>2 DEF PairInv
<1>9. CASE StartTool
  <2>1. context' = context /\ Missing' = Missing
    BY <1>9 DEF StartTool, talkVars, Missing
  <2>. QED
    BY <2>1, <1>2 DEF PairInv
<1>10. ASSUME context' = context, pc \notin {"tools", "running"}, pc' \notin {"tools", "running"}
       PROVE PairInv'
  BY <1>10, <1>2 DEF PairInv, Missing
<1>11. CASE InterruptAtTop \/ InterruptInStream \/ StoppedAtTop \/ PassTop \/ StartCall
         \/ CallFails \/ CallOpens \/ ReleaseCall \/ ReadChunk \/ ReadError \/ RunExits
  BY <1>10, <1>11
     DEF InterruptAtTop, InterruptInStream, TakeInterrupt, StoppedAtTop, PassTop, StartCall,
         CallFails, CallOpens, ReleaseCall, ReadChunk, ReadError, RunExits, talkVars
<1>12. ASSUME context' = context, pc' = pc, reply' = reply PROVE PairInv'
  BY <1>12, <1>2 DEF PairInv, Missing
<1>13. CASE PublishDb \/ PublishWire \/ Produce \/ UNCHANGED vars
  BY <1>12, <1>13 DEF PublishDb, PublishWire, Produce, vars, talkVars, loopVars
<1>14. CASE \E c \in Clients : \/ Client(c) \/ Frame(c)
  BY <1>12, <1>14
     DEF Client, Frame, SendMessage, TrySend, DrainSlot, BlockingSend, CancelCurrent,
         CheckError, ResetState, RouteMessage, InterruptAgent, RetryAgent, DeleteAgent,
         talkVars, loopVars
<1>. QED
  BY <1>3, <1>4, <1>5, <1>6, <1>7, <1>8, <1>9, <1>11, <1>13, <1>14
     DEF Next, Agent, Publish, ThinkingLoop, Environment, Provider

\* The LLM never sees a tool call without its result, nor a result without its
\* call, wherever interrupts, stops and bad arguments fall.
THEOREM PairingCorrect == Spec => []ToolPairing
<1>1. TypeInv /\ PairInv => ToolPairing
  <2>. SUFFICES ASSUME TypeInv, PairInv PROVE ToolPairing
    OBVIOUS
  <2>1. context \in Seq(Entries) /\ DOMAIN context = 1..Len(context) /\ Len(context) \in Nat
    BY DEF TypeInv, TypeOK
  <2>2. \A i \in 1..Len(context) : context[i] \in Entries
    BY <2>1
  <2>3. \A i \in 1..Len(context) : context[i].calls \in Nat
    BY <2>2 DEF Entries
  <2>4. \A i \in DOMAIN context : \A k \in 1..context[i].calls :
          \/ i + k \in DOMAIN context /\ context[i + k].role = "tool"
          \/ i + k > Len(context) /\ pc \in {"tools", "running"}
    BY <2>1, <2>3 DEF PairInv, PairedUpTo, Missing
  <2>5. \A i \in DOMAIN context : context[i].role = "tool" =>
          \E j \in 1..(i - 1) : i - j <= context[j].calls
    BY <2>1 DEF PairInv, PairedUpTo
  <2>. QED
    BY <2>4, <2>5 DEF ToolPairing
<1>. QED
  BY <1>1, TypeInit, TypeStep, PairInit, PairStep, PTL DEF Spec

-----------------------------------------------------------------------------
(* What a call asks about.                                                  *)

Asks(conv, t) ==
  \E i \in 1..Len(conv) :
    /\ conv[i] = User(t)
    /\ \A j \in (i + 1)..Len(conv) : conv[j].role \in {"assistant", "tool"}

Round == {"top", "ready", "call", "opened", "stream", "tools", "running"}

AskInv ==
  pc \in Round =>
    /\ Asks(context, task)
    /\ context[Len(context)].role = "assistant" =>
         pc \in {"tools", "running"} /\ reply.calls > 0

LEMMA AskAgain ==
  ASSUME NEW conv \in Seq(Entries), NEW t \in Texts
  PROVE Asks(Append(conv, User(t)), t)
<1>1. /\ Len(Append(conv, User(t))) = Len(conv) + 1 /\ Len(conv) \in Nat
      /\ Append(conv, User(t))[Len(conv) + 1] = User(t)
  BY AppendFacts, EntryTypes
<1>. QED
  BY <1>1 DEF Asks

LEMMA AskStill ==
  ASSUME NEW conv \in Seq(Entries), NEW t, NEW e \in Entries, Asks(conv, t),
         e.role \in {"assistant", "tool"}
  PROVE Asks(Append(conv, e), t)
<1>. DEFINE more == Append(conv, e)
<1>. HIDE DEF more
<1>0. /\ Len(more) = Len(conv) + 1 /\ Len(conv) \in Nat /\ more[Len(conv) + 1] = e
      /\ \A i \in 1..Len(conv) : more[i] = conv[i]
  BY AppendFacts DEF more
<1>1. PICK i \in 1..Len(conv) :
        /\ conv[i] = User(t)
        /\ \A j \in (i + 1)..Len(conv) : conv[j].role \in {"assistant", "tool"}
  BY DEF Asks
<1>2. i \in 1..Len(more) /\ more[i] = User(t)
  BY <1>0, <1>1
<1>3. ASSUME NEW j \in (i + 1)..Len(more) PROVE more[j].role \in {"assistant", "tool"}
  BY <1>0, <1>1
<1>4. Asks(more, t)
  BY <1>2, <1>3 DEF Asks
<1>. QED
  BY <1>4 DEF more

LEMMA AskStep == TypeInv /\ AskInv /\ [Next]_vars => AskInv'
<1>. SUFFICES ASSUME TypeInv, AskInv, [Next]_vars PROVE AskInv'
  OBVIOUS
<1>. USE DEF Settled
<1>1. context \in Seq(Entries) /\ reply \in Replies /\ reply.calls \in Nat
  BY ReplyTypes DEF TypeInv, TypeOK
<1>2. \A e \in Entries : Append(context, e)[Len(Append(context, e))] = e
  BY <1>1, AppendFacts
<1>3. CASE ProcessMessage
  <2>1. Head(inbox) \in Texts
    BY <1>3 DEF ProcessMessage, TypeInv, TypeOK
  <2>2. context' = Append(context, User(Head(inbox))) /\ task' = Head(inbox)
    BY <1>3 DEF ProcessMessage, Hear
  <2>. QED
    BY <2>1, <2>2, <1>1, <1>2, AskAgain, EntryTypes, EntryFields DEF AskInv
<1>4. CASE ResumeAfterInterrupt
  <2>1. CASE task # NoText
    <3>1. /\ context' = context \o <<Notice, User(task)>> /\ task' = task
          /\ task \in Texts /\ User(task) \in Entries
      BY <1>4, <2>1, EntryTypes DEF ResumeAfterInterrupt, TypeInv, TypeOK
    <3>2. context' = Append(Append(context, Notice), User(task))
      BY <3>1, <1>1, EntryTypes
    <3>3. Append(context, Notice) \in Seq(Entries)
      BY <1>1, EntryTypes
    <3>4. Asks(context', task)
      BY <3>1, <3>2, <3>3, AskAgain
    <3>5. \A c \in Seq(Entries) : Append(c, User(task))[Len(Append(c, User(task)))] = User(task)
      BY <3>1, AppendFacts
    <3>6. context'[Len(context')] = User(task)
      BY <3>2, <3>3, <3>5
    <3>. QED
      BY <3>1, <3>4, <3>6, EntryFields DEF AskInv
  <2>2. CASE task = NoText
    BY <1>4, <2>2, Zenon DEF ResumeAfterInterrupt, AskInv, Round
  <2>. QED
    BY <2>1, <2>2
<1>5. CASE EndWithTools
  <2>1. /\ context' = Append(context, ToolRequest(reply.calls)) /\ task' = task
        /\ reply' = reply /\ reply.calls > 0 /\ pc = "stream" /\ pc' = "tools"
    BY <1>5 DEF EndWithTools, StreamEnded
  <2>. QED
    BY <2>1, <1>1, AskStill, EntryTypes, EntryFields DEF AskInv, Round
<1>6. CASE BadArguments \/ FinishTool
  <2>1. /\ context' = Append(context, ToolResult) /\ task' = task
        /\ pc \in Round
    BY <1>6 DEF BadArguments, FinishTool, Round
  <2>. QED
    BY <2>1, <1>1, <1>2, AskStill, EntryTypes, EntryFields DEF AskInv
<1>7. CASE ToolsDone
  <2>1. /\ context' = context /\ task' = task /\ reply.calls = 0 /\ pc = "tools" /\ pc' = "top"
    BY <1>7 DEF ToolsDone, talkVars
  <2>. QED
    BY <2>1 DEF AskInv, Round
<1>8. CASE StartTool
  <2>1. /\ context' = context /\ task' = task /\ reply' = reply
        /\ pc = "tools" /\ pc' = "running" /\ reply.calls > 0
    BY <1>8 DEF StartTool, talkVars
  <2>. QED
    BY <2>1 DEF AskInv, Round
<1>9. CASE PassTop \/ StartCall \/ CallOpens \/ ReleaseCall \/ ReadChunk
  <2>1. /\ context' = context /\ task' = task
        /\ pc \in Round \ {"tools", "running"}
    BY <1>9 DEF PassTop, StartCall, CallOpens, ReleaseCall, ReadChunk, talkVars, Round
  <2>. QED
    BY <2>1 DEF AskInv, Round
<1>10. CASE RunExits \/ InterruptAtTop \/ InterruptInStream \/ StoppedAtTop \/ CallFails
         \/ ReadError \/ EndWithAnswer
  BY <1>10 DEF RunExits, InterruptAtTop, InterruptInStream, TakeInterrupt, StoppedAtTop,
               CallFails, ReadError, EndWithAnswer, AskInv, Round
<1>11. ASSUME context' = context, task' = task, pc' = pc, reply' = reply PROVE AskInv'
  BY <1>11 DEF AskInv
<1>12. CASE PublishDb \/ PublishWire \/ Produce \/ UNCHANGED vars
  BY <1>11, <1>12 DEF PublishDb, PublishWire, Produce, vars, talkVars, loopVars
<1>13. CASE \E c \in Clients : \/ Client(c) \/ Frame(c)
  BY <1>11, <1>13
     DEF Client, Frame, SendMessage, TrySend, DrainSlot, BlockingSend, CancelCurrent,
         CheckError, ResetState, RouteMessage, InterruptAgent, RetryAgent, DeleteAgent,
         talkVars, loopVars
<1>. QED
  BY <1>3, <1>4, <1>5, <1>6, <1>7, <1>8, <1>9, <1>10, <1>12, <1>13
     DEF Next, Agent, Publish, ThinkingLoop, Environment, Provider

\* Whatever was interrupted or failed before, a call asks about the current
\* request: the last text of a user, with nothing but tool rounds after it.
THEOREM AskCorrect == Spec => []CallAsksCurrentTask
<1>1. Init => AskInv
  BY DEF Init, AskInv, Round
<1>2. TypeInv /\ AskInv => CallAsksCurrentTask
  <2>. SUFFICES ASSUME TypeInv, AskInv, pc \in {"ready", "call", "opened", "stream"}
                PROVE \E i \in DOMAIN context :
                        /\ context[i] = User(task)
                        /\ \A j \in (i + 1)..Len(context) :
                             context[j].role \in {"assistant", "tool"}
                        /\ context[Len(context)].role # "assistant"
    BY DEF CallAsksCurrentTask
  <2>1. DOMAIN context = 1..Len(context)
    BY DEF TypeInv, TypeOK
  <2>. QED
    BY <2>1 DEF AskInv, Asks, Round
<1>. QED
  BY <1>1, <1>2, TypeInit, TypeStep, AskStep, PTL DEF Spec

-----------------------------------------------------------------------------
(* The history is part of the conversation.  KeptIn is computed by a        *)
(* function recursive in the position; what it computes is reasoned about   *)
(* by induction, from the least position where a claim would fail.          *)

LEMMA LeastElement ==
  ASSUME NEW T \in SUBSET Nat, T # {}
  PROVE \E x \in T : \A y \in T : x <= y
<1>. DEFINE R == {ss \in Nat \X Nat : ss[1] < ss[2]}
<1>1. OpToRel(<, Nat) = R
  BY DEF OpToRel
<1>2. IsWellFoundedOn(R, Nat)
  BY <1>1, NatLessThanWellFounded
<1>. HIDE DEF R
<1>3. PICK x \in T : \A y \in T : ~ (<<y, x>> \in R)
  BY <1>2, WFMin
<1>4. ASSUME NEW a \in Nat, NEW b \in Nat PROVE <<a, b>> \in R <=> a < b
  BY DEF R
<1>5. ASSUME NEW y \in T PROVE x <= y
  <2>1. x \in Nat /\ y \in Nat /\ ~ (<<y, x>> \in R)
    BY <1>3
  <2>2. ~ (y < x)
    BY <2>1, <1>4, Zenon
  <2>. QED
    BY <2>1, <2>2
<1>. QED
  BY <1>5

\* What holds at 0 and passes from each number to the next holds up to n.
LEMMA UpTo ==
  ASSUME NEW n \in Nat, NEW S, 0 \in S, \A k \in 0..(n - 1) : k \in S => k + 1 \in S
  PROVE \A k \in 0..n : k \in S
<1>. DEFINE T == (0..n) \ S
<1>. SUFFICES ASSUME T # {} PROVE FALSE
  OBVIOUS
<1>1. T \in SUBSET Nat
  OBVIOUS
<1>. HIDE DEF T
<1>2. PICK x \in T : \A y \in T : x <= y
  BY <1>1, LeastElement
<1>3. x \in 0..n /\ x \notin S /\ x # 0
  BY <1>2 DEF T
<1>4. x - 1 \in 0..(n - 1) /\ x - 1 \in 0..n /\ ~ (x <= x - 1)
  BY <1>3
<1>5. x - 1 \in S
  BY <1>2, <1>4 DEF T
<1>. QED
  BY <1>3, <1>4, <1>5

\* How far part is used up once the entry of whole is looked at.
Advance(part, entry, m) == IF m < Len(part) /\ part[m + 1] = entry THEN m + 1 ELSE m

Greedy(part, whole, f) ==
  f = [n \in 0..Len(whole) |-> IF n = 0 THEN 0 ELSE Advance(part, whole[n], f[n - 1])]

\* The same, without recursion.
Matches(part, whole, f) ==
  /\ f \in [0..Len(whole) -> 0..Len(part)] /\ f[0] = 0
  /\ \A n \in 1..Len(whole) : f[n] = Advance(part, whole[n], f[n - 1])

LEMMA KeptInDef ==
  ASSUME NEW part, NEW whole
  PROVE KeptIn(part, whole) <=> (CHOOSE f : Greedy(part, whole, f))[Len(whole)] = Len(part)
BY DEF KeptIn, Greedy, Advance

LEMMA GreedyExists ==
  ASSUME NEW part \in Seq(Entries), NEW whole \in Seq(Entries)
  PROVE \E f : Matches(part, whole, f)
<1>. DEFINE Upto(k, f) == /\ f \in [0..k -> 0..Len(part)] /\ f[0] = 0
                          /\ \A n \in 1..k : f[n] = Advance(part, whole[n], f[n - 1])
            S == {k \in Nat : \E f : Upto(k, f)}
<1>0. Len(whole) \in Nat /\ Len(part) \in Nat
  OBVIOUS
<1>1. 0 \in S
  <2>1. Upto(0, [n \in 0..0 |-> 0])
    BY <1>0
  <2>. QED
    BY <2>1
<1>2. ASSUME NEW k \in 0..(Len(whole) - 1), k \in S PROVE k + 1 \in S
  <2>0. k \in Nat /\ k + 1 \in Nat
    BY <1>0
  <2>1. PICK f : Upto(k, f)
    BY <1>2
  <2>. DEFINE g == [n \in 0..(k + 1) |-> IF n <= k THEN f[n]
                                         ELSE Advance(part, whole[k + 1], f[k])]
  <2>2. f[k] \in 0..Len(part) /\ Advance(part, whole[k + 1], f[k]) \in 0..Len(part)
    BY <1>0, <2>0, <2>1 DEF Advance
  <2>3. \A n \in 0..k : f[n] \in 0..Len(part)
    BY <2>1
  <2>4. g \in [0..(k + 1) -> 0..Len(part)] /\ g[0] = 0
    BY <2>0, <2>1, <2>2, <2>3
  <2>5. ASSUME NEW n \in 1..(k + 1) PROVE g[n] = Advance(part, whole[n], g[n - 1])
    <3>1. CASE n = k + 1
      <4>1. g[n] = Advance(part, whole[k + 1], f[k]) /\ g[n - 1] = f[k]
        BY <2>0, <3>1
      <4>. QED
        BY <3>1, <4>1
    <3>2. CASE n \in 1..k
      <4>1. g[n] = f[n] /\ g[n - 1] = f[n - 1]
        BY <2>0, <3>2
      <4>. QED
        BY <2>1, <3>2, <4>1
    <3>. QED
      BY <2>0, <3>1, <3>2
  <2>6. Upto(k + 1, g)
    BY <2>4, <2>5
  <2>. QED
    BY <2>0, <2>6
<1>. HIDE DEF S
<1>3. \A k \in 0..Len(whole) : k \in S
  BY <1>0, <1>1, <1>2, UpTo
<1>4. Len(whole) \in S
  <2>1. Len(whole) \in 0..Len(whole)
    BY <1>0
  <2>. QED
    BY <1>3, <2>1
<1>. HIDE DEF Upto
<1>5. PICK f : Upto(Len(whole), f)
  BY <1>4, Zenon DEF S
<1>. QED
  BY <1>5 DEF Matches, Upto

LEMMA KeptInMatches ==
  ASSUME NEW part \in Seq(Entries), NEW whole \in Seq(Entries)
  PROVE \E f : Matches(part, whole, f) /\ (KeptIn(part, whole) <=> f[Len(whole)] = Len(part))
<1>. DEFINE chosen == CHOOSE f : Greedy(part, whole, f)
<1>0. Len(whole) \in Nat /\ Len(part) \in Nat
  OBVIOUS
<1>1. ASSUME NEW f, Matches(part, whole, f) PROVE Greedy(part, whole, f)
  <2>1. ASSUME NEW n \in 0..Len(whole)
        PROVE f[n] = IF n = 0 THEN 0 ELSE Advance(part, whole[n], f[n - 1])
    BY <1>0, <1>1 DEF Matches
  <2>2. f = [n \in 0..Len(whole) |-> f[n]]
    BY <1>1 DEF Matches
  <2>. QED
    BY <2>1, <2>2 DEF Greedy
<1>2. Greedy(part, whole, chosen)
  BY <1>1, GreedyExists
<1>. HIDE DEF chosen
<1>3. /\ DOMAIN chosen = 0..Len(whole) /\ chosen[0] = 0
      /\ chosen = [n \in 0..Len(whole) |-> chosen[n]]
      /\ \A n \in 1..Len(whole) : chosen[n] = Advance(part, whole[n], chosen[n - 1])
  BY <1>0, <1>2 DEF Greedy
<1>4. \A k \in 0..Len(whole) : chosen[k] \in 0..Len(part)
  <2>. DEFINE S == {k \in 0..Len(whole) : chosen[k] \in 0..Len(part)}
  <2>1. 0 \in S
    BY <1>0, <1>3
  <2>2. ASSUME NEW k \in 0..(Len(whole) - 1), k \in S PROVE k + 1 \in S
    <3>1. k + 1 \in 1..Len(whole) /\ k + 1 \in 0..Len(whole) /\ (k + 1) - 1 = k
      BY <1>0
    <3>2. chosen[k + 1] = Advance(part, whole[k + 1], chosen[k])
      BY <1>3, <3>1
    <3>. QED
      BY <1>0, <2>2, <3>1, <3>2 DEF Advance
  <2>. HIDE DEF S
  <2>3. \A k \in 0..Len(whole) : k \in S
    BY <1>0, <2>1, <2>2, UpTo
  <2>. QED
    BY <2>3 DEF S
<1>5. Matches(part, whole, chosen)
  <2>1. chosen \in [0..Len(whole) -> 0..Len(part)]
    BY <1>3, <1>4
  <2>. QED
    BY <1>3, <2>1 DEF Matches
<1>. QED
  BY <1>5, KeptInDef DEF chosen

\* What the LLM is told and is not saved leaves the history where it was.
LEMMA KeptTold ==
  ASSUME NEW part \in Seq(Entries), NEW whole \in Seq(Entries), NEW e \in Entries,
         KeptIn(part, whole)
  PROVE KeptIn(part, Append(whole, e))
<1>. DEFINE more == Append(whole, e)
<1>0. /\ Len(whole) \in Nat /\ Len(part) \in Nat /\ more \in Seq(Entries)
      /\ Len(more) = Len(whole) + 1 /\ \A n \in 1..Len(whole) : more[n] = whole[n]
  OBVIOUS
<1>. HIDE DEF more
<1>1. PICK f : Matches(part, whole, f) /\ f[Len(whole)] = Len(part)
  BY KeptInMatches
<1>2. PICK g : Matches(part, more, g) /\ (KeptIn(part, more) <=> g[Len(more)] = Len(part))
  BY <1>0, KeptInMatches
<1>. DEFINE S == {k \in 0..Len(whole) : g[k] = f[k]}
<1>3. 0 \in S
  BY <1>0, <1>1, <1>2 DEF Matches
<1>4. ASSUME NEW k \in 0..(Len(whole) - 1), k \in S PROVE k + 1 \in S
  <2>1. k + 1 \in 1..Len(whole) /\ k + 1 \in 1..Len(more) /\ (k + 1) - 1 = k
        /\ k + 1 \in 0..Len(whole)
    BY <1>0
  <2>2. g[k + 1] = Advance(part, more[k + 1], g[k])
    BY <1>2, <2>1 DEF Matches
  <2>3. f[k + 1] = Advance(part, whole[k + 1], f[k])
    BY <1>1, <2>1 DEF Matches
  <2>. QED
    BY <1>0, <1>4, <2>1, <2>2, <2>3
<1>. HIDE DEF S
<1>5. \A k \in 0..Len(whole) : k \in S
  BY <1>0, <1>3, <1>4, UpTo
<1>6. g[Len(whole)] = Len(part)
  BY <1>0, <1>1, <1>5 DEF S
<1>7. g[Len(more)] = Advance(part, more[Len(more)], g[Len(whole)])
  BY <1>0, <1>2 DEF Matches
<1>. QED
  BY <1>0, <1>2, <1>6, <1>7 DEF Advance, more

\* What is saved and told extends both.
LEMMA KeptSaved ==
  ASSUME NEW part \in Seq(Entries), NEW whole \in Seq(Entries), NEW e \in Entries,
         KeptIn(part, whole)
  PROVE KeptIn(Append(part, e), Append(whole, e))
<1>. DEFINE more == Append(whole, e)
            longer == Append(part, e)
<1>0. /\ Len(whole) \in Nat /\ Len(part) \in Nat /\ more \in Seq(Entries)
      /\ Len(more) = Len(whole) + 1 /\ \A n \in 1..Len(whole) : more[n] = whole[n]
      /\ more[Len(whole) + 1] = e
      /\ longer \in Seq(Entries)
      /\ Len(longer) = Len(part) + 1 /\ \A n \in 1..Len(part) : longer[n] = part[n]
      /\ longer[Len(part) + 1] = e
  OBVIOUS
<1>. HIDE DEF more, longer
<1>1. PICK f : Matches(part, whole, f) /\ f[Len(whole)] = Len(part)
  BY KeptInMatches
<1>2. PICK g : Matches(longer, more, g) /\ (KeptIn(longer, more) <=> g[Len(more)] = Len(longer))
  BY <1>0, KeptInMatches
<1>. DEFINE S == {k \in 0..Len(whole) : g[k] = f[k] \/ g[k] = Len(longer)}
<1>3. 0 \in S
  BY <1>0, <1>1, <1>2 DEF Matches
<1>4. ASSUME NEW k \in 0..(Len(whole) - 1), k \in S PROVE k + 1 \in S
  <2>1. k + 1 \in 1..Len(whole) /\ k + 1 \in 1..Len(more) /\ (k + 1) - 1 = k
        /\ k + 1 \in 0..Len(whole)
    BY <1>0
  <2>2. g[k + 1] = Advance(longer, more[k + 1], g[k])
    <3>1. \A n \in 1..Len(more) : g[n] = Advance(longer, more[n], g[n - 1])
      BY <1>2 DEF Matches
    <3>2. g[k + 1] = Advance(longer, more[k + 1], g[(k + 1) - 1])
      BY <2>1, <3>1
    <3>. QED
      BY <2>1, <3>2
  <2>3. f[k + 1] = Advance(part, whole[k + 1], f[k]) /\ f[k] \in 0..Len(part)
    <3>1. /\ f \in [0..Len(whole) -> 0..Len(part)]
          /\ \A n \in 1..Len(whole) : f[n] = Advance(part, whole[n], f[n - 1])
      BY <1>1 DEF Matches
    <3>2. f[k + 1] = Advance(part, whole[k + 1], f[(k + 1) - 1])
      BY <2>1, <3>1
    <3>3. f[k + 1] = Advance(part, whole[k + 1], f[k])
      BY <2>1, <3>2
    <3>4. k \in 0..Len(whole)
      BY <1>0
    <3>. QED
      BY <3>1, <3>3, <3>4
  <2>4. CASE g[k] = Len(longer)
    BY <1>0, <2>1, <2>2, <2>4 DEF Advance
  <2>5. CASE g[k] = f[k] /\ f[k] < Len(part)
    <3>1. f[k] + 1 \in 1..Len(part)
      BY <1>0, <2>3, <2>5
    <3>2. longer[f[k] + 1] = part[f[k] + 1] /\ f[k] < Len(longer)
      BY <1>0, <2>5, <3>1, <2>3
    <3>. QED
      BY <1>0, <2>1, <2>2, <2>3, <2>5, <3>2 DEF Advance
  <2>6. CASE g[k] = f[k] /\ f[k] = Len(part)
    BY <1>0, <2>1, <2>2, <2>3, <2>6 DEF Advance
  <2>. QED
    BY <1>0, <1>4, <2>3, <2>4, <2>5, <2>6
<1>. HIDE DEF S
<1>5. \A k \in 0..Len(whole) : k \in S
  BY <1>0, <1>3, <1>4, UpTo
<1>6. g[Len(whole)] \in {Len(part), Len(longer)}
  BY <1>0, <1>1, <1>5 DEF S
<1>7. g[Len(more)] = Advance(longer, more[Len(more)], g[Len(whole)])
  BY <1>0, <1>2 DEF Matches
<1>. QED
  BY <1>0, <1>2, <1>6, <1>7 DEF Advance, more, longer

-----------------------------------------------------------------------------
\* Whatever is saved is told the LLM by the same step.
LEMMA SaidAndSaved ==
  ASSUME TypeInv, HistoryInContext, NEW e \in Entries, Save(e), context' = Append(context, e)
  PROVE HistoryInContext'
<1>. log \in Seq(Entries) /\ context \in Seq(Entries) /\ KeptIn(log, context)
  BY DEF TypeInv, TypeOK, HistoryInContext
<1>1. KeptIn(log, Append(context, e)) /\ KeptIn(Append(log, e), Append(context, e))
  BY KeptTold, KeptSaved
<1>2. log' = log \/ log' = Append(log, e)
  BY DEF Save
<1>3. CASE log' = log
  BY <1>1, <1>3 DEF HistoryInContext
<1>4. CASE log' = Append(log, e)
  BY <1>1, <1>4 DEF HistoryInContext
<1>. QED
  BY <1>2, <1>3, <1>4

LEMMA SaidOnly ==
  ASSUME TypeInv, HistoryInContext, NEW e \in Entries, log' = log, context' = Append(context, e)
  PROVE HistoryInContext'
<1>. log \in Seq(Entries) /\ context \in Seq(Entries) /\ KeptIn(log, context)
  BY DEF TypeInv, TypeOK, HistoryInContext
<1>. QED
  BY KeptTold DEF HistoryInContext

LEMMA HistoryStep == TypeInv /\ HistoryInContext /\ [Next]_vars => HistoryInContext'
<1>. SUFFICES ASSUME TypeInv, HistoryInContext, [Next]_vars PROVE HistoryInContext'
  OBVIOUS
<1>0. /\ log \in Seq(Entries) /\ context \in Seq(Entries) /\ KeptIn(log, context)
      /\ task \in Texts \cup {NoText} /\ reply.calls \in Nat /\ inbox \in Seq(Texts)
  BY DEF TypeInv, TypeOK, HistoryInContext, Replies
<1>1. CASE ProcessMessage
  <2>1. Head(inbox) \in Texts
    BY <1>0, <1>1 DEF ProcessMessage
  <2>. QED
    BY <1>1, <2>1, SaidAndSaved, EntryTypes DEF ProcessMessage, Hear
<1>2. CASE ResumeAfterInterrupt
  <2>1. CASE task = NoText
    BY <1>2, <2>1, SaidOnly, EntryTypes DEF ResumeAfterInterrupt
  <2>2. CASE task # NoText
    <3>. DEFINE noted == Append(context, Notice)
    <3>1. /\ Notice \in Entries /\ User(task) \in Entries /\ Save(User(task))
          /\ context' = context \o <<Notice, User(task)>>
      BY <1>0, <1>2, <2>2, EntryTypes DEF ResumeAfterInterrupt
    <3>2. context' = Append(noted, User(task)) /\ noted \in Seq(Entries)
      BY <1>0, <3>1
    <3>3. KeptIn(log, noted)
      BY <1>0, <3>1, KeptTold
    <3>. HIDE DEF noted
    <3>4. KeptIn(log, context') /\ KeptIn(Append(log, User(task)), context')
      BY <1>0, <3>1, <3>2, <3>3, KeptTold, KeptSaved
    <3>5. CASE log' = log
      BY <3>4, <3>5 DEF HistoryInContext
    <3>6. CASE log' = Append(log, User(task))
      BY <3>4, <3>6 DEF HistoryInContext
    <3>. QED
      BY <3>1, <3>5, <3>6 DEF Save
  <2>. QED
    BY <2>1, <2>2
<1>3. CASE EndWithTools
  <2>1. ToolRequest(reply.calls) \in Entries
    BY <1>0, EntryTypes
  <2>. QED
    BY <1>3, <2>1, SaidOnly DEF EndWithTools
<1>4. CASE EndWithAnswer
  <2>1. CASE reply.text
    BY <1>4, <2>1, SaidAndSaved, EntryTypes DEF EndWithAnswer
  <2>2. CASE ~reply.text
    BY <1>4, <2>2 DEF EndWithAnswer, talkVars, HistoryInContext
  <2>. QED
    BY <2>1, <2>2
<1>5. CASE BadArguments
  BY <1>5, SaidOnly, EntryTypes DEF BadArguments
<1>6. CASE FinishTool
  BY <1>6, SaidAndSaved, EntryTypes DEF FinishTool
<1>7. CASE UNCHANGED talkVars
  BY <1>7 DEF talkVars, HistoryInContext
<1>8. CASE UNCHANGED vars
  BY <1>8 DEF vars, HistoryInContext
<1>9. CASE Publish \/ RunExits
  BY <1>7, <1>9 DEF Publish, PublishDb, PublishWire, RunExits
<1>10. CASE \/ InterruptAtTop \/ StoppedAtTop \/ PassTop \/ StartCall \/ ReleaseCall
            \/ InterruptInStream \/ ReadChunk \/ ReadError \/ StartTool \/ ToolsDone
  BY <1>7, <1>10 DEF InterruptAtTop, StoppedAtTop, PassTop, StartCall, ReleaseCall,
     InterruptInStream, ReadChunk, ReadError, StartTool, ToolsDone, TakeInterrupt
<1>11. CASE Provider
  BY <1>7, <1>11 DEF Provider, CallFails, CallOpens, Produce
<1>12. CASE \E c \in Clients : Client(c)
  BY <1>7, <1>12 DEF Client, SendMessage, TrySend, DrainSlot, BlockingSend, CancelCurrent,
     CheckError, ResetState
<1>13. CASE \E c \in Clients : Frame(c)
  BY <1>7, <1>13 DEF Frame, RouteMessage, InterruptAgent, RetryAgent, DeleteAgent
<1>. QED
  BY <1>1, <1>2, <1>3, <1>4, <1>5, <1>6, <1>8, <1>9, <1>10, <1>11, <1>12, <1>13
     DEF Next, Agent, ThinkingLoop, Environment

\* Nothing is in the history that the LLM was not told, and in the same order, for
\* any length of both and whichever statements fail (agent.go: processMessage,
\* handleInterrupt, thinkingLoop and executeTool each save beside what they append).
THEOREM HistoryCorrect == Spec => []HistoryInContext
<1>1. Init => HistoryInContext
  <2>. SUFFICES ASSUME Init PROVE KeptIn(log, context)
    BY DEF HistoryInContext
  <2>1. log = <<>> /\ log \in Seq(Entries) /\ context \in Seq(Entries)
    BY EntryTypes DEF Init
  <2>2. PICK f : Matches(log, context, f) /\ (KeptIn(log, context) <=> f[Len(context)] = Len(log))
    BY <2>1, KeptInMatches
  <2>3. Len(log) = 0 /\ Len(context) \in Nat
    BY <2>1
  <2>4. f[Len(context)] \in 0..Len(log)
    BY <2>2, <2>3 DEF Matches
  <2>. QED
    BY <2>2, <2>3, <2>4
<1>. QED
  BY <1>1, TypeInit, TypeStep, HistoryStep, PTL DEF Spec
=============================================================================
