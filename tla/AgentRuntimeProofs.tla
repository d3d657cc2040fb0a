-------------------------- MODULE AgentRuntimeProofs --------------------------
(***************************************************************************)
(* Proofs about AgentRuntime, for every set of clients and texts and every  *)
(* capacity: its types; that an agent which waits is never shown as working;*)
(* and that it implements RequestQueue: requests are taken in order, one at *)
(* a time, each once, and settled once.                                     *)
(***************************************************************************)
EXTENDS AgentRuntime, TLAPS

-----------------------------------------------------------------------------
(* Types.  TypeOK is not inductive: it needs to know that a running tool is *)
(* one of the calls of the reply and that a sender carries a text.          *)

RunningHasCall == pc = "running" => reply.calls > 0
SenderHasText == \A c \in Clients : cpc[c] = "send" => arg[c] \in Texts

TypeInv == TypeOK /\ RunningHasCall /\ SenderHasText

LEMMA EntryTypes ==
  /\ \A t \in Texts : User(t) \in Entries
  /\ Notice \in Entries /\ ToolResult \in Entries /\ Answer \in Entries
  /\ \A n \in Nat : ToolRequest(n) \in Entries
BY DEF User, Notice, ToolResult, Answer, ToolRequest, Entry, Entries

LEMMA SaveType ==
  ASSUME log \in Seq(Entries), NEW e \in Entries, Save(e)
  PROVE log' \in Seq(Entries)
<1>1. CASE log' = Append(log, e)
  BY <1>1
<1>2. CASE log' = log
  BY <1>2
<1>. QED
  BY <1>1, <1>2, Zenon DEF Save

LEMMA ReplyTypes ==
  ASSUME reply \in Replies
  PROVE /\ reply.calls \in Nat
        /\ [reply EXCEPT !.text = TRUE] \in Replies
        /\ [reply EXCEPT !.calls = @ + 1] \in Replies
        /\ reply.calls > 0 => [reply EXCEPT !.calls = @ - 1] \in Replies
        /\ NoReply \in Replies
<1>1. reply.calls \in Nat /\ reply.text \in BOOLEAN
  BY Zenon DEF Replies
<1>3. ASSUME NEW n \in Nat
      PROVE [reply EXCEPT !.calls = n] \in Replies
  BY <1>3, Zenon DEF Replies
<1>4. reply.calls + 1 \in Nat /\ (reply.calls > 0 => reply.calls - 1 \in Nat)
  BY <1>1
<1>2. NoReply \in Replies /\ [reply EXCEPT !.text = TRUE] \in Replies
  BY <1>1, Zenon DEF NoReply, Replies
<1>. QED
  BY <1>1, <1>2, <1>3, <1>4, Zenon

\* The flags, apart: Zenon knows Booleans, the SMT solver the rest.
Flags == /\ cancelled \in BOOLEAN /\ stopped \in BOOLEAN
         /\ listed \in BOOLEAN /\ open \in BOOLEAN

LEMMA FlagsStep == Flags /\ [Next]_vars => Flags'
<1>. SUFFICES ASSUME Flags, [Next]_vars PROVE Flags'
  OBVIOUS
<1>. USE DEF Flags, streamVars, clientVars
<1>1. CASE PublishDb
  BY <1>1, Zenon DEF PublishDb, WriteStatus, Normalised, Publications, Statuses
<1>2. CASE PublishWire
  BY <1>2, Zenon DEF PublishWire, Published, ShownFor, Normalised, Publications, States,
         Statuses
<1>3. CASE ProcessMessage
  BY <1>3, Zenon DEF ProcessMessage, Hear, Save, Outcomes, SetState, Publications, States
<1>4. CASE RunExits
  BY <1>4, Zenon DEF RunExits, SetState, Publications, States
<1>5. CASE ResumeAfterInterrupt
  BY <1>5, Zenon DEF ResumeAfterInterrupt, Save, SetState, Publications, States
<1>6. CASE InterruptAtTop
  BY <1>6, Zenon DEF InterruptAtTop, TakeInterrupt, Empty, NoReply, Replies, Signals,
         Outcomes, Final, SetState, Publications, States
<1>7. CASE StoppedAtTop
  BY <1>7, Zenon DEF StoppedAtTop, Conclude, Outcomes, Final
<1>8. CASE PassTop \/ StartCall
  BY <1>8, Zenon DEF PassTop, StartCall
<1>9. CASE ReleaseCall
  BY <1>9, Zenon DEF ReleaseCall
<1>10. CASE InterruptInStream
  BY <1>10, Zenon DEF InterruptInStream, TakeInterrupt, Empty, NoReply, Replies, Signals,
         Outcomes, Final, SetState, Publications, States
<1>11. CASE ReadChunk
  BY <1>11, Zenon DEF ReadChunk, Replies
<1>12. CASE ReadError
  BY <1>12, Zenon DEF ReadError, Conclude, NoReply, Replies, Outcomes, Final, SetState,
         Publications, States
<1>13. CASE EndWithTools
  BY <1>13, Zenon DEF EndWithTools, StreamEnded, Replies, SetState, Publications, States
<1>14. CASE EndWithAnswer
  BY <1>14, Zenon DEF EndWithAnswer, StreamEnded, Save, Conclude, NoReply, Replies,
         Outcomes, Final, SetState, Publications, States
<1>15. CASE BadArguments
  BY <1>15, Zenon DEF BadArguments, Replies, Statuses
<1>16. CASE StartTool
  BY <1>16, Zenon DEF StartTool, Statuses
<1>17. CASE ToolsDone
  BY <1>17, Zenon DEF ToolsDone, NoReply, Replies, SetState, Publications, States
<1>18. CASE CallFails
  BY <1>18, Zenon DEF CallFails, Conclude, Outcomes, Final, SetState, Publications, States
<1>19. CASE CallOpens
  BY <1>19, Zenon DEF CallOpens, NoReply, Replies
<1>20. CASE Produce
  BY <1>20, Zenon DEF Produce, Produces, Chunks
<1>21. CASE FinishTool
  BY <1>21, Zenon DEF FinishTool, Save, Replies
<1>22. CASE \E c \in Clients : SendMessage(c)
  BY <1>22, Zenon DEF SendMessage, HasRoom, Mark, Return, Goto, Outcomes, Final
<1>23. CASE \E c \in Clients : TrySend(c)
  BY <1>23, Zenon DEF TrySend, Goto, Mark, Signal, Signals, Outcomes, Final
<1>24. CASE \E c \in Clients : DrainSlot(c)
  BY <1>24, Zenon DEF DrainSlot, Goto, Mark, Empty, Signals, Outcomes, Final
<1>25. CASE \E c \in Clients : BlockingSend(c)
  BY <1>25, Zenon DEF BlockingSend, Goto, Mark, Signal, Signals, Outcomes, Final
<1>26. CASE \E c \in Clients : CancelCurrent(c)
  BY <1>26, Zenon DEF CancelCurrent, Return, Goto
<1>27. CASE \E c \in Clients : CheckError(c)
  BY <1>27, Zenon DEF CheckError, Goto
<1>28. CASE \E c \in Clients : ResetState(c)
  BY <1>28, Zenon DEF ResetState, WriteStatus, Goto, States, Statuses
<1>29. CASE \E c \in Clients : RetryAgent(c)
  BY <1>29, Zenon DEF RetryAgent, Goto
<1>30. CASE \E c \in Clients : DeleteAgent(c)
  BY <1>30, Zenon DEF DeleteAgent
<1>31. CASE \E c \in Clients, t \in Texts : RouteMessage(c, t)
  BY <1>31, Zenon DEF RouteMessage, Goto, Mark
<1>32. CASE \E c \in Clients, t \in Texts \cup {NoText} : InterruptAgent(c, t)
  BY <1>32, Zenon DEF InterruptAgent, Goto, Mark
<1>33. CASE UNCHANGED vars
  BY <1>33, Zenon DEF vars
<1>. QED
  BY <1>1, <1>2, <1>3, <1>4, <1>5, <1>6, <1>7, <1>8, <1>9, <1>10, <1>11, <1>12, <1>13,
         <1>14, <1>15, <1>16, <1>17, <1>18, <1>19, <1>20, <1>21, <1>22, <1>23, <1>24,
         <1>25, <1>26, <1>27, <1>28, <1>29, <1>30, <1>31, <1>32, <1>33
     DEF Next, Agent, Publish, ThinkingLoop, Environment, Provider, Client, Frame

LEMMA TypeInit == Init => TypeInv
<1>. SUFFICES ASSUME Init PROVE TypeInv
  OBVIOUS
<1>1. Flags
  BY Zenon DEF Init, Flags
<1>2. reply \in Replies /\ slot \in Signals
  BY Zenon DEF Init, NoReply, Empty, Replies, Signals
<1>3. context \in Seq(Entries) /\ log \in Seq(Entries)
  BY EntryTypes DEF Init
<1>4. pub \in Publications
  BY DEF Init, Published, Publications, States
<1>. QED
  BY <1>1, <1>2, <1>3, <1>4, RuntimeAssumption
     DEF Init, Flags, TypeInv, TypeOK, RunningHasCall, SenderHasText, States, Statuses,
         Outcomes

LEMMA TypeStep == TypeInv /\ [Next]_vars => TypeInv'
<1>. SUFFICES ASSUME TypeInv, [Next]_vars, Flags' PROVE TypeInv'
  BY FlagsStep DEF Flags, TypeInv, TypeOK
<1>. USE EntryTypes, RuntimeAssumption
     DEF TypeInv, TypeOK, RunningHasCall, SenderHasText, Settled, Flags, pubVars, loopVars,
         talkVars, streamVars, clientVars
<1>1. CASE PublishDb
  BY <1>1 DEF PublishDb, WriteStatus, Normalised, Publications, Statuses
<1>2. CASE PublishWire
  BY <1>2 DEF PublishWire, Published, ShownFor, Normalised, Publications, States, Statuses
<1>3. CASE ProcessMessage
  <2>1. log' \in Seq(Entries) /\ context' \in Seq(Entries)
    BY <1>3, SaveType DEF ProcessMessage, Hear
  <2>. QED
    BY <1>3, <2>1 DEF ProcessMessage, Outcomes, SetState, Publications, States
<1>4. CASE RunExits
  BY <1>4 DEF RunExits, SetState, Publications, States
<1>5. CASE ResumeAfterInterrupt
  <2>1. CASE task # NoText
    <3>1. <<Notice, User(task)>> \in Seq(Entries)
      BY <2>1
    <3>2. context' = context \o <<Notice,
         User(task)>> /\ Save(User(task)) /\ User(task) \in Entries
      BY <1>5, <2>1 DEF ResumeAfterInterrupt
    <3>3. log' \in Seq(Entries) /\ context' \in Seq(Entries)
      BY <3>1, <3>2, SaveType
    <3>. QED
      BY <1>5, <2>1, <3>3 DEF ResumeAfterInterrupt, SetState, Publications, States
  <2>2. CASE task = NoText
    <3>1. context' = Append(context, Notice) /\ log' = log
      BY <1>5, <2>2, Zenon DEF ResumeAfterInterrupt
    <3>2. log' \in Seq(Entries) /\ context' \in Seq(Entries)
      BY <3>1
    <3>. QED
      BY <1>5, <2>2, <3>2 DEF ResumeAfterInterrupt, SetState, Publications, States
  <2>. QED
    BY <2>1, <2>2
<1>6. CASE InterruptAtTop
  BY <1>6 DEF InterruptAtTop, TakeInterrupt, Empty, NoReply, Replies, Signals, Outcomes,
         Final, SetState, Publications, States
<1>7. CASE StoppedAtTop
  BY <1>7 DEF StoppedAtTop, Conclude, Outcomes, Final
<1>8. CASE PassTop \/ StartCall
  BY <1>8 DEF PassTop, StartCall
<1>9. CASE ReleaseCall
  BY <1>9 DEF ReleaseCall
<1>10. CASE InterruptInStream
  BY <1>10 DEF InterruptInStream, TakeInterrupt, Empty, NoReply, Replies, Signals,
         Outcomes, Final, SetState, Publications, States
<1>11. CASE ReadChunk
  <2>1. reply' \in Replies
    BY <1>11, ReplyTypes, Zenon DEF ReadChunk
  <2>2. stream' \in Seq(Chunks)
    BY <1>11 DEF ReadChunk
  <2>. QED
    BY <1>11, <2>1, <2>2 DEF ReadChunk
<1>12. CASE ReadError
  BY <1>12 DEF ReadError, Conclude, NoReply, Replies, Outcomes, Final, SetState,
         Publications, States
<1>13. CASE EndWithTools
  BY <1>13 DEF EndWithTools, StreamEnded, Replies, SetState, Publications, States
<1>14. CASE EndWithAnswer
  <2>1. log' \in Seq(Entries) /\ context' \in Seq(Entries)
    <3>1. CASE reply.text
      <4>1. Save(Answer) /\ context' = Append(context, Answer)
        BY <1>14, <3>1, Zenon DEF EndWithAnswer
      <4>. QED
        BY <4>1, SaveType
    <3>2. CASE ~reply.text
      <4>1. log' = log /\ context' = context
        BY <1>14, <3>2, Zenon DEF EndWithAnswer
      <4>. QED
        BY <4>1
    <3>. QED
      BY <3>1, <3>2, Zenon
  <2>. QED
    BY <1>14, <2>1, ReplyTypes DEF EndWithAnswer, Conclude, Outcomes, Final, SetState,
         Publications, States
<1>15. CASE BadArguments
  <2>1. reply' \in Replies
    BY <1>15, ReplyTypes DEF BadArguments
  <2>. QED
    BY <1>15, <2>1 DEF BadArguments, Statuses
<1>16. CASE StartTool
  BY <1>16 DEF StartTool, Statuses
<1>17. CASE ToolsDone
  BY <1>17 DEF ToolsDone, NoReply, Replies, SetState, Publications, States
<1>18. CASE CallFails
  BY <1>18 DEF CallFails, Conclude, Outcomes, Final, SetState, Publications, States
<1>19. CASE CallOpens
  BY <1>19 DEF CallOpens, NoReply, Replies
<1>20. CASE Produce
  <2>1. stream' \in Seq(Chunks)
    <3>1. \E k \in Chunks : stream' = Append(stream, k)
      BY <1>20, Zenon DEF Produce, Produces, Chunks
    <3>. QED
      BY <3>1
  <2>. QED
    BY <1>20, <2>1 DEF Produce
<1>21. CASE FinishTool
  <2>1. log' \in Seq(Entries) /\ context' \in Seq(Entries)
    BY <1>21, SaveType DEF FinishTool
  <2>. QED
    BY <1>21, <2>1, ReplyTypes DEF FinishTool
<1>22. CASE \E c \in Clients : SendMessage(c)
  <2>1. PICK c \in Clients : SendMessage(c)
    BY <1>22
  <2>2. arg[c] \in Texts
    BY <2>1 DEF SendMessage
  <2>3. CASE HasRoom
    <3>1. inbox' = Append(inbox, arg[c]) /\ Mark(arg[c], "queued")
      BY <2>1, <2>3, Zenon DEF SendMessage
    <3>2. inbox' \in Seq(Texts) /\ Len(inbox') <= QueueCap
      BY <2>2, <2>3, <3>1 DEF HasRoom
    <3>3. outcome' \in [Texts -> Outcomes]
      BY <3>1 DEF Mark, Outcomes
    <3>. QED
      BY <2>1, <3>2, <3>3 DEF SendMessage, Return, Goto
  <2>4. CASE ~HasRoom
    BY <2>1, <2>2, <2>4 DEF SendMessage, Mark, Return, Goto, Outcomes, Final
  <2>. QED
    BY <2>3, <2>4
<1>23. CASE \E c \in Clients : TrySend(c)
  <2>1. PICK c \in Clients : TrySend(c)
    BY <1>23
  <2>2. CASE slot.full
    BY <2>1, <2>2 DEF TrySend, Goto
  <2>3. CASE ~slot.full
    <3>1. slot' = Signal(arg[c]) /\ Mark(arg[c], "signal") /\ Goto(c, "cancel")
      BY <2>1, <2>3, Zenon DEF TrySend
    <3>2. Signal(arg[c]) \in Signals
      BY DEF Signal, Signals
    <3>3. outcome' \in [Texts -> Outcomes]
      BY <3>1 DEF Mark, Outcomes
    <3>. QED
      BY <2>1, <3>1, <3>2, <3>3 DEF TrySend, Goto
  <2>. QED
    BY <2>2, <2>3
<1>24. CASE \E c \in Clients : DrainSlot(c)
  BY <1>24 DEF DrainSlot, Goto, Mark, Empty, Signals, Outcomes, Final
<1>25. CASE \E c \in Clients : BlockingSend(c)
  BY <1>25 DEF BlockingSend, Goto, Mark, Signal, Signals, Outcomes, Final
<1>26. CASE \E c \in Clients : CancelCurrent(c)
  BY <1>26 DEF CancelCurrent, Return, Goto
<1>27. CASE \E c \in Clients : CheckError(c)
  BY <1>27 DEF CheckError, Goto
<1>28. CASE \E c \in Clients : ResetState(c)
  BY <1>28 DEF ResetState, WriteStatus, Goto, States, Statuses
<1>29. CASE \E c \in Clients : RetryAgent(c)
  BY <1>29 DEF RetryAgent, Goto
<1>30. CASE \E c \in Clients : DeleteAgent(c)
  BY <1>30 DEF DeleteAgent
<1>31. CASE \E c \in Clients, t \in Texts : RouteMessage(c, t)
  BY <1>31 DEF RouteMessage, Goto, Mark, Outcomes
<1>32. CASE \E c \in Clients, t \in Texts \cup {NoText} : InterruptAgent(c, t)
  BY <1>32 DEF InterruptAgent, Goto, Mark, Outcomes
<1>33. CASE UNCHANGED vars
  BY <1>33 DEF vars
<1>. QED
  BY <1>1, <1>2, <1>3, <1>4, <1>5, <1>6, <1>7, <1>8, <1>9, <1>10, <1>11, <1>12, <1>13,
         <1>14, <1>15, <1>16, <1>17, <1>18, <1>19, <1>20, <1>21, <1>22, <1>23, <1>24,
         <1>25, <1>26, <1>27, <1>28, <1>29, <1>30, <1>31, <1>32, <1>33
     DEF Next, Agent, Publish, ThinkingLoop, Environment, Provider, Client, Frame

\* Every reachable state is well typed, and both channels keep within their
\* capacity, whatever the clients, the provider and the tools do.
THEOREM TypeCorrect == Spec => []TypeOK
<1>1. TypeInv => TypeOK
  BY DEF TypeInv
<1>. QED
  BY <1>1, TypeInit, TypeStep, PTL DEF Spec

-----------------------------------------------------------------------------
(* An agent that waits is not shown as working.  The strengthening says     *)
(* what the three copies of the state may hold while the last setState is   *)
(* still being published: neither the agent's own pending value nor any     *)
(* step of a client's ResetState can bring "working" back.                  *)

Quiet == {"idle", "error", "deleted"}
AtRest == pc = "ended" \/ (pc = "select" /\ ~stopped)

RestInv ==
  AtRest => /\ state \in Quiet
            /\ pub.step # "done" => pub.value \in Quiet
            /\ pub.step # "db" => DbMayFail \/ status # "working"
            /\ pub.step \notin {"db", "wire"} => shown # "working"

LEMMA QuietNormalised ==
  \A s \in Quiet : Normalised(s) # "working" /\ ShownFor(s) # "working"
BY DEF Quiet, Normalised, ShownFor

LEMMA RestInit == Init => RestInv
BY DEF Init, RestInv, AtRest, Quiet, Published

\* Only StoppedAtTop returns to the select in an active state, and then the
\* agent is stopped; every other way back goes through setState.
LEMMA RestStep == TypeInv /\ RestInv /\ [Next]_vars => RestInv'
<1>. SUFFICES ASSUME TypeInv, RestInv, [Next]_vars PROVE RestInv'
  OBVIOUS
<1>. USE DEF RestInv, AtRest, Settled, loopVars, pubVars
<1>1. pub \in Publications /\ stopped \in BOOLEAN
  BY DEF TypeInv, TypeOK
<1>2. CASE PublishDb
  BY <1>1, <1>2, QuietNormalised DEF PublishDb, WriteStatus, Publications
<1>3. CASE PublishWire
  BY <1>1, <1>3, QuietNormalised DEF PublishWire, Published, Publications
<1>4. CASE RunExits
  BY <1>4 DEF RunExits, SetState, Quiet
<1>5. CASE ResumeAfterInterrupt
  BY <1>5 DEF ResumeAfterInterrupt, SetState, Quiet
<1>6. CASE StoppedAtTop
  BY <1>6 DEF StoppedAtTop
<1>7. CASE CallFails \/ ReadError \/ EndWithAnswer
  BY <1>7 DEF CallFails, ReadError, EndWithAnswer, StreamEnded, SetState, Quiet
<1>8. CASE ProcessMessage \/ InterruptAtTop \/ InterruptInStream \/ EndWithTools \/ ToolsDone
  BY <1>8 DEF ProcessMessage, InterruptAtTop, InterruptInStream, TakeInterrupt, EndWithTools,
              StreamEnded, ToolsDone
<1>9. CASE PassTop \/ StartCall \/ CallOpens \/ ReleaseCall \/ StartTool \/ FinishTool
         \/ BadArguments
  BY <1>9 DEF PassTop, StartCall, CallOpens, ReleaseCall, StartTool, FinishTool, BadArguments
<1>10. CASE Produce \/ ReadChunk
  BY <1>10 DEF Produce, ReadChunk
<1>11. CASE \E c \in Clients : ResetState(c)
  BY <1>11 DEF ResetState, WriteStatus, Quiet
<1>12. CASE \E c \in Clients : DeleteAgent(c)
  BY <1>12 DEF DeleteAgent
<1>13. CASE \E c \in Clients : \/ SendMessage(c) \/ TrySend(c) \/ DrainSlot(c)
                               \/ BlockingSend(c) \/ CancelCurrent(c)
                               \/ RetryAgent(c) \/ CheckError(c)
  BY <1>13 DEF SendMessage, TrySend, DrainSlot, BlockingSend, CancelCurrent, RetryAgent,
               CheckError
<1>14. CASE \E c \in Clients, t \in Texts \cup {NoText} :
              (t \in Texts /\ RouteMessage(c, t)) \/ InterruptAgent(c, t)
  BY <1>14 DEF RouteMessage, InterruptAgent
<1>15. CASE UNCHANGED vars
  BY <1>15 DEF vars
<1>. QED
  BY <1>2, <1>3, <1>4, <1>5, <1>6, <1>7, <1>8, <1>9, <1>10, <1>11, <1>12, <1>13, <1>14, <1>15
     DEF Next, Agent, Publish, ThinkingLoop, Environment, Provider, Client, Frame

\* However the last task ended and whoever resets the state meanwhile, an agent
\* that waits for a message (or has ended) is not shown as working to anybody, nor
\* in the database unless a statement failed.
THEOREM WaitingCorrect == Spec => []WaitingShowsNotWorking
<1>1. RestInv => WaitingShowsNotWorking
  BY DEF RestInv, AtRest, WaitingShowsNotWorking, Waiting, Settled, Quiet
<1>. QED
  BY <1>1, TypeInit, TypeStep, RestInit, RestStep, PTL DEF Spec

-----------------------------------------------------------------------------
(* The bookkeeping: a request is in one place, and its outcome says which.  *)

Carriers == {"send", "try", "drain", "put"}
InRound == {"top", "ready", "call", "opened", "stream", "tools", "running"}

QueuedOnce ==
  \A i \in 1..Len(inbox) :
    /\ outcome[inbox[i]] = "queued"
    /\ \A j \in 1..Len(inbox) : inbox[i] = inbox[j] => i = j

CarriedOnce ==
  \A c \in Clients : cpc[c] \in Carriers /\ arg[c] \in Texts =>
    /\ outcome[arg[c]] = "sending"
    /\ \A d \in Clients : cpc[d] \in Carriers /\ arg[d] = arg[c] => c = d

SignalBooked == slot.text \in Texts => slot.full /\ outcome[slot.text] = "signal"

TaskBooked ==
  /\ task \in Texts => outcome[task] = "current"
  /\ pc \in InRound => task \in Texts
  /\ pc \in {"select", "ended"} => task = NoText

Book == QueuedOnce /\ CarriedOnce /\ SignalBooked /\ TaskBooked

LEMMA BookInit == Init => Book
<1>. SUFFICES ASSUME Init PROVE Book
  OBVIOUS
<1>. USE RuntimeAssumption DEF RuntimeAssumption, Init
<1>1. QueuedOnce
  BY DEF QueuedOnce
<1>2. CarriedOnce
  BY DEF CarriedOnce, Carriers
<1>3. SignalBooked
  BY DEF SignalBooked, Empty
<1>4. TaskBooked
  BY DEF TaskBooked, InRound
<1>. QED
  BY <1>1, <1>2, <1>3, <1>4 DEF Book

\* What RequestQueue sees of the outcomes.
Fresh == {"unsent", "sending", "signal"}
Seen(o) == IF o \in Fresh THEN "new" ELSE o
SeenOutcome == [t \in Texts |-> Seen(outcome[t])]

\* A step of RequestQueue, or none.
Implements == [Promised!RNext]_(Promised!rvars)

LEMMA SeenMap ==
  SeenOutcome = [t \in Texts |-> IF outcome[t] \in {"unsent", "sending", "signal"}
                                 THEN "new" ELSE outcome[t]]
BY DEF SeenOutcome, Seen, Fresh

-----------------------------------------------------------------------------
(* Steps that touch no request.                                             *)

LEMMA SilentStep ==
  ASSUME TypeInv, Book, UNCHANGED <<inbox, task, outcome, slot, cpc, arg>>,
         pc' = pc \/ (pc' \in InRound /\ task \in Texts)
                  \/ (pc' \in {"select", "ended"} /\ task = NoText)
  PROVE Book' /\ Implements
<1>1. QueuedOnce' /\ CarriedOnce' /\ SignalBooked'
  BY DEF Book, QueuedOnce, CarriedOnce, SignalBooked
<1>2. TaskBooked'
  BY RuntimeAssumption DEF Book, TaskBooked, InRound, RuntimeAssumption
<1>3. Implements
  BY DEF Implements, Promised!rvars
<1>. QED
  BY <1>1, <1>2, <1>3 DEF Book

-----------------------------------------------------------------------------
(* The agent takes and settles requests.                                    *)

LEMMA ProcessStep ==
  ASSUME TypeInv, Book, ProcessMessage
  PROVE Book' /\ Implements
<1>. DEFINE t == Head(inbox)
<1>1. /\ inbox \in Seq(Texts) /\ inbox # <<>> /\ inbox' = Tail(inbox)
      /\ pc = "select" /\ pc' = "top" /\ task' = t
      /\ outcome' = [outcome EXCEPT ![t] = "current"]
      /\ outcome \in [Texts -> Outcomes]
      /\ UNCHANGED <<slot, cpc, arg>>
  BY DEF ProcessMessage, TypeInv, TypeOK, clientVars
<1>2. t \in Texts /\ t = inbox[1] /\ outcome[t] = "queued" /\ task = NoText
  BY <1>1 DEF Book, QueuedOnce, TaskBooked
<1>3. \A i \in 1..Len(inbox') : inbox'[i] = inbox[i + 1] /\ i + 1 \in 1..Len(inbox) /\ i + 1 # 1
  BY <1>1
<1>4. QueuedOnce'
  <2>1. ASSUME NEW i \in 1..Len(inbox')
        PROVE outcome'[inbox'[i]] = "queued"
    <3>1. inbox'[i] \in Texts /\ inbox'[i] # t /\ outcome[inbox'[i]] = "queued"
      BY <1>1, <1>2, <1>3 DEF Book, QueuedOnce
    <3>. QED
      BY <1>1, <3>1
  <2>2. ASSUME NEW i \in 1..Len(inbox'), NEW j \in 1..Len(inbox'), inbox'[i] = inbox'[j]
        PROVE i = j
    <3>1. i + 1 = j + 1
      BY <1>3, <2>2 DEF Book, QueuedOnce
    <3>. QED
      BY <3>1
  <2>. QED
    BY <2>1, <2>2 DEF QueuedOnce
<1>5. CarriedOnce' /\ SignalBooked'
  BY <1>1, <1>2 DEF Book, CarriedOnce, SignalBooked
<1>6. TaskBooked'
  BY <1>1, <1>2 DEF TaskBooked, InRound
<1>7. Implements
  <2>1. SeenOutcome' = [SeenOutcome EXCEPT ![t] = "current"]
    BY <1>1, <1>2 DEF SeenOutcome, Seen, Fresh
  <2>2. Promised!Begin
    BY <1>1, <1>2, <2>1, SeenMap DEF Promised!Begin, SeenOutcome, Seen, Fresh
  <2>. QED
    BY <2>2 DEF Implements, Promised!RNext
<1>. QED
  BY <1>4, <1>5, <1>6, <1>7 DEF Book

LEMMA ConcludeStep ==
  ASSUME TypeInv, Book, NEW o \in {"answered", "failed", "canceled", "abandoned"},
         Conclude(o), pc \in InRound, pc' = "select", task' = NoText,
         UNCHANGED <<inbox, slot, cpc, arg>>
  PROVE Book' /\ Implements
<1>1. /\ task \in Texts /\ outcome \in [Texts -> Outcomes] /\ outcome[task] = "current"
      /\ outcome' = [outcome EXCEPT ![task] = o] /\ inbox \in Seq(Texts)
  BY DEF Conclude, Book, TaskBooked, TypeInv, TypeOK
<1>2. QueuedOnce'
  BY <1>1 DEF Book, QueuedOnce
<1>3. CarriedOnce' /\ SignalBooked'
  BY <1>1 DEF Book, CarriedOnce, SignalBooked
<1>4. TaskBooked'
  BY RuntimeAssumption DEF TaskBooked, InRound, RuntimeAssumption
<1>5. Implements
  <2>1. SeenOutcome' = [SeenOutcome EXCEPT ![task] = o]
    BY <1>1 DEF SeenOutcome, Seen, Fresh
  <2>2. task # NoText
    BY <1>1, RuntimeAssumption DEF RuntimeAssumption
  <2>3. Promised!Finish(o)
    BY <2>1, <2>2, SeenMap DEF Promised!Finish, SeenOutcome, Seen, Fresh
  <2>. QED
    BY <2>3 DEF Implements, Promised!RNext, Promised!Results
<1>. QED
  BY <1>2, <1>3, <1>4, <1>5 DEF Book

LEMMA InterruptStep ==
  ASSUME TypeInv, Book, TakeInterrupt, pc \in InRound
  PROVE Book' /\ Implements
<1>1. /\ slot' = Empty /\ task' = slot.text /\ pc' = "interrupted"
      /\ outcome' = [t \in Texts |-> IF t = task THEN "interrupted"
                                     ELSE IF t = slot.text THEN "current" ELSE outcome[t]]
      /\ UNCHANGED <<inbox, cpc, arg>>
  BY DEF TakeInterrupt, clientVars
<1>2. /\ task \in Texts /\ outcome[task] = "current" /\ task # NoText
      /\ outcome \in [Texts -> Outcomes] /\ inbox \in Seq(Texts)
      /\ slot.text \in Texts \cup {NoText}
  BY RuntimeAssumption DEF RuntimeAssumption, Book, TaskBooked, TypeInv, TypeOK, Signals
<1>3. slot.text \in Texts => outcome[slot.text] = "signal" /\ slot.text # task
  BY <1>2 DEF Book, SignalBooked
<1>4. QueuedOnce'
  BY <1>1, <1>2, <1>3 DEF Book, QueuedOnce
<1>5. CarriedOnce'
  BY <1>1, <1>2, <1>3 DEF Book, CarriedOnce
<1>6. SignalBooked'
  BY <1>1, RuntimeAssumption DEF RuntimeAssumption, SignalBooked, Empty
<1>7. TaskBooked'
  BY <1>1, <1>2, <1>3 DEF TaskBooked, InRound
<1>8. Implements
  <2>1. CASE slot.text \in Texts
    <3>1. SeenOutcome' = [SeenOutcome EXCEPT ![task] = "interrupted", ![slot.text] = "current"]
      BY <1>1, <1>2, <1>3, <2>1 DEF SeenOutcome, Seen, Fresh
    <3>2. SeenOutcome[slot.text] = "new"
      BY <1>3, <2>1 DEF SeenOutcome, Seen, Fresh
    <3>3. PICK t \in Texts : t = slot.text
      BY <2>1
    <3>4. Promised!Replace(t)
      BY <1>1, <1>2, <3>1, <3>2, <3>3, SeenMap DEF Promised!Replace, SeenOutcome, Seen, Fresh
    <3>. QED
      BY <3>4 DEF Implements, Promised!RNext
  <2>2. CASE slot.text = NoText
    <3>1. SeenOutcome' = [SeenOutcome EXCEPT ![task] = "interrupted"]
      BY <1>1, <1>2, <2>2, RuntimeAssumption DEF RuntimeAssumption, SeenOutcome, Seen, Fresh
    <3>2. Promised!Stop
      BY <1>1, <1>2, <2>2, <3>1, SeenMap DEF Promised!Stop, SeenOutcome, Seen, Fresh
    <3>. QED
      BY <3>2 DEF Implements, Promised!RNext
  <2>. QED
    BY <1>2, <2>1, <2>2
<1>. QED
  BY <1>4, <1>5, <1>6, <1>7, <1>8 DEF Book

-----------------------------------------------------------------------------
(* The clients.  A step of one of them moves it, and may drop its text.     *)

\* A client carries a text only if it did before.
Moves(c) ==
  /\ \E w : Goto(c, w) /\ (w \in Carriers => cpc[c] \in Carriers)
  /\ arg' = arg \/ arg' = [arg EXCEPT ![c] = NoText]

LEMMA MoveStep ==
  ASSUME TypeInv, Book, NEW c \in Clients, Moves(c)
  PROVE CarriedOnce' <=> \A d \in Clients : cpc'[d] \in Carriers /\ arg'[d] \in Texts
                            => outcome'[arg'[d]] = "sending"
<1>1. /\ cpc \in [Clients -> {"idle", "send", "try", "drain", "put", "cancel", "check",
                               "reset", "resetDb", "resetWire"}]
      /\ arg \in [Clients -> Texts \cup {NoText}] /\ NoText \notin Texts
  BY RuntimeAssumption DEF RuntimeAssumption, TypeInv, TypeOK
<1>2. \A d \in Clients : cpc'[d] \in Carriers /\ arg'[d] \in Texts
                          => cpc[d] \in Carriers /\ arg[d] = arg'[d]
  BY <1>1 DEF Moves, Goto
<1>. QED
  BY <1>2 DEF Book, CarriedOnce

\* Only the client moves; no request is touched.
LEMMA ClientSilentStep ==
  ASSUME TypeInv, Book, NEW c \in Clients, Moves(c),
         UNCHANGED <<inbox, task, outcome, slot, pc>>
  PROVE Book' /\ Implements
<1>1. QueuedOnce' /\ SignalBooked' /\ TaskBooked'
  BY DEF Book, QueuedOnce, SignalBooked, TaskBooked
<1>2. CarriedOnce'
  <2>1. \A d \in Clients : cpc'[d] \in Carriers /\ arg'[d] \in Texts
                            => cpc[d] \in Carriers /\ arg[d] = arg'[d]
    BY RuntimeAssumption DEF RuntimeAssumption, TypeInv, TypeOK, Moves, Goto
  <2>. QED
    BY <2>1, MoveStep DEF Book, CarriedOnce
<1>3. Implements
  BY DEF Implements, Promised!rvars
<1>. QED
  BY <1>1, <1>2, <1>3 DEF Book

\* A client reads a frame with a text nobody has sent before.
LEMMA PickUpStep ==
  ASSUME TypeInv, Book, NEW c \in Clients, NEW t \in Texts, NEW w \in {"send", "try"},
         cpc[c] = "idle", outcome[t] = "unsent",
         Goto(c, w), arg' = [arg EXCEPT ![c] = t], Mark(t, "sending"),
         UNCHANGED <<inbox, task, slot, pc>>
  PROVE Book' /\ Implements
<1>1. /\ outcome \in [Texts -> Outcomes] /\ inbox \in Seq(Texts)
      /\ outcome' = [outcome EXCEPT ![t] = "sending"]
  BY DEF Mark, TypeInv, TypeOK
<1>2. QueuedOnce' /\ SignalBooked' /\ TaskBooked'
  BY <1>1 DEF Book, QueuedOnce, SignalBooked, TaskBooked
<1>3. CarriedOnce'
  <2>1. cpc' = [cpc EXCEPT ![c] = w] /\ DOMAIN cpc = Clients /\ DOMAIN arg = Clients
    BY DEF Goto, TypeInv, TypeOK
  <2>2. \A d \in Clients : cpc[d] \in Carriers /\ arg[d] \in Texts => arg[d] # t /\ d # c
    BY DEF Book, CarriedOnce, Carriers
  <2>. QED
    BY <1>1, <2>1, <2>2 DEF Book, CarriedOnce
<1>4. Implements
  <2>1. SeenOutcome' = SeenOutcome
    BY <1>1 DEF SeenOutcome, Seen, Fresh
  <2>. QED
    BY <2>1, SeenMap DEF Implements, Promised!rvars, SeenOutcome, Seen, Fresh
<1>. QED
  BY <1>2, <1>3, <1>4 DEF Book

\* The interrupt enters the channel.
LEMMA SignalStep ==
  ASSUME TypeInv, Book, NEW c \in Clients, cpc[c] \in {"try", "put"}, ~slot.full,
         slot' = Signal(arg[c]), Mark(arg[c], "signal"), Goto(c, "cancel"),
         UNCHANGED <<inbox, task, pc, arg>>
  PROVE Book' /\ Implements
<1>1. /\ outcome \in [Texts -> Outcomes] /\ inbox \in Seq(Texts)
      /\ arg[c] \in Texts \cup {NoText} /\ DOMAIN cpc = Clients
      /\ cpc' = [cpc EXCEPT ![c] = "cancel"]
      /\ outcome' = [t \in Texts |-> IF t = arg[c] THEN "signal" ELSE outcome[t]]
      /\ slot'.full = TRUE /\ slot'.text = arg[c]
  BY DEF Mark, TypeInv, TypeOK, Signal, Goto
<1>2. arg[c] \in Texts => outcome[arg[c]] = "sending"
  BY DEF Book, CarriedOnce, Carriers
<1>3. QueuedOnce' /\ SignalBooked' /\ TaskBooked'
  BY <1>1, <1>2 DEF Book, QueuedOnce, SignalBooked, TaskBooked
<1>4. CarriedOnce'
  <2>1. \A d \in Clients : cpc'[d] \in Carriers => d # c /\ cpc[d] \in Carriers
    BY <1>1 DEF Carriers
  <2>2. \A d \in Clients : cpc'[d] \in Carriers /\ arg[d] \in Texts => arg[d] # arg[c]
    BY <2>1 DEF Book, CarriedOnce, Carriers
  <2>. QED
    BY <1>1, <2>1, <2>2 DEF Book, CarriedOnce
<1>5. Implements
  <2>1. SeenOutcome' = SeenOutcome
    BY <1>1, <1>2 DEF SeenOutcome, Seen, Fresh
  <2>. QED
    BY <2>1, SeenMap DEF Implements, Promised!rvars, SeenOutcome, Seen, Fresh
<1>. QED
  BY <1>3, <1>4, <1>5 DEF Book

\* SendMessage is Accept while there is room and Drop when there is none.
LEMMA SendStep ==
  ASSUME TypeInv, Book, NEW c \in Clients, SendMessage(c)
  PROVE Book' /\ Implements
<1>1. PICK t \in Texts : t = arg[c] /\ outcome[t] = "sending"
  BY DEF SendMessage, TypeInv, SenderHasText, Book, CarriedOnce, Carriers
<1>2. /\ outcome \in [Texts -> Outcomes] /\ inbox \in Seq(Texts)
      /\ DOMAIN cpc = Clients /\ DOMAIN arg = Clients /\ NoText \notin Texts
      /\ cpc[c] = "send" /\ cpc' = [cpc EXCEPT ![c] = "idle"]
      /\ arg' = [arg EXCEPT ![c] = NoText] /\ UNCHANGED <<task, pc, slot>>
  BY RuntimeAssumption
     DEF RuntimeAssumption, SendMessage, Return, Goto, TypeInv, TypeOK, loopVars
<1>3. \A d \in Clients : cpc'[d] \in Carriers /\ arg'[d] \in Texts
        => d # c /\ cpc[d] \in Carriers /\ arg'[d] = arg[d] /\ arg[d] # t
  BY <1>1, <1>2 DEF Book, CarriedOnce, Carriers
<1>4. CASE HasRoom
  <2>1. inbox' = Append(inbox, t) /\ outcome' = [outcome EXCEPT ![t] = "queued"]
    BY <1>1, <1>2, <1>4 DEF SendMessage, Mark
  <2>2. QueuedOnce'
    <3>1. \A i \in 1..Len(inbox) : inbox[i] \in Texts /\ inbox[i] # t
      BY <1>1, <1>2 DEF Book, QueuedOnce
    <3>2. Len(inbox') = Len(inbox) + 1 /\ inbox'[Len(inbox) + 1] = t
          /\ \A i \in 1..Len(inbox) : inbox'[i] = inbox[i]
      BY <1>2, <2>1
    <3>3. \A i \in 1..Len(inbox') : i = Len(inbox) + 1 \/ i \in 1..Len(inbox)
      BY <1>2, <3>2
    <3>4. \A i \in 1..Len(inbox') : outcome'[inbox'[i]] = "queued"
      BY <1>2, <2>1, <3>1, <3>2, <3>3 DEF Book, QueuedOnce
    <3>5. \A i, j \in 1..Len(inbox') : inbox'[i] = inbox'[j] => i = j
      BY <3>1, <3>2, <3>3 DEF Book, QueuedOnce
    <3>. QED
      BY <3>4, <3>5 DEF QueuedOnce
  <2>3. CarriedOnce' /\ SignalBooked' /\ TaskBooked'
    BY <1>1, <1>2, <1>3, <2>1 DEF Book, CarriedOnce, SignalBooked, TaskBooked
  <2>4. SeenOutcome' = [SeenOutcome EXCEPT ![t] = "queued"] /\ SeenOutcome[t] = "new"
    BY <1>1, <1>2, <2>1 DEF SeenOutcome, Seen, Fresh
  <2>5. Promised!Accept(t)
    BY <1>2, <1>4, <2>1, <2>4, SeenMap DEF HasRoom, Promised!Accept, SeenOutcome, Seen, Fresh
  <2>. QED
    BY <2>2, <2>3, <2>5 DEF Book, Implements, Promised!RNext
<1>5. CASE ~HasRoom
  <2>1. inbox' = inbox /\ outcome' = [outcome EXCEPT ![t] = "dropped"]
    BY <1>1, <1>2, <1>5 DEF SendMessage, Mark
  <2>2. QueuedOnce'
    BY <1>1, <1>2, <2>1 DEF Book, QueuedOnce
  <2>3. CarriedOnce' /\ SignalBooked' /\ TaskBooked'
    BY <1>1, <1>2, <1>3, <2>1 DEF Book, CarriedOnce, SignalBooked, TaskBooked
  <2>4. SeenOutcome' = [SeenOutcome EXCEPT ![t] = "dropped"] /\ SeenOutcome[t] = "new"
    BY <1>1, <1>2, <2>1 DEF SeenOutcome, Seen, Fresh
  <2>5. Promised!Drop(t)
    BY <1>2, <2>1, <2>4, SeenMap DEF Promised!Drop, SeenOutcome, Seen, Fresh
  <2>. QED
    BY <2>2, <2>3, <2>5 DEF Book, Implements, Promised!RNext
<1>. QED
  BY <1>4, <1>5

\* Draining the channel drops the request in it, if there is one.
LEMMA DrainStep ==
  ASSUME TypeInv, Book, NEW c \in Clients, DrainSlot(c)
  PROVE Book' /\ Implements
<1>1. /\ outcome \in [Texts -> Outcomes] /\ inbox \in Seq(Texts) /\ NoText \notin Texts
      /\ DOMAIN cpc = Clients /\ slot.text \in Texts \cup {NoText}
      /\ cpc[c] = "drain" /\ cpc' = [cpc EXCEPT ![c] = "put"] /\ slot' = Empty
      /\ outcome' = [t \in Texts |-> IF t = slot.text THEN "dropped" ELSE outcome[t]]
      /\ UNCHANGED <<inbox, task, pc, arg>>
  BY RuntimeAssumption
     DEF RuntimeAssumption, DrainSlot, Goto, Mark, TypeInv, TypeOK, Signals, loopVars
<1>2. slot.text \in Texts => outcome[slot.text] = "signal"
  BY DEF Book, SignalBooked
<1>3. QueuedOnce' /\ TaskBooked'
  BY <1>1, <1>2 DEF Book, QueuedOnce, TaskBooked
<1>4. SignalBooked'
  BY <1>1 DEF SignalBooked, Empty
<1>5. CarriedOnce'
  <2>1. \A d \in Clients : cpc'[d] \in Carriers => cpc[d] \in Carriers
    BY <1>1 DEF Carriers
  <2>2. \A d \in Clients : cpc[d] \in Carriers /\ arg[d] \in Texts => arg[d] # slot.text
    BY <1>2 DEF Book, CarriedOnce
  <2>. QED
    BY <1>1, <2>1, <2>2 DEF Book, CarriedOnce
<1>6. Implements
  <2>1. CASE slot.text \in Texts
    <3>1. PICK t \in Texts : t = slot.text
      BY <2>1
    <3>2. SeenOutcome' = [SeenOutcome EXCEPT ![t] = "dropped"] /\ SeenOutcome[t] = "new"
      BY <1>1, <1>2, <3>1 DEF SeenOutcome, Seen, Fresh
    <3>3. Promised!Drop(t)
      BY <1>1, <3>2, SeenMap DEF Promised!Drop, SeenOutcome, Seen, Fresh
    <3>. QED
      BY <3>3 DEF Implements, Promised!RNext
  <2>2. CASE slot.text = NoText
    <3>1. outcome' = outcome
      BY <1>1, <2>2
    <3>. QED
      BY <1>1, <3>1 DEF Implements, Promised!rvars
  <2>. QED
    BY <1>1, <2>1, <2>2
<1>. QED
  BY <1>3, <1>4, <1>5, <1>6 DEF Book

LEMMA ClientStep ==
  ASSUME TypeInv, Book, NEW c \in Clients, Client(c) \/ Frame(c)
  PROVE Book' /\ Implements
<1>. USE DEF loopVars, clientVars
<1>1. CASE SendMessage(c)
  BY <1>1, SendStep
<1>2. CASE DrainSlot(c)
  BY <1>2, DrainStep
<1>3. CASE TrySend(c) /\ slot.full
  <2>1. Moves(c)
    BY <1>3 DEF TrySend, Moves, Carriers
  <2>. QED
    BY <1>3, <2>1, ClientSilentStep DEF TrySend
<1>4. CASE (TrySend(c) /\ ~slot.full) \/ BlockingSend(c)
  BY <1>4, SignalStep DEF TrySend, BlockingSend
<1>5. CASE CancelCurrent(c) \/ RetryAgent(c) \/ CheckError(c) \/ ResetState(c)
  <2>1. Moves(c)
    BY <1>5 DEF CancelCurrent, RetryAgent, CheckError, ResetState, Return, Moves, Carriers
  <2>. QED
    BY <1>5, <2>1, ClientSilentStep
       DEF CancelCurrent, RetryAgent, CheckError, ResetState, Return
<1>6. CASE \E t \in Texts : RouteMessage(c, t)
  BY <1>6, PickUpStep DEF RouteMessage
<1>7. CASE \E t \in Texts \cup {NoText} : InterruptAgent(c, t)
  <2>1. PICK t \in Texts \cup {NoText} : InterruptAgent(c, t)
    BY <1>7
  <2>2. CASE t \in Texts
    <3>1. outcome[t] = "unsent"
      BY <2>1, <2>2, RuntimeAssumption DEF RuntimeAssumption, InterruptAgent
    <3>. QED
      BY <2>1, <2>2, <3>1, PickUpStep DEF InterruptAgent
  <2>3. CASE t = NoText
    <3>1. /\ cpc[c] = "idle" /\ cpc' = [cpc EXCEPT ![c] = "try"]
          /\ arg' = [arg EXCEPT ![c] = NoText] /\ outcome' = outcome
          /\ UNCHANGED <<inbox, task, slot, pc>>
      BY <2>1, <2>3, RuntimeAssumption
         DEF RuntimeAssumption, InterruptAgent, Goto, Mark, TypeInv, TypeOK
    <3>2. QueuedOnce' /\ SignalBooked' /\ TaskBooked'
      BY <3>1 DEF Book, QueuedOnce, SignalBooked, TaskBooked
    <3>3. CarriedOnce'
      <4>1. DOMAIN cpc = Clients /\ DOMAIN arg = Clients /\ NoText \notin Texts
        BY RuntimeAssumption DEF RuntimeAssumption, TypeInv, TypeOK
      <4>. QED
        BY <3>1, <4>1 DEF Book, CarriedOnce
    <3>4. Implements
      BY <3>1 DEF Implements, Promised!rvars
    <3>. QED
      BY <3>2, <3>3, <3>4 DEF Book
  <2>. QED
    BY <2>2, <2>3
<1>8. CASE DeleteAgent(c)
  BY <1>8, SilentStep DEF DeleteAgent
<1>. QED
  BY <1>1, <1>2, <1>3, <1>4, <1>5, <1>6, <1>7, <1>8 DEF Client, Frame

-----------------------------------------------------------------------------
(* The theorem.                                                             *)

LEMMA BookStep == TypeInv /\ Book /\ [Next]_vars => Book' /\ Implements
<1>. SUFFICES ASSUME TypeInv, Book, [Next]_vars PROVE Book' /\ Implements
  OBVIOUS
<1>. USE DEF loopVars, clientVars
<1>1. CASE ProcessMessage
  BY <1>1, ProcessStep
<1>2. CASE InterruptAtTop \/ InterruptInStream
  BY <1>2, InterruptStep DEF InterruptAtTop, InterruptInStream, InRound
<1>3. CASE StoppedAtTop
  BY <1>3, ConcludeStep DEF StoppedAtTop, InRound
<1>4. CASE CallFails
  BY <1>4, ConcludeStep DEF CallFails, InRound
<1>5. CASE ReadError
  BY <1>5, ConcludeStep DEF ReadError, InRound
<1>6. CASE EndWithAnswer
  BY <1>6, ConcludeStep DEF EndWithAnswer, StreamEnded, InRound
<1>7. pc \in InRound => task \in Texts
  BY DEF Book, TaskBooked
<1>8. CASE RunExits \/ ResumeAfterInterrupt
  BY <1>8, SilentStep DEF RunExits, ResumeAfterInterrupt, InRound, Book, TaskBooked,
                          TypeInv, TypeOK
<1>9. CASE PassTop \/ StartCall \/ ReleaseCall \/ ReadChunk \/ EndWithTools \/ BadArguments
           \/ StartTool \/ ToolsDone \/ CallOpens \/ Produce \/ FinishTool
  <2>1. /\ UNCHANGED <<inbox, task, outcome, slot, cpc, arg>>
        /\ pc' = pc \/ (pc \in InRound /\ pc' \in InRound)
    BY <1>9 DEF PassTop, StartCall, ReleaseCall, ReadChunk, EndWithTools, StreamEnded, BadArguments,
                StartTool, ToolsDone, CallOpens, Produce, FinishTool, InRound
  <2>. QED
    BY <1>7, <2>1, SilentStep
<1>10. CASE PublishDb \/ PublishWire \/ UNCHANGED vars
  BY <1>10, SilentStep DEF PublishDb, PublishWire, vars
<1>11. CASE \E c \in Clients : Client(c) \/ Frame(c)
  BY <1>11, ClientStep
<1>. QED
  BY <1>1, <1>2, <1>3, <1>4, <1>5, <1>6, <1>8, <1>9, <1>10, <1>11
     DEF Next, Agent, Publish, ThinkingLoop, Environment, Provider

\* Every behaviour of the agent is one of RequestQueue, where queue and current
\* request are its inbox and task, and a text that is in flight is still new:
\* requests are taken in order, one at a time, each once, and settled once.
THEOREM RuntimeImplementsQueue == Spec => KeepsPromise
<1>1. Init => Promised!RInit
  BY DEF Init, Promised!RInit
<1>. QED
  BY <1>1, TypeInit, TypeStep, BookInit, BookStep, PTL
     DEF Spec, KeepsPromise, Implements, Promised!RSpec
=============================================================================
