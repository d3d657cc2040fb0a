------------------------------ MODULE ChatProofs ------------------------------
(***************************************************************************)
(* Proofs about Chat, for any texts, any capacities, any page size and any  *)
(* number of pieces, lost connections and requests: its types, that the     *)
(* screen shows the text in its order and what was typed once, and that a   *)
(* quiet agent is not shown as working.                                     *)
(***************************************************************************)
EXTENDS Chat, TLAPS

-----------------------------------------------------------------------------
(* Types.                                                                   *)

Shown == {"idle", "working", "error"}

\* A list never shows an agent as working: the raw state has another name.
Frames ==
  {f \in [kind : {"status", "piece", "final", "list", "history"}, value : Shown \cup {""},
          piece : 0..MaxPieces, items : Seq(Bubbles)] :
     /\ f.kind \in {"status", "list"} => f.value \in Shown
     /\ f.kind = "list" => f.value # "working"
     /\ f.kind = "piece" => f.piece # 0
     /\ f.kind # "history" => f.items = <<>>}

Responses == {f \in Frames : f.kind \in {"list", "history"}}

Requests ==
  {r \in [kind : {"agents", "history", "message", "interrupt", "retry"},
          text : Texts \cup {NoText}] : r.kind = "message" => r.text \in Texts}

AgentOK ==
  /\ state \in {"idle", "thinking", "error"}
  /\ busy \in BOOLEAN /\ saved \in BOOLEAN
  /\ inbox \in Seq(Texts) /\ Len(inbox) <= QueueCap
  /\ slot \subseteq Texts \cup {NoText}
  /\ said \in 0..MaxPieces /\ from \in 0..said
  /\ log \in Seq(Bubbles)

LinkOK ==
  /\ linked \in BOOLEAN /\ online \in BOOLEAN /\ lost \in BOOLEAN /\ breaks \in 0..MaxBreaks
  /\ down \in Seq(Frames) /\ Len(down) <= SendCap
  /\ up \in Seq(Requests) /\ pending \subseteq Responses

AppOK ==
  /\ bubbles \in Seq(Bubbles)
  /\ asked \in BOOLEAN /\ known \in BOOLEAN /\ status \in Shown
  /\ typed \subseteq Texts /\ asks \in 0..MaxAsks

TypeInv == AgentOK /\ LinkOK /\ AppOK

LEMMA TypeInvOK == TypeInv => TypeOK
<1>. SUFFICES ASSUME TypeInv PROVE TypeOK
  OBVIOUS
<1>1. \A k \in DOMAIN down : down[k] \in Frames
  BY DEF TypeInv, LinkOK
<1>2. \A k \in DOMAIN down : down[k].kind \in {"status", "piece", "final", "list", "history"}
  BY <1>1 DEF Frames
<1>3. \A k \in DOMAIN up : up[k] \in Requests
  BY DEF TypeInv, LinkOK
<1>. QED
  BY <1>2, <1>3 DEF TypeInv, AgentOK, LinkOK, AppOK, TypeOK, Requests, Shown

LEMMA BubbleTypes ==
  /\ \A t \in Texts : User(t) \in Bubbles
  /\ Tool \in Bubbles
  /\ \A pieces \in Seq(1..MaxPieces) : \A streaming \in BOOLEAN :
       Bubble("assistant", NoText, pieces, streaming) \in Bubbles
<1>1. <<>> \in Seq(1..MaxPieces)
  OBVIOUS
<1>. QED
  BY <1>1 DEF User, Tool, Bubble, Bubbles

LEMMA FrameType ==
  ASSUME NEW kind \in {"status", "piece", "final", "list", "history"},
         NEW value \in Shown \cup {""}, NEW piece \in 0..MaxPieces, NEW items \in Seq(Bubbles),
         kind \in {"status", "list"} => value \in Shown,
         kind = "list" => value # "working",
         kind = "piece" => piece # 0,
         kind # "history" => items = <<>>
  PROVE Frame(kind, value, piece, items) \in Frames
<1>. DEFINE f == Frame(kind, value, piece, items)
<1>1. f.kind = kind /\ f.value = value /\ f.piece = piece /\ f.items = items
  BY DEF Frame
<1>2. f \in [kind : {"status", "piece", "final", "list", "history"}, value : Shown \cup {""},
            piece : 0..MaxPieces, items : Seq(Bubbles)]
  BY DEF Frame
<1>. HIDE DEF f
<1>3. f \in Frames
  BY <1>1, <1>2 DEF Frames
<1>. QED
  BY <1>3 DEF f

LEMMA FrameTypes ==
  /\ \A s \in Shown : Status(s) \in Frames
  /\ \A n \in 1..MaxPieces : Piece(n) \in Frames
  /\ FinalPiece \in Frames
  /\ \A s \in {"idle", "error"} : List(s) \in Responses
  /\ \A items \in Seq(Bubbles) : History(items) \in Responses
<1>1. <<>> \in Seq(Bubbles) /\ 0 \in 0..MaxPieces /\ "" \in Shown \cup {""}
  BY ChatAssumption DEF ChatAssumption
<1>2. ASSUME NEW s \in Shown PROVE Status(s) \in Frames
  BY <1>1, FrameType DEF Status
<1>3. ASSUME NEW n \in 1..MaxPieces PROVE Piece(n) \in Frames
  <2>1. n \in 0..MaxPieces /\ n # 0
    BY ChatAssumption DEF ChatAssumption
  <2>. QED
    BY <1>1, <2>1, FrameType DEF Piece
<1>4. FinalPiece \in Frames
  BY <1>1, FrameType DEF FinalPiece
<1>5. ASSUME NEW s \in {"idle", "error"} PROVE List(s) \in Responses
  <2>1. s \in Shown /\ s \in Shown \cup {""} /\ s # "working"
    BY DEF Shown
  <2>. QED
    <3>1. List(s) \in Frames
      BY <1>1, <2>1, FrameType DEF List
    <3>. QED
      BY <3>1 DEF Responses, List, Frame
<1>6. ASSUME NEW items \in Seq(Bubbles) PROVE History(items) \in Responses
  <2>1. History(items) \in Frames
    BY <1>1, FrameType DEF History
  <2>. QED
    BY <2>1 DEF Responses, History, Frame
<1>. QED
  BY <1>2, <1>3, <1>4, <1>5, <1>6

\* Of the frames offered, the first n were taken.
Grown(new, old, frames, n) ==
  /\ n \in 0..Len(frames) /\ Len(new) = Len(old) + n
  /\ \A k \in 1..Len(old) : new[k] = old[k]
  /\ \A j \in 1..n : new[Len(old) + j] = frames[j]
  /\ \A k \in 1..Len(new) : k \in 1..Len(old) \/ \E j \in 1..n : k = Len(old) + j

LEMMA TakeFirst ==
  ASSUME NEW S, NEW old \in Seq(S), NEW frames \in Seq(S), NEW n \in 0..Len(frames)
  PROVE /\ old \o SubSeq(frames, 1, n) \in Seq(S)
        /\ Grown(old \o SubSeq(frames, 1, n), old, frames, n)
<1>1. /\ SubSeq(frames, 1, n) \in Seq(S) /\ Len(SubSeq(frames, 1, n)) = n
      /\ \A j \in 1..n : SubSeq(frames, 1, n)[j] = frames[j]
      /\ Len(old) \in Nat /\ n \in Nat
  OBVIOUS
<1>. DEFINE part == SubSeq(frames, 1, n)
            new == old \o part
<1>. HIDE DEF part
<1>2. part \in Seq(S) /\ Len(part) = n /\ \A j \in 1..n : part[j] = frames[j]
  BY <1>1 DEF part
<1>3. /\ new \in Seq(S) /\ Len(new) = Len(old) + n
      /\ \A k \in 1..Len(old) : new[k] = old[k]
      /\ \A j \in 1..n : new[Len(old) + j] = part[j]
  BY <1>1, <1>2
<1>. HIDE DEF new
<1>4. ASSUME NEW k \in 1..Len(new)
      PROVE k \in 1..Len(old) \/ \E j \in 1..n : k = Len(old) + j
  <2>1. CASE k <= Len(old)
    BY <1>1, <2>1
  <2>2. CASE k > Len(old)
    <3>1. k - Len(old) \in 1..n /\ k = Len(old) + (k - Len(old))
      BY <1>1, <1>3, <2>2
    <3>. QED
      BY <3>1
  <2>. QED
    BY <1>1, <1>3, <2>1, <2>2
<1>5. new \in Seq(S) /\ Grown(new, old, frames, n)
  BY <1>2, <1>3, <1>4 DEF Grown
<1>. QED
  BY <1>5 DEF new, part

LEMMA NothingTaken ==
  ASSUME NEW S, NEW old \in Seq(S), NEW frames
  PROVE 0 \in 0..Len(frames) => Grown(old, old, frames, 0)
BY DEF Grown

\* What a broadcast does to the frames on their way.
LEMMA Offered ==
  ASSUME LinkOK, NEW frames \in Seq(Frames), Broadcast(frames)
  PROVE /\ down' \in Seq(Frames) /\ Len(down') <= SendCap /\ lost' \in BOOLEAN
        /\ lost => lost'
        /\ \E n \in 0..Len(frames) : Grown(down', down, frames, n)
        /\ linked /\ ~lost' => Grown(down', down, frames, Len(frames))
        /\ ~linked => down' = down
<1>1. /\ down \in Seq(Frames) /\ Len(down) \in Nat /\ Len(down) <= SendCap
      /\ SendCap \in Nat /\ linked \in BOOLEAN /\ lost \in BOOLEAN /\ Len(frames) \in Nat
  BY ChatAssumption DEF LinkOK, ChatAssumption
<1>2. CASE ~linked
  <2>1. down' = down /\ lost' = lost
    BY <1>1, <1>2 DEF Broadcast
  <2>. QED
    BY <1>1, <1>2, <2>1, NothingTaken
<1>3. CASE linked
  <2>. DEFINE n == IF Len(frames) <= Room THEN Len(frames) ELSE Room
  <2>1. /\ n \in 0..Len(frames) /\ Len(down) + n <= SendCap
        /\ Len(frames) <= Room => n = Len(frames)
    BY <1>1 DEF Room
  <2>2. down' = down \o SubSeq(frames, 1, n) /\ lost' = (lost \/ Len(frames) > Room)
    BY <1>1, <1>3 DEF Broadcast
  <2>. HIDE DEF n
  <2>3. down' \in Seq(Frames) /\ Grown(down', down, frames, n)
    BY <1>1, <2>1, <2>2, TakeFirst
  <2>4. Len(down') <= SendCap
    BY <2>1, <2>3 DEF Grown
  <2>5. lost' \in BOOLEAN /\ (lost => lost')
    BY <1>1, <2>2, Zenon
  <2>6. ~lost' => ~(Len(frames) > Room)
    BY <2>2, Zenon
  <2>7. ~(Len(frames) > Room) => n = Len(frames)
    BY <1>1, <2>1 DEF Room
  <2>. QED
    BY <1>3, <2>1, <2>3, <2>4, <2>5, <2>6, <2>7
<1>. QED
  BY <1>1, <1>2, <1>3

LEMMA TailFacts ==
  ASSUME NEW S, NEW s \in Seq(S), s # <<>>
  PROVE /\ Head(s) = s[1] /\ Head(s) \in S /\ 1 \in 1..Len(s) /\ Len(s) \in Nat
        /\ Tail(s) \in Seq(S) /\ Len(Tail(s)) = Len(s) - 1
        /\ \A k \in 1..Len(Tail(s)) : Tail(s)[k] = s[k + 1] /\ k + 1 \in 1..Len(s)
<1>1. Head(s) = s[1] /\ Head(s) \in S /\ 1 \in 1..Len(s) /\ Len(s) \in Nat
  OBVIOUS
<1>2. Tail(s) \in Seq(S) /\ Len(Tail(s)) = Len(s) - 1
  OBVIOUS
<1>3. \A k \in 1..(Len(s) - 1) : Tail(s)[k] = s[k + 1] /\ k + 1 \in 1..Len(s)
  OBVIOUS
<1>. QED
  BY <1>1, <1>2, <1>3

\* The types after a broadcast.
LEMMA BroadcastType ==
  ASSUME LinkOK, NEW frames \in Seq(Frames), Broadcast(frames),
         up' \in Seq(Requests), pending' \subseteq Responses, UNCHANGED <<linked, online, breaks>>
  PROVE LinkOK'
BY Offered DEF LinkOK

LEMMA EmitType ==
  ASSUME LinkOK, NEW frames \in Seq(Requests), Emit(frames)
  PROVE up' \in Seq(Requests)
<1>1. up \in Seq(Requests)
  BY DEF LinkOK
<1>2. up \o frames \in Seq(Requests)
  BY <1>1
<1>. QED
  BY <1>1, <1>2 DEF Emit

LEMMA RequestType ==
  ASSUME NEW kind \in {"agents", "history", "message", "interrupt", "retry"},
         NEW t \in Texts \cup {NoText}, kind = "message" => t \in Texts
  PROVE <<Request(kind, t)>> \in Seq(Requests) /\ Len(<<Request(kind, t)>>) = 1
<1>1. Request(kind, t) \in Requests
  BY DEF Request, Requests
<1>. QED
  BY <1>1

LEMMA AgentSame == ASSUME AgentOK, UNCHANGED agentVars PROVE AgentOK'
BY DEF AgentOK, agentVars

LEMMA AppSame == ASSUME AppOK, UNCHANGED appVars PROVE AppOK'
BY DEF AppOK, appVars

LEMMA LinkSame == ASSUME LinkOK, UNCHANGED <<linkVars, down, lost>> PROVE LinkOK'
BY DEF LinkOK, linkVars

LEMMA TypeInit == Init => TypeInv
<1>. SUFFICES ASSUME Init PROVE TypeInv
  OBVIOUS
<1>1. /\ <<>> \in Seq(Texts) /\ <<>> \in Seq(Bubbles) /\ <<>> \in Seq(Frames)
      /\ <<>> \in Seq(Requests) /\ Len(<<>>) = 0
  OBVIOUS
<1>. 0 \in 0..MaxPieces /\ 0 \in 0..0 /\ 0 \in 0..MaxBreaks /\ 0 \in 0..MaxAsks
     /\ 0 <= QueueCap /\ 0 <= SendCap
  BY ChatAssumption DEF ChatAssumption
<1>2. AgentOK
  BY <1>1 DEF Init, AgentOK
<1>3. LinkOK
  BY <1>1 DEF Init, LinkOK
<1>4. AppOK
  BY <1>1 DEF Init, AppOK, Shown
<1>. QED
  BY <1>2, <1>3, <1>4 DEF TypeInv

LEMMA FramePairs ==
  ASSUME NEW f \in Frames, NEW g \in Frames
  PROVE <<f>> \in Seq(Frames) /\ <<f, g>> \in Seq(Frames) /\ <<f, g, g>> \in Seq(Frames)
        /\ <<f, f, f>> \in Seq(Frames)
OBVIOUS

LEMMA AgentTypes ==
  ASSUME TypeInv, Agent
  PROVE TypeInv'
<1>. AgentOK /\ LinkOK /\ AppOK
  BY DEF TypeInv
<1>0. /\ said \in Nat /\ from \in Nat /\ from <= said /\ MaxPieces \in Nat /\ said <= MaxPieces
      /\ from \in 0..MaxPieces /\ said \in 0..said
  BY ChatAssumption DEF AgentOK, ChatAssumption
<1>1. UNCHANGED <<linkVars, appVars>>
  BY DEF Agent, Begin, Say, ToolRound, SaveAnswer, FinishReply, Fail, TakeInterrupt
<1>2. AppOK'
  BY <1>1, AppSame
<1>3. ASSUME NEW frames \in Seq(Frames), Broadcast(frames) PROVE LinkOK'
  BY <1>1, <1>3, BroadcastType DEF linkVars, LinkOK
<1>4. /\ <<Status("working")>> \in Seq(Frames) /\ <<FinalPiece, Status("idle")>> \in Seq(Frames)
      /\ <<Status("working"), Status("working"), Status("working")>> \in Seq(Frames)
      /\ <<Status("working"), Status("idle")>> \in Seq(Frames)
      /\ <<Status("working"), Status("working")>> \in Seq(Frames)
      /\ <<Status("error")>> \in Seq(Frames)
  BY FrameTypes, FramePairs DEF Shown
<1>5. CASE Begin
  <2>1. /\ Head(inbox) \in Texts /\ inbox' = Tail(inbox) /\ Tail(inbox) \in Seq(Texts)
        /\ Len(Tail(inbox)) = Len(inbox) - 1 /\ Len(inbox) \in Nat
    BY <1>5, TailFacts DEF Begin, AgentOK
  <2>2. User(Head(inbox)) \in Bubbles
    BY <2>1, BubbleTypes
  <2>3. Append(log, User(Head(inbox))) \in Seq(Bubbles)
    BY <2>2 DEF AgentOK
  <2>4. Len(inbox') <= QueueCap
    BY <2>1, ChatAssumption DEF AgentOK, ChatAssumption
  <2>5. AgentOK'
    BY <1>0, <1>5, <2>1, <2>3, <2>4 DEF Begin, AgentOK
  <2>6. LinkOK'
    BY <1>3, <1>4, <1>5 DEF Begin
  <2>. QED
    BY <1>2, <2>5, <2>6 DEF TypeInv
<1>6. CASE Say
  <2>1. said + 1 \in 1..MaxPieces
    BY <1>0, <1>6 DEF Say
  <2>2. Piece(said + 1) \in Frames
    BY <2>1, FrameTypes
  <2>3. LinkOK'
    BY <1>3, <1>6, <2>2, FramePairs DEF Say
  <2>4. AgentOK'
    BY <1>0, <1>6, <2>1 DEF Say, AgentOK
  <2>. QED
    BY <1>2, <2>3, <2>4 DEF TypeInv
<1>7. CASE ToolRound
  <2>1. Append(log, Tool) \in Seq(Bubbles)
    BY BubbleTypes DEF AgentOK
  <2>2. AgentOK'
    BY <1>0, <1>7, <2>1 DEF ToolRound, AgentOK
  <2>3. LinkOK'
    BY <1>3, <1>4, <1>7 DEF ToolRound
  <2>. QED
    BY <1>2, <2>2, <2>3 DEF TypeInv
<1>8. CASE SaveAnswer
  <2>. DEFINE pieces == [k \in 1..(said - from) |-> from + k]
  <2>1. pieces \in Seq(1..MaxPieces)
    BY <1>0
  <2>. HIDE DEF pieces
  <2>2. Answer(pieces) \in Bubbles
    BY <2>1, BubbleTypes DEF Answer
  <2>3. Append(log, Answer(pieces)) \in Seq(Bubbles)
    BY <2>2 DEF AgentOK
  <2>4. AgentOK'
    BY <1>0, <1>8, <2>3 DEF SaveAnswer, AgentOK, pieces
  <2>5. LinkOK'
    BY <1>1, <1>8, LinkSame DEF SaveAnswer
  <2>. QED
    BY <1>2, <2>4, <2>5 DEF TypeInv
<1>9. CASE FinishReply
  <2>1. AgentOK'
    BY <1>0, <1>9 DEF FinishReply, AgentOK
  <2>2. LinkOK'
    BY <1>3, <1>4, <1>9 DEF FinishReply
  <2>. QED
    BY <1>2, <2>1, <2>2 DEF TypeInv
<1>10. CASE Fail
  <2>1. AgentOK'
    BY <1>0, <1>10 DEF Fail, AgentOK
  <2>2. LinkOK'
    BY <1>3, <1>4, <1>10 DEF Fail
  <2>. QED
    BY <1>2, <2>1, <2>2 DEF TypeInv
<1>11. CASE TakeInterrupt
  <2>1. PICK t \in slot :
          IF t = NoText
          THEN /\ busy' = FALSE /\ state' = "idle" /\ UNCHANGED log
               /\ Broadcast(<<Status("working"), Status("idle")>>)
          ELSE /\ log' = Append(log, User(t)) /\ state' = "thinking" /\ UNCHANGED busy
               /\ Broadcast(<<Status("working"), Status("working")>>)
    BY <1>11 DEF TakeInterrupt
  <2>2. slot' = {} /\ from' = said /\ UNCHANGED <<inbox, said, saved>>
    BY <1>11 DEF TakeInterrupt
  <2>3. LinkOK'
    BY <1>3, <1>4, <2>1
  <2>4. log' \in Seq(Bubbles) /\ busy' \in BOOLEAN /\ state' \in {"idle", "thinking", "error"}
    <3>1. CASE t = NoText
      BY <2>1, <3>1 DEF AgentOK
    <3>2. CASE t # NoText
      <4>1. t \in Texts
        BY <3>2 DEF AgentOK
      <4>2. User(t) \in Bubbles
        BY <4>1, BubbleTypes
      <4>3. \A b \in Bubbles : Append(log, b) \in Seq(Bubbles)
        BY DEF AgentOK
      <4>4. log' = Append(log, User(t)) /\ state' = "thinking" /\ busy' = busy
        BY <2>1, <3>2
      <4>5. log' \in Seq(Bubbles)
        BY <4>2, <4>3, <4>4
      <4>. QED
        BY <4>4, <4>5 DEF AgentOK
    <3>. QED
      BY <3>1, <3>2
  <2>5. AgentOK'
    BY <1>0, <2>2, <2>4 DEF AgentOK
  <2>. QED
    BY <1>2, <2>3, <2>5 DEF TypeInv
<1>. QED
  BY <1>5, <1>6, <1>7, <1>8, <1>9, <1>10, <1>11 DEF Agent

LEMMA PageType ==
  ASSUME AgentOK
  PROVE \E m \in 1..(Len(log) + 1) :
          /\ NewestPage = SubSeq(log, m, Len(log)) /\ NewestPage \in Seq(Bubbles)
          /\ Len(NewestPage) = Len(log) - m + 1
          /\ \A k \in 1..Len(NewestPage) :
               NewestPage[k] = log[m + k - 1] /\ m + k - 1 \in 1..Len(log)
<1>. DEFINE m == IF Len(log) > PageSize THEN Len(log) - PageSize + 1 ELSE 1
<1>1. log \in Seq(Bubbles) /\ Len(log) \in Nat /\ PageSize \in Nat /\ PageSize # 0
  BY ChatAssumption DEF AgentOK, ChatAssumption
<1>2. m \in 1..(Len(log) + 1) /\ m \in Nat
  BY <1>1
<1>3. NewestPage = SubSeq(log, m, Len(log))
  BY DEF NewestPage
<1>. HIDE DEF m
<1>. DEFINE page == SubSeq(log, m, Len(log))
<1>4. /\ page \in Seq(Bubbles) /\ Len(page) = Len(log) - m + 1
      /\ \A k \in 1..(Len(log) - m + 1) : page[k] = log[m + k - 1]
  BY <1>1, <1>2
<1>. HIDE DEF page
<1>5. \A k \in 1..(Len(log) - m + 1) : m + k - 1 \in 1..Len(log)
  BY <1>1, <1>2
<1>6. NewestPage = page
  BY <1>3 DEF page
<1>. QED
  BY <1>2, <1>3, <1>4, <1>5, <1>6

\* What reading a frame of the app leaves.
LEMMA ReadsFacts ==
  ASSUME LinkOK, NEW kind, Reads(kind)
  PROVE /\ linked /\ pending = {} /\ up' = Tail(up) /\ up' \in Seq(Requests)
        /\ Head(up) = up[1] /\ Head(up) \in Requests /\ Head(up).kind = kind
        /\ Len(up') = Len(up) - 1 /\ Len(up) \in Nat /\ 1 \in 1..Len(up)
        /\ \A k \in 1..Len(up') : up'[k] = up[k + 1] /\ k + 1 \in 1..Len(up)
BY TailFacts DEF Reads, LinkOK

LEMMA ReadPumpTypes ==
  ASSUME TypeInv, ReadPump
  PROVE TypeInv'
<1>. AgentOK /\ LinkOK /\ AppOK
  BY DEF TypeInv
<1>1. AppOK'
  BY AppSame DEF ReadPump, HandleGetAgents, HandleGetHistory, SendResponse, HandleUserMessage,
     HandleInterrupt, HandleRetryAgent
<1>2. CASE HandleGetAgents
  <2>1. pending' \subseteq Responses
    BY <1>2, FrameTypes DEF HandleGetAgents
  <2>2. LinkOK'
    BY <1>2, <2>1, ReadsFacts DEF HandleGetAgents, LinkOK
  <2>. QED
    BY <1>1, <1>2, <2>2, AgentSame DEF HandleGetAgents, TypeInv
<1>3. CASE HandleGetHistory
  <2>1. pending' \subseteq Responses
    BY <1>3, FrameTypes, PageType DEF HandleGetHistory
  <2>2. LinkOK'
    BY <1>3, <2>1, ReadsFacts DEF HandleGetHistory, LinkOK
  <2>. QED
    BY <1>1, <1>3, <2>2, AgentSame DEF HandleGetHistory, TypeInv
<1>4. CASE SendResponse
  <2>1. PICK frame \in pending : Broadcast(<<frame>>)
    BY <1>4 DEF SendResponse
  <2>2. frame \in Frames
    BY DEF LinkOK, Responses
  <2>3. LinkOK'
    BY <1>4, <2>1, <2>2, FramePairs, BroadcastType DEF SendResponse, LinkOK
  <2>. QED
    BY <1>1, <1>4, <2>3, AgentSame DEF SendResponse, TypeInv
<1>5. CASE HandleUserMessage
  <2>1. Reads("message") /\ UNCHANGED <<linked, down, pending, online, breaks, lost>>
    BY <1>5 DEF HandleUserMessage
  <2>2. Head(up).text \in Texts
    BY <2>1, ReadsFacts DEF Requests
  <2>3. inbox' \in Seq(Texts) /\ Len(inbox') <= QueueCap
    BY <1>5, <2>2, ChatAssumption DEF HandleUserMessage, AgentOK, ChatAssumption
  <2>4. AgentOK'
    BY <1>5, <2>3 DEF HandleUserMessage, AgentOK
  <2>5. LinkOK'
    BY <2>1, ReadsFacts DEF LinkOK
  <2>. QED
    BY <1>1, <2>4, <2>5 DEF TypeInv
<1>6. CASE HandleInterrupt
  <2>1. Reads("interrupt") /\ UNCHANGED <<linked, down, pending, online, breaks, lost>>
    BY <1>6 DEF HandleInterrupt
  <2>2. Head(up).text \in Texts \cup {NoText}
    BY <2>1, ReadsFacts DEF Requests
  <2>3. AgentOK'
    BY <1>6, <2>2 DEF HandleInterrupt, AgentOK
  <2>4. LinkOK'
    BY <2>1, ReadsFacts DEF LinkOK
  <2>. QED
    BY <1>1, <2>3, <2>4 DEF TypeInv
<1>7. CASE HandleRetryAgent
  <2>1. up \in Seq(Requests) /\ up # <<>>
    BY <1>7 DEF HandleRetryAgent, LinkOK
  <2>2. Tail(up) \in Seq(Requests) /\ <<Request("agents", NoText)>> \in Seq(Requests)
    BY <2>1, TailFacts, RequestType
  <2>3. <<Request("agents", NoText)>> \o Tail(up) \in Seq(Requests)
    BY <2>2
  <2>4. up' \in Seq(Requests)
    BY <1>7, <2>2, <2>3 DEF HandleRetryAgent
  <2>5. AgentOK'
    BY <1>7 DEF HandleRetryAgent, AgentOK
  <2>6. UNCHANGED <<linked, online, breaks, pending>>
    BY <1>7 DEF HandleRetryAgent
  <2>7. CASE state = "error"
    <3>1. Broadcast(<<Status("idle")>>)
      BY <1>7, <2>7 DEF HandleRetryAgent
    <3>2. LinkOK'
      BY <2>4, <2>6, <3>1, FrameTypes, FramePairs, BroadcastType DEF LinkOK, Shown
    <3>. QED
      BY <1>1, <2>5, <3>2 DEF TypeInv
  <2>8. CASE state # "error"
    BY <1>1, <1>7, <2>4, <2>5, <2>6, <2>8 DEF HandleRetryAgent, LinkOK, TypeInv
  <2>. QED
    BY <2>7, <2>8
<1>. QED
  BY <1>2, <1>3, <1>4, <1>5, <1>6, <1>7 DEF ReadPump

LEMMA LinkTypes ==
  ASSUME TypeInv, Link
  PROVE TypeInv'
<1>. AgentOK /\ LinkOK /\ AppOK
  BY DEF TypeInv
<1>1. CASE Connect \/ Register
  <2>1. LinkOK'
    BY <1>1 DEF Connect, Register, LinkOK
  <2>2. AgentOK' /\ AppOK'
    BY <1>1, AgentSame, AppSame DEF Connect, Register
  <2>. QED
    BY <2>1, <2>2 DEF TypeInv
<1>2. ASSUME Unlink PROVE LinkOK' /\ AppOK'
  <2>1. <<>> \in Seq(Frames) /\ <<>> \in Seq(Requests) /\ Len(<<>>) = 0 /\ 0 <= SendCap
        /\ MaxBreaks \in Nat
    BY ChatAssumption DEF ChatAssumption
  <2>2. breaks' \in 0..MaxBreaks
    BY <1>2, <2>1 DEF Unlink, LinkOK
  <2>. QED
    BY <1>2, <2>1, <2>2, AppSame DEF Unlink, LinkOK
<1>3. CASE Disconnect
  BY <1>2, <1>3, AgentSame DEF Disconnect, TypeInv
<1>4. CASE BackendRestart
  <2>1. <<>> \in Seq(Texts) /\ Len(<<>>) <= QueueCap
    BY ChatAssumption DEF ChatAssumption
  <2>2. AgentOK'
    BY <1>4, <2>1 DEF BackendRestart, AgentOK
  <2>. QED
    BY <1>2, <1>4, <2>2 DEF BackendRestart, TypeInv
<1>. QED
  BY <1>1, <1>3, <1>4 DEF Link

\* What receiving a frame leaves.
LEMMA ReceivesFacts ==
  ASSUME LinkOK, NEW kind, Receives(kind)
  PROVE /\ down # <<>> /\ down' = Tail(down) /\ down' \in Seq(Frames)
        /\ Head(down) = down[1] /\ Head(down) \in Frames /\ Head(down).kind = kind
        /\ Len(down') = Len(down) - 1 /\ Len(down) \in Nat /\ 1 \in 1..Len(down)
        /\ Len(down') <= SendCap
        /\ \A k \in 1..Len(down') : down'[k] = down[k + 1] /\ k + 1 \in 1..Len(down)
<1>1. /\ down \in Seq(Frames) /\ down # <<>> /\ down' = Tail(down) /\ Head(down).kind = kind
      /\ Len(down) <= SendCap /\ SendCap \in Nat
  BY ChatAssumption DEF Receives, LinkOK, ChatAssumption
<1>2. /\ down' \in Seq(Frames) /\ Len(down') = Len(down) - 1
      /\ Head(down) = down[1] /\ Head(down) \in Frames /\ 1 \in 1..Len(down) /\ Len(down) \in Nat
      /\ \A k \in 1..Len(down') : down'[k] = down[k + 1] /\ k + 1 \in 1..Len(down)
  BY <1>1, TailFacts
<1>. QED
  BY <1>1, <1>2

LEMMA FrameFields ==
  ASSUME NEW f \in Frames
  PROVE /\ f.items \in Seq(Bubbles) /\ f.piece \in 0..MaxPieces
        /\ f.kind \in {"status", "list"} => f.value \in Shown
        /\ f.kind = "list" => f.value # "working"
        /\ f.kind = "piece" => f.piece \in 1..MaxPieces
        /\ f.kind # "history" => f.items = <<>>
<1>1. MaxPieces \in Nat
  BY ChatAssumption DEF ChatAssumption
<1>2. f.items \in Seq(Bubbles) /\ f.piece \in 0..MaxPieces /\ (f.kind = "piece" => f.piece # 0)
  BY DEF Frames
<1>3. f.kind = "piece" => f.piece \in 1..MaxPieces
  BY <1>1, <1>2
<1>4. /\ f.kind \in {"status", "list"} => f.value \in Shown
      /\ f.kind = "list" => f.value # "working"
      /\ f.kind # "history" => f.items = <<>>
  BY DEF Frames
<1>. QED
  BY <1>2, <1>3, <1>4

\* A bubble is written to, or closed.
LEMMA Written ==
  ASSUME NEW items \in Seq(Bubbles), NEW m, NEW p \in 1..MaxPieces
  PROVE [items EXCEPT ![m].pieces = Append(@, p)] \in Seq(Bubbles)
<1>0. items \in [1..Len(items) -> Bubbles] /\ Len(items) \in Nat
  OBVIOUS
<1>1. ASSUME NEW b \in Bubbles PROVE [b EXCEPT !.pieces = Append(@, p)] \in Bubbles
  <2>1. Append(b.pieces, p) \in Seq(1..MaxPieces)
    BY DEF Bubbles
  <2>. QED
    BY <2>1 DEF Bubbles
<1>2. [items EXCEPT ![m].pieces = Append(@, p)] \in [1..Len(items) -> Bubbles]
  BY <1>0, <1>1
<1>. QED
  BY <1>0, <1>2

LEMMA Closed ==
  ASSUME NEW items \in Seq(Bubbles), NEW m
  PROVE [items EXCEPT ![m].streaming = FALSE] \in Seq(Bubbles)
<1>0. items \in [1..Len(items) -> Bubbles] /\ Len(items) \in Nat
  OBVIOUS
<1>1. \A b \in Bubbles : [b EXCEPT !.streaming = FALSE] \in Bubbles
  BY DEF Bubbles
<1>2. [items EXCEPT ![m].streaming = FALSE] \in [1..Len(items) -> Bubbles]
  BY <1>0, <1>1
<1>. QED
  BY <1>0, <1>2

LEMMA AppTypes ==
  ASSUME TypeInv, App
  PROVE TypeInv'
<1>. AgentOK /\ LinkOK /\ AppOK
  BY DEF TypeInv
<1>1. AgentOK'
  BY AgentSame DEF App, RequestInitialState, OnAgentList, OnAgentStatus, OnAgentMessage, OnFinal,
     OnHistory, SendMessage, Ask, Dismiss
<1>2. ASSUME up' \in Seq(Requests), UNCHANGED <<linked, down, pending, online, breaks, lost>>
      PROVE LinkOK'
  BY <1>2 DEF LinkOK
<1>3. CASE RequestInitialState
  <2>1. LinkOK'
    BY <1>2, <1>3, EmitType, RequestType DEF RequestInitialState
  <2>2. AppOK'
    BY <1>3 DEF RequestInitialState, AppOK
  <2>. QED
    BY <1>1, <2>1, <2>2 DEF TypeInv
<1>4. CASE OnAgentList
  <2>1. Receives("list") /\ UNCHANGED <<linked, pending, online, breaks, lost>>
    BY <1>4 DEF OnAgentList
  <2>2. up' \in Seq(Requests)
    <3>1. <<>> \in Seq(Requests)
      OBVIOUS
    <3>2. (IF known THEN <<>> ELSE <<Request("history", NoText)>>) \in Seq(Requests)
      BY <3>1, RequestType
    <3>. QED
      BY <1>4, <3>2, EmitType DEF OnAgentList
  <2>3. LinkOK'
    BY <2>1, <2>2, ReceivesFacts DEF LinkOK
  <2>4. Head(down).value \in Shown
    BY <2>1, ReceivesFacts, FrameFields
  <2>5. AppOK'
    BY <1>4, <2>4 DEF OnAgentList, AppOK
  <2>. QED
    BY <1>1, <2>3, <2>5 DEF TypeInv
<1>5. ASSUME NEW kind, Receives(kind), UNCHANGED <<linkVars, lost>> PROVE LinkOK'
  BY <1>5, ReceivesFacts DEF LinkOK, linkVars
<1>6. CASE OnAgentStatus
  <2>1. Head(down).value \in Shown
    BY <1>6, ReceivesFacts, FrameFields DEF OnAgentStatus
  <2>2. AppOK'
    BY <1>6, <2>1 DEF OnAgentStatus, AppOK
  <2>. QED
    BY <1>1, <1>5, <1>6, <2>2 DEF OnAgentStatus, TypeInv
<1>7. CASE OnAgentMessage
  <2>1. Head(down).piece \in 1..MaxPieces
    BY <1>7, ReceivesFacts, FrameFields DEF OnAgentMessage
  <2>2. <<Head(down).piece>> \in Seq(1..MaxPieces)
    BY <2>1
  <2>3. Append(bubbles, Bubble("assistant", NoText, <<Head(down).piece>>, TRUE)) \in Seq(Bubbles)
    <3>1. Bubble("assistant", NoText, <<Head(down).piece>>, TRUE) \in Bubbles
      BY <2>2, BubbleTypes
    <3>2. \A b \in Bubbles : Append(bubbles, b) \in Seq(Bubbles)
      BY DEF AppOK
    <3>. QED
      BY <3>1, <3>2, Zenon
  <2>4. bubbles' \in Seq(Bubbles)
    BY <1>7, <2>1, <2>3, Written DEF OnAgentMessage, AppOK
  <2>5. AppOK'
    BY <1>7, <2>4 DEF OnAgentMessage, AppOK
  <2>. QED
    BY <1>1, <1>5, <1>7, <2>5 DEF OnAgentMessage, TypeInv
<1>8. CASE OnFinal
  <2>1. bubbles' \in Seq(Bubbles)
    BY <1>8, Closed DEF OnFinal, AppOK
  <2>2. AppOK'
    BY <1>8, <2>1 DEF OnFinal, AppOK
  <2>. QED
    BY <1>1, <1>5, <1>8, <2>2 DEF OnFinal, TypeInv
<1>9. CASE OnHistory
  <2>1. bubbles' \in Seq(Bubbles)
    BY <1>9, ReceivesFacts, FrameFields DEF OnHistory
  <2>2. AppOK'
    BY <1>9, <2>1 DEF OnHistory, AppOK
  <2>. QED
    BY <1>1, <1>5, <1>9, <2>2 DEF OnHistory, TypeInv
<1>10. ASSUME NEW t \in Texts, SendMessage(t) PROVE TypeInv'
  <2>1. LinkOK'
    <3>. DEFINE kind == IF status = "working" THEN "interrupt" ELSE "message"
    <3>1. kind \in {"agents", "history", "message", "interrupt", "retry"}
      OBVIOUS
    <3>. HIDE DEF kind
    <3>2. <<Request(kind, t)>> \in Seq(Requests)
      BY <3>1, RequestType
    <3>3. Emit(<<Request(kind, t)>>)
      BY <1>10 DEF SendMessage, kind
    <3>. QED
      BY <1>2, <1>10, <3>2, <3>3, EmitType DEF SendMessage
  <2>2. Append(bubbles, User(t)) \in Seq(Bubbles)
    BY BubbleTypes DEF AppOK
  <2>3. AppOK'
    BY <1>10, <2>2 DEF SendMessage, AppOK
  <2>. QED
    BY <1>1, <2>1, <2>3 DEF TypeInv
<1>11. CASE Ask
  <2>1. asks' \in 0..MaxAsks
    BY <1>11, ChatAssumption DEF Ask, AppOK, ChatAssumption
  <2>2. AppOK'
    BY <1>11, <2>1 DEF Ask, AppOK
  <2>3. \/ Emit(<<Request("history", NoText)>>)
        \/ Emit(<<Request("interrupt", NoText)>>)
        \/ Emit(<<Request("retry", NoText)>>)
    BY <1>11 DEF Ask
  <2>4. up' \in Seq(Requests)
    BY <2>3, EmitType, RequestType
  <2>. QED
    BY <1>1, <1>2, <1>11, <2>2, <2>4 DEF Ask, TypeInv
<1>12. CASE Dismiss
  <2>1. asks' \in 0..MaxAsks
    BY <1>12, ChatAssumption DEF Dismiss, AppOK, ChatAssumption
  <2>2. AppOK'
    BY <1>12, <2>1 DEF Dismiss, AppOK, Shown
  <2>. QED
    BY <1>1, <1>12, <2>2, LinkSame DEF Dismiss, TypeInv
<1>. QED
  BY <1>3, <1>4, <1>6, <1>7, <1>8, <1>9, <1>10, <1>11, <1>12 DEF App

LEMMA TypeStep == TypeInv /\ [Next]_vars => TypeInv'
<1>. SUFFICES ASSUME TypeInv, [Next]_vars PROVE TypeInv'
  OBVIOUS
<1>1. CASE UNCHANGED vars
  BY <1>1, AgentSame, LinkSame, AppSame DEF vars, agentVars, linkVars, appVars, TypeInv
<1>. QED
  BY <1>1, AgentTypes, ReadPumpTypes, LinkTypes, AppTypes DEF Next

LEMMA TypeSafe == Spec => []TypeInv
BY TypeInit, TypeStep, PTL DEF Spec

\* Every variable keeps its type and the send channel and the agent's queue their bounds,
\* for any texts, capacities and page size (server.go:186-212, agent.go:110-118,
\* providers.dart:66-111).
THEOREM ChatTypes == Spec => []TypeOK
BY TypeSafe, TypeInvOK, PTL

-----------------------------------------------------------------------------
(* What is on its way to a quiet agent's status.                            *)

Calm(f) == f.kind \in {"status", "list"} /\ f.value # "working"
Working(f) == f.kind = "status" /\ f.value = "working"

\* Every frame that shows the agent as working is followed by one that does not.
Settled(d) ==
  \A k \in 1..Len(d) : Working(d[k]) => \E l \in 1..Len(d) : k < l /\ Calm(d[l])
Coming(d) == \E l \in 1..Len(d) : Calm(d[l])

\* As long as no frame was lost, an agent that waits has announced it, and the frame has
\* arrived or is on its way behind every frame that says it works.
QuietInv ==
  /\ status = "working" => known
  /\ breaks = 0 /\ ~lost =>
       /\ ~linked => down = <<>> /\ status # "working"
       /\ ~busy => Settled(down) /\ (status = "working" => Coming(down))

LEMMA GrowSettles ==
  ASSUME NEW old \in Seq(Frames), NEW new, NEW frames \in Seq(Frames), frames # <<>>,
         Grown(new, old, frames, Len(frames)), Calm(frames[Len(frames)])
  PROVE Settled(new) /\ Coming(new)
<1>1. Len(old) \in Nat /\ Len(frames) \in Nat \ {0} /\ Len(frames) \in 1..Len(frames)
  OBVIOUS
<1>2. Len(new) \in 1..Len(new) /\ Len(new) = Len(old) + Len(frames) /\ Calm(new[Len(new)])
  BY <1>1 DEF Grown
<1>3. ASSUME NEW k \in 1..Len(new), Working(new[k]) PROVE k < Len(new)
  <2>1. k # Len(new)
    BY <1>2, <1>3 DEF Working, Calm
  <2>. QED
    BY <1>1, <1>2, <2>1
<1>. QED
  BY <1>2, <1>3 DEF Settled, Coming

LEMMA GrowKeeps ==
  ASSUME NEW old \in Seq(Frames), NEW new, NEW frames \in Seq(Frames), NEW n \in 0..Len(frames),
         Grown(new, old, frames, n), \A j \in 1..Len(frames) : ~Working(frames[j])
  PROVE (Settled(old) => Settled(new)) /\ (Coming(old) => Coming(new))
<1>1. Len(old) \in Nat /\ Len(new) = Len(old) + n /\ n \in Nat
  BY DEF Grown
<1>2. \A l \in 1..Len(old) : l \in 1..Len(new) /\ new[l] = old[l]
  BY <1>1 DEF Grown
<1>3. ASSUME NEW k \in 1..Len(new), Working(new[k]) PROVE k \in 1..Len(old) /\ Working(old[k])
  <2>1. ASSUME NEW j \in 1..n, k = Len(old) + j PROVE FALSE
    <3>1. new[k] = frames[j] /\ j \in 1..Len(frames)
      BY <2>1 DEF Grown
    <3>. QED
      BY <1>3, <3>1
  <2>. QED
    BY <1>2, <1>3, <2>1 DEF Grown
<1>4. Settled(old) => Settled(new)
  BY <1>2, <1>3 DEF Settled
<1>. QED
  BY <1>2, <1>4 DEF Coming

LEMMA DropHead ==
  ASSUME NEW old, NEW new, Len(old) \in Nat, Len(new) = Len(old) - 1,
         \A k \in 1..Len(new) : new[k] = old[k + 1] /\ k + 1 \in 1..Len(old)
  PROVE /\ Settled(old) => Settled(new)
        /\ Settled(old) /\ 1 \in 1..Len(old) /\ Working(old[1]) => Coming(new)
        /\ Coming(old) /\ ~Calm(old[1]) => Coming(new)
<1>1. ASSUME NEW l \in 1..Len(old), l > 1 PROVE l - 1 \in 1..Len(new) /\ new[l - 1] = old[l]
  <2>1. l - 1 \in 1..Len(new)
    BY <1>1
  <2>2. new[l - 1] = old[(l - 1) + 1]
    BY <2>1
  <2>3. (l - 1) + 1 = l
    OBVIOUS
  <2>. QED
    BY <2>1, <2>2, <2>3
<1>2. ASSUME Settled(old), NEW k \in 1..Len(new), Working(new[k])
      PROVE \E l \in 1..Len(new) : k < l /\ Calm(new[l])
  <2>1. PICK l \in 1..Len(old) : k + 1 < l /\ Calm(old[l])
    BY <1>2 DEF Settled
  <2>2. l - 1 \in 1..Len(new) /\ new[l - 1] = old[l] /\ k < l - 1
    BY <1>1, <2>1
  <2>. QED
    BY <2>1, <2>2
<1>3. ASSUME Settled(old), 1 \in 1..Len(old), Working(old[1]) PROVE Coming(new)
  <2>1. PICK l \in 1..Len(old) : 1 < l /\ Calm(old[l])
    BY <1>3 DEF Settled
  <2>. QED
    BY <1>1, <2>1 DEF Coming
<1>4. ASSUME Coming(old), ~Calm(old[1]) PROVE Coming(new)
  <2>1. PICK l \in 1..Len(old) : Calm(old[l])
    BY <1>4 DEF Coming
  <2>2. l > 1
    BY <1>4, <2>1
  <2>. QED
    BY <1>1, <2>1, <2>2 DEF Coming
<1>. QED
  BY <1>2, <1>3, <1>4 DEF Settled

\* The backend broadcasts: what it says last of a waiting agent is that it waits.
LEMMA SaysQuiet ==
  ASSUME TypeInv, QuietInv, NEW frames \in Seq(Frames), frames # <<>>, Broadcast(frames),
         UNCHANGED <<linked, breaks, status, known>>,
         ~busy' => \/ Calm(frames[Len(frames)])
                   \/ ~busy /\ \A j \in 1..Len(frames) : ~Working(frames[j])
  PROVE QuietInv'
<1>. SUFFICES ASSUME breaks = 0, ~lost'
              PROVE /\ ~linked => down' = <<>> /\ status # "working"
                    /\ ~busy' => Settled(down') /\ (status = "working" => Coming(down'))
  BY DEF QuietInv
<1>1. /\ down \in Seq(Frames) /\ ~lost
      /\ \E n \in 0..Len(frames) : Grown(down', down, frames, n)
      /\ linked => Grown(down', down, frames, Len(frames))
      /\ ~linked => down' = down
  BY Offered DEF TypeInv, LinkOK
<1>2. CASE ~linked
  <2>1. down' = <<>> /\ status # "working"
    BY <1>1, <1>2 DEF QuietInv
  <2>. QED
    BY <2>1 DEF Settled
<1>3. CASE linked
  <2>. SUFFICES ASSUME ~busy' PROVE Settled(down') /\ (status = "working" => Coming(down'))
    BY <1>3
  <2>1. CASE Calm(frames[Len(frames)])
    BY <1>1, <1>3, <2>1, GrowSettles
  <2>2. CASE ~busy /\ \A j \in 1..Len(frames) : ~Working(frames[j])
    <3>1. Settled(down) /\ (status = "working" => Coming(down))
      BY <1>1, <2>2 DEF QuietInv
    <3>. QED
      BY <1>1, <2>2, <3>1, GrowKeeps
  <2>. QED
    BY <2>1, <2>2
<1>. QED
  BY <1>2, <1>3

\* The app reads a frame.
LEMMA HearsQuiet ==
  ASSUME TypeInv, QuietInv, NEW kind, Receives(kind), UNCHANGED <<linked, breaks, busy, lost>>,
         known => known', status' = "working" => known',
         \/ kind \notin {"status", "list"} /\ status' = status
         \/ status' # "working"
         \/ kind = "status" /\ status' = Head(down).value
  PROVE QuietInv'
<1>. SUFFICES ASSUME breaks = 0, ~lost
              PROVE /\ linked
                    /\ ~busy => Settled(down') /\ (status' = "working" => Coming(down'))
  BY DEF QuietInv
<1>1. /\ down # <<>> /\ Head(down) = down[1] /\ down[1].kind = kind
      /\ Len(down') = Len(down) - 1 /\ Len(down) \in Nat /\ 1 \in 1..Len(down)
      /\ \A k \in 1..Len(down') : down'[k] = down[k + 1] /\ k + 1 \in 1..Len(down)
  BY ReceivesFacts DEF TypeInv
<1>2. linked
  BY <1>1 DEF QuietInv
<1>. SUFFICES ASSUME ~busy PROVE Settled(down') /\ (status' = "working" => Coming(down'))
  BY <1>2
<1>3. Settled(down) /\ (status = "working" => Coming(down))
  BY DEF QuietInv
<1>. SUFFICES ASSUME NEW new, new = down' PROVE Settled(new) /\ (status' = "working" => Coming(new))
  OBVIOUS
<1>4. Settled(new)
  BY <1>1, <1>3, DropHead
<1>5. CASE kind \notin {"status", "list"} /\ status' = status
  <2>1. ~Calm(down[1])
    BY <1>1, <1>5 DEF Calm
  <2>. QED
    BY <1>1, <1>3, <1>4, <1>5, <2>1, DropHead
<1>6. CASE kind = "status" /\ status' = Head(down).value
  <2>1. status' = "working" => Working(down[1])
    BY <1>1, <1>6 DEF Working
  <2>. QED
    BY <1>1, <1>3, <1>4, <2>1, DropHead
<1>. QED
  BY <1>4, <1>5, <1>6

\* Nothing of it changes.
LEMMA SameQuiet ==
  ASSUME QuietInv, UNCHANGED <<linked, breaks, lost, busy, down>>,
         known => known', status' = status \/ status' # "working"
  PROVE QuietInv'
BY DEF QuietInv

LEMMA QuietInit == Init => QuietInv
BY DEF Init, QuietInv, Settled

LEMMA QuietAgent ==
  ASSUME TypeInv, QuietInv, Agent
  PROVE QuietInv'
<1>0. UNCHANGED <<linkVars, appVars>> /\ busy \in BOOLEAN
  BY DEF Agent, Begin, Say, ToolRound, SaveAnswer, FinishReply, Fail, TakeInterrupt, TypeInv, AgentOK
<1>1. UNCHANGED <<linked, breaks, status, known>>
  BY <1>0 DEF linkVars, appVars
<1>2. ASSUME NEW frames \in Seq(Frames), frames # <<>>, Broadcast(frames),
             busy' \/ Calm(frames[Len(frames)])
      PROVE QuietInv'
  BY <1>1, <1>2, SaysQuiet
<1>3. /\ <<Status("working")>> \in Seq(Frames) /\ <<FinalPiece, Status("idle")>> \in Seq(Frames)
      /\ <<Status("working"), Status("working"), Status("working")>> \in Seq(Frames)
      /\ <<Status("working"), Status("idle")>> \in Seq(Frames)
      /\ <<Status("working"), Status("working")>> \in Seq(Frames)
      /\ <<Status("error")>> \in Seq(Frames)
  BY FrameTypes, FramePairs DEF Shown
<1>4. Calm(Status("idle")) /\ Calm(Status("error"))
  BY DEF Calm, Status, Frame
<1>5. CASE Begin
  <2>1. busy' /\ Broadcast(<<Status("working")>>)
    BY <1>5 DEF Begin
  <2>. QED
    BY <1>2, <1>3, <2>1
<1>6. CASE Say
  <2>1. busy' /\ Broadcast(<<Piece(said + 1)>>) /\ said + 1 \in 1..MaxPieces
    BY <1>6, ChatAssumption DEF Say, Streaming, TypeInv, AgentOK, ChatAssumption
  <2>2. <<Piece(said + 1)>> \in Seq(Frames) /\ <<Piece(said + 1)>> # <<>>
    BY <2>1, FrameTypes
  <2>. QED
    BY <1>2, <2>1, <2>2
<1>7. CASE ToolRound
  <2>1. busy' /\ Broadcast(<<Status("working"), Status("working"), Status("working")>>)
    BY <1>7 DEF ToolRound, Streaming
  <2>. QED
    BY <1>2, <1>3, <2>1
<1>8. CASE SaveAnswer
  BY <1>1, <1>8, SameQuiet DEF SaveAnswer
<1>9. CASE FinishReply
  <2>. DEFINE frames == <<FinalPiece, Status("idle")>>
  <2>1. Broadcast(frames) /\ frames # <<>> /\ Calm(frames[Len(frames)])
    BY <1>4, <1>9 DEF FinishReply
  <2>. QED
    BY <1>2, <1>3, <2>1
<1>10. CASE Fail
  <2>. DEFINE frames == <<Status("error")>>
  <2>1. Broadcast(frames) /\ frames # <<>> /\ Calm(frames[Len(frames)])
    BY <1>4, <1>10 DEF Fail
  <2>. QED
    BY <1>2, <1>3, <2>1
<1>11. CASE TakeInterrupt
  <2>1. \/ Broadcast(<<Status("working"), Status("idle")>>)
        \/ busy' /\ Broadcast(<<Status("working"), Status("working")>>)
    BY <1>11 DEF TakeInterrupt, Streaming
  <2>2. CASE Broadcast(<<Status("working"), Status("idle")>>)
    <3>. DEFINE frames == <<Status("working"), Status("idle")>>
    <3>1. frames # <<>> /\ Calm(frames[Len(frames)])
      BY <1>4
    <3>. QED
      BY <1>2, <1>3, <2>2, <3>1
  <2>3. CASE busy' /\ Broadcast(<<Status("working"), Status("working")>>)
    BY <1>2, <1>3, <2>3
  <2>. QED
    BY <2>1, <2>2, <2>3
<1>. QED
  BY <1>5, <1>6, <1>7, <1>8, <1>9, <1>10, <1>11 DEF Agent

LEMMA QuietStep == TypeInv /\ QuietInv /\ [Next]_vars => QuietInv'
<1>. SUFFICES ASSUME TypeInv, QuietInv, [Next]_vars PROVE QuietInv'
  OBVIOUS
<1>1. CASE Agent
  BY <1>1, QuietAgent
<1>2. CASE HandleGetAgents \/ HandleGetHistory \/ HandleUserMessage \/ HandleInterrupt
  BY <1>2, SameQuiet DEF HandleGetAgents, HandleGetHistory, HandleUserMessage, HandleInterrupt,
     Reads, agentVars, appVars
<1>3. CASE SendResponse
  <2>1. PICK frame \in pending : Broadcast(<<frame>>)
    BY <1>3 DEF SendResponse
  <2>2. frame \in Frames /\ ~Working(frame)
    BY DEF TypeInv, LinkOK, Responses, Working
  <2>. DEFINE frames == <<frame>>
  <2>3. frames \in Seq(Frames) /\ frames # <<>> /\ \A j \in 1..Len(frames) : ~Working(frames[j])
    BY <2>2
  <2>4. UNCHANGED <<linked, breaks, status, known, busy>>
    BY <1>3 DEF SendResponse, appVars, agentVars
  <2>. HIDE DEF frames
  <2>5. Broadcast(frames)
    BY <2>1 DEF frames
  <2>6. ~busy' => ~busy
    BY <2>4
  <2>. QED
    BY <2>3, <2>4, <2>5, <2>6, SaysQuiet
<1>4. CASE HandleRetryAgent
  <2>1. UNCHANGED <<linked, breaks, status, known, busy>>
    BY <1>4 DEF HandleRetryAgent, appVars
  <2>2. CASE state = "error"
    <3>. DEFINE frames == <<Status("idle")>>
    <3>1. Broadcast(frames)
      BY <1>4, <2>2 DEF HandleRetryAgent
    <3>2. frames \in Seq(Frames) /\ frames # <<>> /\ Calm(frames[Len(frames)])
      BY FrameTypes DEF Shown, Calm, Status, Frame
    <3>. HIDE DEF frames
    <3>. QED
      BY <2>1, <3>1, <3>2, SaysQuiet
  <2>3. CASE state # "error"
    BY <1>4, <2>1, <2>3, SameQuiet DEF HandleRetryAgent
  <2>. QED
    BY <2>2, <2>3
<1>5. CASE Connect \/ RequestInitialState \/ Ask \/ Dismiss \/ \E t \in Texts : SendMessage(t)
  <2>1. UNCHANGED <<linked, breaks, lost, busy, down, known>>
    BY <1>5 DEF Connect, RequestInitialState, Ask, Dismiss, SendMessage, agentVars, appVars, linkVars
  <2>2. status' = status \/ status' # "working"
    BY <1>5 DEF Connect, RequestInitialState, Ask, Dismiss, SendMessage, appVars
  <2>. QED
    BY <2>1, <2>2, SameQuiet
<1>6. CASE Register
  <2>1. /\ ~linked /\ UNCHANGED <<breaks, lost, busy, down, status, known>>
    BY <1>6 DEF Register, agentVars, appVars
  <2>2. Settled(<<>>)
    BY DEF Settled
  <2>. QED
    BY <2>1, <2>2 DEF QuietInv
<1>7. CASE Disconnect \/ BackendRestart
  <2>1. breaks' = breaks + 1 /\ breaks \in Nat /\ UNCHANGED <<status, known>>
    BY <1>7, ChatAssumption DEF Disconnect, BackendRestart, Unlink, TypeInv, LinkOK, ChatAssumption,
       appVars
  <2>2. breaks' # 0
    BY <2>1
  <2>. QED
    BY <2>1, <2>2 DEF QuietInv
<1>8. CASE OnAgentList
  <2>1. Receives("list") /\ known' = TRUE /\ UNCHANGED <<linked, breaks, busy, lost>>
    BY <1>8 DEF OnAgentList, agentVars
  <2>2. status' # "working"
    BY <1>8, <2>1, ReceivesFacts, FrameFields DEF OnAgentList, TypeInv
  <2>. QED
    BY <2>1, <2>2, HearsQuiet
<1>9. CASE OnAgentStatus
  <2>1. Receives("status") /\ UNCHANGED <<linked, breaks, busy, lost, known>>
    BY <1>9 DEF OnAgentStatus, agentVars, linkVars
  <2>2. CASE known
    BY <1>9, <2>1, <2>2, HearsQuiet DEF OnAgentStatus
  <2>3. CASE ~known
    BY <1>9, <2>1, <2>3, HearsQuiet DEF OnAgentStatus, QuietInv
  <2>. QED
    BY <2>2, <2>3
<1>10. CASE OnAgentMessage \/ OnFinal \/ OnHistory
  <2>1. PICK kind \in {"piece", "final", "history"} : Receives(kind)
    BY <1>10 DEF OnAgentMessage, OnFinal, OnHistory
  <2>2. UNCHANGED <<linked, breaks, busy, lost, known, status>>
    BY <1>10 DEF OnAgentMessage, OnFinal, OnHistory, agentVars, linkVars
  <2>. QED
    BY <2>1, <2>2, HearsQuiet DEF QuietInv
<1>11. CASE UNCHANGED vars
  BY <1>11, SameQuiet DEF vars
<1>. QED
  BY <1>1, <1>2, <1>3, <1>4, <1>5, <1>6, <1>7, <1>8, <1>9, <1>10, <1>11
     DEF Next, ReadPump, Link, App

\* An agent that waits is not shown as working once its frames have arrived, on any
\* connection that was never lost and dropped nothing (setState, agent.go:160-201; what
\* main.dart:41-85 makes of lists and statuses).
THEOREM QuietCorrect == Spec => []QuietNotWorking
<1>1. QuietInv => QuietNotWorking
  BY DEF QuietInv, QuietNotWorking, Quiet, Coming
<1>. QED
  BY <1>1, TypeSafe, QuietInit, TypeStep, QuietStep, PTL DEF Spec

-----------------------------------------------------------------------------
(* Conversations: the table's, a history's and the screen's.                *)

\* No piece comes after piece n; every piece comes before piece p.
UpToPiece(items, n) ==
  \A k \in DOMAIN items : \A i \in DOMAIN items[k].pieces : items[k].pieces[i] <= n
Before(items, p) ==
  \A k \in DOMAIN items : \A i \in DOMAIN items[k].pieces : items[k].pieces[i] < p

Has(items, t) == \E k \in DOMAIN items : items[k].who = "user" /\ items[k].text = t

OnceEach(items) == \A k, l \in DOMAIN items :
  items[k].who = "user" /\ items[l].who = "user" /\ items[k].text = items[l].text => k = l

Open(items) == \E k \in DOMAIN items : items[k].streaming

\* At most one bubble is open, and no text is below it.
OneOpen(items) == \A k, l \in DOMAIN items :
  items[k].streaming /\ k < l => items[l].pieces = <<>> /\ ~items[l].streaming

\* A conversation as it should be, with the texts of T and the pieces up to n.
Neat(items, T, n) ==
  /\ InOrder(items) /\ UpToPiece(items, n) /\ OneOpen(items)
  /\ OnceEach(items) /\ \A t : Has(items, t) => t \in T

\* A bubble that can follow.
Follows(items, b, T, n) ==
  /\ Rising(b.pieces) /\ \A i \in DOMAIN b.pieces : b.pieces[i] <= n /\ Before(items, b.pieces[i])
  /\ b.who = "user" => b.text \in T /\ ~Has(items, b.text)
  /\ b.pieces # <<>> \/ b.streaming => ~Open(items)

LEMMA AppendFacts ==
  ASSUME NEW items \in Seq(Bubbles), NEW b \in Bubbles, NEW new, new = Append(items, b)
  PROVE /\ DOMAIN items = 1..Len(items) /\ Len(items) \in Nat
        /\ DOMAIN new = 1..(Len(items) + 1)
        /\ \A k \in DOMAIN items : k \in DOMAIN new /\ new[k] = items[k] /\ k < Len(items) + 1
        /\ Len(items) + 1 \in DOMAIN new /\ new[Len(items) + 1] = b
        /\ \A k \in DOMAIN new : k \in DOMAIN items \/ k = Len(items) + 1
        /\ \A k, l \in DOMAIN new : k < l => k \in DOMAIN items
<1>1. /\ DOMAIN items = 1..Len(items) /\ Len(items) \in Nat
      /\ DOMAIN new = 1..(Len(items) + 1)
      /\ \A k \in 1..Len(items) : new[k] = items[k]
      /\ new[Len(items) + 1] = b
  OBVIOUS
<1>. QED
  BY <1>1

LEMMA NeatAppend ==
  ASSUME NEW items \in Seq(Bubbles), NEW b \in Bubbles, NEW T, NEW n,
         Neat(items, T, n), Follows(items, b, T, n)
  PROVE /\ Neat(Append(items, b), T, n)
        /\ \A t : Has(Append(items, b), t) <=> Has(items, t) \/ (b.who = "user" /\ b.text = t)
        /\ Open(Append(items, b)) <=> Open(items) \/ b.streaming
<1>. DEFINE new == Append(items, b)
<1>1. /\ Len(items) \in Nat
      /\ \A k \in DOMAIN items : k \in DOMAIN new /\ new[k] = items[k] /\ k < Len(items) + 1
      /\ Len(items) + 1 \in DOMAIN new /\ new[Len(items) + 1] = b
      /\ \A k \in DOMAIN new : k \in DOMAIN items \/ k = Len(items) + 1
      /\ \A k, l \in DOMAIN new : k < l => k \in DOMAIN items
  BY AppendFacts
<1>. HIDE DEF new
<1>2. ASSUME NEW t PROVE Has(new, t) <=> Has(items, t) \/ (b.who = "user" /\ b.text = t)
  <2>1. Has(items, t) => Has(new, t)
    BY <1>1 DEF Has
  <2>2. ASSUME b.who = "user", b.text = t PROVE Has(new, t)
    <3>. DEFINE z == Len(items) + 1
    <3>1. z \in DOMAIN new /\ new[z].who = "user" /\ new[z].text = t
      BY <1>1, <2>2
    <3>. HIDE DEF z
    <3>. QED
      BY <3>1, Zenon DEF Has
  <2>3. ASSUME Has(new, t) PROVE Has(items, t) \/ (b.who = "user" /\ b.text = t)
    <3>1. PICK k \in DOMAIN new : new[k].who = "user" /\ new[k].text = t
      BY <2>3, Zenon DEF Has
    <3>2. CASE k \in DOMAIN items
      BY <1>1, <3>1, <3>2 DEF Has
    <3>3. CASE k = Len(items) + 1
      BY <1>1, <3>1, <3>3
    <3>. QED
      BY <1>1, <3>2, <3>3
  <2>. QED
    BY <2>1, <2>2, <2>3
<1>3. Open(new) <=> Open(items) \/ b.streaming
  BY <1>1 DEF Open
<1>4. InOrder(new)
  <2>1. ASSUME NEW k \in DOMAIN new PROVE Rising(new[k].pieces)
    BY <1>1 DEF Neat, InOrder, Follows
  <2>2. ASSUME NEW k \in DOMAIN new, NEW l \in DOMAIN new, k < l,
               NEW i \in DOMAIN new[k].pieces, NEW j \in DOMAIN new[l].pieces
        PROVE new[k].pieces[i] < new[l].pieces[j]
    <3>1. k \in DOMAIN items /\ new[k] = items[k]
      BY <1>1, <2>2
    <3>2. CASE l \in DOMAIN items
      BY <1>1, <2>2, <3>1, <3>2 DEF Neat, InOrder
    <3>3. CASE l = Len(items) + 1
      BY <1>1, <2>2, <3>1, <3>3 DEF Follows, Before
    <3>. QED
      BY <1>1, <3>2, <3>3
  <2>. QED
    BY <2>1, <2>2 DEF InOrder
<1>5. UpToPiece(new, n)
  BY <1>1 DEF UpToPiece, Neat, Follows
<1>6. OneOpen(new)
  <2>. SUFFICES ASSUME NEW k \in DOMAIN new, NEW l \in DOMAIN new, new[k].streaming, k < l
                PROVE new[l].pieces = <<>> /\ ~new[l].streaming
    BY DEF OneOpen
  <2>1. k \in DOMAIN items /\ items[k].streaming
    BY <1>1
  <2>2. CASE l \in DOMAIN items
    BY <1>1, <2>1, <2>2 DEF Neat, OneOpen
  <2>3. CASE l = Len(items) + 1
    BY <1>1, <2>1, <2>3 DEF Follows, Open
  <2>. QED
    BY <1>1, <2>2, <2>3
<1>7. OnceEach(new)
  BY <1>1 DEF OnceEach, Neat, Follows, Has
<1>. QED
  BY <1>2, <1>3, <1>4, <1>5, <1>6, <1>7 DEF Neat, Follows, new

LEMMA NeatNothing ==
  ASSUME NEW T, NEW n
  PROVE Neat(<<>>, T, n) /\ ~Open(<<>>) /\ \A t : ~Has(<<>>, t)
BY DEF Neat, InOrder, UpToPiece, OneOpen, OnceEach, Has, Open

LEMMA Element == ASSUME NEW S, NEW s \in Seq(S), NEW i \in DOMAIN s PROVE s[i] \in S
OBVIOUS

LEMMA PieceNumber ==
  ASSUME NEW pieces \in Seq(1..MaxPieces), NEW i \in DOMAIN pieces
  PROVE pieces[i] \in Nat
<1>1. pieces[i] \in 1..MaxPieces
  BY Element
<1>. QED
  BY <1>1

LEMMA NeatMore ==
  ASSUME NEW items \in Seq(Bubbles), NEW T, NEW n \in Nat, NEW U, NEW m \in Nat, T \subseteq U, n <= m,
         Neat(items, T, n)
  PROVE Neat(items, U, m)
<1>2. ASSUME NEW k \in DOMAIN items, NEW i \in DOMAIN items[k].pieces
      PROVE items[k].pieces[i] \in Int
  <2>1. items[k] \in Bubbles
    OBVIOUS
  <2>2. items[k].pieces \in Seq(1..MaxPieces)
    BY <2>1 DEF Bubbles
  <2>. QED
    BY <2>2, PieceNumber
<1>3. UpToPiece(items, m)
  BY <1>2 DEF Neat, UpToPiece
<1>. QED
  BY <1>3 DEF Neat

\* A page of a closed conversation.
LEMMA NeatPage ==
  ASSUME NEW items \in Seq(Bubbles), NEW page \in Seq(Bubbles), NEW m \in Nat, NEW T, NEW n,
         \A k \in 1..Len(page) : page[k] = items[m + k - 1] /\ m + k - 1 \in 1..Len(items),
         Neat(items, T, n), ~Open(items)
  PROVE Neat(page, T, n) /\ ~Open(page)
<1>1. /\ DOMAIN items = 1..Len(items) /\ DOMAIN page = 1..Len(page)
      /\ \A k \in DOMAIN page : page[k] = items[m + k - 1] /\ m + k - 1 \in DOMAIN items
      /\ \A k, l \in DOMAIN page : k < l => m + k - 1 < m + l - 1
      /\ \A k, l \in DOMAIN page : m + k - 1 = m + l - 1 => k = l
  OBVIOUS
<1>2. ~Open(page)
  BY <1>1 DEF Open
<1>3. InOrder(page)
  BY <1>1 DEF Neat, InOrder
<1>4. UpToPiece(page, n) /\ OnceEach(page)
  <2>1. UpToPiece(page, n)
    BY <1>1 DEF Neat, UpToPiece
  <2>2. ASSUME NEW k \in DOMAIN page, NEW l \in DOMAIN page, page[k].who = "user",
               page[l].who = "user", page[k].text = page[l].text
        PROVE k = l
    <3>1. /\ page[k] = items[m + k - 1] /\ m + k - 1 \in DOMAIN items
          /\ page[l] = items[m + l - 1] /\ m + l - 1 \in DOMAIN items
      BY <1>1
    <3>2. m + k - 1 = m + l - 1
      BY <2>2, <3>1 DEF Neat, OnceEach
    <3>. QED
      BY <1>1, <3>2
  <2>. QED
    BY <2>1, <2>2 DEF OnceEach
<1>5. OneOpen(page)
  BY <1>2 DEF OneOpen, Open
<1>6. \A t : Has(page, t) => Has(items, t)
  BY <1>1 DEF Has
<1>. QED
  BY <1>2, <1>3, <1>4, <1>5, <1>6 DEF Neat

\* A conversation with no bubble open.
Fit(items, T, n) == Neat(items, T, n) /\ ~Open(items)

LEMMA FitNothing == \A T, n : Fit(<<>>, T, n)
BY NeatNothing DEF Fit

LEMMA FitMore ==
  ASSUME NEW items \in Seq(Bubbles), NEW T, NEW n \in Nat, NEW U, NEW m \in Nat, T \subseteq U, n <= m,
         Fit(items, T, n)
  PROVE Fit(items, U, m)
BY NeatMore DEF Fit

\* What the agent appends can follow.
LEMMA UserFollows ==
  ASSUME NEW items, NEW T, NEW n, NEW t \in T, ~Has(items, t)
  PROVE Follows(items, User(t), T, n)
BY DEF Follows, User, Bubble, Rising

LEMMA ToolFollows ==
  ASSUME NEW items, NEW T, NEW n
  PROVE Follows(items, Tool, T, n)
BY DEF Follows, Tool, Bubble, Rising

LEMMA AnswerFollows ==
  ASSUME NEW items \in Seq(Bubbles), NEW T, NEW n \in Nat, NEW m \in 0..n, UpToPiece(items, m), ~Open(items)
  PROVE Follows(items, Answer([k \in 1..(n - m) |-> m + k]), T, n)
<1>. DEFINE pieces == [k \in 1..(n - m) |-> m + k]
<1>1. ASSUME NEW i \in DOMAIN pieces PROVE pieces[i] \in Nat /\ pieces[i] <= n /\ m < pieces[i]
  OBVIOUS
<1>2. Rising(pieces)
  BY DEF Rising
<1>. HIDE DEF pieces
<1>3. ASSUME NEW i \in DOMAIN pieces PROVE Before(items, pieces[i])
  <2>1. ASSUME NEW k \in DOMAIN items, NEW j \in DOMAIN items[k].pieces
        PROVE items[k].pieces[j] < pieces[i]
    <3>1. items[k] \in Bubbles
      BY Element
    <3>2. items[k].pieces \in Seq(1..MaxPieces)
      BY <3>1 DEF Bubbles
    <3>3. items[k].pieces[j] \in Nat /\ items[k].pieces[j] <= m
      BY <3>2, PieceNumber DEF UpToPiece
    <3>. QED
      BY <1>1, <3>3
  <2>. QED
    BY <2>1 DEF Before
<1>4. /\ Answer(pieces).pieces = pieces /\ Answer(pieces).who = "assistant"
      /\ Answer(pieces).streaming = FALSE
  BY DEF Answer, Bubble
<1>5. Follows(items, Answer(pieces), T, n)
  BY <1>1, <1>2, <1>3, <1>4 DEF Follows
<1>. QED
  BY <1>5 DEF pieces

-----------------------------------------------------------------------------
(* Where a text is: on its way to the agent, in its queue, in its interrupt  *)
(* channel or saved; never in two of these.                                 *)

InUp(frames, t) == \E k \in 1..Len(frames) : frames[k].text = t
InBox(texts, t) == \E k \in 1..Len(texts) : texts[k] = t

SentOnce(frames) == \A k, l \in 1..Len(frames) :
  frames[k].text = frames[l].text /\ frames[k].text # NoText => k = l
QueuedOnce(texts) == \A k, l \in 1..Len(texts) : texts[k] = texts[l] => k = l

InOnePlace(t, frames, texts, kept, items, T) ==
  /\ InUp(frames, t) => t \in T /\ ~InBox(texts, t) /\ t \notin kept /\ ~Has(items, t)
  /\ InBox(texts, t) => t \in T /\ t \notin kept /\ ~Has(items, t)
  /\ t \in kept => t \in T /\ ~Has(items, t)

Places(frames, texts, kept, items, T) ==
  /\ SentOnce(frames) /\ QueuedOnce(texts)
  /\ \A t \in Texts : InOnePlace(t, frames, texts, kept, items, T)

PlaceInv == Places(up, inbox, slot, log, typed)

\* Nothing came to a place.
LEMMA PlacesLess ==
  ASSUME NEW frames, NEW texts, NEW kept, NEW items, NEW T,
         NEW frames2, NEW texts2, NEW kept2, NEW items2,
         Places(frames, texts, kept, items, T), SentOnce(frames2), QueuedOnce(texts2),
         \A t \in Texts :
           /\ InUp(frames2, t) => InUp(frames, t)
           /\ InBox(texts2, t) => InBox(texts, t)
           /\ t \in kept2 => t \in kept
           /\ Has(items2, t) => Has(items, t)
  PROVE Places(frames2, texts2, kept2, items2, T)
BY DEF Places, InOnePlace

LEMMA UpTail ==
  ASSUME NEW frames \in Seq(Requests), frames # <<>>, SentOnce(frames)
  PROVE /\ SentOnce(Tail(frames)) /\ \A t : InUp(Tail(frames), t) => InUp(frames, t)
        /\ Head(frames).text # NoText => ~InUp(Tail(frames), Head(frames).text)
        /\ InUp(frames, Head(frames).text)
<1>. DEFINE rest == Tail(frames)
<1>1. /\ Head(frames) = frames[1] /\ 1 \in 1..Len(frames) /\ Len(frames) \in Nat
      /\ rest \in Seq(Requests)
      /\ \A k \in 1..Len(rest) : rest[k] = frames[k + 1] /\ k + 1 \in 1..Len(frames)
  BY TailFacts
<1>. HIDE DEF rest
<1>2. SentOnce(rest)
  BY <1>1 DEF SentOnce
<1>3. \A t : InUp(rest, t) => InUp(frames, t)
  BY <1>1 DEF InUp
<1>4. ASSUME Head(frames).text # NoText, InUp(rest, Head(frames).text) PROVE FALSE
  BY <1>1, <1>4 DEF InUp, SentOnce
<1>5. InUp(frames, Head(frames).text)
  BY <1>1 DEF InUp
<1>. QED
  BY <1>2, <1>3, <1>4, <1>5 DEF rest

LEMMA BoxTail ==
  ASSUME NEW texts \in Seq(Texts), texts # <<>>, QueuedOnce(texts)
  PROVE /\ QueuedOnce(Tail(texts)) /\ \A t : InBox(Tail(texts), t) => InBox(texts, t)
        /\ ~InBox(Tail(texts), Head(texts)) /\ InBox(texts, Head(texts)) /\ Head(texts) \in Texts
<1>. DEFINE rest == Tail(texts)
<1>1. /\ Head(texts) = texts[1] /\ 1 \in 1..Len(texts) /\ Len(texts) \in Nat
      /\ Head(texts) \in Texts /\ rest \in Seq(Texts)
      /\ \A k \in 1..Len(rest) : rest[k] = texts[k + 1] /\ k + 1 \in 1..Len(texts)
  BY TailFacts
<1>. HIDE DEF rest
<1>2. QueuedOnce(rest)
  BY <1>1 DEF QueuedOnce
<1>3. \A t : InBox(rest, t) => InBox(texts, t)
  BY <1>1 DEF InBox
<1>4. ASSUME InBox(rest, Head(texts)) PROVE FALSE
  BY <1>1, <1>4 DEF InBox, QueuedOnce
<1>5. InBox(texts, Head(texts))
  BY <1>1 DEF InBox
<1>. QED
  BY <1>1, <1>2, <1>3, <1>4, <1>5 DEF rest

LEMMA UpAppend ==
  ASSUME NEW frames \in Seq(Requests), NEW r \in Requests, SentOnce(frames),
         r.text # NoText => ~InUp(frames, r.text), NEW new, new = frames \o <<r>>
  PROVE SentOnce(new) /\ \A t : InUp(new, t) <=> (InUp(frames, t) \/ r.text = t)
<1>1. /\ Len(new) = Len(frames) + 1 /\ Len(frames) \in Nat
      /\ \A k \in 1..Len(frames) : new[k] = frames[k] /\ k \in 1..Len(new)
      /\ new[Len(frames) + 1] = r /\ Len(frames) + 1 \in 1..Len(new)
      /\ \A k \in 1..Len(new) : k \in 1..Len(frames) \/ k = Len(frames) + 1
  OBVIOUS
<1>2. SentOnce(new)
  BY <1>1 DEF SentOnce, InUp
<1>3. ASSUME NEW t PROVE InUp(new, t) <=> (InUp(frames, t) \/ r.text = t)
  <2>1. InUp(frames, t) => InUp(new, t)
    BY <1>1 DEF InUp
  <2>2. r.text = t => InUp(new, t)
    BY <1>1 DEF InUp
  <2>3. ASSUME InUp(new, t) PROVE InUp(frames, t) \/ r.text = t
    <3>1. PICK k \in 1..Len(new) : new[k].text = t
      BY <2>3 DEF InUp
    <3>. QED
      BY <1>1, <3>1 DEF InUp
  <2>. QED
    BY <2>1, <2>2, <2>3
<1>. QED
  BY <1>2, <1>3

LEMMA UpPrepend ==
  ASSUME NEW frames \in Seq(Requests), NEW r \in Requests, SentOnce(frames),
         r.text = NoText, NEW new, new = <<r>> \o frames
  PROVE SentOnce(new) /\ \A t \in Texts : InUp(new, t) => InUp(frames, t)
<1>1. /\ Len(new) = Len(frames) + 1 /\ Len(frames) \in Nat /\ new[1] = r
      /\ \A k \in 1..Len(new) : k = 1 \/ (k - 1 \in 1..Len(frames) /\ new[k] = frames[k - 1])
  OBVIOUS
<1>2. SentOnce(new)
  BY <1>1 DEF SentOnce
<1>3. ASSUME NEW t \in Texts, InUp(new, t) PROVE InUp(frames, t)
  <2>1. PICK k \in 1..Len(new) : new[k].text = t
    BY <1>3 DEF InUp
  <2>2. k # 1
    BY <1>1, <2>1, ChatAssumption DEF ChatAssumption
  <2>. QED
    BY <1>1, <2>1, <2>2 DEF InUp
<1>. QED
  BY <1>2, <1>3

LEMMA BoxAppend ==
  ASSUME NEW texts \in Seq(Texts), NEW r \in Texts, QueuedOnce(texts), ~InBox(texts, r),
         NEW new, new = Append(texts, r)
  PROVE QueuedOnce(new) /\ \A t : InBox(new, t) => (InBox(texts, t) \/ r = t)
<1>1. /\ Len(new) = Len(texts) + 1 /\ Len(texts) \in Nat
      /\ \A k \in 1..Len(texts) : new[k] = texts[k]
      /\ new[Len(texts) + 1] = r
      /\ \A k \in 1..Len(new) : k \in 1..Len(texts) \/ k = Len(texts) + 1
  OBVIOUS
<1>2. QueuedOnce(new)
  BY <1>1 DEF QueuedOnce, InBox
<1>3. ASSUME NEW t, InBox(new, t) PROVE InBox(texts, t) \/ r = t
  <2>1. PICK k \in 1..Len(new) : new[k] = t
    BY <1>3 DEF InBox
  <2>. QED
    BY <1>1, <2>1 DEF InBox
<1>. QED
  BY <1>2, <1>3

-----------------------------------------------------------------------------
(* The table.                                                               *)

\* While the agent streams, the pieces of the stream are not saved.
LogInv == Fit(log, typed, said) /\ (busy /\ ~saved => UpToPiece(log, from))

LEMMA LogAppend ==
  ASSUME TypeInv, LogInv, NEW b \in Bubbles, Follows(log, b, typed, said), ~b.streaming,
         log' = Append(log, b), UNCHANGED <<typed, said>>
  PROVE /\ Fit(log', typed', said') /\ UpToPiece(log', said')
        /\ \A t : Has(log', t) <=> (Has(log, t) \/ (b.who = "user" /\ b.text = t))
<1>1. log \in Seq(Bubbles) /\ Neat(log, typed, said) /\ ~Open(log)
  BY DEF TypeInv, AgentOK, LogInv, Fit
<1>. DEFINE new == Append(log, b)
<1>2. /\ Neat(new, typed, said)
      /\ \A t : Has(new, t) <=> (Has(log, t) \/ (b.who = "user" /\ b.text = t))
      /\ ~Open(new)
  BY <1>1, NeatAppend
<1>3. log' = new
  OBVIOUS
<1>. HIDE DEF new
<1>. QED
  BY <1>2, <1>3 DEF Fit, Neat

LEMMA Growing ==
  ASSUME TypeInv, [Next]_vars
  PROVE said \in Nat /\ said' \in Nat /\ said <= said' /\ typed \subseteq typed'
<1>1. said \in Nat
  BY DEF TypeInv, AgentOK
<1>2. CASE Say
  BY <1>1, <1>2 DEF Say, appVars
<1>3. ASSUME NEW t \in Texts, SendMessage(t) PROVE said' = said /\ typed \subseteq typed'
  BY <1>3 DEF SendMessage, agentVars
<1>4. CASE ~Say /\ ~(\E t \in Texts : SendMessage(t))
  <2>1. UNCHANGED <<said, typed>>
    BY <1>4 DEF Next, Agent, ReadPump, Link, App, Begin, ToolRound, SaveAnswer, FinishReply, Fail,
       TakeInterrupt, HandleGetAgents, HandleGetHistory, SendResponse, HandleUserMessage,
       HandleInterrupt, HandleRetryAgent, Connect, Register, Disconnect, BackendRestart, Unlink,
       RequestInitialState, OnAgentList, OnAgentStatus, OnAgentMessage, OnFinal, OnHistory, Ask,
       Dismiss, vars, agentVars, appVars
  <2>. QED
    BY <1>1, <2>1
<1>. QED
  BY <1>1, <1>2, <1>3, <1>4

\* A user's text that is saved was typed, and was queued or in the interrupt channel.
LEMMA TakenFits ==
  ASSUME TypeInv, LogInv, PlaceInv, NEW t \in Texts, InBox(inbox, t) \/ t \in slot
  PROVE Follows(log, User(t), typed, said) /\ User(t) \in Bubbles
        /\ User(t).who = "user" /\ User(t).text = t /\ ~User(t).streaming
<1>1. t \in typed /\ ~Has(log, t)
  BY DEF PlaceInv, Places, InOnePlace
<1>. QED
  BY <1>1, UserFollows, BubbleTypes DEF User, Bubble

\* What a step that takes a text saves.
Takes(t) ==
  /\ Fit(log', typed', said') /\ UpToPiece(log', said')
  /\ \A x : Has(log', x) <=> (Has(log, x) \/ x = t)

LEMMA BeginTakes ==
  ASSUME TypeInv, LogInv, PlaceInv, Begin
  PROVE Takes(Head(inbox))
<1>1. /\ inbox # <<>> /\ log' = Append(log, User(Head(inbox)))
      /\ inbox \in Seq(Texts) /\ QueuedOnce(inbox) /\ UNCHANGED <<typed, said>>
  BY DEF Begin, TypeInv, AgentOK, PlaceInv, Places, appVars
<1>2. Head(inbox) \in Texts /\ InBox(inbox, Head(inbox))
  BY <1>1, BoxTail
<1>. DEFINE t == Head(inbox)
<1>. HIDE DEF t
<1>3. Follows(log, User(t), typed, said) /\ User(t) \in Bubbles
      /\ User(t).who = "user" /\ User(t).text = t /\ ~User(t).streaming
  BY <1>2, TakenFits DEF t
<1>4. log' = Append(log, User(t))
  BY <1>1 DEF t
<1>5. Takes(t)
  BY <1>1, <1>3, <1>4, LogAppend DEF Takes
<1>. QED
  BY <1>5 DEF t

LEMMA InterruptTakes ==
  ASSUME TypeInv, LogInv, PlaceInv, TakeInterrupt
  PROVE \/ UNCHANGED <<log, typed, said>> /\ busy' = FALSE
        \/ \E t \in slot \cap Texts : Takes(t)
<1>1. PICK t \in slot :
        IF t = NoText
        THEN busy' = FALSE /\ UNCHANGED log
        ELSE log' = Append(log, User(t))
  BY DEF TakeInterrupt
<1>2. UNCHANGED <<typed, said>> /\ slot \subseteq Texts \cup {NoText}
  BY DEF TakeInterrupt, appVars, TypeInv, AgentOK
<1>3. CASE t = NoText
  BY <1>1, <1>2, <1>3
<1>4. CASE t # NoText
  <2>1. t \in Texts
    BY <1>2, <1>4
  <2>2. Follows(log, User(t), typed, said) /\ User(t) \in Bubbles
        /\ User(t).who = "user" /\ User(t).text = t /\ ~User(t).streaming
    BY <2>1, TakenFits
  <2>3. Takes(t)
    BY <1>1, <1>2, <1>4, <2>2, LogAppend DEF Takes
  <2>. QED
    BY <2>1, <2>3
<1>. QED
  BY <1>3, <1>4

\* A tool's result or an answer is saved, no text.
LEMMA SavesNoText ==
  ASSUME TypeInv, LogInv, ToolRound \/ SaveAnswer
  PROVE /\ Fit(log', typed', said') /\ UpToPiece(log', said')
        /\ \A x : Has(log', x) <=> Has(log, x)
<1>1. /\ log \in Seq(Bubbles) /\ said \in Nat /\ from \in 0..said /\ said <= MaxPieces
      /\ MaxPieces \in Nat /\ UNCHANGED <<typed, said>> /\ UpToPiece(log, from) /\ ~Open(log)
  BY ChatAssumption
     DEF TypeInv, AgentOK, ChatAssumption, ToolRound, SaveAnswer, Streaming, LogInv, Fit, appVars
<1>2. PICK b \in Bubbles : /\ Follows(log, b, typed, said) /\ ~b.streaming /\ b.who # "user"
                           /\ log' = Append(log, b)
  <2>1. CASE ToolRound
    <3>1. Tool \in Bubbles /\ ~Tool.streaming /\ Tool.who # "user"
      BY BubbleTypes DEF Tool, Bubble
    <3>. QED
      BY <2>1, <3>1, ToolFollows DEF ToolRound
  <2>2. CASE SaveAnswer
    <3>. DEFINE pieces == [k \in 1..(said - from) |-> from + k]
    <3>1. pieces \in Seq(1..MaxPieces)
      BY <1>1
    <3>2. Follows(log, Answer(pieces), typed, said)
      BY <1>1, AnswerFollows
    <3>3. log' = Append(log, Answer(pieces))
      BY <2>2 DEF SaveAnswer
    <3>. HIDE DEF pieces
    <3>4. Answer(pieces) \in Bubbles /\ ~Answer(pieces).streaming /\ Answer(pieces).who # "user"
      BY <3>1, BubbleTypes DEF Answer, Bubble
    <3>. QED
      BY <3>2, <3>3, <3>4
  <2>. QED
    BY <2>1, <2>2
<1>. QED
  BY <1>1, <1>2, LogAppend

LEMMA LogStep ==
  ASSUME TypeInv, LogInv, PlaceInv, [Next]_vars
  PROVE LogInv'
<1>1. ASSUME UNCHANGED log, busy' /\ ~saved' => busy /\ ~saved /\ from' = from
      PROVE LogInv'
  <2>1. Fit(log, typed', said')
    BY Growing, FitMore DEF TypeInv, AgentOK, LogInv
  <2>. QED
    BY <1>1, <2>1 DEF LogInv
<1>2. CASE Begin
  <2>1. Takes(Head(inbox)) /\ from' = said /\ said' = said
    BY <1>2, BeginTakes DEF Begin
  <2>. QED
    BY <2>1 DEF Takes, LogInv
<1>3. CASE TakeInterrupt
  <2>1. from' = said /\ said' = said
    BY <1>3 DEF TakeInterrupt
  <2>2. CASE UNCHANGED log /\ busy' = FALSE
    BY <1>1, <2>2
  <2>3. CASE \E t \in slot \cap Texts : Takes(t)
    BY <2>1, <2>3 DEF Takes, LogInv
  <2>. QED
    BY <1>3, <2>2, <2>3, InterruptTakes
<1>4. CASE ToolRound \/ SaveAnswer
  <2>1. (saved' \/ from' = said') /\ Fit(log', typed', said') /\ UpToPiece(log', said')
    BY <1>4, SavesNoText DEF ToolRound, SaveAnswer
  <2>. QED
    BY <2>1 DEF LogInv
<1>5. CASE Say \/ FinishReply \/ Fail \/ Disconnect \/ BackendRestart
  BY <1>1, <1>5 DEF Say, FinishReply, Fail, Disconnect, BackendRestart, agentVars, Streaming
<1>6. CASE ReadPump \/ Connect \/ Register \/ App \/ UNCHANGED vars
  <2>1. UNCHANGED <<log, busy, saved, from>>
    BY <1>6 DEF ReadPump, App, HandleGetAgents, HandleGetHistory, SendResponse, HandleUserMessage,
       HandleInterrupt, HandleRetryAgent, Connect, Register, RequestInitialState, OnAgentList,
       OnAgentStatus, OnAgentMessage, OnFinal, OnHistory, SendMessage, Ask, Dismiss, agentVars, vars
  <2>. QED
    BY <1>1, <2>1
<1>. QED
  BY <1>2, <1>3, <1>4, <1>5, <1>6 DEF Next, Agent, Link

\* What the app sends without a text changes no text's place.
LEMMA EmitsNoText ==
  ASSUME TypeInv, SentOnce(up), NEW kind \in {"agents", "history", "interrupt", "retry"},
         Emit(<<Request(kind, NoText)>>)
  PROVE SentOnce(up') /\ \A t \in Texts : InUp(up', t) => InUp(up, t)
<1>. DEFINE r == Request(kind, NoText)
<1>1. r \in Requests /\ r.text = NoText
  BY DEF Request, Requests
<1>2. up' = up \/ up' = up \o <<r>>
  BY DEF Emit
<1>. HIDE DEF r
<1>3. CASE up' = up
  BY <1>3
<1>4. CASE up' = up \o <<r>>
  <2>1. SentOnce(up') /\ \A t : InUp(up', t) <=> (InUp(up, t) \/ r.text = t)
    BY <1>1, <1>4, UpAppend DEF TypeInv, LinkOK
  <2>. QED
    BY <1>1, <2>1, ChatAssumption DEF ChatAssumption
<1>. QED
  BY <1>2, <1>3, <1>4

LEMMA AgentPlaces ==
  ASSUME TypeInv, LogInv, PlaceInv, Agent
  PROVE PlaceInv'
<1>0. /\ Places(up, inbox, slot, log, typed) /\ SentOnce(up) /\ QueuedOnce(inbox)
      /\ UNCHANGED <<up, typed>> /\ inbox \in Seq(Texts)
  BY DEF PlaceInv, Places, Agent, Begin, Say, ToolRound, SaveAnswer, FinishReply, Fail,
     TakeInterrupt, linkVars, appVars, TypeInv, AgentOK
<1>1. CASE Begin
  <2>. DEFINE t == Head(inbox)
  <2>1. inbox # <<>> /\ inbox' = Tail(inbox) /\ slot' = slot
    BY <1>1 DEF Begin
  <2>2. /\ QueuedOnce(inbox') /\ \A x : InBox(inbox', x) => InBox(inbox, x)
        /\ ~InBox(inbox', t) /\ InBox(inbox, t) /\ t \in Texts
    BY <1>0, <2>1, BoxTail
  <2>3. \A x : Has(log', x) <=> (Has(log, x) \/ x = t)
    BY <1>1, BeginTakes DEF Takes
  <2>. HIDE DEF t
  <2>4. ASSUME NEW x \in Texts PROVE InOnePlace(x, up, inbox', slot, log', typed)
    <3>1. InOnePlace(x, up, inbox, slot, log, typed) /\ InOnePlace(t, up, inbox, slot, log, typed)
      BY <1>0, <2>2 DEF Places
    <3>. QED
      BY <2>2, <2>3, <3>1 DEF InOnePlace
  <2>. QED
    BY <1>0, <2>1, <2>2, <2>4 DEF PlaceInv, Places
<1>2. CASE TakeInterrupt
  <2>1. slot' = {} /\ inbox' = inbox
    BY <1>2 DEF TakeInterrupt
  <2>2. CASE UNCHANGED log
    BY <1>0, <2>1, <2>2, PlacesLess DEF PlaceInv
  <2>3. CASE \E t \in slot \cap Texts : Takes(t)
    <3>1. PICK t \in slot \cap Texts : Takes(t)
      BY <2>3
    <3>2. ASSUME NEW x \in Texts PROVE InOnePlace(x, up, inbox, {}, log', typed)
      <4>1. InOnePlace(x, up, inbox, slot, log, typed) /\ InOnePlace(t, up, inbox, slot, log, typed)
        BY <1>0, <3>1 DEF Places
      <4>. QED
        BY <3>1, <4>1 DEF InOnePlace, Takes
    <3>. QED
      BY <1>0, <2>1, <3>2 DEF PlaceInv, Places
  <2>. QED
    BY <1>2, <2>2, <2>3, InterruptTakes
<1>3. CASE ToolRound \/ SaveAnswer
  <2>1. \A x : Has(log', x) <=> Has(log, x)
    BY <1>3, SavesNoText
  <2>2. UNCHANGED <<inbox, slot>>
    BY <1>3 DEF ToolRound, SaveAnswer
  <2>. QED
    BY <1>0, <2>1, <2>2, PlacesLess DEF PlaceInv
<1>4. CASE Say \/ FinishReply \/ Fail
  <2>1. UNCHANGED <<inbox, slot, log>>
    BY <1>4 DEF Say, FinishReply, Fail
  <2>. QED
    BY <1>0, <2>1 DEF PlaceInv
<1>. QED
  BY <1>1, <1>2, <1>3, <1>4 DEF Agent

LEMMA ReadPumpPlaces ==
  ASSUME TypeInv, PlaceInv, ReadPump
  PROVE PlaceInv'
<1>0. /\ Places(up, inbox, slot, log, typed) /\ SentOnce(up) /\ QueuedOnce(inbox)
      /\ UNCHANGED <<log, typed>> /\ inbox \in Seq(Texts) /\ up \in Seq(Requests)
  BY DEF PlaceInv, Places, ReadPump, HandleGetAgents, HandleGetHistory, SendResponse,
     HandleUserMessage, HandleInterrupt, HandleRetryAgent, agentVars, appVars, TypeInv, AgentOK, LinkOK
<1>1. ASSUME up # <<>>, up' = Tail(up)
      PROVE /\ SentOnce(up') /\ \A t : InUp(up', t) => InUp(up, t)
            /\ Head(up).text # NoText => ~InUp(up', Head(up).text)
            /\ InUp(up, Head(up).text) /\ Tail(up) \in Seq(Requests)
            /\ Head(up).text \in Texts \/ Head(up).text = NoText
            /\ Head(up).kind = "message" => Head(up).text \in Texts
  <2>1. Tail(up) \in Seq(Requests) /\ Head(up) \in Requests
    BY <1>0, <1>1, TailFacts
  <2>2. Head(up).text \in Texts \/ Head(up).text = NoText
    BY <2>1 DEF Requests
  <2>3. Head(up).kind = "message" => Head(up).text \in Texts
    BY <2>1 DEF Requests
  <2>. QED
    BY <1>0, <1>1, <2>1, <2>2, <2>3, UpTail
<1>2. CASE HandleGetAgents \/ HandleGetHistory
  <2>1. up # <<>> /\ up' = Tail(up) /\ UNCHANGED <<inbox, slot>>
    BY <1>2 DEF HandleGetAgents, HandleGetHistory, Reads, agentVars
  <2>. QED
    BY <1>0, <1>1, <2>1, PlacesLess DEF PlaceInv
<1>3. CASE SendResponse
  <2>1. UNCHANGED <<up, inbox, slot>>
    BY <1>3 DEF SendResponse, agentVars
  <2>. QED
    BY <1>0, <2>1 DEF PlaceInv
<1>4. CASE HandleUserMessage
  <2>. DEFINE t == Head(up).text
  <2>1. up # <<>> /\ up' = Tail(up) /\ slot' = slot /\ Head(up).kind = "message"
        /\ (inbox' = inbox \/ inbox' = Append(inbox, t))
    BY <1>4 DEF HandleUserMessage, Reads
  <2>2. /\ SentOnce(up') /\ \A x : InUp(up', x) => InUp(up, x)
        /\ ~InUp(up', t) /\ InUp(up, t) /\ t \in Texts
    BY <1>1, <2>1, ChatAssumption DEF ChatAssumption
  <2>. HIDE DEF t
  <2>3. CASE inbox' = inbox
    BY <1>0, <2>1, <2>2, <2>3, PlacesLess DEF PlaceInv
  <2>4. CASE inbox' = Append(inbox, t)
    <3>1. InOnePlace(t, up, inbox, slot, log, typed)
      BY <1>0, <2>2 DEF Places
    <3>2. ~InBox(inbox, t)
      BY <2>2, <3>1 DEF InOnePlace
    <3>3. QueuedOnce(inbox') /\ \A x : InBox(inbox', x) => (InBox(inbox, x) \/ t = x)
      BY <1>0, <2>2, <2>4, <3>2, BoxAppend
    <3>4. ASSUME NEW x \in Texts PROVE InOnePlace(x, up', inbox', slot, log, typed)
      <4>1. InOnePlace(x, up, inbox, slot, log, typed)
        BY <1>0 DEF Places
      <4>. QED
        BY <2>2, <3>1, <3>3, <4>1 DEF InOnePlace
    <3>. QED
      BY <1>0, <2>1, <2>2, <3>3, <3>4 DEF PlaceInv, Places
  <2>. QED
    BY <2>1, <2>3, <2>4
<1>5. CASE HandleInterrupt
  <2>. DEFINE t == Head(up).text
  <2>1. up # <<>> /\ up' = Tail(up) /\ slot' = {t} /\ inbox' = inbox
    BY <1>5 DEF HandleInterrupt, Reads
  <2>2. /\ SentOnce(up') /\ \A x : InUp(up', x) => InUp(up, x)
        /\ t # NoText => ~InUp(up', t)
        /\ InUp(up, t) /\ NoText \notin Texts
    BY <1>1, <2>1, ChatAssumption DEF ChatAssumption
  <2>. HIDE DEF t
  <2>3. ASSUME NEW x \in Texts PROVE InOnePlace(x, up', inbox, {t}, log, typed)
    <3>1. InOnePlace(x, up, inbox, slot, log, typed)
      BY <1>0 DEF Places
    <3>2. x = t => ~InUp(up', x) /\ InUp(up, x)
      BY <2>2
    <3>. QED
      BY <2>2, <3>1, <3>2 DEF InOnePlace
  <2>. QED
    BY <1>0, <2>1, <2>2, <2>3 DEF PlaceInv, Places
<1>6. CASE HandleRetryAgent
  <2>. DEFINE r == Request("agents", NoText)
  <2>1. up # <<>> /\ UNCHANGED <<inbox, slot>> /\ (up' = Tail(up) \/ up' = <<r>> \o Tail(up))
    BY <1>6 DEF HandleRetryAgent
  <2>2. r \in Requests /\ r.text = NoText
    BY DEF Request, Requests
  <2>. HIDE DEF r
  <2>3. SentOnce(Tail(up)) /\ (\A t : InUp(Tail(up), t) => InUp(up, t)) /\ Tail(up) \in Seq(Requests)
    BY <1>0, <2>1, UpTail, TailFacts
  <2>4. SentOnce(up') /\ \A t \in Texts : InUp(up', t) => InUp(up, t)
    <3>1. CASE up' = Tail(up)
      BY <2>3, <3>1
    <3>2. CASE up' = <<r>> \o Tail(up)
      BY <2>2, <2>3, <3>2, UpPrepend
    <3>. QED
      BY <2>1, <3>1, <3>2
  <2>. QED
    BY <1>0, <2>1, <2>4, PlacesLess DEF PlaceInv
<1>. QED
  BY <1>2, <1>3, <1>4, <1>5, <1>6 DEF ReadPump

LEMMA LinkPlaces ==
  ASSUME PlaceInv, Link
  PROVE PlaceInv'
<1>0. /\ Places(up, inbox, slot, log, typed) /\ SentOnce(up) /\ QueuedOnce(inbox)
      /\ UNCHANGED <<log, typed>> /\ SentOnce(<<>>) /\ QueuedOnce(<<>>)
      /\ (\A t : ~InUp(<<>>, t)) /\ \A t : ~InBox(<<>>, t)
  BY DEF PlaceInv, Places, Link, Connect, Register, Disconnect, BackendRestart, Unlink, agentVars,
     appVars, SentOnce, QueuedOnce, InUp, InBox
<1>1. CASE Connect \/ Register
  BY <1>0, <1>1 DEF Connect, Register, agentVars, PlaceInv
<1>2. CASE Disconnect
  BY <1>0, <1>2, PlacesLess DEF Disconnect, Unlink, agentVars, PlaceInv
<1>3. CASE BackendRestart
  BY <1>0, <1>3, PlacesLess DEF BackendRestart, Unlink, PlaceInv
<1>. QED
  BY <1>1, <1>2, <1>3 DEF Link

LEMMA AppPlaces ==
  ASSUME TypeInv, LogInv, PlaceInv, App
  PROVE PlaceInv'
<1>0. /\ Places(up, inbox, slot, log, typed) /\ SentOnce(up) /\ QueuedOnce(inbox)
      /\ UNCHANGED <<log, inbox, slot>> /\ up \in Seq(Requests)
  BY DEF PlaceInv, Places, App, RequestInitialState, OnAgentList, OnAgentStatus, OnAgentMessage,
     OnFinal, OnHistory, SendMessage, Ask, Dismiss, agentVars, TypeInv, LinkOK
<1>1. ASSUME typed' = typed,
             up' = up \/ \E kind \in {"agents", "history", "interrupt", "retry"} :
                           Emit(<<Request(kind, NoText)>>)
      PROVE PlaceInv'
  <2>1. SentOnce(up') /\ \A t \in Texts : InUp(up', t) => InUp(up, t)
    BY <1>0, <1>1, EmitsNoText
  <2>. QED
    BY <1>0, <1>1, <2>1, PlacesLess DEF PlaceInv
<1>2. CASE RequestInitialState
  BY <1>1, <1>2 DEF RequestInitialState
<1>3. CASE OnAgentList
  <2>1. typed' = typed /\ Emit(IF known THEN <<>> ELSE <<Request("history", NoText)>>)
    BY <1>3 DEF OnAgentList
  <2>2. up \o <<>> = up
    BY <1>0
  <2>. QED
    BY <1>1, <2>1, <2>2 DEF Emit
<1>4. CASE OnAgentStatus \/ OnAgentMessage \/ OnFinal \/ OnHistory \/ Dismiss
  BY <1>1, <1>4 DEF OnAgentStatus, OnAgentMessage, OnFinal, OnHistory, Dismiss, linkVars
<1>5. CASE Ask
  BY <1>1, <1>5 DEF Ask
<1>6. ASSUME NEW t \in Texts, SendMessage(t) PROVE PlaceInv'
  <2>. DEFINE kind == IF status = "working" THEN "interrupt" ELSE "message"
              r == Request(kind, t)
  <2>1. t \notin typed /\ typed' = typed \cup {t} /\ (up' = up \/ up' = up \o <<r>>)
    BY <1>6 DEF SendMessage, Emit
  <2>2. r \in Requests /\ r.text = t
    BY DEF Request, Requests
  <2>. HIDE DEF kind, r
  <2>3. InOnePlace(t, up, inbox, slot, log, typed) /\ ~Has(log, t)
    BY <1>0, <2>1 DEF Places, LogInv, Fit, Neat
  <2>4. ~InUp(up, t) /\ ~InBox(inbox, t) /\ t \notin slot
    BY <2>1, <2>3 DEF InOnePlace
  <2>5. SentOnce(up') /\ \A x : InUp(up', x) => (InUp(up, x) \/ t = x)
    BY <1>0, <2>1, <2>2, <2>4, UpAppend
  <2>6. ASSUME NEW x \in Texts PROVE InOnePlace(x, up', inbox, slot, log, typed')
    <3>1. InOnePlace(x, up, inbox, slot, log, typed)
      BY <1>0 DEF Places
    <3>. QED
      BY <2>1, <2>3, <2>4, <2>5, <3>1 DEF InOnePlace
  <2>. QED
    BY <1>0, <2>5, <2>6 DEF PlaceInv, Places
<1>. QED
  BY <1>2, <1>3, <1>4, <1>5, <1>6 DEF App

LEMMA PlaceStep ==
  ASSUME TypeInv, LogInv, PlaceInv, [Next]_vars
  PROVE PlaceInv'
<1>1. CASE UNCHANGED vars
  BY <1>1 DEF vars, PlaceInv
<1>. QED
  BY <1>1, AgentPlaces, ReadPumpPlaces, LinkPlaces, AppPlaces DEF Next

-----------------------------------------------------------------------------
(* The screen.                                                              *)

\* The only bubble that is open is the last that is.
LEMMA TheOpenOne ==
  ASSUME bubbles \in Seq(Bubbles), OneOpen(bubbles), StreamingBubbles # {}
  PROVE Max(StreamingBubbles) \in DOMAIN bubbles /\ bubbles[Max(StreamingBubbles)].streaming
<1>1. PICK m \in StreamingBubbles : TRUE
  OBVIOUS
<1>2. m \in DOMAIN bubbles /\ m \in Nat /\ bubbles[m].streaming
  BY <1>1 DEF StreamingBubbles
<1>3. ASSUME NEW k \in StreamingBubbles PROVE k = m
  <2>1. k \in DOMAIN bubbles /\ k \in Nat /\ bubbles[k].streaming
    BY <1>3 DEF StreamingBubbles
  <2>2. ~(k < m) /\ ~(m < k)
    BY <1>2, <2>1 DEF OneOpen
  <2>. QED
    BY <1>2, <2>1, <2>2
<1>4. \A k \in StreamingBubbles : m >= k
  BY <1>2, <1>3
<1>5. Max(StreamingBubbles) \in StreamingBubbles
  BY <1>1, <1>4 DEF Max
<1>. QED
  BY <1>5 DEF StreamingBubbles

LEMMA PieceAppended ==
  ASSUME NEW pieces \in Seq(1..MaxPieces), NEW p \in Nat, NEW new, new = Append(pieces, p)
  PROVE /\ \A i \in DOMAIN pieces : i \in DOMAIN new /\ new[i] = pieces[i] /\ i \in Nat /\ pieces[i] \in Nat
        /\ \A i \in DOMAIN new : i \in DOMAIN pieces \/ (i = Len(pieces) + 1 /\ new[i] = p)
        /\ \A i, j \in DOMAIN new : i < j => i \in DOMAIN pieces
<1>1. /\ DOMAIN pieces = 1..Len(pieces) /\ Len(pieces) \in Nat
      /\ DOMAIN new = 1..(Len(pieces) + 1)
      /\ \A k \in 1..Len(pieces) : new[k] = pieces[k]
      /\ new[Len(pieces) + 1] = p
  OBVIOUS
<1>2. \A i \in DOMAIN pieces : pieces[i] \in Nat
  BY PieceNumber
<1>. QED
  BY <1>1, <1>2

Writes(new, items, m, p) == new = [items EXCEPT ![m].pieces = Append(@, p)]
Closes(new, items, m) == new = [items EXCEPT ![m].streaming = FALSE]

\* Writing the next piece to the open bubble.
LEMMA NeatWrite ==
  ASSUME NEW items \in Seq(Bubbles), NEW T, NEW n \in Nat, Neat(items, T, n),
         NEW m \in DOMAIN items, items[m].streaming,
         NEW p \in 1..MaxPieces, p <= n, Before(items, p), NEW new, Writes(new, items, m, p)
  PROVE /\ Neat(new, T, n)
        /\ \A q : Before(items, q) /\ p < q => Before(new, q)
<1>. DEFINE s == items[m].pieces
            z == Append(s, p)
<1>1. /\ DOMAIN new = DOMAIN items
      /\ \A k \in DOMAIN items : k # m => new[k] = items[k]
      /\ \A k \in DOMAIN items : /\ new[k].who = items[k].who /\ new[k].text = items[k].text
                                 /\ new[k].streaming = items[k].streaming
      /\ new[m].pieces = z
  <2>1. \A k \in DOMAIN items : items[k] \in Bubbles
    BY Element
  <2>2. DOMAIN new = DOMAIN items /\ new[m] = [items[m] EXCEPT !.pieces = z] /\ \A k \in DOMAIN items : k # m => new[k] = items[k]
    BY DEF Writes
  <2>3. items[m] \in Bubbles
    BY <2>1
  <2>4. /\ new[m].who = items[m].who /\ new[m].text = items[m].text
        /\ new[m].streaming = items[m].streaming /\ new[m].pieces = z
    BY <2>2, <2>3 DEF Bubbles
  <2>. QED
    BY <2>2, <2>4
<1>2. s \in Seq(1..MaxPieces) /\ p \in Nat
  <2>1. items[m] \in Bubbles
    BY Element
  <2>. QED
    BY <2>1, ChatAssumption DEF Bubbles, ChatAssumption
<1>3. DOMAIN items \subseteq Nat
  OBVIOUS
<1>. HIDE DEF s, z
<1>4. /\ \A i \in DOMAIN s : i \in DOMAIN z /\ z[i] = s[i] /\ i \in Nat /\ s[i] \in Nat
      /\ \A i \in DOMAIN z : i \in DOMAIN s \/ (i = Len(s) + 1 /\ z[i] = p)
      /\ \A i, j \in DOMAIN z : i < j => i \in DOMAIN s
  BY <1>2, PieceAppended DEF z
<1>5. /\ \A i \in DOMAIN s : s[i] < p
      /\ \A i \in DOMAIN s : s[i] <= n
      /\ \A i, j \in DOMAIN s : i < j => s[i] < s[j]
  BY DEF Before, Neat, UpToPiece, InOrder, Rising, s
<1>6. Rising(z)
  <2>1. ASSUME NEW i \in DOMAIN z, NEW j \in DOMAIN z, i < j PROVE z[i] < z[j]
    <3>1. i \in DOMAIN s /\ z[i] = s[i]
      BY <1>4, <2>1
    <3>2. CASE j \in DOMAIN s
      BY <1>4, <1>5, <2>1, <3>1, <3>2
    <3>3. CASE j \notin DOMAIN s
      BY <1>4, <1>5, <3>1, <3>3
    <3>. QED
      BY <3>2, <3>3
  <2>. QED
    BY <2>1 DEF Rising
<1>7. ASSUME NEW k \in DOMAIN items PROVE Rising(new[k].pieces)
  <2>1. CASE k = m
    <3>1. new[k].pieces = z
      BY <1>1, <2>1
    <3>. QED
      BY <1>6, <3>1
  <2>2. CASE k # m
    BY <1>1, <2>2 DEF Neat, InOrder
  <2>. QED
    BY <2>1, <2>2
<1>8. ASSUME NEW k \in DOMAIN items, NEW l \in DOMAIN items, k < l,
             NEW i \in DOMAIN new[k].pieces, NEW j \in DOMAIN new[l].pieces
      PROVE new[k].pieces[i] < new[l].pieces[j]
  <2>1. CASE k = m
    <3>1. l # m /\ items[l].pieces = <<>>
      BY <1>3, <1>8, <2>1 DEF Neat, OneOpen
    <3>2. new[l].pieces = <<>>
      BY <1>1, <3>1
    <3>. QED
      BY <1>8, <3>2
  <2>2. CASE k # m /\ l = m
    <3>1. new[k].pieces = items[k].pieces /\ new[l].pieces = z
      BY <1>1, <2>2
    <3>2. CASE j \in DOMAIN s
      BY <1>4, <1>8, <2>2, <3>1, <3>2 DEF Neat, InOrder, s
    <3>3. CASE j \notin DOMAIN s
      BY <1>4, <1>8, <2>2, <3>1, <3>3 DEF Before
    <3>. QED
      BY <3>2, <3>3
  <2>3. CASE k # m /\ l # m
    BY <1>1, <1>8, <2>3 DEF Neat, InOrder
  <2>. QED
    BY <2>1, <2>2, <2>3
<1>9. UpToPiece(new, n)
  BY <1>1, <1>4, <1>5 DEF UpToPiece, Neat
<1>10. OneOpen(new)
  <2>. SUFFICES ASSUME NEW k \in DOMAIN items, NEW l \in DOMAIN items, new[k].streaming, k < l
                PROVE new[l].pieces = <<>> /\ ~new[l].streaming
    BY <1>1 DEF OneOpen
  <2>1. items[k].streaming
    BY <1>1
  <2>2. items[l].pieces = <<>> /\ ~items[l].streaming
    BY <2>1 DEF Neat, OneOpen
  <2>3. l # m
    BY <2>2
  <2>. QED
    BY <1>1, <2>2, <2>3
<1>11. OnceEach(new) /\ \A t : Has(new, t) => Has(items, t)
  BY <1>1 DEF OnceEach, Has, Neat
<1>12. ASSUME NEW q, Before(items, q), p < q PROVE Before(new, q)
  <2>1. ASSUME NEW k \in DOMAIN items, NEW i \in DOMAIN new[k].pieces PROVE new[k].pieces[i] < q
    <3>1. CASE k = m
      <4>1. new[k].pieces = z
        BY <1>1, <3>1
      <4>2. CASE i \in DOMAIN s
        BY <1>4, <1>12, <4>1, <4>2 DEF Before, s
      <4>3. CASE i \notin DOMAIN s
        BY <1>4, <1>12, <2>1, <4>1, <4>3
      <4>. QED
        BY <4>2, <4>3
    <3>2. CASE k # m
      BY <1>1, <1>12, <2>1, <3>2 DEF Before
    <3>. QED
      BY <3>1, <3>2
  <2>. QED
    BY <1>1, <2>1 DEF Before
<1>13. InOrder(new)
  BY <1>1, <1>7, <1>8 DEF InOrder
<1>. QED
  BY <1>9, <1>10, <1>11, <1>12, <1>13 DEF Neat

LEMMA NeatClose ==
  ASSUME NEW items \in Seq(Bubbles), NEW T, NEW n, Neat(items, T, n), NEW m \in DOMAIN items,
         NEW new, Closes(new, items, m)
  PROVE /\ Neat(new, T, n)
        /\ \A q : Before(items, q) => Before(new, q)
<1>1. /\ DOMAIN new = DOMAIN items
      /\ \A k \in DOMAIN items : /\ new[k].who = items[k].who /\ new[k].text = items[k].text
                                 /\ new[k].pieces = items[k].pieces
                                 /\ new[k].streaming => items[k].streaming
  <2>1. /\ DOMAIN new = DOMAIN items /\ new[m] = [items[m] EXCEPT !.streaming = FALSE]
        /\ \A k \in DOMAIN items : k # m => new[k] = items[k]
    BY DEF Closes
  <2>2. items[m] \in Bubbles
    BY Element
  <2>3. /\ new[m].who = items[m].who /\ new[m].text = items[m].text
        /\ new[m].streaming = FALSE /\ new[m].pieces = items[m].pieces
    BY <2>1, <2>2 DEF Bubbles
  <2>. QED
    BY <2>1, <2>3
<1>2. InOrder(new) /\ UpToPiece(new, n)
  BY <1>1 DEF Neat, InOrder, UpToPiece
<1>3. OneOpen(new)
  BY <1>1 DEF Neat, OneOpen
<1>4. OnceEach(new) /\ \A t : Has(new, t) => Has(items, t)
  BY <1>1 DEF OnceEach, Has, Neat
<1>5. \A q : Before(items, q) => Before(new, q)
  BY <1>1 DEF Before
<1>. QED
  BY <1>2, <1>3, <1>4, <1>5 DEF Neat

\* A text that was typed is shown at once.
LEMMA NeatTyped ==
  ASSUME NEW items \in Seq(Bubbles), NEW T, NEW n \in Nat, Neat(items, T, n), NEW t \in Texts \ T
  PROVE /\ Neat(Append(items, User(t)), T \cup {t}, n)
        /\ \A q : Before(items, q) => Before(Append(items, User(t)), q)
<1>. DEFINE b == User(t)
            new == Append(items, b)
<1>1. b \in Bubbles /\ b.pieces = <<>>
  BY BubbleTypes DEF User, Bubble
<1>2. Neat(items, T \cup {t}, n) /\ ~Has(items, t)
  BY NeatMore DEF Neat
<1>3. Follows(items, b, T \cup {t}, n)
  BY <1>2, UserFollows
<1>. HIDE DEF b
<1>4. Neat(new, T \cup {t}, n)
  BY <1>1, <1>2, <1>3, NeatAppend
<1>5. /\ \A k \in DOMAIN items : k \in DOMAIN new /\ new[k] = items[k]
      /\ Len(items) + 1 \in DOMAIN new /\ new[Len(items) + 1] = b
      /\ \A k \in DOMAIN new : k \in DOMAIN items \/ k = Len(items) + 1
  BY <1>1, AppendFacts
<1>. HIDE DEF new
<1>6. \A q : Before(items, q) => Before(new, q)
  BY <1>1, <1>5 DEF Before
<1>. QED
  BY <1>4, <1>6 DEF new, b

\* The first piece of a stream opens a bubble.
LEMMA NeatOpen ==
  ASSUME NEW items \in Seq(Bubbles), NEW T, NEW n \in Nat, Neat(items, T, n), ~Open(items),
         NEW p \in 1..MaxPieces, p <= n, Before(items, p),
         NEW b \in Bubbles, b.who = "assistant", b.pieces = <<p>>
  PROVE /\ Neat(Append(items, b), T, n)
        /\ \A q : Before(items, q) /\ p < q => Before(Append(items, b), q)
<1>. DEFINE new == Append(items, b)
<1>4. \A i \in DOMAIN b.pieces : i = 1 /\ b.pieces[i] = p
  OBVIOUS
<1>5. Follows(items, b, T, n)
  BY <1>4 DEF Follows, Rising
<1>6. Neat(new, T, n)
  BY <1>5, NeatAppend
<1>7. /\ \A k \in DOMAIN items : k \in DOMAIN new /\ new[k] = items[k]
      /\ Len(items) + 1 \in DOMAIN new /\ new[Len(items) + 1] = b
      /\ \A k \in DOMAIN new : k \in DOMAIN items \/ k = Len(items) + 1
  BY AppendFacts
<1>. HIDE DEF new
<1>8. \A q : Before(items, q) /\ p < q => Before(new, q)
  BY <1>4, <1>7 DEF Before
<1>. QED
  BY <1>6, <1>8 DEF new

-----------------------------------------------------------------------------
(* What the frames carry, and their order.                                  *)

CarryInv ==
  /\ \A k \in 1..Len(down) : Fit(down[k].items, typed, said)
  /\ \A f \in pending : Fit(f.items, typed, said)

IsPiece(f) == f.kind = "piece"

\* The pieces that come were said; each comes after all that comes before it, and
\* after all that is shown.
Ordered(frames, n) ==
  /\ \A k \in 1..Len(frames) : IsPiece(frames[k]) => frames[k].piece <= n
  /\ \A k, l \in 1..Len(frames) : k < l /\ IsPiece(frames[l]) =>
       /\ IsPiece(frames[k]) => frames[k].piece < frames[l].piece
       /\ Before(frames[k].items, frames[l].piece)
Ahead(frames, items) ==
  \A l \in 1..Len(frames) : IsPiece(frames[l]) => Before(items, frames[l].piece)

PieceInv == Ordered(down, said) /\ Ahead(down, bubbles)
ScreenInv == Neat(bubbles, typed, said)

\* A frame with nothing of a conversation, or the response to be sent.
Plain(frames) == \A j \in 1..Len(frames) :
  ~IsPiece(frames[j]) /\ (frames[j].items = <<>> \/ frames[j] \in pending)

\* What a step does to the frames and the screen.
Kinds ==
  \/ \E frames \in Seq(Frames) : Broadcast(frames) /\ Plain(frames) /\ UNCHANGED <<said, typed, bubbles>>
  \/ Say
  \/ OnAgentList \/ OnAgentStatus \/ OnAgentMessage \/ OnFinal \/ OnHistory
  \/ \E t \in Texts : SendMessage(t)
  \/ UNCHANGED <<down, said, typed, bubbles>>
  \/ down' = <<>> /\ UNCHANGED <<said, typed, bubbles>>

LEMMA StepKinds == ASSUME TypeInv, [Next]_vars PROVE Kinds
<1>1. ASSUME NEW s \in Shown
      PROVE /\ Status(s) \in Frames /\ Status(s).items = <<>> /\ ~IsPiece(Status(s))
  BY <1>1, FrameTypes DEF Status, Frame, IsPiece
<1>2. FinalPiece \in Frames /\ FinalPiece.items = <<>> /\ ~IsPiece(FinalPiece)
  BY FrameTypes DEF FinalPiece, Frame, IsPiece
<1>3. ASSUME NEW f \in Frames, NEW g \in Frames, f.items = <<>>, g.items = <<>>, ~IsPiece(f), ~IsPiece(g)
      PROVE /\ <<f>> \in Seq(Frames) /\ Plain(<<f>>)
            /\ <<f, g>> \in Seq(Frames) /\ Plain(<<f, g>>)
            /\ <<f, f, f>> \in Seq(Frames) /\ Plain(<<f, f, f>>)
  BY <1>3, FramePairs DEF Plain
<1>4. /\ "working" \in Shown /\ "idle" \in Shown /\ "error" \in Shown
  BY DEF Shown
<1>5. CASE Begin \/ ToolRound \/ FinishReply \/ Fail
  <2>1. UNCHANGED <<said, typed, bubbles>>
    BY <1>5 DEF Begin, ToolRound, FinishReply, Fail, appVars
  <2>2. \/ Broadcast(<<Status("working")>>)
        \/ Broadcast(<<Status("working"), Status("working"), Status("working")>>)
        \/ Broadcast(<<FinalPiece, Status("idle")>>)
        \/ Broadcast(<<Status("error")>>)
    BY <1>5 DEF Begin, ToolRound, FinishReply, Fail
  <2>. QED
    BY <1>1, <1>2, <1>3, <1>4, <2>1, <2>2 DEF Kinds
<1>6. CASE TakeInterrupt
  <2>1. UNCHANGED <<said, typed, bubbles>>
    BY <1>6 DEF TakeInterrupt, appVars
  <2>2. \/ Broadcast(<<Status("working"), Status("idle")>>)
        \/ Broadcast(<<Status("working"), Status("working")>>)
    BY <1>6 DEF TakeInterrupt
  <2>. QED
    BY <1>1, <1>3, <1>4, <2>1, <2>2 DEF Kinds
<1>7. CASE SendResponse
  <2>1. PICK f \in pending : Broadcast(<<f>>)
    BY <1>7 DEF SendResponse
  <2>2. UNCHANGED <<said, typed, bubbles>>
    BY <1>7 DEF SendResponse, agentVars, appVars
  <2>3. f \in Frames /\ ~IsPiece(f)
    BY DEF TypeInv, LinkOK, Responses, IsPiece
  <2>4. <<f>> \in Seq(Frames) /\ Plain(<<f>>)
    BY <2>3, FramePairs DEF Plain
  <2>. QED
    BY <2>1, <2>2, <2>4 DEF Kinds
<1>8. CASE HandleRetryAgent
  <2>1. UNCHANGED <<said, typed, bubbles>>
    BY <1>8 DEF HandleRetryAgent, appVars
  <2>2. UNCHANGED down \/ Broadcast(<<Status("idle")>>)
    BY <1>8 DEF HandleRetryAgent
  <2>. QED
    BY <1>1, <1>3, <1>4, <2>1, <2>2 DEF Kinds
<1>9. CASE Disconnect \/ BackendRestart
  BY <1>9 DEF Disconnect, BackendRestart, Unlink, agentVars, appVars, Kinds
<1>10. CASE \/ SaveAnswer \/ HandleGetAgents \/ HandleGetHistory \/ HandleUserMessage
            \/ HandleInterrupt \/ Connect \/ Register \/ RequestInitialState \/ Ask \/ Dismiss
            \/ UNCHANGED vars
  BY <1>10 DEF SaveAnswer, HandleGetAgents, HandleGetHistory, HandleUserMessage, HandleInterrupt,
     Connect, Register, RequestInitialState, Ask, Dismiss, agentVars, appVars, vars, Kinds
<1>. QED
  BY <1>5, <1>6, <1>7, <1>8, <1>9, <1>10 DEF Next, Agent, ReadPump, Link, App, Kinds

\* Where a frame that is on its way comes from.
LEMMA DownFrom ==
  ASSUME TypeInv, [Next]_vars
  PROVE \A k \in 1..Len(down') :
          \/ \E l \in 1..Len(down) : down'[k] = down[l]
          \/ down'[k].items = <<>> \/ down'[k] \in pending
<1>0. LinkOK
  BY DEF TypeInv
<1>1. ASSUME NEW frames \in Seq(Frames), Broadcast(frames),
             \A j \in 1..Len(frames) : frames[j].items = <<>> \/ frames[j] \in pending,
             NEW k \in 1..Len(down')
      PROVE \/ \E l \in 1..Len(down) : down'[k] = down[l]
            \/ down'[k].items = <<>> \/ down'[k] \in pending
  <2>1. PICK n \in 0..Len(frames) : Grown(down', down, frames, n)
    BY <1>0, <1>1, Offered
  <2>2. Len(frames) \in Nat /\ n \in Nat /\ n <= Len(frames)
    BY <2>1
  <2>3. CASE k \in 1..Len(down)
    BY <2>1, <2>3 DEF Grown
  <2>4. CASE \E j \in 1..n : k = Len(down) + j
    <3>1. PICK j \in 1..n : k = Len(down) + j
      BY <2>4
    <3>2. down'[k] = frames[j] /\ j \in 1..Len(frames)
      BY <2>1, <2>2, <3>1 DEF Grown
    <3>. QED
      BY <1>1, <3>2
  <2>. QED
    BY <1>1, <2>1, <2>3, <2>4 DEF Grown
<1>2. CASE \E frames \in Seq(Frames) : Broadcast(frames) /\ Plain(frames)
  BY <1>1, <1>2 DEF Plain
<1>3. CASE Say
  <2>. DEFINE f == Piece(said + 1)
  <2>1. said + 1 \in 1..MaxPieces
    BY <1>3, ChatAssumption DEF Say, TypeInv, AgentOK, ChatAssumption
  <2>2. f \in Frames /\ f.items = <<>>
    BY <2>1, FrameTypes DEF Piece, Frame
  <2>3. Broadcast(<<f>>)
    BY <1>3 DEF Say
  <2>. HIDE DEF f
  <2>4. <<f>> \in Seq(Frames) /\ \A j \in 1..Len(<<f>>) : <<f>>[j].items = <<>>
    BY <2>2
  <2>. QED
    BY <1>1, <2>3, <2>4
<1>4. CASE OnAgentList \/ OnAgentStatus \/ OnAgentMessage \/ OnFinal \/ OnHistory
  <2>1. PICK kind : Receives(kind)
    BY <1>4 DEF OnAgentList, OnAgentStatus, OnAgentMessage, OnFinal, OnHistory
  <2>. QED
    BY <1>0, <2>1, ReceivesFacts
<1>5. CASE down' = down \/ \E t \in Texts : SendMessage(t)
  BY <1>5 DEF SendMessage
<1>6. CASE down' = <<>>
  BY <1>6
<1>. QED
  BY <1>2, <1>3, <1>4, <1>5, <1>6, StepKinds DEF Kinds

\* A page of the newest messages is as the table is.
LEMMA PageFits ==
  ASSUME TypeInv, LogInv
  PROVE Fit(NewestPage, typed, said)
<1>1. log \in Seq(Bubbles) /\ Neat(log, typed, said) /\ ~Open(log)
  BY DEF TypeInv, AgentOK, LogInv, Fit
<1>2. AgentOK
  BY DEF TypeInv
<1>. DEFINE page == NewestPage
<1>3. PICK m \in 1..(Len(log) + 1) :
        /\ page \in Seq(Bubbles)
        /\ \A k \in 1..Len(page) : page[k] = log[m + k - 1] /\ m + k - 1 \in 1..Len(log)
  BY <1>2, PageType
<1>. HIDE DEF page
<1>4. m \in Nat
  BY <1>1
<1>5. Neat(page, typed, said) /\ ~Open(page)
  BY <1>1, <1>3, <1>4, NeatPage
<1>. QED
  BY <1>5 DEF Fit, page

LEMMA CarryStep ==
  ASSUME TypeInv, LogInv, CarryInv, [Next]_vars
  PROVE CarryInv'
<1>1. ASSUME NEW items \in Seq(Bubbles), Fit(items, typed, said) PROVE Fit(items, typed', said')
  BY <1>1, Growing, FitMore
<1>2. \A f \in Frames : f.items \in Seq(Bubbles)
  BY FrameFields
<1>3. \A f \in pending : f \in Frames /\ Fit(f.items, typed', said')
  BY <1>1, <1>2 DEF TypeInv, LinkOK, Responses, CarryInv
<1>4. ASSUME NEW k \in 1..Len(down') PROVE Fit(down'[k].items, typed', said')
  <2>1. CASE \E l \in 1..Len(down) : down'[k] = down[l]
    <3>1. PICK l \in 1..Len(down) : down'[k] = down[l]
      BY <2>1
    <3>2. down[l] \in Frames
      BY DEF TypeInv, LinkOK
    <3>3. Fit(down[l].items, typed, said)
      BY DEF CarryInv
    <3>. QED
      BY <1>1, <1>2, <3>1, <3>2, <3>3
  <2>2. CASE down'[k].items = <<>>
    BY <2>2, FitNothing
  <2>3. CASE down'[k] \in pending
    BY <1>3, <2>3
  <2>. QED
    BY <2>1, <2>2, <2>3, DownFrom
<1>5. \A f \in pending' : Fit(f.items, typed', said')
  <2>1. CASE HandleGetAgents
    <3>1. ASSUME NEW f \in pending' PROVE f.items = <<>>
      BY <2>1, <3>1 DEF HandleGetAgents, List, Frame
    <3>. QED
      BY <3>1, FitNothing
  <2>2. CASE HandleGetHistory
    <3>1. pending' = {History(NewestPage)} /\ UNCHANGED <<typed, said>>
      BY <2>2 DEF HandleGetHistory, agentVars, appVars
    <3>2. History(NewestPage).items = NewestPage
      BY DEF History, Frame
    <3>. QED
      BY <3>1, <3>2, PageFits
  <2>3. CASE ~HandleGetAgents /\ ~HandleGetHistory
    <3>1. pending' = pending \/ pending' = {}
      BY <2>3 DEF Next, Agent, ReadPump, Link, App, Begin, Say, ToolRound, SaveAnswer, FinishReply,
         Fail, TakeInterrupt, SendResponse, HandleUserMessage, HandleInterrupt, HandleRetryAgent,
         Connect, Register, Disconnect, BackendRestart, Unlink, RequestInitialState, OnAgentList,
         OnAgentStatus, OnAgentMessage, OnFinal, OnHistory, SendMessage, Ask, Dismiss, vars, linkVars
    <3>. QED
      BY <1>3, <3>1
  <2>. QED
    BY <2>1, <2>2, <2>3
<1>. QED
  BY <1>4, <1>5 DEF CarryInv

LEMMA PlainOrdered ==
  ASSUME NEW old \in Seq(Frames), NEW new, NEW frames, NEW taken \in Nat, Grown(new, old, frames, taken),
         \A j \in 1..taken : ~IsPiece(frames[j]), NEW n, Ordered(old, n)
  PROVE Ordered(new, n) /\ \A items : Ahead(old, items) => Ahead(new, items)
<1>1. /\ \A k \in 1..Len(old) : new[k] = old[k]
      /\ \A k \in 1..Len(new) : IsPiece(new[k]) => k \in 1..Len(old)
      /\ Len(old) \in Nat /\ Len(new) \in Nat
  <2>1. /\ Len(old) \in Nat /\ Len(new) = Len(old) + taken
        /\ \A k \in 1..Len(old) : new[k] = old[k]
        /\ \A j \in 1..taken : new[Len(old) + j] = frames[j]
        /\ \A k \in 1..Len(new) : k \in 1..Len(old) \/ \E j \in 1..taken : k = Len(old) + j
    BY DEF Grown
  <2>2. ASSUME NEW k \in 1..Len(new), IsPiece(new[k]) PROVE k \in 1..Len(old)
    BY <2>1, <2>2
  <2>3. Len(new) \in Nat
    BY <2>1
  <2>. QED
    BY <2>1, <2>2, <2>3
<1>2. \A k, l \in 1..Len(new) : k < l /\ IsPiece(new[l]) => k \in 1..Len(old) /\ l \in 1..Len(old)
  BY <1>1
<1>3. Ordered(new, n)
  BY <1>1, <1>2 DEF Ordered
<1>4. \A items : Ahead(old, items) => Ahead(new, items)
  BY <1>1 DEF Ahead
<1>. QED
  BY <1>3, <1>4

LEMMA NextPiece ==
  ASSUME NEW items \in Seq(Bubbles), NEW n \in Nat, UpToPiece(items, n)
  PROVE Before(items, n + 1)
<1>1. ASSUME NEW k \in DOMAIN items, NEW i \in DOMAIN items[k].pieces
      PROVE items[k].pieces[i] < n + 1
  <2>1. items[k] \in Bubbles
    BY Element
  <2>2. items[k].pieces \in Seq(1..MaxPieces)
    BY <2>1 DEF Bubbles
  <2>3. items[k].pieces[i] \in Nat /\ items[k].pieces[i] <= n
    BY <2>2, PieceNumber DEF UpToPiece
  <2>. QED
    BY <2>3
<1>. QED
  BY <1>1 DEF Before

\* The next piece is said.
LEMMA SayOrdered ==
  ASSUME TypeInv, CarryInv, ScreenInv, PieceInv, Say
  PROVE PieceInv'
<1>. DEFINE f == Piece(said + 1)
<1>1. /\ said + 1 \in 1..MaxPieces /\ said' = said + 1 /\ said \in Nat /\ bubbles' = bubbles
      /\ Broadcast(<<f>>) /\ LinkOK /\ bubbles \in Seq(Bubbles) /\ down \in Seq(Frames)
  BY ChatAssumption DEF Say, TypeInv, AgentOK, AppOK, LinkOK, ChatAssumption, appVars
<1>2. f \in Frames /\ f.piece = said + 1 /\ IsPiece(f)
  BY <1>1, FrameTypes DEF Piece, Frame, IsPiece
<1>. HIDE DEF f
<1>3. <<f>> \in Seq(Frames) /\ Len(<<f>>) = 1 /\ <<f>>[1] = f
  BY <1>2
<1>. DEFINE frames == <<f>>
<1>. HIDE DEF frames
<1>4. PICK n \in 0..Len(frames) : Grown(down', down, frames, n)
  BY <1>1, <1>3, Offered DEF frames
<1>5. n \in 0..1 /\ frames[1] = f
  BY <1>3, <1>4 DEF frames
<1>6. /\ Len(down) \in Nat /\ Len(down') \in Nat
      /\ \A k \in 1..Len(down) : down'[k] = down[k]
      /\ \A k \in 1..Len(down') : k \in 1..Len(down) \/ (k = Len(down) + 1 /\ down'[k] = f)
      /\ \A k, l \in 1..Len(down') : k < l => k \in 1..Len(down)
  <2>1. /\ Len(down) \in Nat /\ Len(down') = Len(down) + n
        /\ \A k \in 1..Len(down) : down'[k] = down[k]
        /\ \A j \in 1..n : down'[Len(down) + j] = frames[j]
        /\ \A k \in 1..Len(down') : k \in 1..Len(down) \/ \E j \in 1..n : k = Len(down) + j
    BY <1>1, <1>4 DEF Grown
  <2>2. \A j \in 1..n : j = 1
    BY <1>5
  <2>3. Len(down') \in Nat /\ Len(down') <= Len(down) + 1
    BY <1>5, <2>1
  <2>4. ASSUME NEW k \in 1..Len(down')
        PROVE k \in 1..Len(down) \/ (k = Len(down) + 1 /\ down'[k] = f)
    BY <1>5, <2>1, <2>2
  <2>5. \A k, l \in 1..Len(down') : k < l => k \in 1..Len(down)
    BY <2>1, <2>3
  <2>. QED
    BY <2>1, <2>3, <2>4, <2>5
<1>7. /\ Before(bubbles, said + 1)
      /\ \A k \in 1..Len(down) : Before(down[k].items, said + 1)
  <2>1. Before(bubbles, said + 1)
    BY <1>1, NextPiece DEF ScreenInv, Neat
  <2>2. ASSUME NEW k \in 1..Len(down) PROVE Before(down[k].items, said + 1)
    <3>1. down[k] \in Frames
      BY <1>1
    <3>2. down[k].items \in Seq(Bubbles)
      BY <3>1, FrameFields
    <3>3. UpToPiece(down[k].items, said)
      BY DEF CarryInv, Fit, Neat
    <3>. QED
      BY <1>1, <3>2, <3>3, NextPiece
  <2>. QED
    BY <2>1, <2>2
<1>8. /\ \A k \in 1..Len(down) : IsPiece(down[k]) => down[k].piece \in Nat /\ down[k].piece <= said
      /\ Ordered(down, said) /\ Ahead(down, bubbles)
  <2>1. ASSUME NEW k \in 1..Len(down) PROVE down[k].piece \in Nat
    <3>1. down[k] \in Frames
      BY <1>1
    <3>. QED
      BY <3>1, FrameFields
  <2>. QED
    BY <2>1 DEF PieceInv, Ordered
<1>9. ASSUME NEW k \in 1..Len(down'), IsPiece(down'[k]) PROVE down'[k].piece <= said + 1
  BY <1>1, <1>2, <1>6, <1>8, <1>9
<1>10. ASSUME NEW k \in 1..Len(down'), NEW l \in 1..Len(down'), k < l, IsPiece(down'[l])
       PROVE /\ IsPiece(down'[k]) => down'[k].piece < down'[l].piece
             /\ Before(down'[k].items, down'[l].piece)
  <2>1. k \in 1..Len(down) /\ down'[k] = down[k]
    BY <1>6, <1>10
  <2>2. CASE l \in 1..Len(down)
    BY <1>6, <1>8, <1>10, <2>1, <2>2 DEF Ordered
  <2>3. CASE down'[l] = f
    BY <1>1, <1>2, <1>7, <1>8, <2>1, <2>3
  <2>. QED
    BY <1>6, <2>2, <2>3
<1>11. Ordered(down', said + 1)
  BY <1>9, <1>10 DEF Ordered
<1>12. Ahead(down', bubbles)
  BY <1>2, <1>6, <1>7, <1>8 DEF Ahead
<1>. QED
  BY <1>1, <1>11, <1>12 DEF PieceInv

\* A frame is received.
LEMMA TailOrdered ==
  ASSUME TypeInv, NEW kind, Receives(kind), Ordered(down, said)
  PROVE /\ Ordered(down', said)
        /\ \A items : Ahead(down, items) => Ahead(down', items)
        /\ Ahead(down', down[1].items)
        /\ IsPiece(down[1]) =>
             \A l \in 1..Len(down') : IsPiece(down'[l]) => down[1].piece < down'[l].piece
<1>1. LinkOK
  BY DEF TypeInv
<1>2. /\ Len(down') = Len(down) - 1 /\ Len(down) \in Nat /\ 1 \in 1..Len(down)
      /\ \A k \in 1..Len(down') : down'[k] = down[k + 1] /\ k + 1 \in 1..Len(down)
      /\ \A k \in 1..Len(down') : 1 < k + 1
      /\ \A k, l \in 1..Len(down') : k < l => k + 1 < l + 1
  BY <1>1, ReceivesFacts
<1>3. Ordered(down', said)
  BY <1>2 DEF Ordered
<1>4. \A items : Ahead(down, items) => Ahead(down', items)
  BY <1>2 DEF Ahead
<1>5. Ahead(down', down[1].items)
  BY <1>2 DEF Ahead, Ordered
<1>6. IsPiece(down[1]) =>
        \A l \in 1..Len(down') : IsPiece(down'[l]) => down[1].piece < down'[l].piece
  BY <1>2 DEF Ordered
<1>. QED
  BY <1>3, <1>4, <1>5, <1>6

\* What the app does with a piece.
LEMMA PieceShown ==
  ASSUME TypeInv, ScreenInv, PieceInv, OnAgentMessage
  PROVE /\ Neat(bubbles', typed, said)
        /\ \A q : Before(bubbles, q) /\ down[1].piece < q => Before(bubbles', q)
        /\ IsPiece(down[1])
<1>. DEFINE p == down[1].piece
<1>0. LinkOK /\ bubbles \in Seq(Bubbles) /\ said \in Nat
  BY DEF TypeInv, AppOK, AgentOK
<1>1. Receives("piece")
  BY DEF OnAgentMessage
<1>2. Head(down) = down[1] /\ down[1] \in Frames /\ down[1].kind = "piece" /\ 1 \in 1..Len(down)
  BY <1>0, <1>1, ReceivesFacts
<1>3. p \in 1..MaxPieces /\ p <= said /\ Before(bubbles, p) /\ IsPiece(down[1])
  BY <1>2, FrameFields DEF PieceInv, Ordered, Ahead, IsPiece
<1>. HIDE DEF p
<1>4. CASE StreamingBubbles = {}
  <2>. DEFINE b == Bubble("assistant", NoText, <<p>>, TRUE)
  <2>1. <<p>> \in Seq(1..MaxPieces)
    BY <1>3
  <2>2. b \in Bubbles /\ b.who = "assistant" /\ b.pieces = <<p>>
    BY <2>1, BubbleTypes DEF Bubble
  <2>3. bubbles' = Append(bubbles, b)
    BY <1>2, <1>4 DEF OnAgentMessage, p
  <2>. HIDE DEF b
  <2>4. ~Open(bubbles)
    BY <1>4 DEF Open, StreamingBubbles
  <2>5. /\ Neat(Append(bubbles, b), typed, said)
        /\ \A q : Before(bubbles, q) /\ p < q => Before(Append(bubbles, b), q)
    BY <1>0, <1>3, <2>2, <2>4, NeatOpen DEF ScreenInv
  <2>. QED
    BY <1>3, <2>3, <2>5 DEF p
<1>5. CASE StreamingBubbles # {}
  <2>. DEFINE m == Max(StreamingBubbles)
  <2>1. m \in DOMAIN bubbles /\ bubbles[m].streaming
    BY <1>0, <1>5, TheOpenOne DEF ScreenInv, Neat
  <2>2. Writes(bubbles', bubbles, m, p)
    BY <1>2, <1>5 DEF OnAgentMessage, Writes, p
  <2>. HIDE DEF m
  <2>3. /\ Neat(bubbles', typed, said)
        /\ \A q : Before(bubbles, q) /\ p < q => Before(bubbles', q)
    BY <1>0, <1>3, <2>1, <2>2, NeatWrite DEF ScreenInv
  <2>. QED
    BY <1>3, <2>3 DEF p
<1>. QED
  BY <1>4, <1>5

LEMMA FinalShown ==
  ASSUME TypeInv, ScreenInv, OnFinal
  PROVE Neat(bubbles', typed, said) /\ \A q : Before(bubbles, q) => Before(bubbles', q)
<1>0. bubbles \in Seq(Bubbles)
  BY DEF TypeInv, AppOK
<1>1. CASE StreamingBubbles = {}
  BY <1>1 DEF OnFinal, ScreenInv
<1>2. CASE StreamingBubbles # {}
  <2>. DEFINE m == Max(StreamingBubbles)
  <2>1. m \in DOMAIN bubbles
    BY <1>0, <1>2, TheOpenOne DEF ScreenInv, Neat
  <2>2. Closes(bubbles', bubbles, m)
    BY <1>2 DEF OnFinal, Closes
  <2>. HIDE DEF m
  <2>. QED
    BY <1>0, <2>1, <2>2, NeatClose DEF ScreenInv
<1>. QED
  BY <1>1, <1>2

LEMMA TypedShown ==
  ASSUME TypeInv, ScreenInv, NEW t \in Texts, SendMessage(t)
  PROVE Neat(bubbles', typed', said') /\ \A q : Before(bubbles, q) => Before(bubbles', q)
<1>1. /\ t \in Texts \ typed /\ typed' = typed \cup {t} /\ bubbles' = Append(bubbles, User(t))
      /\ said' = said /\ bubbles \in Seq(Bubbles) /\ said \in Nat
  BY DEF SendMessage, agentVars, TypeInv, AppOK, AgentOK
<1>2. /\ Neat(Append(bubbles, User(t)), typed \cup {t}, said)
      /\ \A q : Before(bubbles, q) => Before(Append(bubbles, User(t)), q)
  BY <1>1, NeatTyped DEF ScreenInv
<1>. QED
  BY <1>1, <1>2

LEMMA PieceStep ==
  ASSUME TypeInv, CarryInv, ScreenInv, PieceInv, [Next]_vars
  PROVE PieceInv'
<1>0. LinkOK /\ down \in Seq(Frames) /\ Ordered(down, said) /\ Ahead(down, bubbles)
  BY DEF TypeInv, LinkOK, PieceInv
<1>1. CASE \E frames \in Seq(Frames) : Broadcast(frames) /\ Plain(frames) /\ UNCHANGED <<said, typed, bubbles>>
  <2>1. PICK frames \in Seq(Frames) : Broadcast(frames) /\ Plain(frames) /\ UNCHANGED <<said, typed, bubbles>>
    BY <1>1
  <2>2. PICK n \in 0..Len(frames) : Grown(down', down, frames, n)
    BY <1>0, <2>1, Offered
  <2>3. n \in Nat /\ n <= Len(frames) /\ Len(frames) \in Nat
    BY <2>2
  <2>4. \A j \in 1..n : ~IsPiece(frames[j])
    BY <2>1, <2>3 DEF Plain
  <2>5. Ordered(down', said) /\ Ahead(down', bubbles)
    BY <1>0, <2>2, <2>3, <2>4, PlainOrdered
  <2>. QED
    BY <2>1, <2>5 DEF PieceInv
<1>2. CASE Say
  BY <1>2, SayOrdered
<1>3. CASE OnAgentList \/ OnAgentStatus \/ OnFinal
  <2>1. PICK kind : Receives(kind)
    BY <1>3 DEF OnAgentList, OnAgentStatus, OnFinal
  <2>2. said' = said
    BY <1>3 DEF OnAgentList, OnAgentStatus, OnFinal, agentVars
  <2>3. Ordered(down', said) /\ Ahead(down', bubbles)
    BY <1>0, <2>1, TailOrdered
  <2>4. \A q : Before(bubbles, q) => Before(bubbles', q)
    BY <1>3, FinalShown DEF OnAgentList, OnAgentStatus
  <2>5. Ahead(down', bubbles')
    BY <2>3, <2>4 DEF Ahead
  <2>. QED
    BY <2>2, <2>3, <2>5 DEF PieceInv
<1>4. CASE OnAgentMessage
  <2>1. Receives("piece") /\ said' = said
    BY <1>4 DEF OnAgentMessage, agentVars
  <2>2. Ordered(down', said) /\ Ahead(down', bubbles)
    BY <1>0, <2>1, TailOrdered
  <2>3. IsPiece(down[1]) /\ \A q : Before(bubbles, q) /\ down[1].piece < q => Before(bubbles', q)
    BY <1>4, PieceShown
  <2>4. \A l \in 1..Len(down') : IsPiece(down'[l]) => down[1].piece < down'[l].piece
    BY <1>0, <2>1, <2>3, TailOrdered
  <2>5. Ahead(down', bubbles')
    BY <2>2, <2>3, <2>4 DEF Ahead
  <2>. QED
    BY <2>1, <2>2, <2>5 DEF PieceInv
<1>5. CASE OnHistory
  <2>1. Receives("history") /\ said' = said /\ bubbles' = Head(down).items
    BY <1>5 DEF OnHistory, agentVars
  <2>2. Head(down) = down[1]
    BY <1>0, <2>1, ReceivesFacts
  <2>3. Ordered(down', said) /\ Ahead(down', down[1].items)
    BY <1>0, <2>1, TailOrdered
  <2>. QED
    BY <2>1, <2>2, <2>3 DEF PieceInv
<1>6. CASE \E t \in Texts : SendMessage(t)
  <2>1. down' = down /\ said' = said /\ \A q : Before(bubbles, q) => Before(bubbles', q)
    BY <1>6, TypedShown DEF SendMessage, agentVars
  <2>2. Ahead(down', bubbles')
    BY <1>0, <2>1 DEF Ahead
  <2>. QED
    BY <1>0, <2>1, <2>2 DEF PieceInv
<1>7. CASE UNCHANGED <<down, said, typed, bubbles>>
  BY <1>7 DEF PieceInv
<1>8. CASE down' = <<>> /\ UNCHANGED <<said, typed, bubbles>>
  BY <1>8 DEF PieceInv, Ordered, Ahead
<1>. QED
  BY <1>1, <1>2, <1>3, <1>4, <1>5, <1>6, <1>7, <1>8, StepKinds DEF Kinds

LEMMA ScreenStep ==
  ASSUME TypeInv, CarryInv, PieceInv, ScreenInv, [Next]_vars
  PROVE ScreenInv'
<1>0. LinkOK /\ bubbles \in Seq(Bubbles)
  BY DEF TypeInv, AppOK
<1>1. CASE UNCHANGED bubbles
  <2>1. Neat(bubbles, typed', said')
    BY <1>0, Growing, NeatMore DEF ScreenInv
  <2>. QED
    BY <1>1, <2>1 DEF ScreenInv
<1>2. CASE OnAgentMessage
  BY <1>2, PieceShown DEF OnAgentMessage, agentVars, ScreenInv
<1>3. CASE OnFinal
  BY <1>3, FinalShown DEF OnFinal, agentVars, ScreenInv
<1>4. CASE OnHistory
  <2>1. Receives("history") /\ UNCHANGED <<said, typed>> /\ bubbles' = Head(down).items
    BY <1>4 DEF OnHistory, agentVars
  <2>2. Head(down) = down[1] /\ 1 \in 1..Len(down)
    BY <1>0, <2>1, ReceivesFacts
  <2>3. Neat(down[1].items, typed, said)
    BY <2>2 DEF CarryInv, Fit
  <2>. QED
    BY <2>1, <2>2, <2>3 DEF ScreenInv
<1>5. CASE \E t \in Texts : SendMessage(t)
  BY <1>5, TypedShown DEF ScreenInv
<1>6. CASE Say \/ OnAgentList \/ OnAgentStatus
  BY <1>1, <1>6 DEF Say, OnAgentList, OnAgentStatus, appVars
<1>. QED
  BY <1>1, <1>2, <1>3, <1>4, <1>5, <1>6, StepKinds DEF Kinds

-----------------------------------------------------------------------------
(* The conversation on its way from the table to the screen.                *)

TalkInv == LogInv /\ PlaceInv /\ CarryInv /\ PieceInv /\ ScreenInv

LEMMA TalkInit == Init => TalkInv
<1>. SUFFICES ASSUME Init PROVE TalkInv
  OBVIOUS
<1>1. LogInv /\ ScreenInv
  BY NeatNothing, FitNothing DEF Init, LogInv, ScreenInv
<1>2. CarryInv /\ PieceInv
  BY DEF Init, CarryInv, PieceInv, Ordered, Ahead
<1>3. PlaceInv
  <2>1. /\ SentOnce(<<>>) /\ QueuedOnce(<<>>) /\ (\A t : ~InUp(<<>>, t)) /\ \A t : ~InBox(<<>>, t)
    BY DEF SentOnce, QueuedOnce, InUp, InBox
  <2>. QED
    BY <2>1 DEF Init, PlaceInv, Places, InOnePlace
<1>. QED
  BY <1>1, <1>2, <1>3 DEF TalkInv

LEMMA TalkStep == TypeInv /\ TalkInv /\ [Next]_vars => TalkInv'
BY LogStep, PlaceStep, CarryStep, PieceStep, ScreenStep DEF TalkInv

LEMMA TalkSafe == Spec => []TalkInv
BY TypeSafe, TalkInit, TalkStep, PTL DEF Spec

\* The screen shows what the agent said in the order it was said and no piece of it
\* twice, over lost connections, dropped frames, histories and open bubbles
\* (providers.dart:66-111, main.dart:57-95, agent.go:304-311).
THEOREM SaidCorrect == Spec => []SaidInOrder
<1>1. TalkInv => SaidInOrder
  BY DEF TalkInv, ScreenInv, Neat, SaidInOrder
<1>. QED
  BY <1>1, TalkSafe, PTL

\* No text of the user is shown twice, as typed and as saved
\* (chat_screen.dart:39-54, main.dart:87-95, agent.go:226-241 and 423-453).
THEOREM TypedCorrect == Spec => []TypedOnce
<1>1. TalkInv => TypedOnce
  BY DEF TalkInv, ScreenInv, Neat, OnceEach, TypedOnce
<1>. QED
  BY <1>1, TalkSafe, PTL
===============================================================================
