----------------------------- MODULE RequestQueue -----------------------------
(***************************************************************************)
(* What an agent promises about the texts its users send, whatever its      *)
(* goroutines do: a request waits in a bounded queue in the order of        *)
(* arrival, at most one request is worked on at a time, an interrupt puts   *)
(* its own request in the place of the current one, and what becomes of a   *)
(* request is settled once.  AgentRuntime implements this specification.    *)
(***************************************************************************)
EXTENDS Naturals, Sequences

CONSTANTS Texts, NoText, QueueCap

VARIABLES queue, current, outcome

rvars == <<queue, current, outcome>>

Results == {"answered", "failed", "canceled", "abandoned"}
Settlements == Results \cup {"interrupted", "dropped"}

RInit ==
  /\ queue = <<>>
  /\ current = NoText
  /\ outcome = [t \in Texts |-> "new"]

Accept(t) ==
  /\ outcome[t] = "new" /\ Len(queue) < QueueCap
  /\ queue' = Append(queue, t)
  /\ outcome' = [outcome EXCEPT ![t] = "queued"]
  /\ UNCHANGED current

Drop(t) ==
  /\ outcome[t] = "new"
  /\ outcome' = [outcome EXCEPT ![t] = "dropped"]
  /\ UNCHANGED <<queue, current>>

Begin ==
  /\ current = NoText /\ queue # <<>>
  /\ queue' = Tail(queue)
  /\ current' = Head(queue)
  /\ outcome' = [outcome EXCEPT ![Head(queue)] = "current"]

Finish(r) ==
  /\ current # NoText
  /\ current' = NoText
  /\ outcome' = [outcome EXCEPT ![current] = r]
  /\ UNCHANGED queue

\* An interrupt without content leaves no current request.
Stop ==
  /\ current # NoText
  /\ current' = NoText
  /\ outcome' = [outcome EXCEPT ![current] = "interrupted"]
  /\ UNCHANGED queue

Replace(t) ==
  /\ current # NoText /\ outcome[t] = "new"
  /\ current' = t
  /\ outcome' = [outcome EXCEPT ![current] = "interrupted", ![t] = "current"]
  /\ UNCHANGED queue

RNext ==
  \/ \E t \in Texts : Accept(t) \/ Drop(t) \/ Replace(t)
  \/ \E r \in Results : Finish(r)
  \/ Begin \/ Stop

RSpec == RInit /\ [][RNext]_rvars
=============================================================================
