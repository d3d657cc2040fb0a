----------------------------- MODULE StreamProtocol -----------------------------
(***************************************************************************)
(* What the agent's drain loop relies on (internal/agent/agent.go:282-314): *)
(* a stream is any number of text and tool chunks, then exactly one verdict *)
(* (done, failed or cancelled), then the channel is closed.                 *)
(***************************************************************************)
EXTENDS Sequences

VARIABLES kinds, open

pvars == <<kinds, open>>

Bodies == {"content", "tools"}
Verdicts == {"done", "failed", "canceled"}

PInit == kinds = <<>> /\ open = TRUE

Judged == \E k \in DOMAIN kinds : kinds[k] \in Verdicts

More == /\ open /\ ~Judged
        /\ \E k \in Bodies : kinds' = Append(kinds, k)
        /\ UNCHANGED open

Judge == /\ open /\ ~Judged
         /\ \E k \in Verdicts : kinds' = Append(kinds, k)
         /\ UNCHANGED open

Close == /\ open /\ Judged
         /\ open' = FALSE
         /\ UNCHANGED kinds

PSpec == PInit /\ [][More \/ Judge \/ Close]_pvars
=============================================================================
