---------------------------- MODULE MCAgentRuntime ----------------------------
(* Small instances of AgentRuntime for TLC. *)
EXTENDS AgentRuntime, TLC

CONSTANTS c1, c2, t1, t2, t3

OneClient == {c1}
TwoClients == {c1, c2}
OneText == {t1}
TwoTexts == {t1, t2}
ThreeTexts == {t1, t2, t3}

\* Clients and texts are interchangeable; only for runs without liveness.
Symmetric == Permutations(Clients) \cup Permutations(Texts)
=============================================================================
