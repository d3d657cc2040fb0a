---------------------------- MODULE MCAgentRegistry ----------------------------
(* Small instances of AgentRegistry for TLC. *)
EXTENDS AgentRegistry, TLC

CONSTANTS c1, c2, c3, a1, a2, a3

OneClient == {c1}
TwoClients == {c1, c2}
ThreeClients == {c1, c2, c3}
TwoIds == {a1, a2}
ThreeIds == {a1, a2, a3}
Both == {"main", "sub"}
MainOnly == {"main"}

Symmetric == Permutations(Clients) \cup Permutations(Ids)
=============================================================================
