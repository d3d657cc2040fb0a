---------------------------- MODULE AgentDirectory ----------------------------
(***************************************************************************)
(* What the manager promises about the set of agents, whatever its clients  *)
(* do at the same time: an id is given once; an agent runs only after it is *)
(* kept on disk; one that was asked to be deleted leaves at once, comes     *)
(* back at most with a restart, and is forgotten only while it does not     *)
(* run.  AgentRegistry implements this specification.                       *)
(***************************************************************************)
CONSTANT Ids

VARIABLES used, kept, running, asked

dvars == <<used, kept, running, asked>>

DInit == used = {} /\ kept = {} /\ running = {} /\ asked = {}

Add(id) ==
  /\ id \notin used
  /\ used' = used \cup {id} /\ kept' = kept \cup {id}
  /\ UNCHANGED <<running, asked>>

Run(id) ==
  /\ id \in kept \ asked
  /\ running' = running \cup {id}
  /\ UNCHANGED <<used, kept, asked>>

AskToDelete(id) ==
  /\ id \in used
  /\ running' = running \ {id} /\ asked' = asked \cup {id}
  /\ UNCHANGED <<used, kept>>

Forget(id) ==
  /\ id \in asked \ running
  /\ kept' = kept \ {id}
  /\ UNCHANGED <<used, running, asked>>

\* All that is kept runs again, or nothing if it cannot be read.
Reboot ==
  /\ running' \in {kept, {}}
  /\ UNCHANGED <<used, kept, asked>>

DNext == (\E id \in Ids : Add(id) \/ Run(id) \/ AskToDelete(id) \/ Forget(id)) \/ Reboot

DSpec == DInit /\ [][DNext]_dvars
=============================================================================
