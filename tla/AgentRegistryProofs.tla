-------------------------- MODULE AgentRegistryProofs --------------------------
(***************************************************************************)
(* Proofs about AgentRegistry, for any number of clients and agents, with   *)
(* or without failing statements.  The invariants of the map and the store  *)
(* are inductive only together with what is known of the ids in flight: the *)
(* id a client creates is unseen until it enters the map, the id a client   *)
(* deletes has left the map for good, and a snapshot names rows.            *)
(***************************************************************************)
EXTENDS AgentRegistry, TLAPS

-----------------------------------------------------------------------------
(* The inductive invariant.                                                 *)

\* No client was, or is about to be, shown the agent, and it is not in the map.
Unseen(id) ==
  id \notin announced /\ id \notin live /\ \A c \in Clients : id \notin snap[c]

\* An id that was never inserted is nowhere.
FreshUnseen == \A id \in Ids : kind[id] = "none" => id \notin rows /\ Unseen(id)

\* The id a client is about to enter has its row and is known to nobody else.
EnteringUnseen ==
  \A c \in Clients : cpc[c] = "enter" =>
    /\ arg[c] \in rows /\ Unseen(arg[c])
    /\ \A d \in Clients : cpc[d] = "enter" /\ arg[d] = arg[c] => c = d

\* The id a client is about to drop was asked for and has left the map.
DroppingGone ==
  \A c \in Clients : cpc[c] = "drop" =>
    arg[c] \in announced /\ arg[c] \in doomed /\ arg[c] \notin live

\* A snapshot waiting to be sent names rows, but for what is being deleted.
SnapHasRow == \A c \in Clients : \A id \in snap[c] : id \in doomed \/ id \in rows

InFlight == FreshUnseen /\ EnteringUnseen /\ DroppingGone /\ SnapHasRow

Promises == LiveHasRow /\ AnnouncedIsDurable /\ NoLeakedLoop

RegistryInv == TypeOK /\ InFlight /\ Promises

LEMMA RegistryInit == Init => RegistryInv
<1>. SUFFICES ASSUME Init PROVE RegistryInv
  OBVIOUS
<1>. USE DEF Init
<1>1. TypeOK
  BY DEF TypeOK
<1>2. InFlight
  BY DEF InFlight, FreshUnseen, Unseen, EnteringUnseen, DroppingGone, SnapHasRow
<1>3. Promises
  BY DEF Promises, LiveHasRow, AnnouncedIsDurable, NoLeakedLoop
<1>. QED
  BY <1>1, <1>2, <1>3 DEF RegistryInv

-----------------------------------------------------------------------------
(* Every step keeps it, action by action.                                   *)

\* A client passes the check for a main agent.
LEMMA CheckMainStep ==
  ASSUME RegistryInv, NEW c \in Clients, NEW k \in Kinds, CheckMain(c, k)
  PROVE RegistryInv'
<1>. USE RegistryAssumption DEF RegistryInv, CheckMain, Goto, Hold, storeVars, memVars, clientVars
<1>1. TypeOK'
  BY DEF TypeOK, InFlight, EnteringUnseen
<1>2. FreshUnseen'
  BY DEF TypeOK, Promises, LiveHasRow, InFlight, FreshUnseen, EnteringUnseen, Unseen
<1>3. EnteringUnseen'
  BY DEF TypeOK, InFlight, FreshUnseen, EnteringUnseen, DroppingGone, Unseen
<1>4. DroppingGone'
  BY DEF TypeOK, InFlight, EnteringUnseen, DroppingGone, Unseen
<1>5. SnapHasRow'
  BY DEF TypeOK, InFlight, SnapHasRow, DroppingGone, Promises, LiveHasRow
<1>6. LiveHasRow'
  BY DEF TypeOK, InFlight, EnteringUnseen, DroppingGone, Promises, LiveHasRow
<1>7. AnnouncedIsDurable'
  BY DEF TypeOK, InFlight, SnapHasRow, DroppingGone, Promises, AnnouncedIsDurable
<1>8. NoLeakedLoop'
  BY DEF TypeOK, Promises, NoLeakedLoop
<1>. QED
  BY <1>1, <1>2, <1>3, <1>4, <1>5, <1>6, <1>7, <1>8 DEF InFlight, Promises

\* The row is inserted and the agent started, or CreateAgent fails after it.
LEMMA InsertStep ==
  ASSUME RegistryInv, NEW c \in Clients, NEW id \in Ids, NEW p \in Ids \cup {NoId}, InsertAgent(c, id, p)
  PROVE RegistryInv'
<1>. USE RegistryAssumption DEF RegistryInv, InsertAgent, Goto, Hold, storeVars, memVars, clientVars
<1>1. TypeOK'
  BY DEF TypeOK, InFlight, EnteringUnseen
<1>2. FreshUnseen'
  BY DEF TypeOK, Promises, LiveHasRow, InFlight, FreshUnseen, EnteringUnseen, Unseen
<1>3. EnteringUnseen'
  BY DEF TypeOK, InFlight, FreshUnseen, EnteringUnseen, DroppingGone, Unseen
<1>4. DroppingGone'
  BY DEF TypeOK, InFlight, EnteringUnseen, DroppingGone, Unseen
<1>5. SnapHasRow'
  BY DEF TypeOK, InFlight, SnapHasRow, DroppingGone, Promises, LiveHasRow
<1>6. LiveHasRow'
  BY DEF TypeOK, InFlight, EnteringUnseen, DroppingGone, Promises, LiveHasRow
<1>7. AnnouncedIsDurable'
  BY DEF TypeOK, InFlight, SnapHasRow, DroppingGone, Promises, AnnouncedIsDurable
<1>8. NoLeakedLoop'
  BY DEF TypeOK, Promises, NoLeakedLoop
<1>. QED
  BY <1>1, <1>2, <1>3, <1>4, <1>5, <1>6, <1>7, <1>8 DEF InFlight, Promises

\* The INSERT fails.
LEMMA InsertFailsStep ==
  ASSUME RegistryInv, NEW c \in Clients, InsertFails(c)
  PROVE RegistryInv'
<1>. USE RegistryAssumption DEF RegistryInv, InsertFails, Goto, Hold, storeVars, memVars, clientVars
<1>1. TypeOK'
  BY DEF TypeOK, InFlight, EnteringUnseen
<1>2. FreshUnseen'
  BY DEF TypeOK, Promises, LiveHasRow, InFlight, FreshUnseen, EnteringUnseen, Unseen
<1>3. EnteringUnseen'
  BY DEF TypeOK, InFlight, FreshUnseen, EnteringUnseen, DroppingGone, Unseen
<1>4. DroppingGone'
  BY DEF TypeOK, InFlight, EnteringUnseen, DroppingGone, Unseen
<1>5. SnapHasRow'
  BY DEF TypeOK, InFlight, SnapHasRow, DroppingGone, Promises, LiveHasRow
<1>6. LiveHasRow'
  BY DEF TypeOK, InFlight, EnteringUnseen, DroppingGone, Promises, LiveHasRow
<1>7. AnnouncedIsDurable'
  BY DEF TypeOK, InFlight, SnapHasRow, DroppingGone, Promises, AnnouncedIsDurable
<1>8. NoLeakedLoop'
  BY DEF TypeOK, Promises, NoLeakedLoop
<1>. QED
  BY <1>1, <1>2, <1>3, <1>4, <1>5, <1>6, <1>7, <1>8 DEF InFlight, Promises

\* The new agent enters the map.
LEMMA EnterMapStep ==
  ASSUME RegistryInv, NEW c \in Clients, EnterMap(c)
  PROVE RegistryInv'
<1>. USE RegistryAssumption DEF RegistryInv, EnterMap, Goto, Hold, storeVars, memVars, clientVars
<1>1. TypeOK'
  BY DEF TypeOK, InFlight, EnteringUnseen
<1>2. FreshUnseen'
  BY DEF TypeOK, Promises, LiveHasRow, InFlight, FreshUnseen, EnteringUnseen, Unseen
<1>3. EnteringUnseen'
  BY DEF TypeOK, InFlight, FreshUnseen, EnteringUnseen, DroppingGone, Unseen
<1>4. DroppingGone'
  BY DEF TypeOK, InFlight, EnteringUnseen, DroppingGone, Unseen
<1>5. SnapHasRow'
  BY DEF TypeOK, InFlight, SnapHasRow, DroppingGone, Promises, LiveHasRow
<1>6. LiveHasRow'
  BY DEF TypeOK, InFlight, EnteringUnseen, DroppingGone, Promises, LiveHasRow
<1>7. AnnouncedIsDurable'
  BY DEF TypeOK, InFlight, SnapHasRow, DroppingGone, Promises, AnnouncedIsDurable
<1>8. NoLeakedLoop'
  BY DEF TypeOK, Promises, NoLeakedLoop
<1>. QED
  BY <1>1, <1>2, <1>3, <1>4, <1>5, <1>6, <1>7, <1>8 DEF InFlight, Promises

\* An agent is stopped and leaves the map.
LEMMA RemoveStep ==
  ASSUME RegistryInv, NEW c \in Clients, NEW id \in Ids, RemoveAgent(c, id)
  PROVE RegistryInv'
<1>. USE RegistryAssumption DEF RegistryInv, RemoveAgent, Goto, Hold, storeVars, memVars, clientVars
<1>1. TypeOK'
  BY DEF TypeOK, InFlight, EnteringUnseen
<1>2. FreshUnseen'
  BY DEF TypeOK, Promises, LiveHasRow, InFlight, FreshUnseen, EnteringUnseen, Unseen
<1>3. EnteringUnseen'
  BY DEF TypeOK, InFlight, FreshUnseen, EnteringUnseen, DroppingGone, Unseen
<1>4. DroppingGone'
  BY DEF TypeOK, InFlight, EnteringUnseen, DroppingGone, Unseen
<1>5. SnapHasRow'
  BY DEF TypeOK, InFlight, SnapHasRow, DroppingGone, Promises, LiveHasRow
<1>6. LiveHasRow'
  BY DEF TypeOK, InFlight, EnteringUnseen, DroppingGone, Promises, LiveHasRow
<1>7. AnnouncedIsDurable'
  BY DEF TypeOK, InFlight, SnapHasRow, DroppingGone, Promises, AnnouncedIsDurable
<1>8. NoLeakedLoop'
  BY DEF TypeOK, Promises, NoLeakedLoop
<1>. QED
  BY <1>1, <1>2, <1>3, <1>4, <1>5, <1>6, <1>7, <1>8 DEF InFlight, Promises

\* The row goes, or the DELETE fails.
LEMMA DropRowStep ==
  ASSUME RegistryInv, NEW c \in Clients, DropRow(c)
  PROVE RegistryInv'
<1>. USE RegistryAssumption DEF RegistryInv, DropRow, Goto, Hold, storeVars, memVars, clientVars
<1>1. TypeOK'
  BY DEF TypeOK, InFlight, EnteringUnseen
<1>2. FreshUnseen'
  BY DEF TypeOK, Promises, LiveHasRow, InFlight, FreshUnseen, EnteringUnseen, Unseen
<1>3. EnteringUnseen'
  BY DEF TypeOK, InFlight, FreshUnseen, EnteringUnseen, DroppingGone, Unseen
<1>4. DroppingGone'
  BY DEF TypeOK, InFlight, EnteringUnseen, DroppingGone, Unseen
<1>5. SnapHasRow'
  BY DEF TypeOK, InFlight, SnapHasRow, DroppingGone, Promises, LiveHasRow
<1>6. LiveHasRow'
  BY DEF TypeOK, InFlight, EnteringUnseen, DroppingGone, Promises, LiveHasRow
<1>7. AnnouncedIsDurable'
  BY DEF TypeOK, InFlight, SnapHasRow, DroppingGone, Promises, AnnouncedIsDurable
<1>8. NoLeakedLoop'
  BY DEF TypeOK, Promises, NoLeakedLoop
<1>. QED
  BY <1>1, <1>2, <1>3, <1>4, <1>5, <1>6, <1>7, <1>8 DEF InFlight, Promises

\* A snapshot of the map is taken.
LEMMA ListStep ==
  ASSUME RegistryInv, NEW c \in Clients, ListAgents(c)
  PROVE RegistryInv'
<1>. USE RegistryAssumption DEF RegistryInv, ListAgents, Goto, Hold, storeVars, memVars, clientVars
<1>1. TypeOK'
  BY DEF TypeOK, InFlight, EnteringUnseen
<1>2. FreshUnseen'
  BY DEF TypeOK, Promises, LiveHasRow, InFlight, FreshUnseen, EnteringUnseen, Unseen
<1>3. EnteringUnseen'
  BY DEF TypeOK, InFlight, FreshUnseen, EnteringUnseen, DroppingGone, Unseen
<1>4. DroppingGone'
  BY DEF TypeOK, InFlight, EnteringUnseen, DroppingGone, Unseen
<1>5. SnapHasRow'
  BY DEF TypeOK, InFlight, SnapHasRow, DroppingGone, Promises, LiveHasRow
<1>6. LiveHasRow'
  BY DEF TypeOK, InFlight, EnteringUnseen, DroppingGone, Promises, LiveHasRow
<1>7. AnnouncedIsDurable'
  BY DEF TypeOK, InFlight, SnapHasRow, DroppingGone, Promises, AnnouncedIsDurable
<1>8. NoLeakedLoop'
  BY DEF TypeOK, Promises, NoLeakedLoop
<1>. QED
  BY <1>1, <1>2, <1>3, <1>4, <1>5, <1>6, <1>7, <1>8 DEF InFlight, Promises

\* The snapshot reaches the clients.
LEMMA SendStep ==
  ASSUME RegistryInv, NEW c \in Clients, SendList(c)
  PROVE RegistryInv'
<1>. USE RegistryAssumption DEF RegistryInv, SendList, Goto, Hold, storeVars, memVars, clientVars
<1>1. TypeOK'
  BY DEF TypeOK, InFlight, EnteringUnseen
<1>2. FreshUnseen'
  BY DEF TypeOK, Promises, LiveHasRow, InFlight, FreshUnseen, EnteringUnseen, Unseen
<1>3. EnteringUnseen'
  BY DEF TypeOK, InFlight, FreshUnseen, EnteringUnseen, DroppingGone, Unseen
<1>4. DroppingGone'
  BY DEF TypeOK, InFlight, EnteringUnseen, DroppingGone, Unseen
<1>5. SnapHasRow'
  BY DEF TypeOK, InFlight, SnapHasRow, DroppingGone, Promises, LiveHasRow
<1>6. LiveHasRow'
  BY DEF TypeOK, InFlight, EnteringUnseen, DroppingGone, Promises, LiveHasRow
<1>7. AnnouncedIsDurable'
  BY DEF TypeOK, InFlight, SnapHasRow, DroppingGone, Promises, AnnouncedIsDurable
<1>8. NoLeakedLoop'
  BY DEF TypeOK, Promises, NoLeakedLoop
<1>. QED
  BY <1>1, <1>2, <1>3, <1>4, <1>5, <1>6, <1>7, <1>8 DEF InFlight, Promises

\* An agent saves a message.
LEMMA SaveStep ==
  ASSUME RegistryInv, NEW id \in Ids, SaveMessage(id)
  PROVE RegistryInv'
<1>. USE RegistryAssumption DEF RegistryInv, SaveMessage, Goto, Hold, storeVars, memVars, clientVars
<1>1. TypeOK'
  BY DEF TypeOK, InFlight, EnteringUnseen
<1>2. FreshUnseen'
  BY DEF TypeOK, Promises, LiveHasRow, InFlight, FreshUnseen, EnteringUnseen, Unseen
<1>3. EnteringUnseen'
  BY DEF TypeOK, InFlight, FreshUnseen, EnteringUnseen, DroppingGone, Unseen
<1>4. DroppingGone'
  BY DEF TypeOK, InFlight, EnteringUnseen, DroppingGone, Unseen
<1>5. SnapHasRow'
  BY DEF TypeOK, InFlight, SnapHasRow, DroppingGone, Promises, LiveHasRow
<1>6. LiveHasRow'
  BY DEF TypeOK, InFlight, EnteringUnseen, DroppingGone, Promises, LiveHasRow
<1>7. AnnouncedIsDurable'
  BY DEF TypeOK, InFlight, SnapHasRow, DroppingGone, Promises, AnnouncedIsDurable
<1>8. NoLeakedLoop'
  BY DEF TypeOK, Promises, NoLeakedLoop
<1>. QED
  BY <1>1, <1>2, <1>3, <1>4, <1>5, <1>6, <1>7, <1>8 DEF InFlight, Promises

\* A stopped goroutine returns.
LEMMA EndsStep ==
  ASSUME RegistryInv, NEW id \in Ids, AgentEnds(id)
  PROVE RegistryInv'
<1>. USE RegistryAssumption DEF RegistryInv, AgentEnds, Goto, Hold, storeVars, memVars, clientVars
<1>1. TypeOK'
  BY DEF TypeOK, InFlight, EnteringUnseen
<1>2. FreshUnseen'
  BY DEF TypeOK, Promises, LiveHasRow, InFlight, FreshUnseen, EnteringUnseen, Unseen
<1>3. EnteringUnseen'
  BY DEF TypeOK, InFlight, FreshUnseen, EnteringUnseen, DroppingGone, Unseen
<1>4. DroppingGone'
  BY DEF TypeOK, InFlight, EnteringUnseen, DroppingGone, Unseen
<1>5. SnapHasRow'
  BY DEF TypeOK, InFlight, SnapHasRow, DroppingGone, Promises, LiveHasRow
<1>6. LiveHasRow'
  BY DEF TypeOK, InFlight, EnteringUnseen, DroppingGone, Promises, LiveHasRow
<1>7. AnnouncedIsDurable'
  BY DEF TypeOK, InFlight, SnapHasRow, DroppingGone, Promises, AnnouncedIsDurable
<1>8. NoLeakedLoop'
  BY DEF TypeOK, Promises, NoLeakedLoop
<1>. QED
  BY <1>1, <1>2, <1>3, <1>4, <1>5, <1>6, <1>7, <1>8 DEF InFlight, Promises

\* The process dies and the table is loaded.
LEMMA RestartStep ==
  ASSUME RegistryInv, Restart
  PROVE RegistryInv'
<1>. USE RegistryAssumption DEF RegistryInv, Restart, LoadAgents, Goto, Hold, storeVars, memVars, clientVars
<1>1. TypeOK'
  BY DEF TypeOK, InFlight, EnteringUnseen
<1>2. FreshUnseen'
  BY DEF TypeOK, Promises, LiveHasRow, InFlight, FreshUnseen, EnteringUnseen, Unseen
<1>3. EnteringUnseen'
  BY DEF TypeOK, InFlight, FreshUnseen, EnteringUnseen, DroppingGone, Unseen
<1>4. DroppingGone'
  BY DEF TypeOK, InFlight, EnteringUnseen, DroppingGone, Unseen
<1>5. SnapHasRow'
  BY DEF TypeOK, InFlight, SnapHasRow, DroppingGone, Promises, LiveHasRow
<1>6. LiveHasRow'
  BY DEF TypeOK, InFlight, EnteringUnseen, DroppingGone, Promises, LiveHasRow
<1>7. AnnouncedIsDurable'
  BY DEF TypeOK, InFlight, SnapHasRow, DroppingGone, Promises, AnnouncedIsDurable
<1>8. NoLeakedLoop'
  BY DEF TypeOK, Promises, NoLeakedLoop
<1>. QED
  BY <1>1, <1>2, <1>3, <1>4, <1>5, <1>6, <1>7, <1>8 DEF InFlight, Promises

-----------------------------------------------------------------------------
LEMMA RegistryStep == RegistryInv /\ [Next]_vars => RegistryInv'
<1>. SUFFICES ASSUME RegistryInv, [Next]_vars PROVE RegistryInv'
  OBVIOUS
<1>1. ASSUME NEW c \in Clients, Client(c) PROVE RegistryInv'
  <2>1. ASSUME NEW k \in Kinds, CheckMain(c, k) PROVE RegistryInv'
    BY <2>1, CheckMainStep
  <2>2. ASSUME NEW id \in Ids, NEW p \in announced \cup {NoId}, InsertAgent(c, id, p)
        PROVE RegistryInv'
    <3>1. p \in Ids \cup {NoId}
      BY DEF RegistryInv, TypeOK
    <3>. QED
      BY <2>2, <3>1, InsertStep
  <2>3. ASSUME NEW id \in Ids, RemoveAgent(c, id) PROVE RegistryInv'
    BY <2>3, RemoveStep
  <2>. QED
    BY <1>1, <2>1, <2>2, <2>3, InsertFailsStep, EnterMapStep, DropRowStep, ListStep,
       SendStep, Zenon DEF Client
<1>2. ASSUME NEW id \in Ids, SaveMessage(id) \/ AgentEnds(id) PROVE RegistryInv'
  BY <1>2, SaveStep, EndsStep
<1>3. CASE Restart
  BY <1>3, RestartStep
<1>4. CASE UNCHANGED vars
  BY <1>4 DEF RegistryInv, TypeOK, InFlight, FreshUnseen, EnteringUnseen, DroppingGone,
     SnapHasRow, Unseen, Promises, LiveHasRow, AnnouncedIsDurable, NoLeakedLoop, vars
<1>. QED
  BY <1>1, <1>2, <1>3, <1>4 DEF Next

LEMMA RegistrySafe == Spec => []RegistryInv
BY RegistryInit, RegistryStep, PTL DEF Spec

-----------------------------------------------------------------------------
(* The results.                                                             *)

\* Every variable of the registry keeps its type (manager.go, storage.go).
THEOREM RegistryTypes == Spec => []TypeOK
<1>1. RegistryInv => TypeOK
  BY DEF RegistryInv
<1>. QED
  BY <1>1, RegistrySafe, PTL

\* An agent in the manager's map always has its row in the agents table, through
\* concurrent creations and deletions, failed statements and crashes.
THEOREM LiveAgentsHaveRows == Spec => []LiveHasRow
<1>1. RegistryInv => LiveHasRow
  BY DEF RegistryInv, Promises
<1>. QED
  BY <1>1, RegistrySafe, PTL

\* An agent some client was shown keeps its row until somebody deletes it.
THEOREM AnnouncedAgentsAreDurable == Spec => []AnnouncedIsDurable
<1>1. RegistryInv => AnnouncedIsDurable
  BY DEF RegistryInv, Promises
<1>. QED
  BY <1>1, RegistrySafe, PTL

\* An agent loop that was not stopped can be reached, or is about to be.
THEOREM NoLoopLeaks == Spec => []NoLeakedLoop
<1>1. RegistryInv => NoLeakedLoop
  BY DEF RegistryInv, Promises
<1>. QED
  BY <1>1, RegistrySafe, PTL

-----------------------------------------------------------------------------
(* The manager implements the directory.                                    *)

\* Only ids that were shown are asked for, and those were inserted.
AskedWasShown == doomed \subseteq announced

DirectoryInv == RegistryInv /\ AskedWasShown

LEMMA AskedStep == DirectoryInv /\ [Next]_vars => AskedWasShown'
BY DEF DirectoryInv, AskedWasShown, Next, Client, CheckMain, InsertAgent, InsertFails, EnterMap,
   RemoveAgent, DropRow, ListAgents, SendList, SaveMessage, AgentEnds, Restart, vars,
   storeVars, memVars, clientVars

LEMMA DirectorySafe == Spec => []DirectoryInv
<1>1. Init => DirectoryInv
  BY RegistryInit DEF DirectoryInv, AskedWasShown, Init
<1>2. DirectoryInv /\ [Next]_vars => DirectoryInv'
  BY RegistryStep, AskedStep DEF DirectoryInv
<1>. QED
  BY <1>1, <1>2, PTL DEF Spec

LEMMA DirectoryStep ==
  ASSUME DirectoryInv, [Next]_vars
  PROVE [Directory!DNext]_(Directory!dvars)
<1>. USE DEF Directory!dvars
<1>. DEFINE used == {id \in Ids : kind[id] # "none"}
<1>. RegistryInv /\ TypeOK
  BY DEF DirectoryInv, RegistryInv
<1>1. ASSUME NEW c \in Clients, Client(c) PROVE [Directory!DNext]_(Directory!dvars)
  <2>1. CASE UNCHANGED <<kind, rows, live, doomed>>
    BY <2>1
  <2>2. ASSUME NEW id \in Ids, NEW p, InsertAgent(c, id, p)
        PROVE [Directory!DNext]_(Directory!dvars)
    <3>1. /\ kind[id] = "none" /\ kind' = [kind EXCEPT ![id] = cpc[c]]
          /\ cpc[c] \in {"main", "sub"}
          /\ rows' = rows \cup {id} /\ UNCHANGED <<live, doomed>>
      BY <2>2 DEF InsertAgent
    <3>2. used' = used \cup {id} /\ id \notin used
      BY <3>1 DEF TypeOK
    <3>3. Directory!Add(id)
      BY <3>1, <3>2 DEF Directory!Add
    <3>. QED
      BY <3>3 DEF Directory!DNext
  <2>3. CASE EnterMap(c)
    <3>1. live' = live \cup {arg[c]} /\ cpc[c] = "enter" /\ UNCHANGED <<kind, rows, doomed>>
      BY <2>3 DEF EnterMap, storeVars
    <3>2. arg[c] \in rows /\ arg[c] \notin doomed /\ arg[c] \in Ids
      BY <3>1 DEF DirectoryInv, RegistryInv, InFlight, EnteringUnseen, Unseen, AskedWasShown,
         TypeOK
    <3>3. Directory!Run(arg[c])
      BY <3>1, <3>2 DEF Directory!Run
    <3>. QED
      BY <3>2, <3>3 DEF Directory!DNext
  <2>4. ASSUME NEW id \in Ids, RemoveAgent(c, id)
        PROVE [Directory!DNext]_(Directory!dvars)
    <3>1. /\ live' = live \ {id} /\ doomed' = doomed \cup {id} /\ id \in announced
          /\ UNCHANGED <<kind, rows>>
      BY <2>4 DEF RemoveAgent, storeVars
    <3>2. id \in used
      BY <3>1 DEF RegistryInv, InFlight, FreshUnseen, Unseen
    <3>3. Directory!AskToDelete(id)
      BY <3>1, <3>2 DEF Directory!AskToDelete
    <3>. QED
      BY <3>3 DEF Directory!DNext
  <2>5. CASE DropRow(c)
    <3>1. /\ rows' = rows \ {arg[c]} \/ rows' = rows
          /\ cpc[c] = "drop" /\ UNCHANGED <<kind, live, doomed>>
      BY <2>5 DEF DropRow, memVars
    <3>2. arg[c] \in doomed \ live /\ arg[c] \in Ids
      BY <3>1 DEF RegistryInv, InFlight, DroppingGone, TypeOK
    <3>3. Directory!Forget(arg[c]) \/ UNCHANGED <<kind, rows, live, doomed>>
      BY <3>1, <3>2 DEF Directory!Forget
    <3>. QED
      BY <3>2, <3>3 DEF Directory!DNext
  <2>6. CASE (\E k \in Kinds : CheckMain(c, k)) \/ InsertFails(c) \/ ListAgents(c) \/ SendList(c)
    BY <2>1, <2>6 DEF CheckMain, InsertFails, ListAgents, SendList, storeVars, memVars
  <2>. QED
    BY <1>1, <2>2, <2>3, <2>4, <2>5, <2>6, Zenon DEF Client
<1>2. ASSUME NEW id \in Ids, SaveMessage(id) \/ AgentEnds(id)
      PROVE [Directory!DNext]_(Directory!dvars)
  BY <1>2 DEF SaveMessage, AgentEnds, storeVars, memVars
<1>3. CASE Restart
  <2>1. Directory!Reboot
    BY <1>3 DEF Restart, LoadAgents, storeVars, Directory!Reboot
  <2>. QED
    BY <2>1 DEF Directory!DNext
<1>4. CASE UNCHANGED vars
  BY <1>4 DEF vars
<1>. QED
  BY <1>1, <1>2, <1>3, <1>4 DEF Next

\* The manager implements the directory of agents, for any number of clients and
\* agents, with failing statements and restarts (manager.go:39-133).
THEOREM ManagerKeepsDirectory == Spec => KeepsDirectory
<1>1. Init => Directory!DInit
  BY DEF Init, Directory!DInit
<1>. QED
  BY <1>1, DirectorySafe, DirectoryStep, PTL DEF Spec, KeepsDirectory, Directory!DSpec
=============================================================================
