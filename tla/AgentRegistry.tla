----------------------------- MODULE AgentRegistry -----------------------------
(***************************************************************************)
(* The manager's map of agents (internal/agent/manager.go), the agents and  *)
(* messages tables behind it (internal/storage), and the client goroutines  *)
(* that create, delete and list agents (internal/server/handlers.go), with  *)
(* crashes and restarts of the backend process.                             *)
(*                                                                         *)
(* The schema's "PRAGMA foreign_keys=ON" runs once, on one connection of    *)
(* database/sql's pool; a statement that gets another connection is not     *)
(* checked.                                                                 *)
(***************************************************************************)
EXTENDS Naturals

CONSTANTS
  Clients,     \* the client goroutines
  Ids,         \* the ids CreateAgent may generate, each once
  NoId,        \* no parent
  Kinds,       \* the types asked for, of "main" and "sub"
  DbMayFail    \* whether a statement may fail (SQLITE_BUSY, I/O)

ASSUME RegistryAssumption ==
  /\ NoId \notin Ids
  /\ Kinds \subseteq {"main", "sub"}
  /\ DbMayFail \in BOOLEAN

VARIABLES
  kind,       \* type of each agent ever inserted
  parent,     \* its parent
  rows,       \* ids in the agents table
  talked,     \* ids with rows in the messages table
  live,       \* Manager.agents
  started,    \* goroutines of this process that have not returned
  stopped,    \* agents of this process that were told to stop
  cpc, arg,   \* where each client goroutine is, and the id it works on
  snap,       \* the agents it has listed and not yet sent
  announced,  \* history: ids some client was sent in an agent_list
  doomed      \* history: ids some client asked to delete

storeVars == <<kind, parent, rows, talked>>
memVars == <<live, started, stopped>>
clientVars == <<cpc, arg, snap>>
vars == <<kind, parent, rows, talked, live, started, stopped, cpc, arg, snap, announced,
          doomed>>

Connections == {"first", "other"}
Checked(conn) == conn = "first"
Referenced(id) == id \in talked \/ \E child \in rows : parent[child] = id

Init ==
  /\ kind = [id \in Ids |-> "none"] /\ parent = [id \in Ids |-> NoId]
  /\ rows = {} /\ talked = {}
  /\ live = {} /\ started = {} /\ stopped = {}
  /\ cpc = [c \in Clients |-> "idle"] /\ arg = [c \in Clients |-> NoId]
  /\ snap = [c \in Clients |-> {}]
  /\ announced = {} /\ doomed = {}

Goto(c, where) == cpc' = [cpc EXCEPT ![c] = where]
Hold(c, id) == arg' = [arg EXCEPT ![c] = id]

-----------------------------------------------------------------------------
(* CreateAgent: the check for a main agent, the row, the map entry.         *)

\* Only a main agent is checked for, and only under the read lock.
CheckMain(c, k) ==
  /\ cpc[c] = "idle"
  /\ k = "main" => \A id \in live : kind[id] # "main"
  /\ Goto(c, k)
  /\ UNCHANGED <<storeVars, memVars, arg, snap, announced, doomed>>

Insertable(p, conn) == p = NoId \/ p \in rows \/ ~Checked(conn)

\* Mutant: an INSERT that fails is not noticed.
InsertIgnored(c, id, p) ==
  /\ cpc[c] \in {"main", "sub"} /\ kind[id] = "none"
  /\ kind' = [kind EXCEPT ![id] = cpc[c]]
  /\ parent' = [parent EXCEPT ![id] = p]
  /\ started' = started \cup {id}
  /\ Goto(c, "enter") /\ Hold(c, id)
  /\ UNCHANGED <<rows, talked, live, stopped, snap, announced, doomed>>

\* INSERT and the SELECT that reads the row back; the agent is then started.
InsertAgent(c, id, p) ==
  /\ cpc[c] \in {"main", "sub"} /\ kind[id] = "none"
  /\ \E conn \in Connections : Insertable(p, conn)
  /\ kind' = [kind EXCEPT ![id] = cpc[c]]
  /\ parent' = [parent EXCEPT ![id] = p]
  /\ rows' = rows \cup {id}
  /\ \/ /\ started' = started \cup {id}
        /\ Goto(c, "enter") /\ Hold(c, id)
     \/ /\ DbMayFail  \* the row is there, but CreateAgent fails
        /\ Goto(c, "idle")
        /\ UNCHANGED <<started, arg>>
  /\ UNCHANGED <<talked, live, stopped, snap, announced, doomed>>

InsertFails(c) ==
  /\ cpc[c] \in {"main", "sub"}
  /\ DbMayFail \/ \E p \in announced : ~Insertable(p, "first")
  /\ Goto(c, "idle")
  /\ UNCHANGED <<storeVars, memVars, arg, snap, announced, doomed>>

\* Mutant: the agent is entered under no id.
EnterUnnamed(c) ==
  /\ cpc[c] = "enter"
  /\ live' = live \cup {NoId}
  /\ Goto(c, "list") /\ Hold(c, NoId)
  /\ UNCHANGED <<storeVars, started, stopped, snap, announced, doomed>>

EnterMap(c) ==
  /\ cpc[c] = "enter"
  /\ live' = live \cup {arg[c]}
  /\ Goto(c, "list") /\ Hold(c, NoId)
  /\ UNCHANGED <<storeVars, started, stopped, snap, announced, doomed>>

-----------------------------------------------------------------------------
(* DeleteAgent: Stop and the map entry under the lock, then the row.        *)

\* Mutant: the agent is forgotten but not stopped.
ForgetAgent(c, id) ==
  /\ cpc[c] = "idle" /\ id \in announced
  /\ live' = live \ {id}
  /\ doomed' = doomed \cup {id}
  /\ Goto(c, "drop") /\ Hold(c, id)
  /\ UNCHANGED <<storeVars, started, stopped, snap, announced>>

\* Mutant: the agent is stopped but stays in the map.
StopOnly(c, id) ==
  /\ cpc[c] = "idle" /\ id \in announced
  /\ stopped' = IF id \in live THEN stopped \cup {id} ELSE stopped
  /\ doomed' = doomed \cup {id}
  /\ Goto(c, "drop") /\ Hold(c, id)
  /\ UNCHANGED <<storeVars, live, started, snap, announced>>

\* A client may name an agent that another client has already removed.
RemoveAgent(c, id) ==
  /\ cpc[c] = "idle" /\ id \in announced
  /\ stopped' = IF id \in live THEN stopped \cup {id} ELSE stopped
  /\ live' = live \ {id}
  /\ doomed' = doomed \cup {id}
  /\ Goto(c, "drop") /\ Hold(c, id)
  /\ UNCHANGED <<storeVars, started, snap, announced>>

DropRow(c) ==
  /\ cpc[c] = "drop"
  /\ Hold(c, NoId)
  /\ \/ /\ \E conn \in Connections : ~Checked(conn) \/ ~Referenced(arg[c])
        /\ rows' = rows \ {arg[c]}
        /\ Goto(c, "list")
     \/ /\ DbMayFail \/ (arg[c] \in rows /\ Referenced(arg[c]))
        /\ UNCHANGED rows
        /\ Goto(c, "idle")  \* delete_agent_error, and no new list
  /\ UNCHANGED <<kind, parent, talked, memVars, snap, announced, doomed>>

-----------------------------------------------------------------------------
(* BroadcastAgentList and get_agents: a snapshot, then the frame.           *)

ListAgents(c) ==
  /\ cpc[c] \in {"idle", "list"}
  /\ snap' = [snap EXCEPT ![c] = live]
  /\ Goto(c, "send")
  /\ UNCHANGED <<storeVars, memVars, arg, announced, doomed>>

SendList(c) ==
  /\ cpc[c] = "send"
  /\ announced' = announced \cup snap[c]
  /\ snap' = [snap EXCEPT ![c] = {}]
  /\ Goto(c, "idle")
  /\ UNCHANGED <<storeVars, memVars, arg, doomed>>

-----------------------------------------------------------------------------
(* The agents' goroutines, as the store sees them.                          *)

\* A goroutine told to stop may still save the rest of what it was doing.
SaveMessage(id) ==
  /\ id \in started
  /\ \E conn \in Connections : id \in rows \/ ~Checked(conn)
  /\ talked' = talked \cup {id}
  /\ UNCHANGED <<kind, parent, rows, memVars, clientVars, announced, doomed>>

AgentEnds(id) ==
  /\ id \in started /\ id \in stopped
  /\ started' = started \ {id}
  /\ UNCHANGED <<storeVars, live, stopped, clientVars, announced, doomed>>

-----------------------------------------------------------------------------
(* The process dies at any point; New loads the table before it serves.     *)

\* LoadAgentsFromDB; if it fails the server starts with an empty map.
LoadAgents == live' = rows \/ (DbMayFail /\ live' = {})

Restart ==
  /\ LoadAgents
  /\ started' = live' /\ stopped' = {}
  /\ cpc' = [c \in Clients |-> "idle"] /\ arg' = [c \in Clients |-> NoId]
  /\ snap' = [c \in Clients |-> {}]
  /\ UNCHANGED <<storeVars, announced, doomed>>

-----------------------------------------------------------------------------
Client(c) ==
  \/ \E k \in Kinds : CheckMain(c, k)
  \/ \E id \in Ids, p \in announced \cup {NoId} : InsertAgent(c, id, p)
  \/ InsertFails(c) \/ EnterMap(c)
  \/ \E id \in Ids : RemoveAgent(c, id)
  \/ DropRow(c) \/ ListAgents(c) \/ SendList(c)

Next ==
  \/ \E c \in Clients : Client(c)
  \/ \E id \in Ids : SaveMessage(id) \/ AgentEnds(id)
  \/ Restart

Spec == Init /\ [][Next]_vars

-----------------------------------------------------------------------------
TypeOK ==
  /\ kind \in [Ids -> {"none", "main", "sub"}]
  /\ parent \in [Ids -> Ids \cup {NoId}]
  /\ rows \subseteq Ids /\ talked \subseteq Ids
  /\ live \subseteq Ids /\ started \subseteq Ids /\ stopped \subseteq Ids
  /\ cpc \in [Clients -> {"idle", "main", "sub", "enter", "drop", "list", "send"}]
  /\ arg \in [Clients -> Ids \cup {NoId}]
  /\ snap \in [Clients -> SUBSET Ids]
  /\ announced \subseteq Ids /\ doomed \subseteq Ids

\* Every agent that runs in memory has its row, whatever the clients create and
\* delete at the same time and wherever the process dies: a message to it can be
\* saved, and a restart finds it.
LiveHasRow == live \subseteq rows

\* An agent a client has been shown is never lost: unless somebody asked to delete
\* it, its row is there, and so a restart brings it back.
AnnouncedIsDurable == announced \ doomed \subseteq rows

\* No agent loop runs that nobody can reach: a goroutine that was not stopped is
\* in the map, or the client that creates it is about to enter it.
NoLeakedLoop ==
  started \ stopped \subseteq live \cup {arg[c] : c \in {d \in Clients : cpc[d] = "enter"}}

Directory == INSTANCE AgentDirectory WITH
  used <- {id \in Ids : kind[id] # "none"}, kept <- rows, running <- live, asked <- doomed

\* The manager's set of agents changes only as the directory's does: whatever is
\* created, deleted and listed at the same time, an agent runs only with its row, one
\* somebody asked to delete comes back only at a restart, and loses its row only when
\* it does not run (manager.go:39-133).
KeepsDirectory == Directory!DSpec

-----------------------------------------------------------------------------
(* What the comments and the documents say and the code does not keep.      *)

\* "Only one "main" type agent is allowed at a time" (manager.go:68).
OneMain ==
  \A id, other \in live : kind[id] = "main" /\ kind[other] = "main" => id = other

\* Everybody who asked for a deletion has had the answer.
AllDeleted == doomed \cap live = {} /\ \A c \in Clients : cpc[c] # "drop"

\* "ANY to DELETED: clean up resources, remove from registry"
\* (docs/ARCHITECTURE.md:300): once its delete_agent is over, an agent does not
\* come back.
DeletedStaysAway == [][AllDeleted => doomed \cap live' = {}]_vars
=============================================================================
