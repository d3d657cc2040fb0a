----------------------------- MODULE HistoryPages -----------------------------
(***************************************************************************)
(* The messages table (internal/storage/storage.go) and a user who reads    *)
(* one agent's history back page by page (handleGetHistory in               *)
(* internal/server/handlers.go) while the agents go on saving messages.     *)
(*                                                                         *)
(* Messages are numbered in the order they are inserted, which is that of   *)
(* their rowids.  created_at is the database's clock in whole seconds; the  *)
(* clock of a phone may be set back.  The index on (agent_id, created_at),  *)
(* read backwards, returns the messages of one second last inserted first.  *)
(***************************************************************************)
EXTENDS Integers, FiniteSets

CONSTANTS
  Agents,        \* the agents that save messages
  Viewed,        \* the one whose history is read
  Limits,        \* the limits a client may ask for
  DefaultLimit,  \* what stands in for a limit that is not positive (50 in the code)
  MaxRows,       \* bound: messages saved
  MaxSecond      \* bound: the clock

ASSUME PagesAssumption ==
  /\ Viewed \in Agents
  /\ Limits \subseteq Int
  /\ DefaultLimit \in Nat \ {0}
  /\ MaxRows \in Nat /\ MaxSecond \in Nat

VARIABLES
  count,    \* messages saved so far
  row,      \* the messages table
  now,      \* the clock
  setBack,  \* history: the clock was set back
  reading,  \* "no", "paging" (the last page had messages) or "end" (it had none)
  page,     \* the messages of the last history frame
  cursor,   \* its cursor, None if it has none
  seen,     \* history: the messages on the pages since the newest was asked for
  cuts,     \* history: the cursors since then
  began     \* history: the messages that were saved before

vars == <<count, row, now, setBack, reading, page, cursor, seen, cuts, began>>

None == 0
Messages == 1..count
Sec(m) == row[m].sec

Init ==
  /\ count = 0 /\ row = <<>> /\ now = 0 /\ setBack = FALSE
  /\ reading = "no" /\ page = <<>> /\ cursor = None
  /\ seen = {} /\ cuts = {} /\ began = 0

-----------------------------------------------------------------------------
(* GetMessages.                                                             *)

\* Mutant: messages of the cursor's own second count as older.
NotAfter(m, before) == Sec(m) <= Sec(before)

\* created_at < (SELECT created_at FROM messages WHERE id = before)
Precedes(m, before) == Sec(m) < Sec(before)

Candidates(before) ==
  {m \in Messages : row[m].agent = Viewed /\ (before = None \/ Precedes(m, before))}

\* Mutant: within a second, the messages come as they were inserted.
NewerFirstInserted(m, n) == Sec(m) > Sec(n) \/ (Sec(m) = Sec(n) /\ m < n)

\* ORDER BY created_at DESC, on the index.
Newer(m, n) == Sec(m) > Sec(n) \/ (Sec(m) = Sec(n) /\ m > n)

\* How many messages of S the query returns before m.
Rank(m, S) == Cardinality({n \in S : Newer(n, m)})

\* Mutant: the oldest messages are kept.
Bottom(S, limit) == {m \in S : Cardinality(S) - 1 - Rank(m, S) < limit}

\* LIMIT
Top(S, limit) == {m \in S : Rank(m, S) < limit}

\* The rows, reversed: the oldest comes first.
Chronological(S) ==
  [k \in 1..Cardinality(S) |-> CHOOSE m \in S : Rank(m, S) = Cardinality(S) - k]

-----------------------------------------------------------------------------
(* SaveMessage, and the clock.                                              *)

Insert(a, sec) ==
  /\ count < MaxRows
  /\ count' = count + 1
  /\ row' = [m \in 1..(count + 1) |-> IF m <= count THEN row[m] ELSE [agent |-> a, sec |-> sec]]
  /\ UNCHANGED <<now, setBack, reading, page, cursor, seen, cuts, began>>

\* Mutant: the second is rounded up.
SaveRoundedUp(a) == Insert(a, now + 1)

SaveMessage(a) == Insert(a, now)

Clock(t) ==
  /\ now' = t
  /\ setBack' = (setBack \/ t < now)
  /\ UNCHANGED <<count, row, reading, page, cursor, seen, cuts, began>>

-----------------------------------------------------------------------------
(* handleGetHistory and its answer.                                         *)

Rows(before, limit) == Top(Candidates(before), IF limit <= 0 THEN DefaultLimit ELSE limit)

Show(rows) ==
  /\ page' = Chronological(rows)
  /\ cursor' = IF rows = {} THEN None ELSE page'[1]
  /\ reading' = IF rows = {} THEN "end" ELSE "paging"

\* get_history without a cursor, which is also what the cursor of an empty page is.
GetNewest(limit) ==
  /\ Show(Rows(None, limit))
  /\ seen' = Rows(None, limit)
  /\ cuts' = {cursor'} \ {None}
  /\ began' = count
  /\ UNCHANGED <<count, row, now, setBack>>

GetOlder(limit) ==
  /\ reading = "paging"
  /\ Show(Rows(cursor, limit))
  /\ seen' = seen \cup Rows(cursor, limit)
  /\ cuts' = cuts \cup ({cursor'} \ {None})
  /\ UNCHANGED <<count, row, now, setBack, began>>

Next ==
  \/ \E a \in Agents : SaveMessage(a)
  \/ \E t \in 0..MaxSecond : Clock(t)
  \/ \E limit \in Limits : GetNewest(limit) \/ GetOlder(limit)

Spec == Init /\ [][Next]_vars

-----------------------------------------------------------------------------
TypeOK ==
  /\ count \in 0..MaxRows
  /\ row \in [Messages -> [agent : Agents, sec : 0..MaxSecond]]
  /\ now \in 0..MaxSecond /\ setBack \in BOOLEAN
  /\ reading \in {"no", "paging", "end"}
  /\ \A k \in DOMAIN page : page[k] \in Messages
  /\ cursor \in Messages \cup {None}
  /\ seen \subseteq Messages /\ cuts \subseteq Messages
  /\ began \in 0..count

\* What the next page can show.
Remaining == IF reading = "paging" THEN Candidates(cursor) ELSE {}

\* Whatever is saved while the user reads, and however the clock is set, the pages
\* still to come hold only messages that are older than all that was shown: no
\* message is shown twice, and none above a newer one.
PagesGoBack ==
  \A m \in Remaining, n \in seen : m # n /\ Sec(m) < Sec(n)

\* Reading back misses nothing but ties: a message saved before the reading began
\* was shown or is still to come, unless it shares its second with the oldest message
\* of some page, which is where a page is cut (storage.go:215).
MissesOnlyTies ==
  reading # "no" =>
    \A m \in 1..began :
      row[m].agent = Viewed => \/ m \in seen \cup Remaining
                               \/ \E c \in cuts : Sec(m) = Sec(c)

\* A page lists its messages in the order they were saved, those of one second too,
\* unless the clock was set back.
PagesInSavedOrder ==
  ~setBack => \A k, l \in DOMAIN page : k < l => page[k] < page[l]

\* Reading back comes to an end: each further page leaves strictly less to show, if
\* nothing is saved meanwhile, and the page that leaves nothing is followed by the
\* empty one.
ReadingShrinks ==
  [][\A limit \in Limits : GetOlder(limit) =>
       /\ Remaining' \subseteq Remaining
       /\ Remaining # {} => Remaining' # Remaining
       /\ Remaining = {} => reading' = "end"]_vars
=============================================================================
