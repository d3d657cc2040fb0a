----------------------------- MODULE HistoryProofs -----------------------------
(***************************************************************************)
(* Proofs about HistoryPages, for every number of agents, of messages and   *)
(* of seconds and for every limit a client may ask for.  The order of the   *)
(* query is total, so the ranks of the rows are a bijection (this needs no  *)
(* induction: an injection between sets of one size is a surjection), and   *)
(* the first message of a page is the oldest of it.                         *)
(***************************************************************************)
EXTENDS HistoryPages, FiniteSetTheorems, TLAPS

-----------------------------------------------------------------------------
(* The order of the query.                                                  *)

RowsTyped == count \in Nat /\ row \in [Messages -> [agent : Agents, sec : Nat]]

LEMMA SecType ==
  ASSUME RowsTyped, NEW m \in Messages
  PROVE m \in Nat /\ Sec(m) \in Nat
BY DEF RowsTyped, Messages, Sec

LEMMA NewerOrder ==
  ASSUME RowsTyped, NEW m \in Messages, NEW n \in Messages, NEW o \in Messages
  PROVE /\ ~Newer(m, m)
        /\ Newer(m, n) /\ Newer(n, o) => Newer(m, o)
        /\ m # n => Newer(m, n) \/ Newer(n, m)
        /\ Newer(m, n) => ~Newer(n, m) /\ Sec(n) <= Sec(m)
BY SecType DEF Newer

LEMMA RowsFinite ==
  ASSUME RowsTyped, NEW S \in SUBSET Messages
  PROVE IsFiniteSet(S) /\ Cardinality(S) \in Nat
<1>1. IsFiniteSet(Messages)
  BY FS_Interval DEF RowsTyped, Messages
<1>. QED
  BY <1>1, FS_Subset, FS_CardinalityType

LEMMA RankRange ==
  ASSUME RowsTyped, NEW S \in SUBSET Messages, NEW m \in S
  PROVE Rank(m, S) \in 0..(Cardinality(S) - 1)
<1>. DEFINE A == {n \in S : Newer(n, m)}
<1>1. A \in SUBSET (S \ {m})
  BY NewerOrder
<1>2. IsFiniteSet(S \ {m}) /\ Cardinality(S \ {m}) = Cardinality(S) - 1
  BY RowsFinite, FS_RemoveElement
<1>3. Cardinality(A) <= Cardinality(S \ {m})
  BY <1>1, <1>2, FS_Subset
<1>4. Cardinality(A) \in Nat /\ Cardinality(S) \in Nat
  BY RowsFinite
<1>. QED
  BY <1>2, <1>3, <1>4 DEF Rank

LEMMA RankMonotone ==
  ASSUME RowsTyped, NEW S \in SUBSET Messages, NEW m \in S, NEW n \in S, Newer(m, n)
  PROVE Rank(m, S) < Rank(n, S)
<1>. DEFINE A == {x \in S : Newer(x, m)}
            B == {x \in S : Newer(x, n)}
<1>1. IsFiniteSet(A) /\ IsFiniteSet(B) /\ Cardinality(A) \in Nat /\ Cardinality(B) \in Nat
  BY RowsFinite
<1>2. m \notin A
  BY NewerOrder
<1>3. A \cup {m} \in SUBSET B
  BY NewerOrder
<1>4. Cardinality(A \cup {m}) = Cardinality(A) + 1
  BY <1>1, <1>2, FS_AddElement
<1>5. Cardinality(A \cup {m}) <= Cardinality(B)
  BY <1>1, <1>3, FS_Subset
<1>. QED
  BY <1>1, <1>4, <1>5 DEF Rank

\* Some row has each rank.
LEMMA RankHit ==
  ASSUME RowsTyped, NEW S \in SUBSET Messages, NEW r \in 0..(Cardinality(S) - 1)
  PROVE \E m \in S : Rank(m, S) = r
<1>. DEFINE N == Cardinality(S)
            f == [m \in S |-> Rank(m, S)]
<1>1. N \in Nat /\ IsFiniteSet(S)
  BY RowsFinite
<1>2. f \in [S -> 0..(N - 1)]
  BY RankRange
<1>3. ASSUME NEW m \in S, NEW n \in S, f[m] = f[n]
      PROVE m = n
  <2>1. Rank(m, S) = Rank(n, S) /\ Rank(m, S) \in Int
    BY <1>3, RankRange
  <2>2. ~Newer(m, n) /\ ~Newer(n, m)
    BY <1>1, <2>1, RankMonotone
  <2>. QED
    BY <2>2, NewerOrder
<1>4. f \in Injection(S, 0..(N - 1))
  BY <1>2, <1>3, Zenon DEF Injection, IsInjective
<1>5. IsFiniteSet(0..(N - 1)) /\ Cardinality(0..(N - 1)) = N
  <2>1. 0 \in Int /\ N - 1 \in Int
    BY <1>1
  <2>2. /\ IsFiniteSet(0..(N - 1))
        /\ Cardinality(0..(N - 1)) = IF 0 > N - 1 THEN 0 ELSE (N - 1) - 0 + 1
    BY <2>1, FS_Interval
  <2>. QED
    BY <1>1, <2>2
<1>6. f \in Surjection(S, 0..(N - 1))
  BY <1>4, <1>5, FS_Injection
<1>. QED
  BY <1>6 DEF Surjection

-----------------------------------------------------------------------------
(* A page.                                                                  *)

\* A page lists the rows, each newer than those before it.
LEMMA PageLists ==
  ASSUME RowsTyped, NEW S \in SUBSET Messages
  PROVE /\ DOMAIN Chronological(S) = 1..Cardinality(S)
        /\ \A k \in 1..Cardinality(S) :
             /\ Chronological(S)[k] \in S
             /\ Rank(Chronological(S)[k], S) = Cardinality(S) - k
        /\ \A k, l \in 1..Cardinality(S) :
             k < l => Newer(Chronological(S)[l], Chronological(S)[k])
<1>. DEFINE P == Chronological(S)
            N == Cardinality(S)
<1>1. N \in Nat
  BY RowsFinite
<1>2. DOMAIN P = 1..N
  BY DEF Chronological
<1>3. ASSUME NEW k \in 1..N
      PROVE P[k] \in S /\ Rank(P[k], S) = N - k
  <2>1. N - k \in 0..(N - 1)
    BY <1>1
  <2>2. \E m \in S : Rank(m, S) = N - k
    BY <2>1, RankHit
  <2>3. P[k] = CHOOSE m \in S : Rank(m, S) = N - k
    BY DEF Chronological
  <2>. QED
    BY <2>2, <2>3
<1>4. ASSUME NEW k \in 1..N, NEW l \in 1..N, k < l
      PROVE Newer(P[l], P[k])
  <2>1. P[k] \in S /\ P[l] \in S /\ Rank(P[l], S) < Rank(P[k], S)
    BY <1>1, <1>3, <1>4
  <2>2. P[k] # P[l] /\ ~Newer(P[k], P[l])
    <3>1. Rank(P[k], S) \in Int /\ Rank(P[l], S) \in Int
      BY <2>1, RankRange
    <3>2. P[k] # P[l]
      BY <2>1, <3>1
    <3>3. Newer(P[k], P[l]) => Rank(P[k], S) < Rank(P[l], S)
      BY <2>1, RankMonotone
    <3>. QED
      BY <2>1, <3>1, <3>2, <3>3
  <2>. QED
    BY <2>1, <2>2, NewerOrder
<1>. QED
  BY <1>2, <1>3, <1>4

LEMMA OldestFirst ==
  ASSUME RowsTyped, NEW S \in SUBSET Messages, S # {}
  PROVE /\ Chronological(S)[1] \in S
        /\ \A n \in S : n # Chronological(S)[1] => Newer(n, Chronological(S)[1])
<1>. DEFINE o == Chronological(S)[1]
<1>1. Cardinality(S) \in Nat /\ 1 \in 1..Cardinality(S)
  BY RowsFinite, FS_EmptySet
<1>2. o \in S /\ Rank(o, S) = Cardinality(S) - 1
  BY <1>1, PageLists
<1>3. ASSUME NEW n \in S, n # o
      PROVE Newer(n, o)
  <2>1. Rank(n, S) \in 0..(Cardinality(S) - 1)
    BY RankRange
  <2>2. Newer(o, n) => Rank(o, S) < Rank(n, S)
    BY <1>2, RankMonotone
  <2>3. ~Newer(o, n)
    BY <1>1, <1>2, <2>1, <2>2
  <2>. QED
    BY <1>2, <1>3, <2>3, NewerOrder
<1>. QED
  BY <1>2, <1>3

\* LIMIT keeps the newest rows, and one at least.
LEMMA TopNewest ==
  ASSUME RowsTyped, NEW S \in SUBSET Messages, NEW limit \in Nat \ {0}
  PROVE /\ Top(S, limit) \subseteq S
        /\ S # {} => Top(S, limit) # {}
        /\ \A m \in S \ Top(S, limit), o \in Top(S, limit) : Newer(o, m)
<1>1. Top(S, limit) \subseteq S
  BY DEF Top
<1>2. ASSUME S # {} PROVE Top(S, limit) # {}
  <2>1. 0 \in 0..(Cardinality(S) - 1)
    BY <1>2, RowsFinite, FS_EmptySet
  <2>2. PICK m \in S : Rank(m, S) = 0
    BY <2>1, RankHit
  <2>. QED
    BY <2>2 DEF Top
<1>3. ASSUME NEW m \in S \ Top(S, limit), NEW o \in Top(S, limit)
      PROVE Newer(o, m)
  <2>1. o \in S /\ Rank(o, S) < limit /\ ~(Rank(m, S) < limit)
    BY <1>3 DEF Top
  <2>2. Rank(o, S) \in Int /\ Rank(m, S) \in Int
    <3>1. Rank(o, S) \in 0..(Cardinality(S) - 1)
      BY <2>1, RankRange
    <3>2. Rank(m, S) \in 0..(Cardinality(S) - 1)
      BY <2>1, RankRange
    <3>. QED
      BY <3>1, <3>2
  <2>3. Newer(m, o) => Rank(m, S) < Rank(o, S)
    BY <2>1, RankMonotone
  <2>4. ~Newer(m, o) /\ m # o
    BY <2>1, <2>2, <2>3
  <2>. QED
    BY <2>1, <2>4, NewerOrder
<1>. QED
  BY <1>1, <1>2, <1>3

-----------------------------------------------------------------------------
(* The inductive invariant.                                                 *)

\* A page's messages are each newer than those before it.
PageInv == \A k, l \in DOMAIN page : k < l => Newer(page[l], page[k])

\* The cursor is the oldest message shown, and one of the cuts.
CursorInv ==
  reading = "paging" =>
    /\ cursor \in Messages /\ cursor \in cuts
    /\ \A n \in seen : Sec(cursor) <= Sec(n)

\* While the clock is not set back, the seconds grow with the rowids.
ClockInv ==
  ~setBack => /\ \A m \in Messages : Sec(m) <= now
              /\ \A m, n \in Messages : m < n => Sec(m) <= Sec(n)

PageNumbers == \E n \in Nat : DOMAIN page = 1..n

HistoryInv == TypeOK /\ PageNumbers /\ PageInv /\ CursorInv /\ ClockInv /\ MissesOnlyTies

LEMMA TypedRows == TypeOK => RowsTyped
BY PagesAssumption DEF TypeOK, RowsTyped, PagesAssumption

LEMMA HistoryInit == Init => HistoryInv
<1>. SUFFICES ASSUME Init PROVE HistoryInv
  OBVIOUS
<1>. USE PagesAssumption DEF Init, PagesAssumption
<1>1. Messages = {}
  BY DEF Messages
<1>2. DOMAIN page = 1..0 /\ DOMAIN row = {}
  OBVIOUS
<1>3. TypeOK
  <2>1. row \in [Messages -> [agent : Agents, sec : 0..MaxSecond]]
    BY <1>1
  <2>2. \A k \in DOMAIN page : page[k] \in Messages
    BY <1>2
  <2>3. cursor \in Messages \cup {None} /\ reading \in {"no", "paging", "end"}
    OBVIOUS
  <2>4. count \in 0..MaxRows /\ now \in 0..MaxSecond /\ began \in 0..count
    OBVIOUS
  <2>5. setBack \in BOOLEAN /\ seen \subseteq Messages /\ cuts \subseteq Messages
    OBVIOUS
  <2>. QED
    BY <2>1, <2>2, <2>3, <2>4, <2>5 DEF TypeOK
<1>. QED
  BY <1>1, <1>2, <1>3 DEF HistoryInv, PageNumbers, PageInv, CursorInv, ClockInv, MissesOnlyTies

-----------------------------------------------------------------------------
(* Saving a message, and the clock.                                         *)

\* The rows that were there are as they were.
LEMMA OldRows ==
  ASSUME TypeOK, NEW a \in Agents, SaveMessage(a)
  PROVE /\ count' = count + 1 /\ count \in Nat
        /\ Messages' = Messages \cup {count'} /\ count' \notin Messages
        /\ row' \in [Messages' -> [agent : Agents, sec : 0..MaxSecond]]
        /\ \A m \in Messages : row'[m] = row[m]
        /\ row'[count'] = [agent |-> a, sec |-> now]
        /\ UNCHANGED <<now, setBack, reading, page, cursor, seen, cuts, began>>
        /\ count' \in 0..MaxRows
<1>1. /\ count < MaxRows /\ count' = count + 1 /\ count \in 0..MaxRows
      /\ row' = [m \in 1..(count + 1) |-> IF m <= count THEN row[m] ELSE [agent |-> a, sec |-> now]]
      /\ UNCHANGED <<now, setBack, reading, page, cursor, seen, cuts, began>>
  BY DEF SaveMessage, Insert, TypeOK
<1>2. Messages' = 1..(count + 1) /\ Messages = 1..count
  BY <1>1 DEF Messages
<1>3. now \in 0..MaxSecond /\ row \in [1..count -> [agent : Agents, sec : 0..MaxSecond]]
  BY <1>2 DEF TypeOK
<1>4. \A m \in 1..(count + 1) : m <= count => m \in 1..count
  BY <1>1
<1>5. ASSUME NEW m \in 1..(count + 1)
      PROVE row'[m] \in [agent : Agents, sec : 0..MaxSecond]
  <2>1. CASE m <= count
    BY <1>1, <1>3, <1>4, <2>1
  <2>2. CASE ~(m <= count)
    BY <1>1, <1>3, <2>2
  <2>. QED
    BY <2>1, <2>2
<1>6. row' \in [1..(count + 1) -> [agent : Agents, sec : 0..MaxSecond]]
  BY <1>1, <1>5
<1>7. \A m \in 1..count : row'[m] = row[m]
  BY <1>1
<1>8. row'[count + 1] = [agent |-> a, sec |-> now]
  BY <1>1
<1>. QED
  BY <1>1, <1>2, <1>6, <1>7, <1>8, PagesAssumption DEF PagesAssumption

LEMMA SaveStep ==
  ASSUME HistoryInv, NEW a \in Agents, SaveMessage(a)
  PROVE HistoryInv'
<1>. TypeOK
  BY DEF HistoryInv
<1>1. /\ count' = count + 1 /\ count \in Nat
      /\ Messages' = Messages \cup {count'} /\ count' \notin Messages
      /\ row' \in [Messages' -> [agent : Agents, sec : 0..MaxSecond]]
      /\ \A m \in Messages : row'[m] = row[m]
      /\ row'[count'] = [agent |-> a, sec |-> now]
      /\ UNCHANGED <<now, setBack, reading, page, cursor, seen, cuts, began>>
      /\ count' \in 0..MaxRows
  BY OldRows
<1>2. TypeOK'
  BY <1>1 DEF TypeOK
<1>3. \A m \in Messages : Sec(m)' = Sec(m)
  BY <1>1 DEF Sec
<1>4. PageNumbers' /\ PageInv'
  <2>1. \A k \in DOMAIN page : page[k] \in Messages
    BY DEF TypeOK
  <2>2. \A k, l \in DOMAIN page : Newer(page[l], page[k])' <=> Newer(page[l], page[k])
    BY <1>1, <2>1 DEF Newer, Sec
  <2>3. PageInv'
    BY <1>1, <2>2 DEF HistoryInv, PageInv
  <2>. QED
    BY <1>1, <2>3 DEF HistoryInv, PageNumbers
<1>5. CursorInv'
  <2>1. seen \subseteq Messages
    BY DEF TypeOK
  <2>. QED
    BY <1>1, <1>3, <2>1 DEF HistoryInv, CursorInv, Sec
<1>6. ClockInv'
  <2>2. (row'[count']).sec = now /\ now \in Int
    BY <1>1, PagesAssumption DEF TypeOK, PagesAssumption
  <2>3. \A m \in Messages : row'[m].sec = Sec(m) /\ m \in 1..count
    BY <1>1 DEF Sec, Messages
  <2>4. \A m \in Messages' : m = count' \/ m \in Messages
    BY <1>1
  <2>. QED
    BY <1>1, <2>2, <2>3, <2>4 DEF HistoryInv, ClockInv, Sec
<1>7. MissesOnlyTies'
  <2>1. began \in 0..count /\ 1..began \subseteq Messages /\ cuts \subseteq Messages
    BY <1>1 DEF TypeOK, Messages
  <2>2. Remaining \subseteq Remaining'
    BY <1>1, <1>3 DEF HistoryInv, CursorInv, Remaining, Candidates, Precedes, Sec, None
  <2>. QED
    BY <1>1, <1>3, <2>1, <2>2 DEF HistoryInv, MissesOnlyTies, Sec
<1>. QED
  BY <1>2, <1>4, <1>5, <1>6, <1>7 DEF HistoryInv

LEMMA ClockStep ==
  ASSUME HistoryInv, NEW t \in 0..MaxSecond, Clock(t)
  PROVE HistoryInv'
<1>. /\ now' = t /\ setBack' = (setBack \/ t < now)
     /\ UNCHANGED <<count, row, reading, page, cursor, seen, cuts, began>>
  BY DEF Clock
<1>. TypeOK
  BY DEF HistoryInv
<1>1. TypeOK'
  BY DEF TypeOK, Messages
<1>2. ClockInv'
  <2>1. RowsTyped /\ now \in Int /\ t \in Int
    BY TypedRows, PagesAssumption DEF TypeOK, PagesAssumption
  <2>2. \A m \in Messages : Sec(m) \in Int
    BY <2>1, SecType
  <2>3. ~setBack' => ~setBack /\ ~(t < now)
    BY Zenon
  <2>4. ~(t < now) => now <= t
    BY <2>1
  <2>. QED
    BY <2>1, <2>2, <2>3, <2>4 DEF HistoryInv, ClockInv, Messages, Sec
<1>3. PageNumbers' /\ PageInv' /\ CursorInv' /\ MissesOnlyTies'
  BY DEF HistoryInv, PageNumbers, PageInv, CursorInv, MissesOnlyTies, Newer, Sec, Messages,
     Remaining, Candidates, Precedes
<1>. QED
  BY <1>1, <1>2, <1>3 DEF HistoryInv

-----------------------------------------------------------------------------
(* Reading a page.                                                          *)

LEMMA LimitPositive ==
  ASSUME NEW limit \in Limits
  PROVE (IF limit <= 0 THEN DefaultLimit ELSE limit) \in Nat \ {0}
BY PagesAssumption DEF PagesAssumption

\* What a page cut out of C shows and what it leaves: the rest is older than the
\* cursor, or of its second.
LEMMA ShownPage ==
  ASSUME TypeOK, NEW C \in SUBSET Messages, \A m \in C : row[m].agent = Viewed,
         NEW limit \in Nat \ {0}, NEW R, R = Top(C, limit),
         Show(R), UNCHANGED <<count, row>>
  PROVE /\ R \subseteq C
        /\ PageNumbers' /\ PageInv' /\ \A k \in DOMAIN page' : page'[k] \in R
        /\ R = {} => C = {} /\ reading' = "end" /\ cursor' = None
        /\ R # {} => /\ reading' = "paging" /\ cursor' \in R
                     /\ \A n \in R : Sec(cursor') <= Sec(n)
        /\ \A m \in C : \/ m \in R
                        \/ cursor' \in R /\ Sec(m) = Sec(cursor')
                        \/ m \in Remaining'
<1>. RowsTyped
  BY TypedRows
<1>1. /\ page' = Chronological(R)
      /\ cursor' = IF R = {} THEN None ELSE page'[1]
      /\ reading' = IF R = {} THEN "end" ELSE "paging"
  BY DEF Show
<1>2. /\ R \subseteq C /\ R \in SUBSET Messages
      /\ C # {} => R # {}
      /\ \A m \in C \ R, o \in R : Newer(o, m)
  BY TopNewest
<1>3. PageNumbers' /\ PageInv' /\ \A k \in DOMAIN page' : page'[k] \in R
  <2>1. /\ DOMAIN page' = 1..Cardinality(R) /\ Cardinality(R) \in Nat
        /\ \A k \in 1..Cardinality(R) : page'[k] \in R
        /\ \A k, l \in 1..Cardinality(R) : k < l => Newer(page'[l], page'[k])
    BY <1>1, <1>2, PageLists, RowsFinite
  <2>2. \A k, l \in DOMAIN page' : Newer(page'[l], page'[k]) <=> Newer(page[l], page[k])'
    BY DEF Newer, Sec
  <2>3. PageInv'
    BY <2>1, <2>2 DEF PageInv
  <2>4. PageNumbers'
    BY <2>1 DEF PageNumbers
  <2>. QED
    BY <2>1, <2>3, <2>4
<1>4. ASSUME R # {}
      PROVE /\ reading' = "paging" /\ cursor' \in R
            /\ \A n \in R : Sec(cursor') <= Sec(n)
            /\ \A m \in C \ R : Sec(m) <= Sec(cursor')
  <2>1. /\ cursor' \in R
        /\ \A n \in R : n # cursor' => Newer(n, cursor')
    BY <1>1, <1>2, <1>4, OldestFirst
  <2>2. \A m, n \in Messages : Newer(n, m) => Sec(m) <= Sec(n)
    BY NewerOrder
  <2>3. Sec(cursor') <= Sec(cursor')
    BY <1>2, <2>1, SecType
  <2>. QED
    BY <1>1, <1>2, <1>4, <2>1, <2>2, <2>3
<1>5. ASSUME NEW m \in C, m \notin R
      PROVE (cursor' \in R /\ Sec(m) = Sec(cursor')) \/ m \in Remaining'
  <2>1. R # {} /\ cursor' \in R /\ reading' = "paging" /\ Sec(m) <= Sec(cursor')
    BY <1>2, <1>4, <1>5
  <2>2. m \in Messages /\ cursor' \in Messages /\ row[m].agent = Viewed
    BY <1>2, <2>1
  <2>3. Sec(m) \in Nat /\ Sec(cursor') \in Nat
    BY <2>2, SecType
  <2>4. CASE Sec(m) < Sec(cursor')
    <3>1. Messages' = Messages /\ row' = row
      BY DEF Messages
    <3>2. m \in Candidates(cursor)'
      BY <2>2, <2>4, <3>1 DEF Candidates, Precedes, Sec
    <3>. QED
      BY <2>1, <3>2 DEF Remaining
  <2>. QED
    BY <2>1, <2>3, <2>4
<1>6. R = {} => C = {} /\ reading' = "end" /\ cursor' = None
  BY <1>1, <1>2
<1>7. \A m \in C : \/ m \in R
                   \/ cursor' \in R /\ Sec(m) = Sec(cursor')
                   \/ m \in Remaining'
  BY <1>5
<1>8. R # {} => /\ reading' = "paging" /\ cursor' \in R
                /\ \A n \in R : Sec(cursor') <= Sec(n)
  BY <1>4
<1>. QED
  BY <1>2, <1>3, <1>6, <1>7, <1>8, Zenon

\* The rows and the clock are as they were.
LEMMA ReadKeepsTypes ==
  ASSUME TypeOK, ClockInv, UNCHANGED <<count, row, now, setBack>>,
         \A k \in DOMAIN page' : page'[k] \in Messages,
         reading' \in {"paging", "end"}, cursor' \in Messages \cup {None},
         seen' \subseteq Messages, cuts' \subseteq Messages, began' \in 0..count
  PROVE TypeOK' /\ ClockInv'
BY DEF TypeOK, ClockInv, Messages, Sec

LEMMA NewestStep ==
  ASSUME HistoryInv, NEW limit \in Limits, GetNewest(limit)
  PROVE HistoryInv'
<1>. TypeOK /\ ClockInv /\ RowsTyped
  BY TypedRows DEF HistoryInv
<1>. DEFINE n == IF limit <= 0 THEN DefaultLimit ELSE limit
            C == Candidates(None)
            R == Top(C, n)
<1>1. /\ Show(R) /\ seen' = R /\ cuts' = {cursor'} \ {None} /\ began' = count
      /\ UNCHANGED <<count, row, now, setBack>>
  BY DEF GetNewest, Rows
<1>2. C = {m \in Messages : row[m].agent = Viewed}
  BY DEF Candidates
<1>3. n \in Nat \ {0}
  BY LimitPositive
<1>. HIDE DEF n, C, R
<1>4. /\ R \subseteq C
      /\ PageNumbers' /\ PageInv' /\ \A k \in DOMAIN page' : page'[k] \in R
      /\ R = {} => C = {} /\ reading' = "end" /\ cursor' = None
      /\ R # {} => /\ reading' = "paging" /\ cursor' \in R
                   /\ \A m \in R : Sec(cursor') <= Sec(m)
      /\ \A m \in C : \/ m \in R
                      \/ cursor' \in R /\ Sec(m) = Sec(cursor')
                      \/ m \in Remaining'
  <2>1. C \in SUBSET Messages /\ (\A m \in C : row[m].agent = Viewed)
    BY <1>2
  <2>. QED
    BY <1>1, <1>3, <2>1, ShownPage DEF R
<1>5. None \notin Messages /\ Messages' = Messages /\ row' = row
  BY <1>1 DEF None, Messages
<1>6. TypeOK' /\ ClockInv'
  <2>1. R \subseteq Messages /\ count \in 0..count
    BY <1>2, <1>4 DEF RowsTyped
  <2>2. reading' \in {"paging", "end"} /\ cursor' \in Messages \cup {None}
    BY <1>4, <2>1
  <2>3. cuts' \subseteq Messages /\ seen' \subseteq Messages
    BY <1>1, <2>1, <2>2
  <2>4. \A k \in DOMAIN page' : page'[k] \in Messages
    BY <1>4, <2>1
  <2>. QED
    BY <1>1, <2>1, <2>2, <2>3, <2>4, ReadKeepsTypes
<1>7. CursorInv'
  <2>1. ASSUME reading' = "paging" PROVE R # {}
    BY <1>4, <2>1
  <2>2. reading' = "paging" => cursor' \in Messages /\ cursor' \in cuts'
    BY <1>1, <1>2, <1>4, <1>5, <2>1
  <2>. QED
    BY <1>1, <1>4, <1>5, <2>1, <2>2 DEF CursorInv, Sec
<1>8. MissesOnlyTies'
  <2>1. ASSUME NEW m \in 1..count, row[m].agent = Viewed
        PROVE m \in seen' \cup Remaining' \/ \E c \in cuts' : Sec(m) = Sec(c)
    <3>1. m \in C
      BY <1>2, <2>1 DEF Messages
    <3>2. cursor' \in R => cursor' \in cuts'
      BY <1>1, <1>2, <1>4, <1>5
    <3>. QED
      BY <1>1, <1>4, <3>1, <3>2
  <2>. QED
    BY <1>1, <1>5, <2>1 DEF MissesOnlyTies, Sec
<1>. QED
  BY <1>4, <1>6, <1>7, <1>8 DEF HistoryInv

LEMMA OlderStep ==
  ASSUME HistoryInv, NEW limit \in Limits, GetOlder(limit)
  PROVE /\ HistoryInv'
        /\ Remaining' \subseteq Remaining
        /\ Remaining # {} => Remaining' # Remaining
        /\ Remaining = {} => reading' = "end"
<1>. TypeOK /\ ClockInv /\ RowsTyped
  BY TypedRows DEF HistoryInv
<1>. DEFINE n == IF limit <= 0 THEN DefaultLimit ELSE limit
            C == Candidates(cursor)
            R == Top(C, n)
<1>1. /\ reading = "paging" /\ Show(R) /\ seen' = seen \cup R
      /\ cuts' = cuts \cup ({cursor'} \ {None})
      /\ UNCHANGED <<count, row, now, setBack, began>>
  BY DEF GetOlder, Rows
<1>2. None \notin Messages /\ Messages' = Messages /\ row' = row
  BY <1>1 DEF None, Messages
<1>3. /\ cursor \in Messages /\ cursor \in cuts
      /\ \A m \in seen : Sec(cursor) <= Sec(m)
  BY <1>1 DEF HistoryInv, CursorInv
<1>4. C = {m \in Messages : row[m].agent = Viewed /\ Sec(m) < Sec(cursor)} /\ Remaining = C
  BY <1>1, <1>2, <1>3 DEF Candidates, Precedes, Remaining
<1>5. n \in Nat \ {0}
  BY LimitPositive
<1>. HIDE DEF n, C, R
<1>6. /\ R \subseteq C
      /\ PageNumbers' /\ PageInv' /\ \A k \in DOMAIN page' : page'[k] \in R
      /\ R = {} => C = {} /\ reading' = "end" /\ cursor' = None
      /\ R # {} => /\ reading' = "paging" /\ cursor' \in R
                   /\ \A m \in R : Sec(cursor') <= Sec(m)
      /\ \A m \in C : \/ m \in R
                      \/ cursor' \in R /\ Sec(m) = Sec(cursor')
                      \/ m \in Remaining'
  <2>1. C \in SUBSET Messages /\ (\A m \in C : row[m].agent = Viewed)
    BY <1>4
  <2>. QED
    BY <1>1, <1>5, <2>1, ShownPage DEF R
<1>7. R \subseteq Messages /\ seen \subseteq Messages /\ cuts \subseteq Messages /\ began \in 0..count
  BY <1>4, <1>6 DEF TypeOK
<1>8. TypeOK' /\ ClockInv'
  <2>1. reading' \in {"paging", "end"} /\ cursor' \in Messages \cup {None}
    BY <1>6, <1>7
  <2>2. cuts' \subseteq Messages /\ seen' \subseteq Messages
    BY <1>1, <1>7, <2>1
  <2>3. \A k \in DOMAIN page' : page'[k] \in Messages
    BY <1>6, <1>7
  <2>. QED
    BY <1>1, <1>7, <2>1, <2>2, <2>3, ReadKeepsTypes
<1>9. CursorInv'
  <2>1. ASSUME reading' = "paging" PROVE R # {}
    BY <1>6, <2>1
  <2>2. reading' = "paging" => cursor' \in Messages /\ cursor' \in cuts'
    BY <1>1, <1>2, <1>6, <1>7, <2>1
  <2>3. ASSUME reading' = "paging", NEW m \in seen' PROVE Sec(cursor') <= Sec(m)
    <3>1. CASE m \in R
      BY <1>6, <2>1, <2>3, <3>1
    <3>2. CASE m \in seen
      <4>1. Sec(cursor') < Sec(cursor) /\ Sec(cursor) <= Sec(m)
        BY <1>3, <1>4, <1>6, <2>1, <2>3, <3>2
      <4>2. Sec(cursor') \in Nat /\ Sec(cursor) \in Nat /\ Sec(m) \in Nat
        BY <1>3, <1>7, <2>2, <2>3, <3>2, SecType
      <4>. QED
        BY <4>1, <4>2
    <3>. QED
      BY <1>1, <2>3, <3>1, <3>2
  <2>. QED
    BY <1>2, <2>2, <2>3 DEF CursorInv, Sec
<1>10. MissesOnlyTies'
  <2>1. ASSUME NEW m \in 1..began, row[m].agent = Viewed
        PROVE m \in seen' \cup Remaining' \/ \E c \in cuts' : Sec(m) = Sec(c)
    <3>1. m \in seen \cup Remaining \/ \E c \in cuts : Sec(m) = Sec(c)
      BY <1>1, <2>1 DEF HistoryInv, MissesOnlyTies
    <3>2. cursor' \in R => cursor' \in cuts'
      BY <1>1, <1>2, <1>7
    <3>. QED
      BY <1>1, <1>4, <1>6, <3>1, <3>2
  <2>. QED
    BY <1>1, <1>2, <2>1 DEF MissesOnlyTies, Sec
<1>11. Remaining' \subseteq Remaining /\ (Remaining # {} => Remaining' # Remaining)
  <2>1. CASE R = {}
    BY <1>4, <1>6, <2>1 DEF Remaining
  <2>2. CASE R # {}
    <3>1. cursor' \in C /\ cursor' \in Messages /\ cursor' # None /\ reading' = "paging"
      BY <1>2, <1>6, <1>7, <2>2
    <3>2. Remaining' = {m \in Messages : row[m].agent = Viewed /\ Sec(m) < Sec(cursor')}
      BY <1>2, <3>1 DEF Remaining, Candidates, Precedes, Sec
    <3>3. Sec(cursor') < Sec(cursor) /\ \A m \in Messages : Sec(m) \in Nat
      BY <1>4, <3>1, SecType
    <3>4. ASSUME NEW m \in Remaining' PROVE m \in C
      BY <1>3, <1>4, <3>1, <3>2, <3>3, <3>4
    <3>5. cursor' \notin Remaining'
      BY <3>1, <3>2, <3>3
    <3>. QED
      BY <1>4, <3>1, <3>4, <3>5
  <2>. QED
    BY <2>1, <2>2
<1>12. Remaining = {} => reading' = "end"
  BY <1>4, <1>6
<1>. QED
  BY <1>6, <1>8, <1>9, <1>10, <1>11, <1>12 DEF HistoryInv

LEMMA HistoryStep == HistoryInv /\ [Next]_vars => HistoryInv'
<1>. SUFFICES ASSUME HistoryInv, [Next]_vars PROVE HistoryInv'
  OBVIOUS
<1>1. CASE UNCHANGED vars
  <2>. USE <1>1 DEF vars
  <2>1. TypeOK'
    BY DEF HistoryInv, TypeOK, Messages
  <2>2. PageNumbers' /\ PageInv'
    BY DEF HistoryInv, PageNumbers, PageInv, Newer, Sec
  <2>3. CursorInv' /\ ClockInv'
    BY DEF HistoryInv, CursorInv, ClockInv, Messages, Sec
  <2>4. MissesOnlyTies'
    <3>1. Remaining' = Remaining
      BY DEF Remaining, Candidates, Precedes, Messages, Sec
    <3>. QED
      BY <3>1 DEF HistoryInv, MissesOnlyTies, Sec
  <2>. QED
    BY <2>1, <2>2, <2>3, <2>4 DEF HistoryInv
<1>2. ASSUME NEW a \in Agents, SaveMessage(a) PROVE HistoryInv'
  BY <1>2, SaveStep
<1>3. ASSUME NEW t \in 0..MaxSecond, Clock(t) PROVE HistoryInv'
  BY <1>3, ClockStep
<1>4. ASSUME NEW limit \in Limits, GetNewest(limit) \/ GetOlder(limit) PROVE HistoryInv'
  BY <1>4, NewestStep, OlderStep
<1>. QED
  <2>1. \/ \E a \in Agents : SaveMessage(a)
        \/ \E t \in 0..MaxSecond : Clock(t)
        \/ \E limit \in Limits : GetNewest(limit) \/ GetOlder(limit)
        \/ UNCHANGED vars
    BY Zenon DEF Next
  <2>. QED
    BY <1>1, <1>2, <1>3, <1>4, <2>1, Zenon

LEMMA HistorySafe == Spec => []HistoryInv
BY HistoryInit, HistoryStep, PTL DEF Spec

-----------------------------------------------------------------------------
(* The results.                                                             *)

\* Every variable keeps its type; a page and its cursor name saved messages
\* (storage.go:176-239, handlers.go:164-209).
THEOREM HistoryTypes == Spec => []TypeOK
<1>1. HistoryInv => TypeOK
  BY DEF HistoryInv
<1>. QED
  BY <1>1, HistorySafe, PTL

\* The pages still to come hold only older messages than those shown: nothing is
\* shown twice, whatever is saved meanwhile and however the clock is set.
THEOREM ReadingGoesBack == Spec => []PagesGoBack
<1>1. HistoryInv => PagesGoBack
  <2>. SUFFICES ASSUME HistoryInv, NEW m \in Remaining, NEW n \in seen
                PROVE m # n /\ Sec(m) < Sec(n)
    BY DEF PagesGoBack
  <2>1. RowsTyped /\ seen \subseteq Messages
    BY TypedRows DEF HistoryInv, TypeOK
  <2>2. reading = "paging" /\ m \in Candidates(cursor)
    BY DEF Remaining
  <2>3. cursor \in Messages /\ Sec(cursor) <= Sec(n) /\ cursor # None
    BY <2>1, <2>2 DEF HistoryInv, CursorInv, Messages, None
  <2>4. m \in Messages /\ Sec(m) < Sec(cursor)
    BY <2>2, <2>3 DEF Candidates, Precedes
  <2>5. Sec(m) \in Nat /\ Sec(n) \in Nat /\ Sec(cursor) \in Nat
    BY <2>1, <2>3, <2>4, SecType
  <2>. QED
    BY <2>3, <2>4, <2>5
<1>. QED
  BY <1>1, HistorySafe, PTL

\* Reading back misses at most messages of the second at which a page was cut
\* (storage.go:215).
THEOREM ReadingMissesOnlyTies == Spec => []MissesOnlyTies
<1>1. HistoryInv => MissesOnlyTies
  BY DEF HistoryInv
<1>. QED
  BY <1>1, HistorySafe, PTL

\* A page lists its messages in the order in which they were saved, unless the clock
\* was set back (storage.go:205-239).
THEOREM PagesAreOrdered == Spec => []PagesInSavedOrder
<1>1. HistoryInv => PagesInSavedOrder
  <2>. SUFFICES ASSUME HistoryInv, ~setBack, NEW k \in DOMAIN page, NEW l \in DOMAIN page,
                       k < l
                PROVE page[k] < page[l]
    BY DEF PagesInSavedOrder
  <2>1. RowsTyped /\ page[k] \in Messages /\ page[l] \in Messages
    BY TypedRows DEF HistoryInv, TypeOK
  <2>2. Newer(page[l], page[k])
    BY DEF HistoryInv, PageInv
  <2>3. page[l] < page[k] => Sec(page[l]) <= Sec(page[k])
    BY <2>1 DEF HistoryInv, ClockInv
  <2>4. /\ page[k] \in Nat /\ page[l] \in Nat
        /\ Sec(page[k]) \in Nat /\ Sec(page[l]) \in Nat
    BY <2>1, SecType
  <2>. QED
    BY <2>2, <2>3, <2>4 DEF Newer
<1>. QED
  BY <1>1, HistorySafe, PTL

\* Each further page leaves strictly less to show, and the page after the last is
\* empty: reading back ends unless messages are saved meanwhile.
THEOREM ReadingEnds == Spec => ReadingShrinks
<1>1. HistoryInv /\ [Next]_vars =>
        [\A limit \in Limits : GetOlder(limit) =>
           /\ Remaining' \subseteq Remaining
           /\ Remaining # {} => Remaining' # Remaining
           /\ Remaining = {} => reading' = "end"]_vars
  BY OlderStep
<1>. QED
  BY <1>1, HistorySafe, PTL DEF Spec, ReadingShrinks
================================================================================
