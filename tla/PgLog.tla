-------------------------------- MODULE PgLog --------------------------------
(***************************************************************************)
(* runtime/postgres/event_store.py: one topic's log as rows written by       *)
(* concurrent transactions.  EventStore takes append() for one step; here    *)
(* each SQL statement is a step, any transaction may roll back at any of     *)
(* them, and the committed tables (nextOffset, stored, live) are what other  *)
(* sessions see.  The statements run at READ COMMITTED, the default: each    *)
(* takes a fresh snapshot of the committed tables.                           *)
(***************************************************************************)
EXTENDS Integers, FiniteSets

CONSTANTS
    Appenders,      \* pooled connections that run append()
    MaxLegacy,      \* bound: rows of a table made before the next_offset column
                    \* was added, which the migration leaves at its default of 0
    MaxEvents,      \* bound: the largest next_offset
    MaxBegins       \* bound: transactions begun, those of the legacy rows included

ASSUME PgLogAssumption ==
    /\ MaxLegacy \in Nat
    /\ MaxEvents \in Nat
    /\ MaxBegins \in Nat

VARIABLES
    legacy,         \* rows the table had when the column was added
    early,          \* history: rows were deleted ahead of the counter's first write
    nextOffset,     \* a2a_event_topics.next_offset
    stored,         \* offsets with a row in a2a_events
    live,           \* those whose created_at is inside the window
    stamp,          \* created_at of each offset's row: its transaction's rank
    clock,          \* transactions begun so far, the legacy rows' included
    pc,             \* each appender's next statement
    began,          \* now() of its transaction
    counter,        \* the next_offset it read
    offset,         \* the offset it allocated
    used,           \* history: offsets ever committed
    \* one call of _start_offset("latest")
    ask, latest,    \* its next statement, its answer
    before          \* history: the rows stored when it began

tables == <<nextOffset, stored, live, stamp, used>>
locals == <<pc, began, counter, offset>>
asking == <<ask, latest, before>>
vars == <<legacy, early, tables, clock, locals, asking>>

NoCursor == -1
Rows == 0 .. MaxLegacy + MaxEvents

\* The transaction holds the topic's advisory lock.
Locked == {"counter", "count", "insert", "commit"}
Open(a) == pc[a] # "idle"

Max2(a, b) == IF a < b THEN b ELSE a
Last(S) == CHOOSE o \in S : \A x \in S : x <= o

\* Types; without legacy rows every row lies below the counter.
TypeOK ==
    /\ legacy \in 0 .. MaxLegacy
    /\ early \in BOOLEAN
    /\ nextOffset \in Nat
    /\ stored \subseteq Rows
    /\ live \subseteq stored
    /\ used \subseteq Rows
    /\ stamp \in [Rows -> Nat]
    /\ clock \in Nat
    /\ pc \in [Appenders -> {"idle", "lock"} \cup Locked]
    /\ began \in [Appenders -> Nat]
    /\ counter \in [Appenders -> Nat]
    /\ offset \in [Appenders -> Nat]
    /\ ask \in {"idle", "count", "max", "recount", "answered"}
    /\ latest \in Nat \cup {NoCursor}
    /\ before \subseteq Rows
    /\ legacy = 0 => stored \subseteq 0 .. nextOffset - 1

Init ==
    /\ legacy \in 0 .. MaxLegacy
    /\ early = FALSE
    /\ nextOffset = 0
    /\ stored = 0 .. legacy - 1
    /\ live = stored
    /\ used = stored
    /\ stamp = [o \in Rows |-> IF o < legacy THEN o ELSE 0]
    /\ clock = legacy
    /\ pc = [a \in Appenders |-> "idle"]
    /\ began = [a \in Appenders |-> 0]
    /\ counter = [a \in Appenders |-> 0]
    /\ offset = [a \in Appenders |-> 0]
    /\ ask = "idle"
    /\ latest = NoCursor
    /\ before = {}

-----------------------------------------------------------------------------
(* append() *)

Goto(a, label) == pc' = [pc EXCEPT ![a] = label]

\* BEGIN: now(), which becomes created_at, is fixed here, ahead of the lock.
Begin(a) ==
    /\ pc[a] = "idle"
    /\ clock < MaxBegins
    /\ clock' = clock + 1
    /\ began' = [began EXCEPT ![a] = clock + 1]
    /\ Goto(a, "lock")
    /\ UNCHANGED <<tables, counter, offset, asking>>

\* Mutant: no advisory lock.
LockNothing(a) ==
    /\ pc[a] = "lock"
    /\ nextOffset < MaxEvents
    /\ Goto(a, "counter")
    /\ UNCHANGED <<tables, clock, began, counter, offset, asking>>

\* pg_advisory_xact_lock: held to the end of the transaction.
Lock(a) ==
    /\ pc[a] = "lock"
    /\ nextOffset < MaxEvents
    /\ \A b \in Appenders : pc[b] \notin Locked
    /\ Goto(a, "counter")
    /\ UNCHANGED <<tables, clock, began, counter, offset, asking>>

\* SELECT next_offset.
ReadCounter(a) ==
    /\ pc[a] = "counter"
    /\ counter' = [counter EXCEPT ![a] = nextOffset]
    /\ Goto(a, "count")
    /\ UNCHANGED <<tables, clock, began, offset, asking>>

\* Mutant: the row count alone is the offset.
CountRowsOnly(a) ==
    /\ pc[a] = "count"
    /\ offset' = [offset EXCEPT ![a] = Cardinality(stored)]
    /\ Goto(a, "insert")
    /\ UNCHANGED <<tables, clock, began, counter, asking>>

\* SELECT count(*); the offset is the larger of the two.
CountRows(a) ==
    /\ pc[a] = "count"
    /\ offset' = [offset EXCEPT ![a] = Max2(counter[a], Cardinality(stored))]
    /\ Goto(a, "insert")
    /\ UNCHANGED <<tables, clock, began, counter, asking>>

\* Another open transaction has inserted the same cursor.
Contended(a) == \E b \in Appenders : pc[b] = "commit" /\ offset[b] = offset[a]

\* INSERT, and UPDATE next_offset: visible to others at the commit only.  The
\* UNIQUE cursor waits for a contender and fails, rolling back, on a row.
Insert(a) ==
    /\ pc[a] = "insert"
    /\ ~Contended(a)
    /\ Goto(a, IF offset[a] \in stored THEN "idle" ELSE "commit")
    /\ UNCHANGED <<tables, clock, began, counter, offset, asking>>

\* Mutant: the counter is not written back.
CommitKeepsCounter(a) ==
    /\ pc[a] = "commit"
    /\ stored' = stored \cup {offset[a]}
    /\ live' = live \cup {offset[a]}
    /\ stamp' = [stamp EXCEPT ![offset[a]] = began[a]]
    /\ used' = used \cup {offset[a]}
    /\ Goto(a, "idle")
    /\ UNCHANGED <<nextOffset, clock, began, counter, offset, asking>>

\* COMMIT: row and counter appear together and the lock is released.
Commit(a) ==
    /\ pc[a] = "commit"
    /\ nextOffset' = offset[a] + 1
    /\ stored' = stored \cup {offset[a]}
    /\ live' = live \cup {offset[a]}
    /\ stamp' = [stamp EXCEPT ![offset[a]] = began[a]]
    /\ used' = used \cup {offset[a]}
    /\ Goto(a, "idle")
    /\ UNCHANGED <<clock, began, counter, offset, asking>>

\* A statement fails or the connection is lost: ROLLBACK.
Abort(a) ==
    /\ Open(a)
    /\ Goto(a, "idle")
    /\ UNCHANGED <<tables, clock, began, counter, offset, asking>>

-----------------------------------------------------------------------------
(* Retention *)

\* The row with the oldest created_at leaves the window.  A transaction is far
\* shorter than the window, so none still open has an older now().
Age(o) ==
    /\ o \in live
    /\ \A x \in live : stamp[o] <= stamp[x]
    /\ \A a \in Appenders : Open(a) => stamp[o] < began[a]
    /\ live' = live \ {o}
    /\ UNCHANGED <<nextOffset, stored, stamp, used, clock, locals, asking>>

\* compact(): one DELETE, autocommitted; append()'s lock does not hold it up.
Compact ==
    /\ stored' = live
    /\ UNCHANGED <<nextOffset, live, stamp, used, clock, locals, asking>>

-----------------------------------------------------------------------------
(* _start_offset("latest"): up to three statements of their own *)

AskLatest ==
    /\ ask \in {"idle", "answered"}
    /\ ask' = "count"
    /\ latest' = NoCursor
    /\ before' = stored
    /\ UNCHANGED <<tables, clock, locals>>

\* Mutant: count() is not asked first.
LatestCountUnchecked ==
    /\ ask = "count"
    /\ ask' = "max"
    /\ UNCHANGED <<tables, clock, locals, latest, before>>

\* count(): a topic that never had an event has no latest one.
LatestCount ==
    /\ ask = "count"
    /\ ask' = IF nextOffset = 0 THEN "answered" ELSE "max"
    /\ UNCHANGED <<tables, clock, locals, latest, before>>

\* latest_cursor(): SELECT max(cursor).
LatestMax ==
    /\ ask = "max"
    /\ ask' = IF stored = {} THEN "recount" ELSE "answered"
    /\ latest' = IF stored = {} THEN latest ELSE Last(stored)
    /\ UNCHANGED <<tables, clock, locals, before>>

\* latest_cursor() of an emptied log: count() again.
LatestRecount ==
    /\ ask = "recount"
    /\ ask' = "answered"
    /\ latest' = Max2(nextOffset - 1, 0)
    /\ UNCHANGED <<tables, clock, locals, before>>

-----------------------------------------------------------------------------
AppendStep(a) ==
    \/ Begin(a) \/ Lock(a) \/ ReadCounter(a) \/ CountRows(a)
    \/ Insert(a) \/ Commit(a) \/ Abort(a)

Next ==
    /\ \/ \E a \in Appenders : AppendStep(a)
       \/ \E o \in live : Age(o)
       \/ Compact
       \/ AskLatest \/ LatestCount \/ LatestMax \/ LatestRecount
    /\ early' = (early \/ (nextOffset = 0 /\ ~(stored \subseteq stored')))
    /\ UNCHANGED legacy

Spec == Init /\ [][Next]_vars

-----------------------------------------------------------------------------
(* Properties *)

\* The log of a table that had the counter from its first row.
Log == INSTANCE EventStore WITH
           OrderedAging <- FALSE,
           nextOffset <- IF legacy = 0 THEN nextOffset ELSE 0,
           stored <- IF legacy = 0 THEN stored ELSE {},
           live <- IF legacy = 0 THEN live ELSE {}

\* The committed tables behave as EventStore's log, in which append() is one
\* step: rows appear in offset order, so a reader that has seen offset o never
\* has a smaller one appear behind it, and the counter never falls behind.
ImplementsLog == Log!StoreSpec

\* Deleting old rows never causes a cursor to be reused: a row that appears has
\* an offset no committed row ever had, however compaction, concurrent appends
\* and rolled back ones interleave.  The row count heals the counter of a migrated
\* table; only rows deleted before the first append commits take that from it.
CursorNeverReused == [][early \/ \A o \in stored' \ stored : o \notin used]_vars

\* No append() fails on the UNIQUE cursor, or waits for another one to, on a
\* migrated table either, if its rows were there until the first append committed.
NeverCollides ==
    early \/ \A a \in Appenders :
                 pc[a] = "insert" => offset[a] \notin stored /\ ~Contended(a)

\* The start offset of a "latest" subscription is put together by up to three
\* statements, with appends and compactions between them; still no row that was
\* there before the call lies above it, and it never passes the head.  count() is
\* the counter alone: a migrated table answers it with 0 until the first append.
LatestIsConsistent ==
    legacy = 0 /\ ask = "answered" =>
        /\ \A o \in before \cap stored : o <= latest
        /\ latest < nextOffset
=============================================================================
