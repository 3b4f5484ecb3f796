----------------------------- MODULE EventStore -----------------------------
(***************************************************************************)
(* One topic's append-only log, as both backends of the repository keep it: *)
(* runtime/memory/event_store.py and runtime/postgres/event_store.py.  The  *)
(* topics of a store share nothing, so one topic stands for all.            *)
(*                                                                         *)
(* An event is its offset.  A cursor is an offset too, and NoCursor stands  *)
(* for Python's None ("no position yet", "no further page").  Payloads,     *)
(* event ids and content hashes are left out.                               *)
(***************************************************************************)
EXTENDS Integers, FiniteSets

CONSTANTS
    MaxEvents,      \* bound: how many events are ever appended
    OrderedAging    \* TRUE: created_at follows the offset order (memory);
                    \* FALSE: it may not (Postgres now() is the transaction's
                    \* start, taken before the wait for the advisory lock)

ASSUME EventStoreAssumption ==
    /\ MaxEvents \in Nat
    /\ OrderedAging \in BOOLEAN

VARIABLES
    nextOffset,     \* _TopicLog.next_offset, a2a_event_topics.next_offset
    stored,         \* offsets whose row is physically there
    live            \* stored offsets still inside the retention window

storeVars == <<nextOffset, stored, live>>

NoCursor == -1

Offsets == 0 .. MaxEvents - 1

StoreTypeOK ==
    /\ nextOffset \in 0 .. MaxEvents
    /\ stored \subseteq 0 .. nextOffset - 1
    /\ live \subseteq stored

StoreInit ==
    /\ nextOffset = 0
    /\ stored = {}
    /\ live = {}

-----------------------------------------------------------------------------
(* Operations that change the log *)

\* append(): take the next offset, bump the counter, insert the row.
AppendEvent ==
    /\ nextOffset < MaxEvents
    /\ nextOffset' = nextOffset + 1
    /\ stored' = stored \cup {nextOffset}
    /\ live' = live \cup {nextOffset}

\* Time passes and event o leaves the retention window: it stops being live
\* (created_at < horizon) while its row stays until the next compaction.
Age(o) ==
    /\ o \in live
    /\ OrderedAging => \A x \in live : o <= x
    /\ live' = live \ {o}
    /\ UNCHANGED <<nextOffset, stored>>

\* compact(): delete the rows outside the window; the counter is untouched.
Compact ==
    /\ stored' = live
    /\ UNCHANGED <<nextOffset, live>>

StoreNext ==
    \/ AppendEvent
    \/ \E o \in live : Age(o)
    \/ Compact

StoreSpec == StoreInit /\ [][StoreNext]_storeVars

-----------------------------------------------------------------------------
(* Reads *)

\* The n smallest members of S: how ORDER BY ... LIMIT and a loop over a
\* list kept in offset order page through it.
FirstN(S, n) == {o \in S : Cardinality({x \in S : x < o}) < n}

Last(S) == CHOOSE o \in S : \A x \in S : x <= o

\* The live events a read over (from, to] may return.
Span(from, to) == {o \in live : from < o /\ o <= to}

\* Mutant: the retention test is dropped from read().
NeverExpired(from) == FALSE

\* read()'s CURSOR_EXPIRED test: a given cursor below the oldest live event.
\* An empty window never expires a cursor.
CursorExpired(from) ==
    /\ from # NoCursor
    /\ live # {}
    /\ \A o \in live : from < o

Page(events, next) == [kind |-> "page", events |-> events, next |-> next]
Expired == [kind |-> "expired", events |-> {}, next |-> NoCursor]
Failed == [kind |-> "failed", events |-> {}, next |-> NoCursor]

\* InMemoryEventStore.read: the loop appends a record before it compares the
\* length with the limit, so a non-empty span always yields one record.
ReadMemory(from, to, limit) ==
    LET span == Span(from, to)
        out  == FirstN(span, IF limit < 1 THEN 1 ELSE limit)
        full == Cardinality(out) >= limit
        more == \E o \in span : \A x \in out : o > x
    IN  IF CursorExpired(from) THEN Expired
        ELSE Page(out, IF out # {} /\ full /\ more THEN Last(out) ELSE NoCursor)

\* latest_cursor(): the last stored row, else the last offset ever used, else 0.
LatestCursor ==
    IF stored # {} THEN Last(stored)
    ELSE IF nextOffset = 0 THEN 0 ELSE nextOffset - 1

\* _start_offset("latest"): count() is asked first, because latest_cursor()
\* of a log that never held an event is offset 0.
StartLatest == IF nextOffset = 0 THEN NoCursor ELSE LatestCursor

\* Mutant: an expired predecessor is taken to mean that the event is gone.
RecordAtOneRead(o) ==
    LET first == ReadMemory(IF o > 0 THEN o - 1 ELSE NoCursor, o, 1)
    IN  IF o \in first.events THEN o ELSE NoCursor

\* _record_at(): read the single event at offset o through its predecessor's
\* cursor; when that one has expired, re-read from the start of retention.
\* The result is the record's offset, or NoCursor for None.
RecordAt(o) ==
    LET first  == ReadMemory(IF o > 0 THEN o - 1 ELSE NoCursor, o, 1)
        second == ReadMemory(NoCursor, o, 1)
        found  == IF first.kind = "expired" THEN second.events ELSE first.events
    IN  IF o \in found THEN o ELSE NoCursor
=============================================================================
