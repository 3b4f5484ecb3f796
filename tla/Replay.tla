------------------------------- MODULE Replay -------------------------------
(***************************************************************************)
(* A subscriber that follows one topic by calling publisher.replay page by  *)
(* page, while the log grows, ages and is compacted under it.  It hands      *)
(* nextCursor back as fromCursor, or the cursor of the last event it got when *)
(* there was none, and starts over from "earliest" when the publisher answers *)
(* CURSOR_EXPIRED.  The subscription's selector filters every page.          *)
(* A read of the in-memory store is one step.  A read of the Postgres store   *)
(* is two statements, each on its own connection with its own now(), and the  *)
(* log may change between them.                                              *)
(***************************************************************************)
EXTENDS EventStore, Selectors, Cursor

CONSTANTS
    Limits,         \* the page limits a caller may ask for
    SelectorSet,    \* the selectors a subscription may have
    Payloads,       \* what the events carry, repeated along the log
    Filterable      \* Topic.filterable_fields

ASSUME ReplayAssumption ==
    /\ Limits \subseteq Nat \ {0}
    /\ 0 \in DOMAIN Payloads
    /\ \A sel \in SelectorSet : HasFieldList(sel)

VARIABLES
    position,   \* the subscriber's cursor, NoCursor for "earliest"
    got,        \* offsets it has been handed since it last started over
    selector,   \* Subscription.selector
    limit,      \* the page limit it asks for
    backend,    \* the publisher's event store: "memory" or "postgres"
    call,       \* "checked": read() has compared the cursor with min(cursor) and
                \* not yet selected its page; else "idle"
    slipped     \* history: since the subscriber started over, the window moved
                \* past its cursor between the two statements of a read()

readerVars == <<position, got, selector, limit, backend, call>>
vars == <<storeVars, readerVars, slipped>>

Unbounded == MaxEvents   \* no toCursor: above every offset

-----------------------------------------------------------------------------
(* PostgresEventStore.read, which compares cursors as strings *)

Code == [o \in 0 .. MaxEvents |-> Encode(o)]

\* cursor > from AND cursor <= to, inside the window
RowsBetween(from, to) ==
    {o \in live : /\ from # NoCursor => Precedes(Code[from], Code[o])
                  /\ ~Precedes(Code[to], Code[o])}

\* ORDER BY cursor ASC LIMIT n
FirstRows(S, n) ==
    {o \in S : Cardinality({x \in S : Precedes(Code[x], Code[o])}) < n}

LastRow(S) == CHOOSE o \in S : \A x \in S : ~Precedes(Code[o], Code[x])

\* oldest_available_cursor is MIN(cursor) over the window.
RowExpired(from) ==
    /\ from # NoCursor
    /\ live # {}
    /\ \A o \in live : Precedes(Code[from], Code[o])

\* Mutant: the cursor of the row too many is handed out instead of the last
\* returned one's.
SelectPageByExtraRow(from, to, n) ==
    LET rows    == FirstRows(RowsBetween(from, to), n + 1)
        records == FirstRows(rows, n)
    IN  Page(records, IF Cardinality(rows) <= n THEN NoCursor ELSE LastRow(rows))

\* Fetch limit + 1 rows, return the first limit, and take the cursor of the last
\* returned record when a row was left over (records[-1] of an empty list is an
\* IndexError).
SelectPage(from, to, n) ==
    LET rows    == FirstRows(RowsBetween(from, to), n + 1)
        records == FirstRows(rows, n)
    IN  IF Cardinality(rows) <= n THEN Page(records, NoCursor)
        ELSE IF records = {} THEN Failed
        ELSE Page(records, LastRow(records))

\* Both statements on the same window.
ReadPostgres(from, to, n) ==
    IF RowExpired(from) THEN Expired ELSE SelectPage(from, to, n)

-----------------------------------------------------------------------------

\* Types, and the relation between counter, rows and window both backends keep.
TypeOK ==
    /\ StoreTypeOK
    /\ position \in NoCursor .. nextOffset - 1
    /\ got \subseteq 0 .. nextOffset - 1
    /\ selector \in SelectorSet
    /\ limit \in Limits
    /\ backend \in {"memory", "postgres"}
    /\ call \in {"idle", "checked"}
    /\ slipped \in BOOLEAN

Init ==
    /\ StoreInit
    /\ position = NoCursor
    /\ got = {}
    /\ selector \in SelectorSet
    /\ limit \in Limits
    /\ backend \in {"memory", "postgres"}
    /\ call = "idle"
    /\ slipped = FALSE

VerdictOf(sel, o) == Matches(sel, Payloads[o % Cardinality(DOMAIN Payloads)], Filterable)
Verdict(o) == VerdictOf(selector, o)

\* The selector raises on an event of the page.
Raises(answer) == \E o \in answer.events : Verdict(o) = "raise"

\* Mutant: the cursor is left at the last event handed out, which a page without
\* a match never moves.
HandOutByLastMatch(answer) ==
    LET chosen == {o \in answer.events : Verdict(o) = "match"}
    IN  /\ answer.kind = "page" /\ ~Raises(answer)
        /\ position' = IF chosen # {} THEN Last(chosen) ELSE position
        /\ got' = got \cup chosen

\* replay() answers with the matching events of a page and its next cursor.  It
\* fails as a whole when the selector raises on one of the events.
HandOut(answer) ==
    LET chosen == {o \in answer.events : Verdict(o) = "match"}
    IN  /\ answer.kind = "page" /\ ~Raises(answer)
        /\ position' = IF answer.next # NoCursor THEN answer.next
                       ELSE IF chosen # {} THEN Last(chosen) ELSE position
        /\ got' = got \cup chosen

\* replay() raises CURSOR_EXPIRED, and the subscriber starts over.
StartOver ==
    /\ position' = NoCursor
    /\ got' = {}
    /\ slipped' = FALSE

\* replay() over the in-memory store.
ReplayPage ==
    /\ backend = "memory"
    /\ HandOut(ReadMemory(position, Unbounded, limit))
    /\ UNCHANGED <<storeVars, selector, limit, backend, call, slipped>>

ReplayExpired ==
    /\ backend = "memory"
    /\ CursorExpired(position)
    /\ StartOver
    /\ UNCHANGED <<storeVars, selector, limit, backend, call>>

\* The first statement of PostgresEventStore.read, which a read from "earliest"
\* skips.
PgCheck ==
    /\ backend = "postgres" /\ call = "idle"
    /\ position # NoCursor
    /\ \/ RowExpired(position) /\ StartOver /\ UNCHANGED call
       \/ ~RowExpired(position) /\ call' = "checked" /\ UNCHANGED <<position, got, slipped>>
    /\ UNCHANGED <<storeVars, selector, limit, backend>>

\* The second one: the page, over the window as it is by then.
PgSelect ==
    /\ backend = "postgres"
    /\ position = NoCursor \/ call = "checked"
    /\ LET answer == SelectPage(position, Unbounded, limit)
       IN  \/ HandOut(answer)
           \/ Raises(answer) /\ UNCHANGED <<position, got>>
    /\ call' = "idle"
    /\ UNCHANGED <<storeVars, selector, limit, backend, slipped>>

\* Between the two statements an event beyond the cursor leaves the window, or an
\* event is appended to a window that was empty when the cursor was compared.
Slips ==
    /\ call = "checked"
    /\ \/ \E o \in live \ live' : position < o
       \/ live = {} /\ live' # {}

LogStep ==
    /\ StoreNext
    /\ slipped' = (slipped \/ Slips)
    /\ UNCHANGED readerVars

Next ==
    \/ LogStep
    \/ ReplayPage
    \/ ReplayExpired
    \/ PgCheck
    \/ PgSelect

\* The subscriber keeps asking, and a call that has begun goes on; publishing,
\* aging and compaction owe nothing.
Fairness ==
    /\ WF_vars(ReplayPage)
    /\ WF_vars(ReplayExpired)
    /\ WF_vars(PgCheck)
    /\ WF_vars(PgSelect)

Spec == Init /\ [][Next]_vars /\ Fairness

-----------------------------------------------------------------------------
(* Properties *)

\* On the same window the two backends answer every read alike - the same events, the same next
\* cursor, the same CURSOR_EXPIRED - although one compares numbers, loops and stops
\* at the limit, and the other compares strings and fetches a row too many.
BackendsAgree ==
    \A from \in NoCursor .. MaxEvents, to \in 0 .. MaxEvents, n \in Limits :
        ReadMemory(from, to, n) = ReadPostgres(from, to, n)

\* Following the log by pages never skips a matching event silently: from the
\* first event the subscriber got up to its cursor there is none it did not get,
\* however the window moved between its calls and whatever the filter left of a
\* page, unless it was told CURSOR_EXPIRED - or unless the window slipped past its
\* cursor inside one of its calls, which only the Postgres store allows.
NoSilentGap ==
    ~slipped => \A a \in got : \A o \in a .. position : Verdict(o) = "match" => o \in got

\* Whatever happens inside a call, the cursor never passes a matching event that
\* is still in the window without handing it out: what is skipped is gone.
NoLiveSkipped ==
    \A o \in live : o <= position /\ Verdict(o) = "match" => o \in got

\* The order of the fields of a filter, which a JSONB column does not keep,
\* decides between a miss and an error at most, never whether an event matches.
OrderOnlyDecidesErrors ==
    selector.type = "field_filter" =>
        \A o \in Offsets :
            LET other == VerdictOf(Reordered(selector), o)
            IN  other # Verdict(o) => {other, Verdict(o)} = {"miss", "raise"}

\* The lookup the retry worker and the ack audit rest on finds an event exactly
\* as long as it is live, also when its predecessor's cursor has expired.
RecordAtFindsLive ==
    \A o \in 0 .. MaxEvents : RecordAt(o) = (IF o \in live THEN o ELSE NoCursor)

\* A subscriber that keeps asking gets every matching event that stays in the
\* window, unless an event in the window makes its selector raise.
FollowsTheLog ==
    \A o \in Offsets :
        (o \in live /\ Verdict(o) = "match")
            ~> \/ o \in got \/ o \notin live
               \/ \E x \in live : Verdict(x) = "raise"
=============================================================================
