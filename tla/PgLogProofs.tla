---------------------------- MODULE PgLogProofs ----------------------------
(***************************************************************************)
(* Proofs about PgLog for any number of connections and events, on tables    *)
(* made with the next_offset column and on migrated ones.                    *)
(***************************************************************************)
EXTENDS PgLog, FiniteSetTheorems, WellFoundedInduction, TLAPS

\* The offset the next append is due to take: the counter, or the legacy rows
\* while it has not been written.
Head == IF nextOffset = 0 THEN legacy ELSE nextOffset

\* Committed rows lie below the head, the legacy rows are all there while only
\* they tell where it is, and an allocated offset is still the head.
Healing ==
    /\ nextOffset = 0 => stored = 0 .. legacy - 1
    /\ stored \subseteq 0 .. Head - 1
    /\ used \subseteq 0 .. Head - 1
    /\ \A a \in Appenders : pc[a] \in {"insert", "commit"} => offset[a] = Head

\* One transaction at a time is past the lock, and what it has read is still the
\* committed counter.
LogInv ==
    /\ legacy \in Nat
    /\ nextOffset \in Nat
    /\ IsFiniteSet(stored)
    /\ live \subseteq stored
    /\ pc \in [Appenders -> {"idle", "lock"} \cup Locked]
    /\ counter \in [Appenders -> Nat]
    /\ offset \in [Appenders -> Nat]
    /\ \A a, b \in Appenders : pc[a] \in Locked /\ pc[b] \in Locked => a = b
    /\ \A a \in Appenders : pc[a] \in Locked => nextOffset < MaxEvents
    /\ \A a \in Appenders : pc[a] = "count" => counter[a] = nextOffset
    /\ early \in BOOLEAN
    /\ early \/ Healing
    /\ legacy = 0 => ~early

\* There are never more rows than the counter says, so max(stored, count)
\* in append() is the counter.
LEMMA RowsBelowCounter ==
    ASSUME NEW n \in Nat, NEW S \in SUBSET (0 .. n - 1)
    PROVE  Cardinality(S) \in 0 .. n
<1>1. /\ IsFiniteSet(0 .. n - 1)
      /\ Cardinality(0 .. n - 1) = n
  BY FS_Interval
<1>2. Cardinality(S) <= Cardinality(0 .. n - 1)
  BY <1>1, FS_Subset
<1>3. Cardinality(S) \in Nat
  BY <1>1, FS_Subset, FS_CardinalityType
<1> QED
  BY <1>1, <1>2, <1>3

LEMMA InitLogInv == Init => LogInv
<1> SUFFICES ASSUME Init PROVE LogInv
  OBVIOUS
<1>1. legacy \in Nat /\ stored = 0 .. legacy - 1 /\ nextOffset = 0 /\ used = stored
  BY PgLogAssumption DEF Init
<1>2. Healing
  BY <1>1 DEF Init, Healing, Head
<1>3. IsFiniteSet(stored)
  BY <1>1, FS_Interval
<1>4. /\ pc \in [Appenders -> {"idle", "lock"} \cup Locked]
      /\ counter \in [Appenders -> Nat]
      /\ offset \in [Appenders -> Nat]
      /\ \A a \in Appenders : pc[a] = "idle"
      /\ live = stored
  BY DEF Init
<1>5. early \in BOOLEAN /\ ~early
  BY DEF Init
<1> QED
  BY <1>1, <1>2, <1>3, <1>4, <1>5 DEF LogInv, Locked

\* Every step keeps LogInv, and a row that appears has an offset that was never
\* used, unless legacy rows were deleted too early.
LEMMA NextLogInv ==
    LogInv /\ [Next]_vars =>
        /\ LogInv'
        /\ early \/ \A o \in stored' \ stored : o \notin used
<1> DEFINE Goal == LogInv' /\ (early \/ \A o \in stored' \ stored : o \notin used)
<1> SUFFICES ASSUME LogInv, [Next]_vars PROVE Goal
  OBVIOUS
<1> USE DEF tables, locals, asking
<1>0. /\ legacy' = legacy /\ early' \in BOOLEAN
      /\ early' = (early \/ (nextOffset = 0 /\ ~(stored \subseteq stored')))
  BY DEF Next, vars, LogInv
<1>1. ASSUME UNCHANGED <<nextOffset, stored, used>>, live' \subseteq stored',
             pc' \in [Appenders -> {"idle", "lock"} \cup Locked],
             counter' \in [Appenders -> Nat], offset' \in [Appenders -> Nat],
             \A a, b \in Appenders : pc'[a] \in Locked /\ pc'[b] \in Locked => a = b,
             \A a \in Appenders : pc'[a] \in Locked => nextOffset < MaxEvents,
             \A a \in Appenders : pc'[a] = "count" => counter'[a] = nextOffset,
             Healing => \A a \in Appenders : pc'[a] \in {"insert", "commit"} =>
                            offset'[a] = Head
      PROVE  Goal
  <2>1. early' = early
    BY <1>0, <1>1 DEF LogInv
  <2>2. Healing => Healing'
    BY <1>0, <1>1 DEF Healing, Head
  <2> QED
    BY <1>0, <1>1, <2>1, <2>2 DEF LogInv
<1> HIDE DEF Goal
<1>2. ASSUME NEW a \in Appenders, AppendStep(a) PROVE Goal
  <2>1. CASE Begin(a)
    BY <1>1, <2>1 DEF LogInv, Healing, Begin, Goto, Locked
  <2>2. CASE Lock(a)
    BY <1>1, <2>2 DEF LogInv, Healing, Lock, Goto, Locked
  <2>3. CASE ReadCounter(a)
    BY <1>1, <2>3 DEF LogInv, Healing, ReadCounter, Goto, Locked
  <2>4. CASE CountRows(a)
    <3>1. counter[a] = nextOffset /\ nextOffset \in Nat /\ legacy \in Nat
      BY <2>4 DEF LogInv, CountRows
    <3>2. Healing => Max2(counter[a], Cardinality(stored)) = Head
      <4>1. SUFFICES ASSUME Healing
                     PROVE  Max2(counter[a], Cardinality(stored)) = Head
        OBVIOUS
      <4>2. CASE nextOffset = 0
        <5>1. Cardinality(stored) = legacy
          BY <3>1, <4>1, <4>2, FS_Interval DEF Healing
        <5> QED
          BY <3>1, <4>2, <5>1 DEF Max2, Head
      <4>3. CASE nextOffset # 0
        <5>1. stored \in SUBSET (0 .. nextOffset - 1)
          BY <4>1, <4>3 DEF Healing, Head
        <5>2. Cardinality(stored) \in 0 .. nextOffset
          BY <3>1, <5>1, RowsBelowCounter
        <5> QED
          BY <3>1, <4>3, <5>2 DEF Max2, Head
      <4> QED
        BY <4>2, <4>3
    <3>3. offset' \in [Appenders -> Nat]
      <4>1. Cardinality(stored) \in Nat
        BY FS_CardinalityType DEF LogInv
      <4> QED
        BY <2>4, <3>1, <4>1 DEF LogInv, CountRows, Max2
    <3> QED
      BY <1>1, <2>4, <3>2, <3>3 DEF LogInv, Healing, CountRows, Goto, Locked
  <2>5. CASE Insert(a)
    BY <1>1, <2>5 DEF LogInv, Healing, Insert, Goto, Locked
  <2>6. CASE Commit(a)
    <3>1. /\ offset[a] \in Nat
          /\ nextOffset' = offset[a] + 1
          /\ stored' = stored \cup {offset[a]}
          /\ live' = live \cup {offset[a]}
          /\ used' = used \cup {offset[a]}
      BY <2>6 DEF LogInv, Commit
    <3>2. \A b \in Appenders : pc'[b] \notin Locked
      BY <2>6 DEF LogInv, Commit, Goto, Locked
    <3>3. early' = early
      BY <1>0, <3>1 DEF LogInv
    <3>4. Healing => offset[a] = Head /\ Head \in Nat
      BY <2>6 DEF Healing, Commit, Head, LogInv
    <3>5. Healing => Healing'
      <4> SUFFICES ASSUME Healing PROVE Healing'
        OBVIOUS
      <4>0. offset[a] = Head /\ Head \in Nat
        BY <3>4
      <4>1. nextOffset' = Head + 1 /\ nextOffset' # 0
        BY <3>1, <4>0
      <4>2. Head' = Head + 1
        BY <4>1 DEF Head
      <4>3. \A x \in (0 .. Head - 1) \cup {Head} : x \in 0 .. Head' - 1
        BY <4>0, <4>2
      <4>4. stored' \subseteq 0 .. Head' - 1 /\ used' \subseteq 0 .. Head' - 1
        BY <3>1, <4>0, <4>3 DEF Healing
      <4> QED
        BY <3>2, <4>1, <4>4 DEF Healing, Locked
    <3>6. Healing => offset[a] \notin used
      BY <3>4 DEF Healing
    <3>7. LogInv'
      <4>1. /\ pc' \in [Appenders -> {"idle", "lock"} \cup Locked]
            /\ counter' \in [Appenders -> Nat]
            /\ offset' \in [Appenders -> Nat]
        BY <2>6 DEF LogInv, Commit, Goto
      <4>2. nextOffset' \in Nat /\ live' \subseteq stored' /\ IsFiniteSet(stored')
        BY <3>1, FS_AddElement DEF LogInv
      <4> QED
        BY <1>0, <3>2, <3>3, <3>5, <4>1, <4>2 DEF LogInv, Locked
    <3> QED
      BY <3>1, <3>6, <3>7 DEF LogInv, Goal
  <2>7. CASE Abort(a)
    BY <1>1, <2>7 DEF LogInv, Healing, Abort, Goto, Locked
  <2> QED
    BY <1>2, <2>1, <2>2, <2>3, <2>4, <2>5, <2>6, <2>7 DEF AppendStep
<1>3. ASSUME NEW o \in live, Age(o) PROVE Goal
  BY <1>1, <1>3 DEF LogInv, Healing, Age
<1>4. CASE Compact
  <2>1. /\ stored' = live /\ live' = live /\ stored' \subseteq stored
        /\ UNCHANGED <<nextOffset, used, pc, counter, offset>>
    BY <1>4 DEF Compact, LogInv
  <2>2. Healing /\ ~early' => Healing'
    <3> SUFFICES ASSUME Healing, ~early' PROVE Healing'
      OBVIOUS
    <3>1. nextOffset = 0 => stored' = stored
      BY <1>0, <2>1
    <3> QED
      BY <1>0, <2>1, <3>1 DEF Healing, Head
  <2>3. legacy = 0 => ~early'
    <3> SUFFICES ASSUME legacy = 0 PROVE ~early'
      OBVIOUS
    <3>1. ~early /\ Healing
      BY DEF LogInv
    <3>2. nextOffset = 0 => stored = {}
      BY <3>1 DEF Healing
    <3> QED
      BY <1>0, <3>1, <3>2
  <2>4. IsFiniteSet(stored')
    BY <2>1, FS_Subset DEF LogInv
  <2>5. LogInv'
    BY <1>0, <2>1, <2>2, <2>3, <2>4 DEF LogInv
  <2> QED
    BY <2>1, <2>5 DEF Goal
<1>5. CASE AskLatest \/ LatestCount \/ LatestMax \/ LatestRecount
  BY <1>1, <1>5 DEF LogInv, Healing, AskLatest, LatestCount, LatestMax, LatestRecount
<1>6. CASE UNCHANGED vars
  BY <1>1, <1>6 DEF LogInv, Healing, vars
<1> QED
  BY <1>2, <1>3, <1>4, <1>5, <1>6 DEF Next

\* A table without legacy rows: they lie below the counter, which is the offset
\* of the transaction that is about to commit.
LEMMA CounterIsHead ==
    ASSUME LogInv, legacy = 0
    PROVE  /\ nextOffset \in Nat
           /\ stored \subseteq 0 .. nextOffset - 1
           /\ \A a \in Appenders : pc[a] \in {"insert", "commit"} =>
                  offset[a] = nextOffset
BY DEF LogInv, Healing, Head

\* Every step is a step of EventStore's log or leaves it alone.
LEMMA NextIsLogStep ==
    ASSUME LogInv, [Next]_vars
    PROVE  [Log!StoreNext]_(Log!storeVars)
<1> USE DEF tables, locals, asking, Log!storeVars
<1>0. legacy' = legacy
  BY DEF Next, vars
<1>1. CASE legacy # 0
  BY <1>0, <1>1
<1>2. CASE legacy = 0
  <2>1. ASSUME UNCHANGED <<nextOffset, stored, live>>
        PROVE  [Log!StoreNext]_(Log!storeVars)
    BY <1>0, <2>1
  <2>2. ASSUME NEW a \in Appenders, Commit(a) PROVE Log!StoreNext
    <3>1. /\ offset[a] = nextOffset
          /\ nextOffset < MaxEvents
          /\ nextOffset' = nextOffset + 1
          /\ stored' = stored \cup {nextOffset}
          /\ live' = live \cup {nextOffset}
      BY <1>2, <2>2, CounterIsHead DEF LogInv, Commit, Locked
    <3>2. Log!AppendEvent
      BY <1>0, <1>2, <3>1 DEF Log!AppendEvent
    <3> QED
      BY <3>2 DEF Log!StoreNext
  <2>3. ASSUME NEW a \in Appenders,
               Begin(a) \/ Lock(a) \/ ReadCounter(a) \/ CountRows(a) \/ Insert(a) \/ Abort(a)
        PROVE  [Log!StoreNext]_(Log!storeVars)
    BY <2>1, <2>3 DEF Begin, Lock, ReadCounter, CountRows, Insert, Abort
  <2>4. ASSUME NEW o \in live, Age(o) PROVE Log!StoreNext
    <3>1. Log!Age(o)
      BY <1>0, <1>2, <2>4 DEF Age, Log!Age
    <3> QED
      BY <1>2, <3>1 DEF Log!StoreNext
  <2>5. CASE Compact
    <3>1. Log!Compact
      BY <1>0, <1>2, <2>5 DEF Compact, Log!Compact
    <3> QED
      BY <3>1 DEF Log!StoreNext
  <2>6. CASE AskLatest \/ LatestCount \/ LatestMax \/ LatestRecount \/ UNCHANGED vars
    BY <2>1, <2>6 DEF AskLatest, LatestCount, LatestMax, LatestRecount, vars
  <2> QED
    BY <2>2, <2>3, <2>4, <2>5, <2>6 DEF Next, AppendStep
<1> QED
  BY <1>1, <1>2

\* append()'s transaction of several statements implements the one-step append
\* of EventStore, whatever compaction, aging, rollbacks and other appends do in
\* between; it rests on the advisory lock (one transaction past it) and on the
\* counter being written in the transaction that inserts the row.
THEOREM PgImplementsLog == Spec => ImplementsLog
<1>1. Init => Log!StoreInit
  BY DEF Init, Log!StoreInit
<1>2. LogInv /\ [Next]_vars => [Log!StoreNext]_(Log!storeVars)
  BY NextIsLogStep
<1> QED
  BY <1>1, <1>2, InitLogInv, NextLogInv, PTL
     DEF Spec, ImplementsLog, Log!StoreSpec

\* No offset, and so no cursor, is ever given to two rows, on migrated tables
\* either, unless their rows were deleted before the first append committed.
THEOREM OffsetsAreFresh == Spec => CursorNeverReused
<1>1. LogInv /\ [Next]_vars =>
          [early \/ \A o \in stored' \ stored : o \notin used]_vars
  BY NextLogInv
<1> QED
  BY <1>1, InitLogInv, NextLogInv, PTL DEF Spec, CursorNeverReused

\* No append fails on the UNIQUE cursor column, under the same condition.
THEOREM NoAppendCollides == Spec => []NeverCollides
<1>1. LogInv => NeverCollides
  BY DEF LogInv, Healing, Head, NeverCollides, Contended, Locked
<1> QED
  BY <1>1, InitLogInv, NextLogInv, PTL DEF Spec

-----------------------------------------------------------------------------
(* _start_offset("latest") *)

\* The rows that were there when it was asked lie below the counter; past its
\* first statement the log has had an event; and what it has answered holds.
AskInv ==
    legacy = 0 =>
        /\ ask \in {"idle", "count", "max", "recount", "answered"}
        /\ latest \in Int
        /\ before \subseteq 0 .. nextOffset - 1
        /\ ask \in {"count", "max", "recount"} => latest = NoCursor
        /\ ask \in {"max", "recount"} => nextOffset > 0
        /\ LatestIsConsistent

LEMMA LeastNatural ==
    ASSUME NEW S \in SUBSET Nat, S # {}
    PROVE  \E m \in S : \A x \in S : m <= x
<1>1. IsWellFoundedOn(OpToRel(<, Nat), Nat)
  BY NatLessThanWellFounded
<1>2. PICK m \in S : \A y \in S : ~ (<<y, m>> \in OpToRel(<, Nat))
  BY <1>1, WFMin
<1>3. \A y \in S : ~ (y < m)
  BY <1>2 DEF OpToRel
<1> QED
  BY <1>3

\* max(cursor) of a table with rows is one of them and the largest.
LEMMA LastIsMax ==
    ASSUME NEW n \in Nat, NEW S \in SUBSET (0 .. n - 1), S # {}
    PROVE  Last(S) \in S /\ \A x \in S : x <= Last(S)
<1> DEFINE T == {n - x : x \in S}
<1>1. T \in SUBSET Nat /\ T # {}
  <2>1. \A x \in S : n - x \in Nat
    OBVIOUS
  <2>2. T \in SUBSET Nat
    BY <2>1
  <2>3. PICK x \in S : TRUE
    OBVIOUS
  <2> QED
    BY <2>2, <2>3
<1>2. PICK m \in T : \A y \in T : m <= y
  BY <1>1, LeastNatural
<1>3. PICK o \in S : m = n - o
  OBVIOUS
<1>4. \A x \in S : x <= o
  BY <1>2, <1>3
<1> QED
  BY <1>3, <1>4 DEF Last

LEMMA InitAskInv == Init => AskInv
BY DEF Init, AskInv, LatestIsConsistent, NoCursor

LEMMA NextAskInv == LogInv /\ AskInv /\ [Next]_vars => AskInv'
<1> SUFFICES ASSUME LogInv, AskInv, [Next]_vars PROVE AskInv'
  OBVIOUS
<1> USE DEF tables, asking
<1>a. legacy' = legacy
  BY DEF Next, vars
<1>b. CASE legacy # 0
  BY <1>a, <1>b DEF AskInv
<1>c. SUFFICES ASSUME legacy = 0 PROVE AskInv'
  BY <1>b
<1>0. legacy = 0 /\ legacy' = 0 /\ nextOffset \in Nat /\ stored \subseteq 0 .. nextOffset - 1
  BY <1>a, <1>c, CounterIsHead
<1>1. ASSUME NEW a \in Appenders, Commit(a) PROVE AskInv'
  <2>1. /\ nextOffset' = nextOffset + 1
        /\ stored' = stored \cup {nextOffset}
        /\ UNCHANGED <<ask, latest, before>>
    BY <1>1, <1>c, CounterIsHead DEF Commit
  <2>2. before \cap stored' \subseteq before \cap stored
    BY <1>0, <2>1 DEF AskInv
  <2> QED
    BY <1>0, <2>1, <2>2 DEF AskInv, LatestIsConsistent
<1>2. ASSUME stored' \subseteq stored, UNCHANGED <<nextOffset, asking>> PROVE AskInv'
  BY <1>0, <1>2 DEF AskInv, LatestIsConsistent
<1>3. ASSUME NEW a \in Appenders,
             Begin(a) \/ Lock(a) \/ ReadCounter(a) \/ CountRows(a) \/ Insert(a) \/ Abort(a)
      PROVE  AskInv'
  BY <1>2, <1>3 DEF Begin, Lock, ReadCounter, CountRows, Insert, Abort
<1>4. ASSUME NEW o \in live, Age(o) PROVE AskInv'
  BY <1>2, <1>4 DEF Age
<1>5. CASE Compact
  BY <1>2, <1>5 DEF Compact, LogInv
<1>6. CASE AskLatest
  BY <1>0, <1>6 DEF AskLatest, AskInv, LatestIsConsistent, NoCursor
<1>7. CASE LatestCount
  BY <1>0, <1>7 DEF LatestCount, AskInv, LatestIsConsistent, NoCursor
<1>8. CASE LatestMax
  <2>1. CASE stored = {}
    BY <1>0, <1>8, <2>1 DEF LatestMax, AskInv, LatestIsConsistent
  <2>2. CASE stored # {}
    <3>1. Last(stored) \in stored /\ \A x \in stored : x <= Last(stored)
      BY <1>0, <2>2, LastIsMax
    <3>2. /\ ask = "max" /\ ask' = "answered" /\ latest' = Last(stored)
          /\ UNCHANGED <<nextOffset, stored, before>>
      BY <1>8, <2>2 DEF LatestMax
    <3>3. Last(stored) \in 0 .. nextOffset - 1
      BY <1>0, <3>1
    <3>4. LatestIsConsistent'
      <4>1. \A o \in before' \cap stored' : o <= latest'
        BY <3>1, <3>2
      <4>2. latest' < nextOffset'
        BY <1>0, <3>2, <3>3
      <4> QED
        BY <4>1, <4>2 DEF LatestIsConsistent
    <3> QED
      BY <1>0, <3>2, <3>3, <3>4 DEF AskInv
  <2> QED
    BY <2>1, <2>2
<1>9. CASE LatestRecount
  BY <1>0, <1>9 DEF LatestRecount, AskInv, LatestIsConsistent, Max2
<1>10. CASE UNCHANGED vars
  BY <1>2, <1>10 DEF vars
<1> QED
  BY <1>1, <1>3, <1>4, <1>5, <1>6, <1>7, <1>8, <1>9, <1>10 DEF Next, AppendStep

\* The start offset of a "latest" subscription, put together by up to three
\* statements with appends and compactions in between, has no row above it that
\* was there before the call, and does not pass the head.
THEOREM LatestHolds == Spec => []LatestIsConsistent
<1>1. Spec => [](LogInv /\ AskInv)
  BY InitLogInv, NextLogInv, InitAskInv, NextAskInv, PTL DEF Spec
<1>2. AskInv => LatestIsConsistent
  BY DEF AskInv, LatestIsConsistent
<1> QED
  BY <1>1, <1>2, PTL
=============================================================================
