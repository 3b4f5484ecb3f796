---------------------------- MODULE ReplayProofs ----------------------------
(***************************************************************************)
(* Reading the log: what a page holds, for every log, window, limit, radix   *)
(* and width - and hence that the backends agree, that a lookup finds what is *)
(* live, and that following the log by pages skips nothing silently.          *)
(***************************************************************************)
EXTENDS Replay, Sequences, TLAPS, FiniteSetTheorems, WellFoundedInduction

LEMMA LeastNatural ==
    ASSUME NEW S \in SUBSET Nat, S # {}
    PROVE  \E m \in S : \A x \in S : m <= x
<1>1. IsWellFoundedOn(OpToRel(<, Nat), Nat)
  BY NatLessThanWellFounded
<1>2. PICK m \in S : \A y \in S : ~ (<<y, m>> \in OpToRel(<, Nat))
  BY <1>1, WFMin
<1>3. \A y \in S : ~ (y < m)
  BY <1>2 DEF OpToRel
<1> QED
  BY <1>3

-----------------------------------------------------------------------------
(* Filters *)

\* The loop of a filter over its fields returns a match exactly when every field
\* matches, and otherwise the verdict of a field that does not.
LEMMA FilterVerdict ==
    ASSUME NEW where, NEW n \in Nat, DOMAIN where = 1 .. n, NEW event
    PROVE  /\ MatchFieldFilter(where, event) \in {"match", "miss", "raise"}
           /\ MatchFieldFilter(where, event) = "match" <=>
                 \A i \in 1 .. n :
                     FieldVerdict(event, where[i].path, where[i].values) = "match"
<1> DEFINE verdict(i) == FieldVerdict(event, where[i].path, where[i].values)
           stops == {i \in 1 .. n : verdict(i) # "match"}
           first == CHOOSE i \in stops : \A j \in stops : i <= j
<1>1. MatchFieldFilter(where, event) = IF stops = {} THEN "match" ELSE verdict(first)
  BY DEF MatchFieldFilter
<1>2. \A i : verdict(i) \in {"match", "miss", "raise"}
  BY DEF FieldVerdict
<1> HIDE DEF verdict
<1>3. ASSUME stops # {} PROVE first \in stops
  <2>1. stops \in SUBSET Nat
    OBVIOUS
  <2>2. \E i \in stops : \A j \in stops : i <= j
    BY <1>3, <2>1, LeastNatural
  <2> QED BY <2>2
<1>4. stops = {} <=> \A i \in 1 .. n : verdict(i) = "match"
  OBVIOUS
<1>5. stops # {} => verdict(first) # "match"
  BY <1>3
<1> HIDE DEF stops, first
<1>6. MatchFieldFilter(where, event) = "match" <=> \A i \in 1 .. n : verdict(i) = "match"
  BY <1>1, <1>4, <1>5
<1>7. MatchFieldFilter(where, event) \in {"match", "miss", "raise"}
  BY <1>1, <1>2
<1> QED BY <1>6, <1>7 DEF verdict

\* A filter whose fields come back in the reverse order matches the same events.
LEMMA ReorderedVerdict ==
    ASSUME NEW sel, sel.type = "field_filter", HasFieldList(sel), NEW o
    PROVE  /\ VerdictOf(sel, o) \in {"match", "miss", "raise"}
           /\ VerdictOf(Reordered(sel), o) \in {"match", "miss", "raise"}
           /\ VerdictOf(sel, o) = "match" <=> VerdictOf(Reordered(sel), o) = "match"
<1> DEFINE event == Payloads[o % Cardinality(DOMAIN Payloads)]
           where == sel.where
           n     == FieldCount(sel)
           back  == [i \in DOMAIN where |-> where[n + 1 - i]]
           verdict(i) == FieldVerdict(event, where[i].path, where[i].values)
<1>1. n \in Nat /\ DOMAIN where = 1 .. n
  BY DEF HasFieldList, FieldCount
<1>2. DOMAIN back = 1 .. n /\ \A i \in 1 .. n : back[i] = where[n + 1 - i]
  BY <1>1
<1>3. VerdictOf(sel, o) = MatchFieldFilter(where, event)
  BY DEF VerdictOf, Matches
<1>4. VerdictOf(Reordered(sel), o) = MatchFieldFilter(back, event)
  BY DEF VerdictOf, Matches, Reordered, FieldFilter
<1> HIDE DEF event, where, back, n
<1>5. /\ MatchFieldFilter(where, event) \in {"match", "miss", "raise"}
      /\ MatchFieldFilter(where, event) = "match" <=> \A i \in 1 .. n : verdict(i) = "match"
  BY <1>1, FilterVerdict
<1>6. /\ MatchFieldFilter(back, event) \in {"match", "miss", "raise"}
      /\ MatchFieldFilter(back, event) = "match" <=>
            \A i \in 1 .. n : FieldVerdict(event, back[i].path, back[i].values) = "match"
  BY <1>1, <1>2, FilterVerdict
<1> HIDE DEF verdict
<1>7. \A i \in 1 .. n : FieldVerdict(event, back[i].path, back[i].values) = verdict(n + 1 - i)
  BY <1>2 DEF verdict
<1>8. \A i \in 1 .. n : n + 1 - i \in 1 .. n /\ n + 1 - (n + 1 - i) = i
  BY <1>1
<1>9. (\A i \in 1 .. n : verdict(i) = "match")
         <=> \A i \in 1 .. n : verdict(n + 1 - i) = "match"
  BY <1>8
<1> QED BY <1>3, <1>4, <1>5, <1>6, <1>7, <1>9

-----------------------------------------------------------------------------
(* Pages *)

\* The last of a bounded set.
LEMMA LastIsMax ==
    ASSUME NEW n \in Nat, NEW S \in SUBSET (0 .. n), S # {}
    PROVE  Last(S) \in S /\ \A x \in S : x <= Last(S)
<1> DEFINE T == {n - x : x \in S}
<1>1. T \in SUBSET Nat /\ T # {}
  <2>1. \A x \in S : n - x \in Nat
    OBVIOUS
  <2>2. T \in SUBSET Nat
    BY <2>1
  <2>3. PICK x \in S : TRUE
    OBVIOUS
  <2> QED BY <2>2, <2>3
<1>2. PICK m \in T : \A y \in T : m <= y
  BY <1>1, LeastNatural
<1>3. PICK o \in S : m = n - o
  OBVIOUS
<1>4. \A x \in S : x <= o
  BY <1>2, <1>3
<1> QED BY <1>3, <1>4 DEF Last

\* FirstN takes an initial segment.
LEMMA FirstNPrefix ==
    ASSUME NEW S \in SUBSET Int, IsFiniteSet(S), NEW n \in Nat,
           NEW x \in FirstN(S, n), NEW o \in S, o < x
    PROVE  o \in FirstN(S, n)
<1> DEFINE A == {y \in S : y < o}
           B == {y \in S : y < x}
<1>0. FirstN(S, n) = {z \in S : Cardinality({y \in S : y < z}) < n}
  BY DEF FirstN
<1>1. x \in S /\ Cardinality(B) < n
  BY <1>0
<1>2. A \subseteq B
  <2>1. x \in Int /\ o \in Int
    BY <1>1
  <2> SUFFICES ASSUME NEW y \in S, y < o PROVE y < x
    OBVIOUS
  <2> QED BY <2>1
<1>3. IsFiniteSet(B)
  BY FS_Subset
<1>4. IsFiniteSet(A) /\ Cardinality(A) <= Cardinality(B)
  BY <1>2, <1>3, FS_Subset
<1>5. Cardinality(A) \in Nat /\ Cardinality(B) \in Nat
  BY <1>3, <1>4, FS_CardinalityType
<1>6. Cardinality(A) < n
  BY <1>1, <1>4, <1>5
<1> QED BY <1>6 DEF FirstN

\* The page the in-memory loop builds once the cursor has passed the expiry test.
LoopPage(from, to, n) ==
    LET span == Span(from, to)
        out  == FirstN(span, n)
        more == \E o \in span : \A x \in out : o > x
    IN  Page(out, IF out # {} /\ Cardinality(out) >= n /\ more THEN Last(out) ELSE NoCursor)

LEMMA MemoryLoops ==
    ASSUME NEW from \in Int, NEW to \in Int, NEW n \in Nat \ {0}
    PROVE  ReadMemory(from, to, n) =
               IF CursorExpired(from) THEN Expired ELSE LoopPage(from, to, n)
<1>1. (IF n < 1 THEN 1 ELSE n) = n
  OBVIOUS
<1> QED BY <1>1 DEF ReadMemory, LoopPage

\* What such a page holds.
LEMMA PageHolds ==
    ASSUME StoreTypeOK, NEW from \in Int, NEW to \in Int, NEW n \in Nat \ {0}
    PROVE  LET answer == LoopPage(from, to, n)
           IN  /\ answer.kind = "page"
               /\ answer.events \subseteq Span(from, to)
               /\ \A x \in answer.events, o \in Span(from, to) :
                      o < x => o \in answer.events
               /\ \/ answer.next = NoCursor
                  \/ /\ answer.next \in answer.events
                     /\ \A x \in answer.events : x <= answer.next
<1> DEFINE span == Span(from, to)
           out  == FirstN(span, n)
           answer == LoopPage(from, to, n)
<1>1. nextOffset \in Nat /\ span \in SUBSET (0 .. nextOffset) /\ IsFiniteSet(span)
  <2>1. nextOffset \in Nat /\ live \subseteq 0 .. nextOffset - 1
    BY EventStoreAssumption DEF StoreTypeOK
  <2>2. span \in SUBSET (0 .. nextOffset)
    <3>1. span \subseteq live
      BY DEF Span
    <3>2. \A o \in 0 .. nextOffset - 1 : o \in 0 .. nextOffset
      BY <2>1
    <3> HIDE DEF span
    <3> QED BY <2>1, <3>1, <3>2
  <2>3. IsFiniteSet(0 .. nextOffset)
    BY <2>1, FS_Interval
  <2>4. IsFiniteSet(span)
    BY <2>2, <2>3, FS_Subset
  <2> QED BY <2>1, <2>2, <2>4
<1>2. /\ answer.kind = "page" /\ answer.events = out
      /\ answer.next = NoCursor \/ (out # {} /\ answer.next = Last(out))
  BY DEF LoopPage, Page
<1> HIDE DEF span, answer
<1>3. out \subseteq span /\ \A x \in out, o \in span : o < x => o \in out
  <2>1. out \subseteq span
    BY DEF FirstN
  <2>2. span \in SUBSET Int
    BY <1>1
  <2> QED BY <1>1, <2>1, <2>2, FirstNPrefix
<1>4. out # {} => Last(out) \in out /\ \A x \in out : x <= Last(out)
  BY <1>1, <1>3, LastIsMax
<1> HIDE DEF out
<1> QED BY <1>2, <1>3, <1>4 DEF span, answer

-----------------------------------------------------------------------------
(* The log under the reader *)

\* The window is an interval up to the log's end when events age in order.
WindowInv == OrderedAging => \A x \in live, o \in Nat : x <= o /\ o < nextOffset => o \in live

\* What holds of the log and of the subscription whatever the reader does.
LogInv ==
    /\ StoreTypeOK
    /\ WindowInv
    /\ selector \in SelectorSet

LEMMA NextWindow == StoreTypeOK /\ WindowInv /\ StoreNext => StoreTypeOK' /\ WindowInv'
<1> SUFFICES ASSUME StoreTypeOK, WindowInv, StoreNext PROVE StoreTypeOK' /\ WindowInv'
  OBVIOUS
<1>0. /\ nextOffset \in Nat /\ MaxEvents \in Nat /\ nextOffset <= MaxEvents
      /\ \A o \in stored : o \in Nat /\ o < nextOffset
      /\ live \subseteq stored
  BY EventStoreAssumption DEF StoreTypeOK
<1>1. CASE AppendEvent
  <2>1. /\ nextOffset' = nextOffset + 1 /\ nextOffset < MaxEvents
        /\ stored' = stored \cup {nextOffset} /\ live' = live \cup {nextOffset}
    BY <1>1 DEF AppendEvent
  <2>2. StoreTypeOK'
    BY <1>0, <2>1 DEF StoreTypeOK
  <2>3. WindowInv'
    <3> SUFFICES ASSUME OrderedAging, NEW x \in live', NEW o \in Nat, x <= o, o < nextOffset'
                 PROVE  o \in live'
      BY DEF WindowInv
    <3>1. CASE o = nextOffset
      BY <2>1, <3>1
    <3>2. CASE o # nextOffset
      <4>1. o < nextOffset /\ x \in live
        BY <1>0, <2>1, <3>2
      <4> QED BY <2>1, <4>1 DEF WindowInv
    <3> QED BY <3>1, <3>2
  <2> QED BY <2>2, <2>3
<1>2. ASSUME NEW o \in live, Age(o) PROVE StoreTypeOK' /\ WindowInv'
  <2>1. /\ live' = live \ {o} /\ UNCHANGED <<nextOffset, stored>>
        /\ OrderedAging => \A x \in live : o <= x
    BY <1>2 DEF Age
  <2>2. StoreTypeOK'
    BY <2>1 DEF StoreTypeOK
  <2>3. WindowInv'
    <3> SUFFICES ASSUME OrderedAging, NEW x \in live', NEW y \in Nat, x <= y, y < nextOffset'
                 PROVE  y \in live'
      BY DEF WindowInv
    <3>1. x \in live /\ x # o /\ o <= x /\ x \in Nat /\ o \in Nat
      BY <1>0, <2>1
    <3>2. y \in live /\ y # o
      BY <2>1, <3>1 DEF WindowInv
    <3> QED BY <2>1, <3>2
  <2> QED BY <2>2, <2>3
<1>3. CASE Compact
  BY <1>0, <1>3 DEF Compact, StoreTypeOK, WindowInv
<1> QED BY <1>1, <1>2, <1>3 DEF StoreNext

LEMMA LogIsTyped == Spec => []LogInv
<1>1. Init => LogInv
  BY EventStoreAssumption DEF Init, StoreInit, LogInv, StoreTypeOK, WindowInv
<1>2. LogInv /\ [Next]_vars => LogInv'
  <2> SUFFICES ASSUME LogInv, [Next]_vars PROVE LogInv'
    OBVIOUS
  <2>1. CASE LogStep
    BY <2>1, NextWindow DEF LogStep, LogInv, readerVars
  <2>2. CASE UNCHANGED <<storeVars, selector>>
    BY <2>2 DEF LogInv, StoreTypeOK, WindowInv, storeVars
  <2> QED
    BY <2>1, <2>2 DEF Next, ReplayPage, ReplayExpired, PgCheck, PgSelect, vars, readerVars
<1> QED BY <1>1, <1>2, PTL DEF Spec

\* A filter whose fields the store gives back in another order still matches the
\* same events: only a miss and an error can change places.
THEOREM OrderIsHarmless == Spec => []OrderOnlyDecidesErrors
<1>1. LogInv => OrderOnlyDecidesErrors
  <2> SUFFICES ASSUME LogInv, selector.type = "field_filter", NEW o \in Offsets,
                      VerdictOf(Reordered(selector), o) # Verdict(o)
               PROVE  {VerdictOf(Reordered(selector), o), Verdict(o)} = {"miss", "raise"}
    BY DEF OrderOnlyDecidesErrors
  <2>1. HasFieldList(selector)
    BY ReplayAssumption DEF LogInv
  <2>2. /\ VerdictOf(selector, o) \in {"match", "miss", "raise"}
        /\ VerdictOf(Reordered(selector), o) \in {"match", "miss", "raise"}
        /\ VerdictOf(selector, o) = "match" <=> VerdictOf(Reordered(selector), o) = "match"
    BY <2>1, ReorderedVerdict
  <2> QED BY <2>2 DEF Verdict
<1> QED BY <1>1, LogIsTyped, PTL

-----------------------------------------------------------------------------
(* Looking up one event *)

LEMMA FirstOfOne ==
    ASSUME NEW o \in Int, NEW S \in SUBSET {o}
    PROVE  FirstN(S, 1) = S
<1>1. \A z \in S : {x \in S : x < z} = {}
  <2>1. \A x, z \in S : ~(x < z)
    <3>1. \A x \in S : x = o
      OBVIOUS
    <3>2. ~(o < o)
      OBVIOUS
    <3> QED BY <3>1, <3>2, Zenon
  <2> QED BY <2>1, Zenon
<1>2. Cardinality({}) = 0
  BY FS_EmptySet
<1>3. \A z \in S : Cardinality({x \in S : x < z}) < 1
  BY <1>1, <1>2
<1> QED BY <1>3 DEF FirstN

\* The lookup of a single event finds it exactly as long as it is live, also when
\* the event before it has left the window and its cursor has expired.
THEOREM LookupFindsLive == Spec => []RecordAtFindsLive
<1>1. LogInv => RecordAtFindsLive
  <2> SUFFICES ASSUME LogInv, NEW o \in 0 .. MaxEvents
               PROVE  RecordAt(o) = (IF o \in live THEN o ELSE NoCursor)
    BY DEF RecordAtFindsLive
  <2> DEFINE from == IF o > 0 THEN o - 1 ELSE NoCursor
             first == ReadMemory(from, o, 1)
             second == ReadMemory(NoCursor, o, 1)
  <2>0. o \in Int /\ from = o - 1 /\ from \in Int /\ live \subseteq Int
    BY EventStoreAssumption DEF LogInv, StoreTypeOK, NoCursor
  <2>1. RecordAt(o) = IF o \in (IF first.kind = "expired" THEN second.events
                                ELSE first.events)
                      THEN o ELSE NoCursor
    BY DEF RecordAt
  <2>2. (IF 1 < 1 THEN 1 ELSE 1) = 1
    OBVIOUS
  <2> HIDE DEF from
  <2>3. CASE ~CursorExpired(from)
    <3>1. first.kind = "page" /\ first.events = FirstN(Span(from, o), 1)
      BY <2>2, <2>3 DEF ReadMemory, Page
    <3>2. Span(from, o) \in SUBSET {o} /\ (o \in Span(from, o) <=> o \in live)
      <4>1. \A x \in live : from < x /\ x <= o <=> x = o
        BY <2>0
      <4> QED BY <4>1, Zenon DEF Span
    <3>3. FirstN(Span(from, o), 1) = Span(from, o)
      BY <2>0, <3>2, FirstOfOne
    <3> HIDE DEF first
    <3> QED BY <2>1, <3>1, <3>2, <3>3
  <2>4. CASE CursorExpired(from)
    <3>1. first.kind = "expired"
      BY <2>4 DEF ReadMemory, Expired
    <3>2. ~CursorExpired(NoCursor)
      BY DEF CursorExpired
    <3>3. second.events = FirstN(Span(NoCursor, o), 1)
      BY <2>2, <3>2 DEF ReadMemory, Page
    <3>4. \A x \in live : o - 1 < x
      BY <2>0, <2>4 DEF CursorExpired
    <3>5. /\ Span(NoCursor, o) \in SUBSET {o}
          /\ o \in Span(NoCursor, o) <=> o \in live
      <4>1. \A x \in live : NoCursor < x /\ x <= o <=> x = o
        BY <2>0, <3>4 DEF NoCursor
      <4> QED BY <4>1, Zenon DEF Span
    <3>6. FirstN(Span(NoCursor, o), 1) = Span(NoCursor, o)
      BY <2>0, <3>5, FirstOfOne
    <3> HIDE DEF first, second
    <3> QED BY <2>1, <3>1, <3>3, <3>5, <3>6
  <2> QED BY <2>3, <2>4
<1> QED BY <1>1, LogIsTyped, PTL

-----------------------------------------------------------------------------
(* Cursors as strings *)

\* The recursive definition of Power has a solution: any two tables of powers
\* agree where both are defined, so the tables up to n, one for each n, make up
\* the whole function.
IsTable(f, n) ==
    /\ f \in [0 .. n -> Nat]
    /\ \A k \in 0 .. n : f[k] = IF k = 0 THEN 1 ELSE Radix * f[k - 1]

LEMMA TableExists == \A n \in Nat : \E f : IsTable(f, n)
<1> DEFINE Bad == {n \in Nat : ~ \E f : IsTable(f, n)}
<1> SUFFICES ASSUME Bad # {} PROVE FALSE
  OBVIOUS
<1>1. PICK n \in Bad : \A m \in Bad : n <= m
  BY LeastNatural
<1>2. CASE n = 0
  <2>1. IsTable([k \in 0 .. 0 |-> 1], 0)
    BY DEF IsTable
  <2> QED BY <1>2, <2>1
<1>3. CASE n # 0
  <2>1. n - 1 \in Nat /\ n - 1 \notin Bad
    BY <1>1, <1>3
  <2>2. PICK f : IsTable(f, n - 1)
    BY <2>1
  <2> DEFINE g == [k \in 0 .. n |-> IF k = n THEN Radix * f[n - 1] ELSE f[k]]
  <2>3. /\ f \in [0 .. n - 1 -> Nat]
        /\ \A k \in 0 .. n - 1 : f[k] = IF k = 0 THEN 1 ELSE Radix * f[k - 1]
    BY <2>2 DEF IsTable
  <2>4. f[n - 1] \in Nat /\ Radix * f[n - 1] \in Nat
    BY <2>1, <2>3, CursorAssumption
  <2>5. g \in [0 .. n -> Nat]
    BY <2>1, <2>3, <2>4
  <2>6. ASSUME NEW k \in 0 .. n PROVE g[k] = IF k = 0 THEN 1 ELSE Radix * g[k - 1]
    <3>1. CASE k = n
      BY <1>3, <2>1, <3>1
    <3>2. CASE k # n
      <4>1. k \in 0 .. n - 1 /\ (k # 0 => k - 1 \in 0 .. n /\ k - 1 # n)
        BY <2>1, <3>2
      <4>2. g[k] = f[k] /\ (k # 0 => g[k - 1] = f[k - 1])
        BY <3>2, <4>1
      <4> HIDE DEF g
      <4> QED BY <2>3, <4>1, <4>2
    <3> QED BY <3>1, <3>2
  <2> HIDE DEF g
  <2> QED BY <2>5, <2>6 DEF IsTable
<1> QED BY <1>2, <1>3

LEMMA TablesAgree ==
    ASSUME NEW m \in Nat, NEW n \in Nat, NEW f, NEW g, IsTable(f, m), IsTable(g, n)
    PROVE  \A k \in Nat : k <= m /\ k <= n => f[k] = g[k]
<1> DEFINE Bad == {k \in Nat : k <= m /\ k <= n /\ f[k] # g[k]}
<1> SUFFICES ASSUME Bad # {} PROVE FALSE
  OBVIOUS
<1>1. PICK k \in Bad : \A j \in Bad : k <= j
  BY LeastNatural
<1>2. k \in 0 .. m /\ k \in 0 .. n /\ f[k] # g[k]
  BY <1>1
<1>3. /\ f[k] = IF k = 0 THEN 1 ELSE Radix * f[k - 1]
      /\ g[k] = IF k = 0 THEN 1 ELSE Radix * g[k - 1]
  BY <1>2 DEF IsTable
<1>4. k # 0 => f[k - 1] = g[k - 1]
  <2> SUFFICES ASSUME k # 0 PROVE f[k - 1] = g[k - 1]
    OBVIOUS
  <2>1. k - 1 \in Nat /\ k - 1 <= m /\ k - 1 <= n /\ ~(k <= k - 1)
    BY <1>2
  <2> QED BY <1>1, <2>1
<1> QED BY <1>2, <1>3, <1>4

LEMMA PowerDef == Power = [n \in Nat |-> IF n = 0 THEN 1 ELSE Radix * Power[n - 1]]
<1> DEFINE table(n) == CHOOSE f : IsTable(f, n)
           F == [n \in Nat |-> table(n)[n]]
<1>1. \A n \in Nat : IsTable(table(n), n)
  BY TableExists
<1> HIDE DEF table
<1>2. ASSUME NEW n \in Nat PROVE F[n] = IF n = 0 THEN 1 ELSE Radix * F[n - 1]
  <2>1. table(n)[n] = IF n = 0 THEN 1 ELSE Radix * table(n)[n - 1]
    BY <1>1 DEF IsTable
  <2>2. n # 0 => n - 1 \in Nat /\ table(n)[n - 1] = table(n - 1)[n - 1]
    <3> SUFFICES ASSUME n # 0 PROVE n - 1 \in Nat /\ table(n)[n - 1] = table(n - 1)[n - 1]
      OBVIOUS
    <3>1. n - 1 \in Nat /\ n - 1 <= n /\ n - 1 <= n - 1
      OBVIOUS
    <3>2. IsTable(table(n), n) /\ IsTable(table(n - 1), n - 1)
      BY <1>1, <3>1
    <3> QED BY <3>1, <3>2, TablesAgree
  <2> QED BY <2>1, <2>2
<1>3. F = [n \in Nat |-> IF n = 0 THEN 1 ELSE Radix * F[n - 1]]
  BY <1>2
<1> HIDE DEF F
<1>4. \E f : f = [n \in Nat |-> IF n = 0 THEN 1 ELSE Radix * f[n - 1]]
  BY <1>3
<1> QED BY <1>4 DEF Power

LEMMA Powers ==
    /\ Power[0] = 1
    /\ \A n \in Nat : Power[n] \in Nat \ {0} /\ Power[n + 1] = Radix * Power[n]
<1>1. \A n \in Nat : Power[n] = IF n = 0 THEN 1 ELSE Radix * Power[n - 1]
  BY PowerDef
<1>2. Power[0] = 1
  BY <1>1
<1>3. \A n \in Nat : Power[n + 1] = Radix * Power[n]
  <2> TAKE n \in Nat
  <2>1. n + 1 \in Nat /\ n + 1 # 0 /\ n + 1 - 1 = n
    OBVIOUS
  <2> QED BY <1>1, <2>1
<1>4. \A n \in Nat : Power[n] \in Nat \ {0}
  <2> DEFINE Bad == {n \in Nat : Power[n] \notin Nat \ {0}}
  <2> SUFFICES ASSUME Bad # {} PROVE FALSE
    OBVIOUS
  <2>1. PICK n \in Bad : \A m \in Bad : n <= m
    BY LeastNatural
  <2>2. n # 0
    BY <1>2, <2>1
  <2>3. n - 1 \in Nat /\ ~(n <= n - 1)
    BY <2>2
  <2>4. Power[n - 1] \in Nat \ {0}
    BY <2>1, <2>3
  <2>5. Power[n] = Radix * Power[n - 1]
    BY <1>1, <2>2
  <2>6. \A r, p \in Nat \ {0} : r * p \in Nat \ {0}
    OBVIOUS
  <2> QED BY <2>4, <2>5, <2>6, CursorAssumption
<1> QED BY <1>2, <1>3, <1>4

\* The first k of the Width digits of a number, as a number.
Lead(o, k) == o \div Power[Width - k]

\* Each digit extends the number the digits before it make.
LEMMA LeadStep ==
    ASSUME NEW o \in Nat, NEW k \in 1 .. Width
    PROVE  /\ Lead(o, k) \in Nat /\ Lead(o, k - 1) \in Nat
           /\ Lead(o, k) = Radix * Lead(o, k - 1) + (Lead(o, k) % Radix)
           /\ Lead(o, k) % Radix \in 0 .. Radix - 1
<1>0. Radix \in Nat \ {0, 1} /\ Width \in Nat \ {0}
  BY CursorAssumption
<1>1. Width - k \in Nat /\ Width - (k - 1) = (Width - k) + 1
  BY <1>0
<1>2. Power[Width - k] \in Nat \ {0} /\ Power[Width - (k - 1)] = Radix * Power[Width - k]
  BY <1>1, Powers
<1>3. \A p, r \in Nat \ {0} : /\ o \div p \in Nat
                              /\ o \div (r * p) = (o \div p) \div r
  OBVIOUS
<1>4. Lead(o, k) \in Nat /\ Lead(o, k - 1) = Lead(o, k) \div Radix
  BY <1>0, <1>2, <1>3 DEF Lead
<1>5. \A l \in Nat, r \in Nat \ {0} : /\ l \div r \in Nat
                                      /\ l = r * (l \div r) + (l % r)
                                      /\ l % r \in 0 .. r - 1
  OBVIOUS
<1>6. /\ Lead(o, k) \div Radix \in Nat
      /\ Lead(o, k) = Radix * (Lead(o, k) \div Radix) + (Lead(o, k) % Radix)
      /\ Lead(o, k) % Radix \in 0 .. Radix - 1
  BY <1>0, <1>4, <1>5, Zenon
<1> QED BY <1>4, <1>6, Zenon

\* Two encodings of the full width compare at the first digit they differ in.
LEMMA PrecedesDef ==
    ASSUME NEW a \in [1 .. Width -> Int], NEW b \in [1 .. Width -> Int]
    PROVE  Precedes(a, b) <=>
              \E n \in 0 .. Width - 1 : (\A i \in 1 .. n : a[i] = b[i]) /\ a[n + 1] < b[n + 1]
<1>1. Width \in Nat \ {0}
  BY CursorAssumption
<1>2. Len(a) = Width /\ Len(b) = Width
  BY <1>1
<1>3. Precedes(a, b) <=>
         \E n \in 0 .. Width : /\ n < Width
                               /\ \A i \in 1 .. n : a[i] = b[i]
                               /\ n = Width \/ a[n + 1] < b[n + 1]
  BY <1>2 DEF Precedes
<1> QED BY <1>1, <1>3

LEMMA FullWidth ==
    ASSUME MaxEvents < Power[Width], NEW o \in 0 .. MaxEvents
    PROVE  /\ Code[o] \in [1 .. Width -> Int]
           /\ \A i \in 1 .. Width : Code[o][i] = Lead(o, i) % Radix
<1>0. Radix \in Nat \ {0, 1} /\ Width \in Nat \ {0} /\ o \in Nat /\ MaxEvents \in Nat
  BY CursorAssumption, EventStoreAssumption
<1>1. Power[Width] \in Nat /\ o < Power[Width]
  BY <1>0, Powers
<1>2. DigitsFrom(Width, o) = Width
  <2> DEFINE Fits(n) == o < Power[n] /\ \A k \in Width .. n - 1 : o >= Power[k]
  <2>1. DigitsFrom(Width, o) = CHOOSE n \in Width .. Width + o : Fits(n)
    BY DEF DigitsFrom
  <2>2. Width \in Width .. Width + o /\ Fits(Width)
    BY <1>0, <1>1
  <2>3. ASSUME NEW n \in Width .. Width + o, Fits(n) PROVE n = Width
    <3> SUFFICES ASSUME n # Width PROVE FALSE
      OBVIOUS
    <3>1. Width \in Width .. n - 1
      BY <1>0
    <3>2. o >= Power[Width]
      BY <2>3, <3>1
    <3> QED BY <1>0, <1>1, <3>2
  <2> HIDE DEF Fits
  <2> QED BY <2>1, <2>2, <2>3
<1>3. Code[o] = [i \in 1 .. Width |-> Lead(o, i) % Radix]
  BY <1>2 DEF Code, Encode, Digits, Lead
<1>4. \A i \in 1 .. Width : Lead(o, i) % Radix \in Int
  <2>1. \A i \in 1 .. Width : Lead(o, i) % Radix \in 0 .. Radix - 1
    BY <1>0, LeadStep
  <2> QED BY <1>0, <2>1
<1> QED BY <1>3, <1>4

\* As long as the offsets fit in the width, comparing cursors as strings is
\* comparing offsets: the first digit that differs decides both.
LEMMA SmallerPrecedes ==
    ASSUME MaxEvents < Power[Width], NEW a \in 0 .. MaxEvents, NEW b \in 0 .. MaxEvents, a < b
    PROVE  Precedes(Code[a], Code[b])
<1> DEFINE Differ == {k \in 0 .. Width : Lead(a, k) # Lead(b, k)}
<1>0. Radix \in Nat \ {0, 1} /\ Width \in Nat \ {0} /\ a \in Nat /\ b \in Nat
  BY CursorAssumption, EventStoreAssumption
<1>1. Lead(a, Width) = a /\ Lead(b, Width) = b
  <2>1. Width - Width = 0 /\ \A o \in Nat : o \div 1 = o
    BY <1>0
  <2> QED BY <1>0, <2>1, Powers DEF Lead
<1>2. Lead(a, 0) = 0 /\ Lead(b, 0) = 0
  <2>1. /\ Power[Width] \in Nat \ {0} /\ a < Power[Width] /\ b < Power[Width]
        /\ Width - 0 = Width
    BY <1>0, Powers, EventStoreAssumption
  <2>2. \A o \in Nat, p \in Nat \ {0} : o < p => o \div p = 0
    OBVIOUS
  <2> QED BY <1>0, <2>1, <2>2 DEF Lead
<1>3. PICK k \in Differ : \A j \in Differ : k <= j
  <2>1. Width \in Differ
    BY <1>0, <1>1
  <2>2. Differ \in SUBSET Nat /\ Differ # {}
    BY <1>0, <2>1
  <2> HIDE DEF Differ
  <2> QED BY <2>2, LeastNatural
<1>4. k \in 1 .. Width /\ k - 1 \in 0 .. Width - 1
  BY <1>0, <1>2, <1>3
<1>5. \A j \in 0 .. k - 1 : Lead(a, j) = Lead(b, j)
  BY <1>0, <1>3, <1>4
<1>6. Lead(a, k) < Lead(b, k)
  <2>1. Width - k \in Nat
    BY <1>0, <1>4
  <2>2. Power[Width - k] \in Nat \ {0}
    BY <2>1, Powers
  <2>3. \A p \in Nat \ {0} : a \div p <= b \div p /\ a \div p \in Nat /\ b \div p \in Nat
    BY <1>0
  <2>4. Lead(a, k) # Lead(b, k)
    BY <1>3
  <2>5. Lead(a, k) <= Lead(b, k) /\ Lead(a, k) \in Nat /\ Lead(b, k) \in Nat
    BY <2>2, <2>3 DEF Lead
  <2> QED BY <2>4, <2>5
<1>7. Lead(a, k) % Radix < Lead(b, k) % Radix
  <2>1. Lead(a, k - 1) = Lead(b, k - 1)
    BY <1>4, <1>5
  <2>2. /\ Lead(a, k) = Radix * Lead(a, k - 1) + (Lead(a, k) % Radix)
        /\ Lead(b, k) = Radix * Lead(b, k - 1) + (Lead(b, k) % Radix)
        /\ Lead(a, k - 1) \in Nat
        /\ Lead(a, k) % Radix \in 0 .. Radix - 1 /\ Lead(b, k) % Radix \in 0 .. Radix - 1
    BY <1>0, <1>4, LeadStep
  <2>3. \A la, lb, q, x, y \in Int : la = q + x /\ lb = q + y /\ la < lb => x < y
    OBVIOUS
  <2>4. Lead(a, k) \in Int /\ Lead(b, k) \in Int /\ Radix * Lead(a, k - 1) \in Int
        /\ Lead(a, k) % Radix \in Int /\ Lead(b, k) % Radix \in Int
    BY <1>0, <1>4, <2>2, LeadStep
  <2> QED BY <1>6, <2>1, <2>2, <2>3, <2>4, Zenon
<1>8. \A i \in 1 .. k - 1 : Code[a][i] = Code[b][i]
  <2>1. \A i \in 1 .. k - 1 : i \in 1 .. Width /\ i \in 0 .. k - 1
    BY <1>0, <1>4
  <2> QED BY <1>5, <2>1, FullWidth
<1>9. Code[a][(k - 1) + 1] < Code[b][(k - 1) + 1]
  <2>1. (k - 1) + 1 = k
    BY <1>4
  <2> QED BY <1>4, <1>7, <2>1, FullWidth
<1> QED BY <1>4, <1>8, <1>9, FullWidth, PrecedesDef

LEMMA StringOrder ==
    ASSUME MaxEvents < Power[Width], NEW a \in 0 .. MaxEvents, NEW b \in 0 .. MaxEvents
    PROVE  Precedes(Code[a], Code[b]) <=> a < b
<1>1. a \in Int /\ b \in Int /\ Width \in Nat
  BY EventStoreAssumption, CursorAssumption
<1>2. a < b => Precedes(Code[a], Code[b])
  BY SmallerPrecedes
<1>3. b < a => Precedes(Code[b], Code[a])
  BY SmallerPrecedes
<1>4. ASSUME NEW x \in [1 .. Width -> Int], NEW y \in [1 .. Width -> Int],
             Precedes(x, y), Precedes(y, x)
      PROVE  FALSE
  <2>1. PICK m \in 0 .. Width - 1 : (\A i \in 1 .. m : x[i] = y[i]) /\ x[m + 1] < y[m + 1]
    BY <1>4, PrecedesDef
  <2>2. PICK n \in 0 .. Width - 1 : (\A i \in 1 .. n : y[i] = x[i]) /\ y[n + 1] < x[n + 1]
    BY <1>4, PrecedesDef
  <2>3. x[m + 1] \in Int /\ y[m + 1] \in Int /\ x[n + 1] \in Int /\ y[n + 1] \in Int
    BY <1>1
  <2>4. m + 1 \in 1 .. n \/ n + 1 \in 1 .. m \/ m = n
    BY <1>1
  <2> QED BY <2>1, <2>2, <2>3, <2>4
<1>5. ~(Precedes(Code[a], Code[b]) /\ Precedes(Code[b], Code[a]))
  BY <1>4, FullWidth
<1>6. a = b => Code[a] = Code[b]
  OBVIOUS
<1> QED BY <1>1, <1>2, <1>3, <1>5, <1>6

-----------------------------------------------------------------------------
(* The two backends *)

Rank(S, x) == Cardinality({y \in S : y < x})

\* The members of a finite set of offsets have the ranks from 0 on, each one once.
LEMMA Ranks ==
    ASSUME NEW S \in SUBSET Int, IsFiniteSet(S)
    PROVE  /\ Cardinality(S) \in Nat
           /\ \A x \in S : Rank(S, x) \in Nat /\ Rank(S, x) < Cardinality(S)
           /\ \A x, z \in S : x < z => Rank(S, x) < Rank(S, z)
           /\ \A n \in Nat : n < Cardinality(S) => \E x \in S : Rank(S, x) = n
<1> DEFINE below(x) == {y \in S : y < x}
           N == Cardinality(S)
<1>1. N \in Nat /\ IsFiniteSet(1 .. N) /\ Cardinality(1 .. N) = N
  <2>1. N \in Nat
    BY FS_CardinalityType
  <2> QED BY <2>1, FS_Interval
<1>2. ASSUME NEW x \in S
      PROVE  /\ IsFiniteSet(below(x))
             /\ Rank(S, x) \in Nat /\ Rank(S, x) < N /\ Rank(S, x) = Cardinality(below(x))
  <2>1. below(x) \in SUBSET S /\ below(x) # S
    <3>1. ~(x < x)
      OBVIOUS
    <3> QED BY <3>1
  <2> HIDE DEF below
  <2>2. /\ IsFiniteSet(below(x))
        /\ Cardinality(below(x)) <= N
        /\ Cardinality(below(x)) # N
    BY <2>1, FS_Subset
  <2>3. Cardinality(below(x)) \in Nat
    BY <2>2, FS_CardinalityType
  <2> QED BY <1>1, <2>2, <2>3 DEF Rank, below
<1>3. ASSUME NEW x \in S, NEW z \in S, x < z PROVE Rank(S, x) < Rank(S, z)
  <2>1. below(x) \in SUBSET below(z) /\ below(x) # below(z)
    <3>1. \A y \in S : y < x => y < z
      BY <1>3
    <3>2. x \in below(z) /\ x \notin below(x)
      BY <1>3
    <3> QED BY <3>1, <3>2
  <2> HIDE DEF below
  <2>2. /\ Cardinality(below(x)) <= Cardinality(below(z))
        /\ Cardinality(below(x)) # Cardinality(below(z))
    BY <1>2, <2>1, FS_Subset
  <2> QED BY <1>2, <2>2
<1> DEFINE f == [x \in S |-> Rank(S, x) + 1]
<1> HIDE DEF below, N
<1>4. f \in Injection(S, 1 .. N)
  <2>1. f \in [S -> 1 .. N]
    BY <1>1, <1>2
  <2>2. ASSUME NEW x \in S, NEW z \in S, f[x] = f[z] PROVE x = z
    <3>1. Rank(S, x) = Rank(S, z)
      BY <1>2, <2>2
    <3>2. ~(x < z) /\ ~(z < x)
      BY <1>2, <1>3, <3>1
    <3> QED BY <3>2
  <2> QED BY <2>1, <2>2 DEF Injection, IsInjective
<1>5. f \in Surjection(S, 1 .. N)
  <2>1. Cardinality(S) = Cardinality(1 .. N)
    BY <1>1 DEF N
  <2> HIDE DEF f
  <2> QED BY <1>1, <1>4, <2>1, FS_Injection
<1>6. ASSUME NEW n \in Nat, n < N PROVE \E x \in S : Rank(S, x) = n
  <2>1. n + 1 \in 1 .. N
    BY <1>1, <1>6
  <2>2. PICK x \in S : f[x] = n + 1
    BY <1>5, <2>1 DEF Surjection
  <2> QED BY <1>2, <2>2
<1> QED BY <1>1, <1>2, <1>3, <1>6 DEF N

\* LIMIT n returns n rows, or all there are.
LEMMA FirstNSize ==
    ASSUME NEW S \in SUBSET Int, IsFiniteSet(S), NEW n \in Nat
    PROVE  /\ Cardinality(S) <= n => FirstN(S, n) = S
           /\ Cardinality(S) > n => Cardinality(FirstN(S, n)) = n
<1>0. /\ Cardinality(S) \in Nat
      /\ \A x \in S : Rank(S, x) \in Nat /\ Rank(S, x) < Cardinality(S)
      /\ \A x, z \in S : x < z => Rank(S, x) < Rank(S, z)
      /\ \A k \in Nat : k < Cardinality(S) => \E x \in S : Rank(S, x) = k
  BY Ranks
<1>1. FirstN(S, n) = {x \in S : Rank(S, x) < n}
  BY DEF FirstN, Rank
<1>2. ASSUME Cardinality(S) <= n PROVE FirstN(S, n) = S
  <2>1. \A x \in S : Rank(S, x) < n
    BY <1>0, <1>2
  <2> QED BY <1>1, <2>1
<1>3. ASSUME Cardinality(S) > n PROVE Cardinality(FirstN(S, n)) = n
  <2> DEFINE T == {x \in S : Rank(S, x) < n}
             f == [x \in T |-> Rank(S, x) + 1]
  <2>1. IsFiniteSet(1 .. n) /\ Cardinality(1 .. n) = n
    BY FS_Interval
  <2>2. ASSUME NEW x \in T
        PROVE  x \in S /\ Rank(S, x) \in Nat /\ Rank(S, x) < n /\ f[x] = Rank(S, x) + 1
    <3>1. x \in S /\ Rank(S, x) < n
      OBVIOUS
    <3> QED BY <1>0, <3>1
  <2>5. ASSUME NEW k \in 1 .. n PROVE \E x \in T : f[x] = k
    <3>1. k - 1 \in Nat /\ k - 1 < n /\ k - 1 < Cardinality(S) /\ (k - 1) + 1 = k
      BY <1>0, <1>3
    <3>2. PICK x \in S : Rank(S, x) = k - 1
      BY <1>0, <3>1
    <3>3. x \in T
      BY <3>1, <3>2
    <3>4. f[x] = Rank(S, x) + 1
      BY <2>2, <3>3
    <3> QED BY <3>1, <3>2, <3>3, <3>4
  <2>3. f \in [T -> 1 .. n]
    <3>1. \A x \in T : f[x] \in 1 .. n
      BY <2>2
    <3>2. f = [x \in T |-> f[x]]
      OBVIOUS
    <3> HIDE DEF f, T
    <3> QED BY <3>1, <3>2
  <2> HIDE DEF f, T
  <2>4. ASSUME NEW x \in T, NEW z \in T, f[x] = f[z] PROVE x = z
    <3>1. x \in S /\ z \in S /\ Rank(S, x) = Rank(S, z)
      BY <2>2, <2>4
    <3>2. ~(x < z) /\ ~(z < x)
      BY <1>0, <3>1
    <3> QED BY <3>1, <3>2
  <2>6. f \in Surjection(T, 1 .. n) /\ f \in Injection(T, 1 .. n)
    BY <2>3, <2>4, <2>5 DEF Injection, Surjection, IsInjective
  <2>7. IsFiniteSet(T)
    BY FS_Subset DEF T
  <2>8. Cardinality(1 .. n) = Cardinality(T)
    BY <2>6, <2>7, FS_Surjection
  <2> QED BY <1>1, <2>1, <2>8 DEF T
<1> QED BY <1>2, <1>3

\* The first n of the first n + 1 are the first n.
LEMMA FirstOfFirst ==
    ASSUME NEW S \in SUBSET Int, IsFiniteSet(S), NEW n \in Nat
    PROVE  FirstN(FirstN(S, n + 1), n) = FirstN(S, n)
<1> DEFINE rows == FirstN(S, n + 1)
<1>1. /\ rows = {x \in S : Rank(S, x) < n + 1}
      /\ FirstN(S, n) = {x \in S : Rank(S, x) < n}
      /\ FirstN(rows, n) = {x \in rows : Rank(rows, x) < n}
  BY DEF FirstN, Rank
<1>2. \A x \in S : Rank(S, x) \in Nat
  BY Ranks
<1>3. \A x \in rows, y \in S : y < x => y \in rows
  BY FirstNPrefix
<1> HIDE DEF rows
<1>4. ASSUME NEW x \in rows PROVE Rank(rows, x) = Rank(S, x)
  <2>1. {y \in rows : y < x} = {y \in S : y < x}
    BY <1>1, <1>3
  <2> QED BY <2>1 DEF Rank
<1>5. \A x \in S : Rank(S, x) < n => Rank(S, x) < n + 1
  BY <1>2
<1>6. ASSUME NEW x \in FirstN(rows, n) PROVE x \in FirstN(S, n)
  <2>1. x \in rows /\ Rank(rows, x) < n
    BY <1>1
  <2>2. x \in S /\ Rank(S, x) < n
    BY <1>1, <1>4, <2>1
  <2> QED BY <1>1, <2>2
<1>7. ASSUME NEW x \in FirstN(S, n) PROVE x \in FirstN(rows, n)
  <2>1. x \in S /\ Rank(S, x) < n
    BY <1>1
  <2>2. x \in rows
    BY <1>1, <1>5, <2>1
  <2> QED BY <1>1, <1>4, <2>1, <2>2
<1> QED BY <1>6, <1>7 DEF rows

\* A row is left over exactly when the in-memory loop, having filled its page,
\* sees an event beyond it.
LEMMA RowLeftOver ==
    ASSUME NEW S \in SUBSET Int, IsFiniteSet(S), NEW n \in Nat \ {0}
    PROVE  Cardinality(FirstN(S, n + 1)) <= n <=>
              ~ /\ FirstN(S, n) # {}
                /\ Cardinality(FirstN(S, n)) >= n
                /\ \E o \in S : \A x \in FirstN(S, n) : o > x
<1> DEFINE out  == FirstN(S, n)
           rows == FirstN(S, n + 1)
           more == \E o \in S : \A x \in out : o > x
<1>0. /\ Cardinality(S) \in Nat
      /\ \A x \in S : Rank(S, x) \in Nat
      /\ \A x, z \in S : x < z => Rank(S, x) < Rank(S, z)
      /\ \A k \in Nat : k < Cardinality(S) => \E x \in S : Rank(S, x) = k
  BY Ranks
<1>1. n \in Nat /\ n + 1 \in Nat /\ n < n + 1
  OBVIOUS
<1>2. /\ Cardinality(S) <= n => out = S
      /\ Cardinality(S) > n => Cardinality(out) = n
      /\ Cardinality(S) <= n + 1 => rows = S
      /\ Cardinality(S) > n + 1 => Cardinality(rows) = n + 1
  BY <1>1, FirstNSize
<1>3. \A x \in out : x \in S /\ Rank(S, x) < n
  BY DEF FirstN, Rank
<1> HIDE DEF out, rows
<1>4. CASE Cardinality(S) <= n
  <2>1. Cardinality(rows) <= n
    BY <1>0, <1>1, <1>2, <1>4
  <2>2. ~more
    BY <1>2, <1>4
  <2> QED BY <2>1, <2>2 DEF out, rows
<1>5. CASE Cardinality(S) > n
  <2>1. Cardinality(rows) \in Nat /\ Cardinality(rows) > n
    BY <1>0, <1>1, <1>2, <1>5
  <2>2. Cardinality(out) = n /\ out # {}
    <3>1. Cardinality({}) = 0
      BY FS_EmptySet
    <3> QED BY <1>2, <1>5, <3>1
  <2>3. more
    <3>1. PICK o \in S : Rank(S, o) = n
      BY <1>0, <1>1, <1>5
    <3>2. ASSUME NEW x \in out PROVE o > x
      <4>1. x \in S /\ Rank(S, x) < n /\ Rank(S, x) \in Nat
        BY <1>0, <1>3
      <4>2. ~(o < x) /\ o # x
        BY <1>0, <1>1, <3>1, <4>1
      <4>3. o \in Int /\ x \in Int
        BY <4>1
      <4> QED BY <4>2, <4>3
    <3> QED BY <3>2
  <2> QED BY <1>1, <2>1, <2>2, <2>3 DEF out, rows
<1> QED BY <1>0, <1>1, <1>4, <1>5

\* The SQL of the Postgres store, on cursors of the full width.
LEMMA RowsAreOffsets ==
    ASSUME MaxEvents < Power[Width], NEW S \in SUBSET (0 .. MaxEvents)
    PROVE  /\ \A n \in Nat : FirstRows(S, n) = FirstN(S, n)
           /\ S # {} => LastRow(S) = Last(S)
<1>0. MaxEvents \in Nat /\ S \in SUBSET Int
  BY EventStoreAssumption
<1>1. \A x, o \in S : Precedes(Code[x], Code[o]) <=> x < o
  BY StringOrder
<1>2. ASSUME NEW n \in Nat PROVE FirstRows(S, n) = FirstN(S, n)
  <2>1. \A o \in S : {x \in S : Precedes(Code[x], Code[o])} = {x \in S : x < o}
    BY <1>1
  <2> QED BY <2>1 DEF FirstRows, FirstN
<1>3. ASSUME S # {} PROVE LastRow(S) = Last(S)
  <2>1. Last(S) \in S /\ \A x \in S : x <= Last(S)
    BY <1>0, <1>3, LastIsMax
  <2>2. \A o \in S : (\A x \in S : ~Precedes(Code[o], Code[x])) <=> o = Last(S)
    <3>0. \A o, x \in S : o \in Int /\ x \in Int
      BY <1>0
    <3>1. ASSUME NEW o \in S PROVE (\A x \in S : ~(o < x)) <=> o = Last(S)
      <4>1. ASSUME \A x \in S : ~(o < x) PROVE o = Last(S)
        <5>1. ~(o < Last(S)) /\ o <= Last(S)
          BY <2>1, <4>1
        <5>2. \A i, j \in Int : ~(i < j) /\ i <= j => i = j
          OBVIOUS
        <5> QED BY <2>1, <3>0, <5>1, <5>2, Zenon
      <4>2. ASSUME o = Last(S), NEW x \in S PROVE ~(o < x)
        BY <2>1, <3>0, <4>2
      <4> QED BY <4>1, <4>2
    <3> QED BY <1>1, <3>1
  <2> DEFINE P(o) == \A x \in S : ~Precedes(Code[o], Code[x])
  <2>3. \E o \in S : P(o)
    BY <2>1, <2>2
  <2>4. LastRow(S) = CHOOSE o \in S : P(o)
    BY DEF LastRow
  <2>5. LastRow(S) \in S /\ P(LastRow(S))
    BY <2>3, <2>4
  <2> QED BY <2>2, <2>5
<1> QED BY <1>2, <1>3

LEMMA RowsAreTheSpan ==
    ASSUME MaxEvents < Power[Width], StoreTypeOK,
           NEW from \in NoCursor .. MaxEvents, NEW to \in 0 .. MaxEvents
    PROVE  /\ live \in SUBSET (0 .. MaxEvents)
           /\ RowsBetween(from, to) = Span(from, to)
           /\ RowExpired(from) <=> CursorExpired(from)
<1>0. MaxEvents \in Nat
  BY EventStoreAssumption
<1>1. live \in SUBSET (0 .. MaxEvents)
  <2>1. nextOffset \in 0 .. MaxEvents /\ live \subseteq 0 .. nextOffset - 1
    BY DEF StoreTypeOK
  <2> QED BY <1>0, <2>1
<1>2. from # NoCursor => from \in 0 .. MaxEvents
  BY <1>0 DEF NoCursor
<1>3. \A o \in live : (from # NoCursor => Precedes(Code[from], Code[o])) <=> from < o
  <2>1. CASE from = NoCursor
    BY <1>0, <1>1, <2>1 DEF NoCursor
  <2>2. CASE from # NoCursor
    BY <1>1, <1>2, <2>2, StringOrder
  <2> QED BY <2>1, <2>2
<1>4. \A o \in live : ~Precedes(Code[to], Code[o]) <=> o <= to
  <2>1. \A o \in live : Precedes(Code[to], Code[o]) <=> to < o
    BY <1>1, StringOrder
  <2> QED BY <1>0, <1>1, <2>1
<1>5. RowsBetween(from, to) = Span(from, to)
  BY <1>3, <1>4 DEF RowsBetween, Span
<1>6. RowExpired(from) <=> CursorExpired(from)
  BY <1>3 DEF RowExpired, CursorExpired
<1> QED BY <1>1, <1>5, <1>6

\* The page of the Postgres store is the one the in-memory loop builds.
LEMMA SelectLoops ==
    ASSUME MaxEvents < Power[Width], StoreTypeOK,
           NEW from \in NoCursor .. MaxEvents, NEW to \in 0 .. MaxEvents, NEW n \in Nat \ {0}
    PROVE  SelectPage(from, to, n) = LoopPage(from, to, n)
<1> DEFINE S    == Span(from, to)
           out  == FirstN(S, n)
           rows == FirstRows(RowsBetween(from, to), n + 1)
           records == FirstRows(rows, n)
           full == Cardinality(out) >= n
           more == \E o \in S : \A x \in out : o > x
<1>0. MaxEvents \in Nat /\ n \in Nat /\ n + 1 \in Nat
  BY EventStoreAssumption
<1>1. S \in SUBSET (0 .. MaxEvents) /\ S \in SUBSET Int /\ IsFiniteSet(S)
  <2>1. S \in SUBSET (0 .. MaxEvents)
    BY RowsAreTheSpan DEF Span
  <2>2. IsFiniteSet(0 .. MaxEvents)
    BY <1>0, FS_Interval
  <2> HIDE DEF S
  <2>3. IsFiniteSet(S)
    BY <2>1, <2>2, FS_Subset
  <2> QED BY <1>0, <2>1, <2>3
<1>2. RowsBetween(from, to) = S
  BY RowsAreTheSpan
<1> HIDE DEF S
<1>3. rows = FirstN(S, n + 1) /\ rows \in SUBSET (0 .. MaxEvents)
  <2>1. rows = FirstN(S, n + 1)
    BY <1>0, <1>1, <1>2, RowsAreOffsets
  <2> QED BY <1>1, <2>1 DEF FirstN
<1> HIDE DEF rows
<1>4. records = out
  <2>1. records = FirstN(rows, n)
    BY <1>0, <1>3, RowsAreOffsets
  <2> QED BY <1>0, <1>1, <1>3, <2>1, FirstOfFirst
<1>5. out \in SUBSET (0 .. MaxEvents)
  BY <1>1 DEF FirstN
<1>6. out # {} => LastRow(out) = Last(out)
  BY <1>5, RowsAreOffsets
<1>7. Cardinality(rows) <= n <=> ~(out # {} /\ full /\ more)
  BY <1>1, <1>3, RowLeftOver
<1>8. LoopPage(from, to, n) =
         Page(out, IF out # {} /\ full /\ more THEN Last(out) ELSE NoCursor)
  BY DEF LoopPage, S
<1>9. SelectPage(from, to, n) =
         IF Cardinality(rows) <= n THEN Page(records, NoCursor)
         ELSE IF records = {} THEN Failed
         ELSE Page(records, LastRow(records))
  BY DEF SelectPage, rows
<1> HIDE DEF out, records, full, more
<1>10. CASE Cardinality(rows) <= n
  BY <1>4, <1>7, <1>8, <1>9, <1>10
<1>11. CASE ~(Cardinality(rows) <= n)
  BY <1>4, <1>6, <1>7, <1>8, <1>9, <1>11
<1> QED BY <1>10, <1>11

\* One read, through either store.
LEMMA ReadsAgree ==
    ASSUME MaxEvents < Power[Width], StoreTypeOK,
           NEW from \in NoCursor .. MaxEvents, NEW to \in 0 .. MaxEvents, NEW n \in Nat \ {0}
    PROVE  ReadMemory(from, to, n) = ReadPostgres(from, to, n)
<1>1. from \in Int /\ to \in Int
  BY EventStoreAssumption DEF NoCursor
<1>2. ReadMemory(from, to, n) = IF CursorExpired(from) THEN Expired ELSE LoopPage(from, to, n)
  BY <1>1, MemoryLoops
<1>3. SelectPage(from, to, n) = LoopPage(from, to, n)
  BY SelectLoops
<1>4. RowExpired(from) <=> CursorExpired(from)
  BY RowsAreTheSpan
<1> QED BY <1>2, <1>3, <1>4 DEF ReadPostgres

\* As long as the offsets fit in the width of a cursor (16 digits, in the code),
\* the in-memory store, which compares numbers, loops and stops at the limit, and
\* the Postgres store, which compares strings and fetches a row too many, answer
\* every read of every log alike, on the same window.
THEOREM BackendsServeAlike ==
    ASSUME MaxEvents < Power[Width]
    PROVE  Spec => []BackendsAgree
<1>1. LogInv => BackendsAgree
  <2> SUFFICES ASSUME LogInv, NEW from \in NoCursor .. MaxEvents,
                      NEW to \in 0 .. MaxEvents, NEW n \in Limits
               PROVE  ReadMemory(from, to, n) = ReadPostgres(from, to, n)
    BY DEF BackendsAgree
  <2>1. StoreTypeOK /\ n \in Nat \ {0}
    BY ReplayAssumption DEF LogInv
  <2> QED BY <2>1, ReadsAgree
<1>2. Spec => []LogInv
  BY LogIsTyped
<1> QED BY <1>1, <1>2, PTL

-----------------------------------------------------------------------------
(* Following the log *)

\* A subscriber that starts over holds nothing and skips the expiry test, and only
\* the Postgres store answers a call in two statements.
FollowInv ==
    /\ TypeOK
    /\ WindowInv
    /\ position = NoCursor => got = {} /\ call = "idle"
    /\ backend = "memory" => call = "idle" /\ ~slipped

\* The next page, seen from the subscriber.
LEMMA FollowPage ==
    ASSUME FollowInv, HandOut(LoopPage(position, Unbounded, limit))
    PROVE  /\ position' \in NoCursor .. nextOffset - 1
           /\ got' \subseteq 0 .. nextOffset - 1
           /\ position' = NoCursor => got' = {}
           /\ \A o \in live : position < o /\ o <= position' /\ Verdict(o) = "match"
                 => o \in got'
           /\ \A a \in got' : a \in got \/ (a \in live /\ position < a)
           /\ got \subseteq got' /\ position <= position'
           /\ position' # position => live # {}
<1> DEFINE answer == LoopPage(position, Unbounded, limit)
           chosen == {o \in answer.events : Verdict(o) = "match"}
<1>0. /\ nextOffset \in Nat /\ MaxEvents \in Nat /\ nextOffset <= MaxEvents
      /\ position \in Int /\ NoCursor <= position /\ position < nextOffset
      /\ limit \in Nat \ {0} /\ Unbounded \in Int
      /\ live \subseteq 0 .. nextOffset - 1
  BY EventStoreAssumption, ReplayAssumption
     DEF FollowInv, TypeOK, StoreTypeOK, NoCursor, Unbounded
<1>1. /\ answer.kind = "page"
      /\ position' = IF answer.next # NoCursor THEN answer.next
                     ELSE IF chosen # {} THEN Last(chosen) ELSE position
      /\ got' = got \cup chosen
  BY DEF HandOut
<1>3. /\ answer.events \subseteq Span(position, Unbounded)
      /\ \A x \in answer.events, o \in Span(position, Unbounded) : o < x => o \in answer.events
      /\ \/ answer.next = NoCursor
         \/ /\ answer.next \in answer.events
            /\ \A x \in answer.events : x <= answer.next
  BY <1>0, PageHolds DEF FollowInv, TypeOK
<1> HIDE DEF answer
<1>4. Span(position, Unbounded) = {o \in live : position < o}
  <2>1. \A o \in live : o <= Unbounded
    BY <1>0 DEF Unbounded
  <2> QED BY <2>1 DEF Span
<1>7. /\ \A a \in answer.events : a \in live /\ position < a
      /\ \A a \in chosen : a \in answer.events
      /\ \A a \in live : a \in Nat /\ a < nextOffset /\ a \in 0 .. nextOffset
  <2>1. \A a \in answer.events : a \in live /\ position < a
    BY <1>3, <1>4
  <2>2. \A a \in live : a \in Nat /\ a < nextOffset /\ a \in 0 .. nextOffset
    BY <1>0
  <2> QED BY <2>1, <2>2
<1>5. chosen # {} => Last(chosen) \in chosen
  <2>1. chosen \in SUBSET (0 .. nextOffset)
    BY <1>7
  <2> HIDE DEF chosen
  <2> QED BY <1>0, <2>1, LastIsMax
<1>6. /\ position' = position \/ position' \in answer.events
      /\ position' = position => answer.next = NoCursor \/ answer.next = position
  <2>1. CASE answer.next # NoCursor
    BY <1>1, <1>3, <2>1
  <2>2. CASE answer.next = NoCursor /\ chosen # {}
    BY <1>1, <1>5, <1>7, <2>2
  <2>3. CASE answer.next = NoCursor /\ chosen = {}
    BY <1>1, <2>3
  <2> QED BY <2>1, <2>2, <2>3
<1>8. position <= position' /\ (position' # position => live # {} /\ position' \in Nat)
      /\ position' < nextOffset
  <2>1. CASE position' = position
    BY <1>0, <2>1
  <2>2. CASE position' \in answer.events
    <3>1. position' \in live /\ position < position'
      BY <1>7, <2>2
    <3>2. position' \in Nat /\ position' < nextOffset
      BY <1>7, <3>1
    <3> QED BY <1>0, <3>1, <3>2
  <2> QED BY <1>6, <2>1, <2>2
<1>9. ASSUME NEW o \in live, position < o, o <= position', Verdict(o) = "match"
      PROVE  o \in got'
  <2>1. position' \in answer.events /\ o \in Int
    BY <1>0, <1>6, <1>9
  <2>2. o \in Span(position, Unbounded)
    BY <1>4, <1>9
  <2>3. o \in answer.events
    <3>1. position' \in Int
      <4>1. position' \in live
        BY <1>7, <2>1
      <4> QED BY <1>7, <4>1
    <3>2. CASE o = position'
      BY <2>1, <3>2
    <3>3. CASE o # position'
      <4>1. o < position'
        BY <1>9, <2>1, <3>1, <3>3
      <4> QED BY <1>3, <2>1, <2>2, <4>1
    <3> QED BY <3>2, <3>3
  <2> QED BY <1>1, <1>9, <2>3
<1>10. position' \in NoCursor .. nextOffset - 1
  BY <1>0, <1>8 DEF NoCursor
<1>12. got' \subseteq 0 .. nextOffset - 1
  BY <1>0, <1>1, <1>7 DEF FollowInv, TypeOK
<1>13. position' = NoCursor => got' = {}
  <2> SUFFICES ASSUME position' = NoCursor PROVE got' = {}
    OBVIOUS
  <2>1. position' = position
    BY <1>0, <1>8 DEF NoCursor
  <2>2. chosen = {}
    <3> SUFFICES ASSUME chosen # {} PROVE FALSE
      OBVIOUS
    <3>1. Last(chosen) \in Nat
      BY <1>5, <1>7
    <3>2. answer.next = NoCursor
      BY <1>6, <2>1 DEF NoCursor
    <3> QED BY <1>1, <3>1, <3>2 DEF NoCursor
  <2> QED BY <1>1, <2>1, <2>2 DEF FollowInv
<1>11. \A a \in got' : a \in got \/ (a \in live /\ position < a)
  BY <1>1, <1>7
<1> QED BY <1>1, <1>8, <1>9, <1>10, <1>11, <1>12, <1>13

\* A page of either store, as the subscriber's step.
PageStep ==
    /\ HandOut(LoopPage(position, Unbounded, limit))
    /\ position = NoCursor \/ call = "checked" \/ ~CursorExpired(position)
    /\ call' = "idle"
    /\ UNCHANGED <<storeVars, selector, limit, backend, slipped>>

\* What a step of the subscriber is, on cursors of the full width.
ReaderStep ==
    \/ PageStep
    \/ /\ StartOver /\ call' = "idle"
       /\ UNCHANGED <<storeVars, selector, limit, backend>>
    \/ /\ backend = "postgres" /\ position # NoCursor /\ ~CursorExpired(position)
       /\ call' = "checked"
       /\ UNCHANGED <<storeVars, position, got, selector, limit, backend, slipped>>
    \/ call' = "idle" /\ UNCHANGED <<storeVars, position, got, selector, limit, backend, slipped>>

LEMMA ReaderSteps ==
    ASSUME MaxEvents < Power[Width], FollowInv,
           ReplayPage \/ ReplayExpired \/ PgCheck \/ PgSelect
    PROVE  ReaderStep
<1>0. /\ position \in NoCursor .. MaxEvents /\ position \in Int
      /\ Unbounded \in 0 .. MaxEvents /\ Unbounded \in Int
      /\ limit \in Nat \ {0} /\ StoreTypeOK
  BY EventStoreAssumption, ReplayAssumption
     DEF FollowInv, TypeOK, StoreTypeOK, NoCursor, Unbounded
<1>1. SelectPage(position, Unbounded, limit) = LoopPage(position, Unbounded, limit)
  BY <1>0, SelectLoops
<1>2. RowExpired(position) <=> CursorExpired(position)
  BY <1>0, RowsAreTheSpan
<1>3. ReadMemory(position, Unbounded, limit) =
          IF CursorExpired(position) THEN Expired ELSE LoopPage(position, Unbounded, limit)
  BY <1>0, MemoryLoops
<1>4. CASE ReplayPage
  <2>1. ~CursorExpired(position)
    BY <1>3, <1>4 DEF ReplayPage, HandOut, Expired
  <2>2. HandOut(LoopPage(position, Unbounded, limit))
    BY <1>3, <1>4, <2>1 DEF ReplayPage, HandOut, Raises
  <2> QED BY <1>4, <2>1, <2>2 DEF ReplayPage, ReaderStep, PageStep, FollowInv
<1>5. CASE ReplayExpired
  BY <1>5 DEF ReplayExpired, ReaderStep, FollowInv
<1>6. CASE PgCheck
  BY <1>2, <1>6 DEF PgCheck, ReaderStep
<1>7. CASE PgSelect
  <2>1. CASE HandOut(SelectPage(position, Unbounded, limit))
    <3>1. HandOut(LoopPage(position, Unbounded, limit))
      BY <1>1, <2>1 DEF HandOut, Raises
    <3> QED BY <1>7, <3>1 DEF PgSelect, ReaderStep, PageStep
  <2>2. CASE UNCHANGED <<position, got>>
    BY <1>7, <2>2 DEF PgSelect, ReaderStep
  <2> QED BY <1>7, <2>1, <2>2 DEF PgSelect
<1> QED BY <1>4, <1>5, <1>6, <1>7

\* The log and the reader keep their types whichever way events age.
LEMMA NextReader ==
    ASSUME MaxEvents < Power[Width]
    PROVE  FollowInv /\ [Next]_vars => FollowInv'
<1> SUFFICES ASSUME FollowInv, [Next]_vars PROVE FollowInv'
  OBVIOUS
<1>0. /\ nextOffset \in Nat /\ position \in Int /\ position < nextOffset
      /\ NoCursor <= position
      /\ \A a \in got : a \in Nat /\ a < nextOffset
  BY EventStoreAssumption DEF FollowInv, TypeOK, StoreTypeOK, NoCursor
<1>1. CASE LogStep
  <2>1. StoreTypeOK' /\ WindowInv'
    BY <1>1, NextWindow DEF LogStep, FollowInv, TypeOK
  <2>2. nextOffset' \in Nat /\ nextOffset <= nextOffset'
    BY <1>0, <1>1 DEF LogStep, StoreNext, AppendEvent, Age, Compact
  <2>3. UNCHANGED <<position, got, selector, limit, backend, call>>
    BY <1>1 DEF LogStep, readerVars
  <2>4. position \in NoCursor .. nextOffset' - 1
    <3>1. \A p \in Int, m, n \in Nat : NoCursor <= p /\ p < m /\ m <= n
              => p \in NoCursor .. n - 1
      BY DEF NoCursor
    <3> QED BY <1>0, <2>2, <3>1, Zenon
  <2>5. got \subseteq 0 .. nextOffset' - 1
    <3>1. \A a \in got : a \in 0 .. nextOffset' - 1
      BY <1>0, <2>2
    <3> QED BY <3>1
  <2>6. slipped' \in BOOLEAN /\ (backend = "memory" => ~slipped')
    BY <1>1, Zenon DEF LogStep, Slips, FollowInv, TypeOK
  <2> QED BY <2>1, <2>3, <2>4, <2>5, <2>6 DEF FollowInv, TypeOK
<1>2. CASE ReaderStep
  <2>1. CASE PageStep
    <3>1. /\ position' \in NoCursor .. nextOffset - 1
          /\ got' \subseteq 0 .. nextOffset - 1
          /\ position' = NoCursor => got' = {}
      BY <2>1, FollowPage DEF PageStep
    <3>2. call' = "idle" /\ UNCHANGED <<nextOffset, stored, live, selector, limit, backend, slipped>>
      BY <2>1 DEF PageStep, storeVars
    <3> QED BY <3>1, <3>2 DEF FollowInv, TypeOK, StoreTypeOK, WindowInv
  <2>2. CASE StartOver /\ call' = "idle" /\ UNCHANGED <<storeVars, selector, limit, backend>>
    <3>1. /\ position' = NoCursor /\ got' = {} /\ slipped' = FALSE /\ call' = "idle"
          /\ UNCHANGED <<nextOffset, stored, live, selector, limit, backend>>
      BY <2>2 DEF StartOver, storeVars
    <3>2. StoreTypeOK' /\ WindowInv'
      BY <3>1 DEF FollowInv, TypeOK, StoreTypeOK, WindowInv
    <3>3. position' \in NoCursor .. nextOffset' - 1
      BY <1>0, <3>1 DEF NoCursor
    <3>4. TypeOK'
      BY <3>1, <3>2, <3>3 DEF FollowInv, TypeOK
    <3> QED BY <3>1, <3>2, <3>4 DEF FollowInv
  <2>3. CASE /\ call' = "idle" \/ (call' = "checked" /\ backend = "postgres" /\ position # NoCursor)
             /\ UNCHANGED <<storeVars, position, got, selector, limit, backend, slipped>>
    <3>1. call' \in {"idle", "checked"}
      BY <2>3
    <3>2. UNCHANGED <<nextOffset, stored, live, position, got, selector, limit, backend, slipped>>
      BY <2>3 DEF storeVars
    <3>3. StoreTypeOK' /\ WindowInv'
      BY <3>2 DEF FollowInv, TypeOK, StoreTypeOK, WindowInv
    <3>4. TypeOK'
      BY <3>1, <3>2, <3>3 DEF FollowInv, TypeOK
    <3> QED BY <2>3, <3>2, <3>3, <3>4 DEF FollowInv
  <2> QED BY <1>2, <2>1, <2>2, <2>3 DEF ReaderStep
<1>3. CASE UNCHANGED vars
  BY <1>3 DEF vars, readerVars, storeVars, FollowInv, TypeOK, StoreTypeOK, WindowInv
<1> QED BY <1>1, <1>2, <1>3, ReaderSteps DEF Next

\* While a call stands between its two statements and the window has not slipped,
\* every event beyond the cursor is still there, or none is.
CoverInv ==
    call = "checked" /\ ~slipped =>
        \/ live = {}
        \/ \A o \in Nat : position < o /\ o < nextOffset => o \in live

LEMMA InitFollow == Init => FollowInv /\ NoSilentGap /\ CoverInv /\ NoLiveSkipped
<1> SUFFICES ASSUME Init PROVE FollowInv /\ NoSilentGap /\ CoverInv /\ NoLiveSkipped
  OBVIOUS
<1>1. /\ nextOffset = 0 /\ stored = {} /\ live = {} /\ position = NoCursor /\ got = {}
      /\ call = "idle" /\ slipped = FALSE
  BY DEF Init, StoreInit
<1>2. StoreTypeOK /\ WindowInv /\ position \in NoCursor .. nextOffset - 1
  BY <1>1, EventStoreAssumption DEF StoreTypeOK, WindowInv, NoCursor
<1>3. TypeOK
  BY <1>1, <1>2 DEF Init, TypeOK
<1> QED BY <1>1, <1>2, <1>3 DEF FollowInv, NoSilentGap, CoverInv, NoLiveSkipped

LEMMA ReaderIsTyped ==
    ASSUME MaxEvents < Power[Width]
    PROVE  Spec => []FollowInv
BY InitFollow, NextReader, PTL DEF Spec

\* A step of the subscriber, or of the log under it, opens no gap.
LEMMA NextGap ==
    ASSUME OrderedAging, MaxEvents < Power[Width]
    PROVE  FollowInv /\ NoSilentGap /\ CoverInv /\ [Next]_vars => NoSilentGap' /\ CoverInv'
<1> SUFFICES ASSUME FollowInv, NoSilentGap, CoverInv, [Next]_vars
             PROVE  NoSilentGap' /\ CoverInv'
  OBVIOUS
<1>0. /\ nextOffset \in Nat /\ position \in Int /\ position < nextOffset
      /\ \A o \in live : o \in Nat
      /\ \A a \in got : a \in Nat /\ a < nextOffset
  BY EventStoreAssumption DEF FollowInv, TypeOK, StoreTypeOK, NoCursor
<1>c. ~CursorExpired(position) /\ position # NoCursor =>
          live = {} \/ \A o \in Nat : position < o /\ o < nextOffset => o \in live
  <2> SUFFICES ASSUME ~CursorExpired(position), position # NoCursor, live # {},
                      NEW o \in Nat, position < o, o < nextOffset
               PROVE  o \in live
    OBVIOUS
  <2>1. PICK x \in live : ~(position < x)
    BY DEF CursorExpired
  <2>2. x <= o
    BY <1>0, <2>1
  <2> QED BY <2>2 DEF FollowInv, WindowInv
<1>1. CASE LogStep
  <2>1. UNCHANGED <<position, got, selector, call>> /\ (~slipped' => ~slipped /\ ~Slips)
    BY <1>1, Zenon DEF LogStep, readerVars
  <2>2. NoSilentGap'
    BY <2>1 DEF NoSilentGap, Verdict
  <2>3. CoverInv'
    <3> SUFFICES ASSUME call = "checked", ~slipped, ~Slips, live' # {},
                        NEW o \in Nat, position < o, o < nextOffset'
                 PROVE  o \in live'
      BY <2>1 DEF CoverInv
    <3>1. live # {} /\ \A x \in live \ live' : ~(position < x)
      BY DEF Slips
    <3>2. o < nextOffset => o \in live
      BY <3>1 DEF CoverInv
    <3>3. nextOffset' = nextOffset \/ (nextOffset' = nextOffset + 1 /\ nextOffset \in live')
      BY <1>1 DEF LogStep, StoreNext, AppendEvent, Age, Compact
    <3>4. CASE o < nextOffset
      BY <3>1, <3>2, <3>4
    <3>5. CASE ~(o < nextOffset)
      <4>1. o = nextOffset /\ nextOffset \in live'
        BY <1>0, <3>3, <3>5
      <4> QED BY <4>1
    <3> QED BY <3>4, <3>5
  <2> QED BY <2>2, <2>3
<1>2. CASE PageStep
  <2>1. /\ UNCHANGED <<selector, storeVars, slipped>> /\ call' = "idle"
        /\ position' \in NoCursor .. nextOffset - 1
        /\ \A o \in live : position < o /\ o <= position' /\ Verdict(o) = "match"
              => o \in got'
        /\ \A a \in got' : a \in got \/ (a \in live /\ position < a)
        /\ got \subseteq got' /\ position <= position'
        /\ position' # position => live # {}
    BY <1>2, FollowPage DEF PageStep
  <2>2. position' \in Int /\ position' < nextOffset
    BY <1>0, <2>1 DEF NoCursor
  <2>3. ASSUME ~slipped, NEW a \in got', NEW o \in a .. position', Verdict(o) = "match"
        PROVE  o \in got'
    <3>1. a \in Nat
      BY <1>0, <2>1
    <3>2. o \in Nat /\ a <= o /\ o <= position' /\ o < nextOffset
      BY <1>0, <2>2, <2>3, <3>1
    <3>3. CASE o <= position
      <4>1. a \in got
        BY <1>0, <2>1, <3>1, <3>2, <3>3
      <4>2. o \in a .. position
        BY <1>0, <3>1, <3>2, <3>3
      <4> QED BY <2>1, <2>3, <4>1, <4>2 DEF NoSilentGap
    <3>4. CASE position < o
      <4>1. o \in live
        <5>1. CASE a \in live
          BY <3>1, <3>2, <5>1 DEF FollowInv, WindowInv
        <5>2. CASE a \in got
          <6>1. position # NoCursor
            BY <5>2 DEF FollowInv
          <6>2. live # {}
            BY <1>0, <2>1, <2>2, <3>2, <3>4
          <6>3. call = "checked" \/ ~CursorExpired(position)
            BY <1>2, <6>1 DEF PageStep
          <6> QED BY <1>c, <2>3, <3>2, <3>4, <6>1, <6>2, <6>3 DEF CoverInv
        <5> QED BY <2>1, <5>1, <5>2
      <4> QED BY <2>1, <2>3, <3>2, <3>4, <4>1
    <3> QED BY <1>0, <3>2, <3>3, <3>4
  <2>4. NoSilentGap'
    BY <2>1, <2>3 DEF NoSilentGap, Verdict
  <2> QED BY <2>1, <2>4 DEF CoverInv
<1>3. CASE StartOver /\ call' = "idle"
  BY <1>3 DEF StartOver, NoSilentGap, CoverInv
<1>4. CASE /\ call' = "idle" \/ (call' = "checked" /\ position # NoCursor /\ ~CursorExpired(position))
           /\ UNCHANGED <<storeVars, position, got, selector, limit, backend, slipped>>
  BY <1>c, <1>4 DEF NoSilentGap, Verdict, CoverInv, storeVars
<1>5. CASE UNCHANGED vars
  BY <1>5 DEF vars, readerVars, storeVars, NoSilentGap, Verdict, CoverInv
<1>6. CASE ReaderStep
  BY <1>2, <1>3, <1>4, <1>6 DEF ReaderStep
<1> QED BY <1>1, <1>5, <1>6, ReaderSteps DEF Next

\* Following the log by pages never skips a matching event silently, while events
\* are appended, age in their order and are compacted between any two pages.  With
\* the in-memory store this holds without exception; with the Postgres store only
\* a window that slips past the cursor inside one call can open a gap.
THEOREM FollowingIsGapless ==
    ASSUME OrderedAging, MaxEvents < Power[Width]
    PROVE  Spec => [](NoSilentGap /\ (backend = "memory" => ~slipped))
<1>1. FollowInv => (backend = "memory" => ~slipped)
  BY DEF FollowInv
<1> QED BY <1>1, InitFollow, ReaderIsTyped, NextGap, PTL DEF Spec

\* Whatever happens between the statements of a read, and in whatever order events
\* age, the cursor passes no matching event that is still in the window without
\* handing it out.
THEOREM SkippedIsGone ==
    ASSUME MaxEvents < Power[Width]
    PROVE  Spec => []NoLiveSkipped
<1>1. FollowInv /\ NoLiveSkipped /\ [Next]_vars => NoLiveSkipped'
  <2> SUFFICES ASSUME FollowInv, NoLiveSkipped, [Next]_vars,
                      NEW o \in live', o <= position', Verdict(o)' = "match"
               PROVE  o \in got'
    BY DEF NoLiveSkipped
  <2>0. /\ nextOffset \in Nat /\ position \in Int /\ position < nextOffset
        /\ \A x \in live : x \in Nat
    BY EventStoreAssumption DEF FollowInv, TypeOK, StoreTypeOK, NoCursor
  <2>1. CASE LogStep
    <3>1. UNCHANGED <<position, got, selector>> /\ (o \in live \/ o = nextOffset)
      BY <2>1 DEF LogStep, readerVars, StoreNext, AppendEvent, Age, Compact
    <3>2. o \in live
      BY <2>0, <3>1
    <3> QED BY <3>1, <3>2 DEF NoLiveSkipped, Verdict
  <2>2. CASE PageStep
    <3>1. /\ UNCHANGED <<selector, live>>
          /\ \A x \in live : position < x /\ x <= position' /\ Verdict(x) = "match"
                => x \in got'
          /\ got \subseteq got'
      BY <2>2, FollowPage DEF PageStep, storeVars
    <3>2. o \in live /\ Verdict(o) = "match" /\ o \in Nat
      BY <2>0, <3>1 DEF Verdict
    <3>3. CASE o <= position
      BY <3>1, <3>2, <3>3 DEF NoLiveSkipped
    <3>4. CASE position < o
      BY <3>1, <3>2, <3>4
    <3> QED BY <2>0, <3>2, <3>3, <3>4
  <2>3. CASE StartOver /\ UNCHANGED storeVars
    BY <2>0, <2>3 DEF StartOver, storeVars, NoCursor
  <2>4. CASE UNCHANGED <<storeVars, position, got, selector>>
    BY <2>4 DEF storeVars, NoLiveSkipped, Verdict
  <2>5. CASE ReaderStep
    BY <2>2, <2>3, <2>4, <2>5 DEF ReaderStep
  <2> QED BY <2>1, <2>4, <2>5, ReaderSteps DEF Next, vars, readerVars
<1> QED BY <1>1, InitFollow, ReaderIsTyped, PTL DEF Spec
=============================================================================
