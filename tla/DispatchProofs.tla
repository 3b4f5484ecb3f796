--------------------------- MODULE DispatchProofs ---------------------------
(***************************************************************************)
(* Dispatch keeps its types and loses nothing, for every number of          *)
(* subscriptions, hosts, slots, workers, ack handlers, events and failures.  *)
(***************************************************************************)
EXTENDS Dispatch, TLAPS, FiniteSetTheorems

-----------------------------------------------------------------------------
(* Type correctness *)

LEMMA InitType == Init => TypeOK
<1> SUFFICES ASSUME Init PROVE TypeOK
    OBVIOUS
<1>1. StoreTypeOK
    BY EventStoreAssumption DEF Init, StoreInit, StoreTypeOK
<1>2. SubTypeOK /\ LogTypeOK
    BY DEF Init, SubTypeOK, LogTypeOK, Position, NoCursor
<1>3. (CHOOSE s \in Subs : TRUE) \in Subs
    BY DispatchAssumption
<1>4. QueueTypeOK
    BY <1>3, DispatchAssumption DEF Init, QueueTypeOK, Item, RetryIds
<1>5. LocalTypeOK
    BY DEF Init, LocalTypeOK, Position, NoCursor, NoJob, Labels
<1>6. \A p \in Procs : InHand(p)
    BY DEF Init, InHand, Delivering, Working
<1>7. failures \in 0 .. MaxFailures
    BY DispatchAssumption DEF Init
<1> QED BY <1>1, <1>2, <1>4, <1>5, <1>6, <1>7 DEF TypeOK

\* What Rest and NextItem leave behind is well typed.
LEMMA RestType ==
    ASSUME TypeOK, NEW p \in Procs, Rest(p)
    PROVE  LocalTypeOK' /\ \A q \in Procs : InHand(q)'
<1>1. LocalTypeOK'
    BY DEF TypeOK, LocalTypeOK, Rest, Goto, Labels, Position, NoCursor, NoJob
<1>2. \A q \in Procs : InHand(q)'
    BY DEF TypeOK, LocalTypeOK, InHand, Rest, Goto, Delivering, Working
<1> QED BY <1>1, <1>2

LEMMA NextItemType ==
    ASSUME TypeOK, NEW p \in Procs, NextItem(p)
    PROVE  LocalTypeOK' /\ \A q \in Procs : InHand(q)'
<1>1. LocalTypeOK'
    BY DEF TypeOK, LocalTypeOK, NextItem, Goto, Labels, Working, Position,
           NoCursor, NoJob
<1>2. \A q \in Procs : InHand(q)'
    BY DEF TypeOK, LocalTypeOK, InHand, NextItem, Goto, Delivering, Working
<1> QED BY <1>1, <1>2

LEMMA AccountingType ==
    ASSUME TypeOK, NEW p \in Procs, pc[p] \in Delivering, Accounting(p)
    PROVE  LocalTypeOK' /\ \A q \in Procs : InHand(q)'
<1>1. CASE p \in Dispatchers /\ Accounting(p)!1
  <2>1. LocalTypeOK'
    BY <1>1 DEF TypeOK, LocalTypeOK, InHand, Goto, Labels, Scanning,
                Position, NoCursor, NoJob
  <2>2. \A q \in Procs : InHand(q)'
    BY <1>1 DEF TypeOK, LocalTypeOK, InHand, Goto, Delivering, Working
  <2> QED BY <2>1, <2>2
<1>2. CASE Accounting(p)!2
  <2>1. LocalTypeOK'
    BY <1>2 DEF TypeOK, LocalTypeOK, Goto, Labels, Working, localVars
  <2>2. \A q \in Procs : InHand(q)'
    BY <1>2 DEF TypeOK, LocalTypeOK, InHand, Goto, Delivering, Working, localVars
  <2> QED BY <2>1, <2>2
<1>3. CASE Rest(p)
    BY <1>3, RestType
<1> QED BY <1>1, <1>2, <1>3 DEF Accounting

\* A step that leaves the processes alone.
LEMMA LocalFrameType ==
    ASSUME TypeOK, UNCHANGED <<pc, localVars>>
    PROVE  LocalTypeOK' /\ \A q \in Procs : InHand(q)'
<1>1. LocalTypeOK'
    BY DEF TypeOK, LocalTypeOK, localVars
<1>2. \A q \in Procs : InHand(q)'
    BY DEF TypeOK, InHand, localVars
<1> QED BY <1>1, <1>2

\* A step of process p that only moves its pc.
LEMMA GotoType ==
    ASSUME TypeOK, NEW p \in Procs, NEW l \in Labels, Goto(p, l),
           UNCHANGED localVars, pc[p] \notin {"idle", "batch"},
           l \in Delivering => pc[p] \in Delivering,
           l \notin Working
    PROVE  LocalTypeOK' /\ \A q \in Procs : InHand(q)'
<1>1. LocalTypeOK'
    BY DEF TypeOK, LocalTypeOK, localVars, Goto
<1>2. \A q \in Procs : InHand(q)'
    BY DEF TypeOK, LocalTypeOK, InHand, localVars, Goto
<1> QED BY <1>1, <1>2

LEMMA NextType == TypeOK /\ [Next]_vars => TypeOK'
<1> SUFFICES ASSUME TypeOK, [Next]_vars PROVE TypeOK'
    OBVIOUS
<1> USE DEF TypeOK
<1>1. CASE UNCHANGED vars
    BY <1>1, LocalFrameType
       DEF vars, envVars, storeVars, subVars, selVars, logVars, queueVars, tallies,
           StoreTypeOK, SubTypeOK, LogTypeOK, QueueTypeOK
<1>2. ASSUME NEW verdict \in [Subs -> Verdicts], Publish(verdict) PROVE TypeOK'
  <2>1. LocalTypeOK' /\ \A q \in Procs : InHand(q)'
    BY <1>2, LocalFrameType DEF Publish
  <2>2. StoreTypeOK' /\ nextOffset \in Nat
    <3>1. /\ nextOffset \in 0 .. MaxEvents /\ nextOffset < MaxEvents
          /\ nextOffset' = nextOffset + 1
      BY <1>2 DEF Publish, AppendEvent, StoreTypeOK
    <3>2. nextOffset \in Nat /\ nextOffset' \in 0 .. MaxEvents
      BY <3>1, EventStoreAssumption
    <3>3. stored' = stored \cup {nextOffset} /\ live' = live \cup {nextOffset}
      BY <1>2 DEF Publish, AppendEvent
    <3>4. 0 .. nextOffset' - 1 = 0 .. nextOffset
      BY <3>1, <3>2
    <3>5. stored' \subseteq 0 .. nextOffset' - 1
      <4>1. stored \subseteq 0 .. nextOffset - 1
        BY DEF StoreTypeOK
      <4>2. \A o \in 0 .. nextOffset - 1 : o \in 0 .. nextOffset
        BY <3>2
      <4>3. nextOffset \in 0 .. nextOffset
        BY <3>2
      <4> QED BY <3>3, <3>4, <4>1, <4>2, <4>3, Zenon
    <3>6. live' \subseteq stored'
      BY <3>3 DEF StoreTypeOK
    <3> QED BY <3>2, <3>5, <3>6 DEF StoreTypeOK
  <2>3. LogTypeOK'
    BY <1>2, <2>2 DEF Publish, LogTypeOK, logVars
  <2>4. SubTypeOK' /\ QueueTypeOK' /\ failures' \in 0 .. MaxFailures
    BY <1>2 DEF Publish, SubTypeOK, QueueTypeOK, subVars, queueVars, tallies
  <2> QED BY <2>1, <2>2, <2>3, <2>4
<1>3. CASE AgeOrCompact
  <2>1. LocalTypeOK' /\ \A q \in Procs : InHand(q)'
    BY <1>3, LocalFrameType DEF AgeOrCompact
  <2>2. StoreTypeOK'
    BY <1>3 DEF AgeOrCompact, Age, Compact, StoreTypeOK
  <2>3. SubTypeOK' /\ QueueTypeOK' /\ LogTypeOK' /\ failures' \in 0 .. MaxFailures
    BY <1>3 DEF AgeOrCompact, SubTypeOK, QueueTypeOK, LogTypeOK,
                subVars, queueVars, logVars, selVars, tallies
  <2> QED BY <2>1, <2>2, <2>3
<1>4. ASSUME NEW s \in Subs, Lifecycle(s) PROVE TypeOK'
  <2>1. LocalTypeOK' /\ \A q \in Procs : InHand(q)'
    BY <1>4, LocalFrameType
       DEF Lifecycle, CaptureStart, AddSubscription, Lapse, Expire, Renew, Delete,
           StatusStep, SetGrant
  <2>2. StoreTypeOK' /\ LogTypeOK' /\ QueueTypeOK' /\ failures' \in 0 .. MaxFailures
    BY <1>4
       DEF Lifecycle, CaptureStart, AddSubscription, Lapse, Expire, Renew, Delete,
           StatusStep, SetGrant, StoreTypeOK, LogTypeOK, QueueTypeOK,
           storeVars, logVars, selVars, queueVars, tallies
  <2>3. SubTypeOK'
    <3>1. ASSUME NEW from \in Offsets \cup {NoCursor}, CaptureStart(s, from)
          PROVE  SubTypeOK'
      BY <3>1, EventStoreAssumption
         DEF CaptureStart, SubTypeOK, Position, Offsets, NoCursor, tallies
    <3>2. CASE AddSubscription(s)
      BY <3>2 DEF AddSubscription, SubTypeOK, tallies
    <3>3. CASE Lapse(s) \/ Expire(s) \/ Renew(s) \/ Delete(s)
      BY <3>3 DEF Lapse, Expire, Renew, Delete, StatusStep, SubTypeOK, tallies
    <3>4. ASSUME NEW g \in BOOLEAN, SetGrant(s, g) PROVE SubTypeOK'
      BY <3>4 DEF SetGrant, SubTypeOK, tallies
    <3> QED BY <1>4, <3>1, <3>2, <3>3, <3>4 DEF Lifecycle
  <2> QED BY <2>1, <2>2, <2>3
<1>5. ASSUME NEW p \in Procs, Fail(p) PROVE TypeOK'
    BY <1>5, RestType, DispatchAssumption
       DEF Fail, envVars, storeVars, subVars, selVars, logVars, queueVars,
           StoreTypeOK, SubTypeOK, LogTypeOK, QueueTypeOK
<1>6. ASSUME NEW d \in Dispatchers, NEW s \in Subs, Begin(d, s) PROVE TypeOK'
  <2>1. d \in Procs /\ d \notin Workers
    BY DispatchAssumption DEF Procs
  <2>2. LocalTypeOK'
    BY <1>6, <2>1 DEF Begin, LocalTypeOK, Goto, Labels
  <2>3. \A q \in Procs : InHand(q)'
    BY <1>6, <2>1 DEF Begin, LocalTypeOK, InHand, Goto, Delivering, Working
  <2> QED
    BY <1>6, <2>2, <2>3
       DEF Begin, envVars, storeVars, subVars, selVars, logVars, queueVars, tallies,
           StoreTypeOK, SubTypeOK, LogTypeOK, QueueTypeOK
<1>7. ASSUME NEW d \in Dispatchers, CatchUpStep(d) PROVE TypeOK'
  <2>1. d \in Procs /\ d \notin Workers
    BY DispatchAssumption DEF Procs
  <2>2. StoreTypeOK' /\ SubTypeOK' /\ LogTypeOK' /\ QueueTypeOK'
        /\ failures' \in 0 .. MaxFailures
    <3>1. CASE PersistSet(d)
      <4>1. tgt[d] \in Subs /\ scan[d] \in Position
        BY <2>1, <3>1 DEF PersistSet, InHand, LocalTypeOK
      <4> QED
        BY <3>1, <4>1
           DEF PersistSet, envVars, storeVars, subVars, selVars, logVars, queueVars,
               tallies, StoreTypeOK, SubTypeOK, LogTypeOK, QueueTypeOK
    <3>2. CASE ~PersistSet(d)
      BY <1>7, <3>2
         DEF CatchUpStep, Acquire, ReadPosition, ReadPage, SkipRecord, SelectorRaises,
             StartDelivery, EndPage, PersistRead, envVars, storeVars, subVars, selVars,
             logVars, queueVars, tallies, StoreTypeOK, SubTypeOK, LogTypeOK, QueueTypeOK
    <3> QED BY <3>1, <3>2
  <2>3. LocalTypeOK' /\ \A q \in Procs : InHand(q)'
    <3>1. CASE Acquire(d)
      BY <2>1, <3>1, GotoType, "position" \in Labels
         DEF Acquire, Delivering, Working, Labels, Scanning
    <3>2. CASE ReadPosition(d)
      <4>1. LocalTypeOK'
        BY <2>1, <3>2 DEF ReadPosition, LocalTypeOK, SubTypeOK, InHand, Goto, Labels,
                          Scanning
      <4>2. \A q \in Procs : InHand(q)'
        BY <2>1, <3>2 DEF ReadPosition, LocalTypeOK, InHand, Goto, Delivering, Working
      <4> QED BY <4>1, <4>2
    <3>3. CASE ReadPage(d)
      <4>1. NextPage(scan[d]) \in SUBSET Nat
        <5>1. live \in SUBSET Nat
          BY EventStoreAssumption DEF StoreTypeOK
        <5> QED BY <5>1 DEF NextPage, FirstN
      <4>2. CASE Rest(d)
        BY <2>1, <4>2, RestType
      <4>3. CASE ~Rest(d)
        <5>1. LocalTypeOK'
          BY <2>1, <3>3, <4>1, <4>3 DEF ReadPage, LocalTypeOK, Goto, Labels, Scanning
        <5>2. \A q \in Procs : InHand(q)'
          BY <2>1, <3>3, <4>3
             DEF ReadPage, LocalTypeOK, InHand, Goto, Delivering, Working
        <5> QED BY <5>1, <5>2
      <4> QED BY <4>2, <4>3
    <3>4. CASE SkipRecord(d)
      <4>1. LocalTypeOK'
        BY <2>1, <3>4 DEF SkipRecord, IsNext, LocalTypeOK, Position
      <4>2. \A q \in Procs : InHand(q)'
        BY <2>1, <3>4 DEF SkipRecord, LocalTypeOK, InHand
      <4> QED BY <4>1, <4>2
    <3>5. CASE SelectorRaises(d)
      BY <2>1, <3>5, RestType DEF SelectorRaises
    <3>6. CASE StartDelivery(d)
      <4>1. LocalTypeOK'
        BY <2>1, <3>6 DEF StartDelivery, LocalTypeOK, Position, Goto, Labels, Delivering
      <4>2. \A q \in Procs : InHand(q)'
        BY <2>1, <3>6 DEF StartDelivery, LocalTypeOK, InHand, Goto, Delivering, Working
      <4> QED BY <4>1, <4>2
    <3>7. CASE EndPage(d)
      BY <2>1, <3>7, GotoType, "persistRead" \in Labels
         DEF EndPage, Delivering, Working, Labels, Scanning
    <3>8. CASE PersistRead(d)
      <4>1. LocalTypeOK'
        BY <2>1, <3>8 DEF PersistRead, LocalTypeOK, SubTypeOK, InHand, Goto, Labels,
                          Scanning
      <4>2. \A q \in Procs : InHand(q)'
        BY <2>1, <3>8 DEF PersistRead, LocalTypeOK, InHand, Goto, Delivering, Working
      <4> QED BY <4>1, <4>2
    <3>9. CASE PersistSet(d)
      <4>1. LocalTypeOK'
        BY <2>1, <3>9 DEF PersistSet, LocalTypeOK, Goto, Labels, Scanning, Position
      <4>2. \A q \in Procs : InHand(q)'
        BY <2>1, <3>9 DEF PersistSet, LocalTypeOK, InHand, Goto, Delivering, Working
      <4> QED BY <4>1, <4>2
    <3> QED
      BY <1>7, <3>1, <3>2, <3>3, <3>4, <3>5, <3>6, <3>7, <3>8, <3>9 DEF CatchUpStep
  <2> QED BY <2>2, <2>3
<1>8. ASSUME NEW p \in Procs, DeliveryStep(p) PROVE TypeOK'
  <2>1. /\ pc[p] \in Delivering
        /\ tgt[p] \in Subs
        /\ off[p] \in Nat
    BY <1>8
       DEF DeliveryStep, SendAcked, SendRefused, SendFailed, RecordDelivered,
           AdvanceCursor, AdvanceRead, AdvanceSet, RecordDead, Enqueue, HandOff,
           InHand, Delivering
  <2>2. StoreTypeOK' /\ failures' \in 0 .. MaxFailures
    BY <1>8
       DEF DeliveryStep, SendAcked, SendRefused, SendFailed, RecordDelivered,
           AdvanceCursor, AdvanceRead, AdvanceSet, RecordDead, Enqueue, HandOff,
           StoreTypeOK, envVars, storeVars, tallies
  <2>3. SubTypeOK'
    BY <1>8, <2>1
       DEF DeliveryStep, SendAcked, SendRefused, SendFailed, RecordDelivered,
           AdvanceCursor, AdvanceRead, AdvanceSet, RecordDead, Enqueue, HandOff,
           SubTypeOK, Position, Max2, envVars, subVars, tallies
  <2>4. LogTypeOK'
    BY <1>8, <2>1
       DEF DeliveryStep, SendAcked, SendRefused, SendFailed, RecordDelivered,
           AdvanceCursor, AdvanceRead, AdvanceSet, RecordDead, Enqueue, HandOff,
           LogTypeOK, envVars, selVars, logVars
  <2>5. QueueTypeOK'
    <3>1. CASE Enqueue(p)
      <4>1. [sub |-> tgt[p], off |-> off[p], attempt |-> 1] \in Item
        BY <2>1 DEF Item
      <4>2. nextRetry \in RetryIds /\ nextRetry' \in 0 .. MaxRetries
        BY <3>1, DispatchAssumption DEF Enqueue, QueueTypeOK, RetryIds
      <4>3. item' \in [RetryIds -> Item]
        BY <3>1, <4>1, <4>2 DEF Enqueue, QueueTypeOK
      <4>4. pending' \subseteq 0 .. nextRetry' - 1 /\ due' \subseteq pending'
        BY <3>1, DispatchAssumption DEF Enqueue, QueueTypeOK
      <4> QED BY <4>2, <4>3, <4>4 DEF QueueTypeOK
    <3>2. CASE ~Enqueue(p)
      BY <1>8, <3>2
         DEF DeliveryStep, SendAcked, SendRefused, SendFailed, RecordDelivered,
             AdvanceCursor, AdvanceRead, AdvanceSet, RecordDead, HandOff,
             QueueTypeOK, queueVars
    <3> QED BY <3>1, <3>2
  <2>6. LocalTypeOK' /\ \A q \in Procs : InHand(q)'
    <3>1. CASE SendAcked(p) \/ SendRefused(p) \/ RecordDelivered(p)
               \/ AdvanceCursor(p) \/ RecordDead(p) \/ Enqueue(p)
      BY <2>1, <3>1, GotoType
         DEF SendAcked, SendRefused, RecordDelivered, AdvanceCursor, RecordDead,
             Enqueue, Delivering, Working, Labels
    <3>2. ASSUME NEW reached \in BOOLEAN, SendFailed(p, reached)
          PROVE  LocalTypeOK' /\ \A q \in Procs : InHand(q)'
      <4>1. LocalTypeOK'
        BY <2>1, <3>2 DEF SendFailed, LocalTypeOK, Goto, Labels, Delivering, Working
      <4>2. \A q \in Procs : InHand(q)'
        BY <2>1, <3>2, DispatchAssumption
           DEF SendFailed, LocalTypeOK, InHand, Goto, Delivering, Working
      <4> QED BY <4>1, <4>2
    <3>3. CASE AdvanceRead(p)
      <4>1. LocalTypeOK'
        BY <2>1, <3>3 DEF AdvanceRead, LocalTypeOK, SubTypeOK, Goto, Labels, Delivering
      <4>2. \A q \in Procs : InHand(q)'
        BY <2>1, <3>3 DEF AdvanceRead, LocalTypeOK, InHand, Goto, Delivering, Working
      <4> QED BY <4>1, <4>2
    <3>4. CASE AdvanceSet(p) \/ HandOff(p)
      BY <2>1, <3>4, AccountingType DEF AdvanceSet, HandOff
    <3> QED BY <1>8, <3>1, <3>2, <3>3, <3>4 DEF DeliveryStep
  <2> QED BY <2>2, <2>3, <2>4, <2>5, <2>6
<1>9. ASSUME NEW r \in RetryIds, FallDue(r) PROVE TypeOK'
    BY <1>9, LocalFrameType
       DEF FallDue, envVars, storeVars, subVars, selVars, logVars, tallies,
           StoreTypeOK, SubTypeOK, LogTypeOK, QueueTypeOK
<1>10. ASSUME NEW w \in Workers, Claim(w) PROVE TypeOK'
  <2>1. w \in Procs
    BY DEF Procs
  <2>2. {[id |-> r, attempt |-> item[r].attempt] : r \in due}
            \in SUBSET [id : RetryIds, attempt : Nat]
    <3>1. \A r \in due : r \in RetryIds
      BY DispatchAssumption DEF QueueTypeOK, RetryIds
    <3>2. \A r \in due : item[r].attempt \in Nat
      BY <3>1 DEF QueueTypeOK, Item
    <3> QED BY <3>1, <3>2
  <2>3. LocalTypeOK'
    BY <1>10, <2>1, <2>2 DEF Claim, LocalTypeOK, Goto, Labels, Working
  <2>4. \A q \in Procs : InHand(q)'
    BY <1>10, <2>1 DEF Claim, LocalTypeOK, InHand, Goto, Delivering, Working
  <2> QED
    BY <1>10, <2>3, <2>4
       DEF Claim, envVars, storeVars, subVars, selVars, logVars, tallies,
           StoreTypeOK, SubTypeOK, LogTypeOK, QueueTypeOK
<1>11. ASSUME NEW w \in Workers, WorkerStep(w) PROVE TypeOK'
  <2>1. w \in Procs
    BY DEF Procs
  <2>2. StoreTypeOK' /\ SubTypeOK' /\ failures' \in 0 .. MaxFailures
    BY <1>11
       DEF WorkerStep, TakeItem, EndBatch, DropItem, LoadRecord, Reschedule, Complete,
           StoreTypeOK, SubTypeOK, envVars, storeVars, subVars, tallies
  <2>3. LogTypeOK'
    BY <1>11, <2>1
       DEF WorkerStep, TakeItem, EndBatch, DropItem, LoadRecord, Reschedule, Complete,
           LogTypeOK, InHand, Working, envVars, selVars, logVars
  <2>4. QueueTypeOK'
    <3>1. CASE Reschedule(w)
      <4>1. job[w] \in RetryIds /\ att[w] \in Nat
        BY <2>1, <3>1 DEF Reschedule, InHand, Working, LocalTypeOK
      <4>2. item' \in [RetryIds -> Item]
        BY <3>1, <4>1 DEF Reschedule, QueueTypeOK, Item
      <4> QED BY <3>1, <4>2 DEF Reschedule, QueueTypeOK
    <3>2. CASE ~Reschedule(w)
      BY <1>11, <3>2
         DEF WorkerStep, TakeItem, EndBatch, DropItem, LoadRecord, Complete,
             QueueTypeOK, queueVars
    <3> QED BY <3>1, <3>2
  <2>5. LocalTypeOK' /\ \A q \in Procs : InHand(q)'
    <3>1. CASE TakeItem(w)
      <4> PICK c \in batch[w] :
              /\ batch' = [batch EXCEPT ![w] = @ \ {c}]
              /\ job' = [job EXCEPT ![w] = c.id]
              /\ att' = [att EXCEPT ![w] = c.attempt]
              /\ tgt' = [tgt EXCEPT ![w] = item[c.id].sub]
              /\ off' = [off EXCEPT ![w] = item[c.id].off]
              /\ Goto(w, IF status[item[c.id].sub] \in {"active", "lapsed"}
                         THEN "load" ELSE "drop")
        BY <3>1 DEF TakeItem
      <4>1. /\ c.id \in RetryIds
            /\ c.attempt \in Nat
            /\ item[c.id].sub \in Subs
            /\ item[c.id].off \in Nat
        BY <2>1 DEF LocalTypeOK, QueueTypeOK, Item
      <4>2. pc'[w] \in {"load", "drop"}
        BY <2>1 DEF Goto, LocalTypeOK
      <4>3. LocalTypeOK'
        BY <2>1, <3>1, <4>1 DEF TakeItem, LocalTypeOK, Goto, Labels, Working, Position
      <4>4. \A q \in Procs : InHand(q)'
        BY <2>1, <3>1, <4>1, <4>2
           DEF TakeItem, LocalTypeOK, InHand, Goto, Delivering, Working
      <4> QED BY <4>3, <4>4
    <3>2. CASE EndBatch(w)
      BY <2>1, <3>2, RestType DEF EndBatch
    <3>3. CASE DropItem(w) \/ Reschedule(w) \/ Complete(w)
      BY <2>1, <3>3, NextItemType DEF DropItem, Reschedule, Complete
    <3>4. CASE LoadRecord(w)
      <4>1. LocalTypeOK'
        BY <2>1, <3>4 DEF LoadRecord, LocalTypeOK, Goto, Labels, Delivering, Working
      <4>2. \A q \in Procs : InHand(q)'
        BY <2>1, <3>4 DEF LoadRecord, LocalTypeOK, InHand, Goto, Delivering, Working
      <4> QED BY <4>1, <4>2
    <3> QED BY <1>11, <3>1, <3>2, <3>3, <3>4 DEF WorkerStep
  <2> QED BY <2>2, <2>3, <2>4, <2>5
<1>12. ASSUME NEW a \in Ackers, NEW s \in Subs, NEW o \in Offsets, Ack(a, s, o)
       PROVE  TypeOK'
  <2>1. a \in Procs /\ a \notin Workers /\ o \in Nat
    BY DispatchAssumption, EventStoreAssumption DEF Procs, Offsets
  <2>2. LocalTypeOK'
    BY <1>12, <2>1 DEF Ack, LocalTypeOK, Goto, Labels, Delivering, Position
  <2>3. \A q \in Procs : InHand(q)'
    BY <1>12, <2>1 DEF Ack, LocalTypeOK, InHand, Goto, Delivering, Working
  <2>4. SubTypeOK'
    BY <1>12, <2>1 DEF Ack, SubTypeOK, Position, Max2, envVars, subVars
  <2> QED
    BY <1>12, <2>2, <2>3, <2>4
       DEF Ack, envVars, storeVars, selVars, logVars, queueVars, StoreTypeOK,
           LogTypeOK, QueueTypeOK
<1> QED
    BY <1>1, <1>2, <1>3, <1>4, <1>5, <1>6, <1>7, <1>8, <1>9, <1>10, <1>11, <1>12
       DEF Next

\* Every reachable state is well typed, and a process never reaches a step of the
\* code without the subscription, event and retry item that step works on.
THEOREM TypeCorrect == Spec => []TypeOK
BY InitType, NextType, PTL DEF Spec

-----------------------------------------------------------------------------
(* The inductive invariant behind NoLoss *)

\* The steps at which the event in hand is not yet accounted for, and those at
\* which it is.
Undecided == {"send", "delivered", "dead", "enqueue"}
Decided   == {"cursor", "advRead", "advSet", "handoff"}

\* The page a catch-up still has to work off leaves out no live event between
\* its scan position and any event of the page.
PageOK(p) ==
    /\ page[p] \subseteq 0 .. nextOffset - 1
    /\ \A x \in page[p] : scan[p] < x
    /\ \A x \in page[p], o \in live : scan[p] < o /\ o < x => o \in page[p]

\* A retry item belongs to a registered subscription and an event of the log, and
\* everything up to that event is accounted for: the worker may set the mark to it.
ItemOK(r) ==
    /\ Registered(item[r].sub)
    /\ item[r].off < nextOffset
    /\ AccountedUpTo(item[r].sub, item[r].off)

CatchUpOK(p) ==
    /\ pc[p] \in {"read", "scan", "persistRead", "persistSet"}
          => AccountedUpTo(tgt[p], scan[p])
    /\ pc[p] = "scan" => PageOK(p)
    /\ pc[p] \in Delivering => PageOK(p) /\ IsNext(p, off[p])
    /\ pc[p] \notin Working

WorkOK(p) ==
    /\ \A c \in batch[p] : c.id < nextRetry
    /\ pc[p] \in Delivering \cup (Working \ {"batch"}) =>
          /\ job[p] < nextRetry
          /\ tgt[p] = item[job[p]].sub
          /\ off[p] = item[job[p]].off
    /\ pc[p] \in Decided => off[p] \in Settled(tgt[p])
    /\ pc[p] = "complete" => off[p] \in Settled(tgt[p]) \/ AgedOut(off[p])
    /\ pc[p] \in {"idle"} \cup Delivering \cup Working
    /\ pc[p] # "enqueue"

AckOK(p) ==
    /\ pc[p] \in {"idle", "cursor", "advRead", "advSet"}
    /\ pc[p] # "idle" => off[p] <= ackedTo[tgt[p]]

ProcOK(p) ==
    /\ pc[p] \notin {"idle", "batch"} => Registered(tgt[p])
    /\ pc[p] \in Undecided => AccountedUpTo(tgt[p], off[p] - 1)
    /\ pc[p] \in Decided => AccountedUpTo(tgt[p], off[p])
    /\ p \in Dispatchers => CatchUpOK(p)
    /\ p \in Workers => WorkOK(p)
    /\ p \in Ackers => AckOK(p)

\* A subscription that is not registered yet has no mark.
MarkOK(s) ==
    /\ ~Registered(s) => hw[s] = NoCursor
    /\ AccountedUpTo(s, hw[s])

IInv ==
    /\ TypeOK
    /\ \A s \in Subs : MarkOK(s)
    /\ \A r \in 0 .. nextRetry - 1 : ItemOK(r)
    /\ \A p \in Procs : ProcOK(p)

\* What no step takes back: settled events, acks, the log's end, retry items and
\* registrations only grow, and an item leaves the queue only when its event is
\* settled or has aged out.
Grows ==
    /\ \A s \in Subs : Settled(s) \subseteq Settled(s)'
    /\ \A s \in Subs : ackedTo[s] <= ackedTo'[s]
    /\ nextOffset <= nextOffset'
    /\ \A o \in live' : o \in live \/ nextOffset <= o
    /\ nextRetry <= nextRetry'
    /\ \A r \in 0 .. nextRetry - 1 :
          item'[r].sub = item[r].sub /\ item'[r].off = item[r].off
    /\ \A r \in pending : \/ r \in pending'
                          \/ item[r].off \in Settled(item[r].sub)'
                          \/ AgedOut(item[r].off)'
    /\ \A s \in Subs : Registered(s) => Registered(s)' /\ start'[s] = start[s]

\* The variables Grows speaks of, when a step leaves them alone.
LEMMA QuietGrows ==
    ASSUME TypeOK, UNCHANGED <<envVars, logVars, queueVars, ackedTo>>
    PROVE  Grows
BY DEF Grows, Settled, AgedOut, Registered, TypeOK, StoreTypeOK, SubTypeOK,
       QueueTypeOK, LogTypeOK, Position, NoCursor,
       envVars, storeVars, subVars, selVars, logVars, queueVars

LEMMA StepGrows == IInv /\ [Next]_vars => Grows
<1> SUFFICES ASSUME IInv, [Next]_vars PROVE Grows
    OBVIOUS
<1> USE DEF IInv
<1>0. /\ \A s \in Subs : ackedTo[s] \in Int
      /\ nextOffset \in Int /\ live \subseteq 0 .. nextOffset - 1
      /\ nextRetry \in Nat /\ pending \subseteq 0 .. nextRetry - 1
      /\ \A r \in pending : r \in RetryIds
    BY EventStoreAssumption, DispatchAssumption
       DEF TypeOK, SubTypeOK, QueueTypeOK, StoreTypeOK, Position, NoCursor, RetryIds
<1>1. CASE UNCHANGED vars
    BY <1>1, QuietGrows DEF vars, tallies
<1>2. ASSUME NEW verdict \in [Subs -> Verdicts], Publish(verdict) PROVE Grows
    BY <1>0, <1>2
       DEF Publish, AppendEvent, Grows, Settled, Registered, subVars, logVars, queueVars,
           tallies
<1>3. CASE AgeOrCompact
    BY <1>0, <1>3
       DEF AgeOrCompact, Age, Compact, Grows, Settled, Registered,
           subVars, logVars, selVars, queueVars, tallies
<1>4. ASSUME NEW s \in Subs, Lifecycle(s) PROVE Grows
  <2>1. \A x \in Subs : Registered(x) => Registered(x)' /\ start'[x] = start[x]
    BY <1>4
       DEF Lifecycle, CaptureStart, AddSubscription, Lapse, Expire, Renew, Delete,
           StatusStep, SetGrant, Registered, TypeOK, SubTypeOK
  <2>2. UNCHANGED <<storeVars, selVars, logVars, queueVars, ackedTo>>
    BY <1>4
       DEF Lifecycle, CaptureStart, AddSubscription, Lapse, Expire, Renew, Delete,
           StatusStep, SetGrant, tallies
  <2> QED
    BY <1>0, <2>1, <2>2 DEF Grows, Settled, storeVars, selVars, logVars, queueVars
<1>5. ASSUME NEW p \in Procs, Fail(p) PROVE Grows
    BY <1>5, QuietGrows DEF Fail
<1>6. ASSUME NEW d \in Dispatchers, NEW s \in Subs, Begin(d, s) PROVE Grows
    BY <1>6, QuietGrows DEF Begin, tallies
<1>7. ASSUME NEW d \in Dispatchers, CatchUpStep(d) PROVE Grows
    BY <1>7, QuietGrows
       DEF CatchUpStep, Acquire, ReadPosition, ReadPage, SkipRecord, SelectorRaises,
           StartDelivery, EndPage, PersistRead, PersistSet, tallies
<1>8. ASSUME NEW p \in Procs, DeliveryStep(p) PROVE Grows
  <2>1. CASE RecordDelivered(p) \/ RecordDead(p) \/ SendAcked(p)
             \/ \E reached \in BOOLEAN : SendFailed(p, reached)
    <3>1. /\ UNCHANGED <<envVars, queueVars, ackedTo, dropped>>
          /\ \A s \in Subs : delivered[s] \subseteq delivered'[s]
          /\ \A s \in Subs : dead[s] \subseteq dead'[s]
      BY <2>1 DEF RecordDelivered, RecordDead, SendAcked, SendFailed, tallies,
                  TypeOK, LogTypeOK
    <3> QED
      BY <1>0, <3>1 DEF Grows, Settled, Registered, envVars, storeVars, subVars,
                        selVars, queueVars
  <2>2. CASE Enqueue(p)
    BY <1>0, <2>2
       DEF Enqueue, Grows, Settled, Registered, envVars, storeVars, subVars, selVars,
           logVars, tallies, TypeOK, QueueTypeOK
  <2>3. CASE SendRefused(p) \/ AdvanceCursor(p) \/ AdvanceRead(p) \/ AdvanceSet(p)
             \/ HandOff(p)
    BY <2>3, QuietGrows
       DEF SendRefused, AdvanceCursor, AdvanceRead, AdvanceSet, HandOff, tallies
  <2> QED BY <1>8, <2>1, <2>2, <2>3 DEF DeliveryStep
<1>9. ASSUME NEW r \in RetryIds, FallDue(r) PROVE Grows
    BY <1>0, <1>9
       DEF FallDue, Grows, Settled, Registered, envVars, storeVars, subVars, selVars,
           logVars, tallies
<1>10. ASSUME NEW w \in Workers, Claim(w) PROVE Grows
    BY <1>0, <1>10
       DEF Claim, Grows, Settled, Registered, envVars, storeVars, subVars, selVars,
           logVars, tallies
<1>11. ASSUME NEW w \in Workers, WorkerStep(w) PROVE Grows
  <2>1. w \in Procs /\ WorkOK(w)
    BY DEF Procs, ProcOK
  <2>2. CASE TakeItem(w) \/ EndBatch(w) \/ LoadRecord(w)
    BY <2>2, QuietGrows DEF TakeItem, EndBatch, LoadRecord, tallies
  <2>3. CASE DropItem(w)
    <3>1. tgt[w] \in Subs /\ tgt[w] = item[job[w]].sub /\ off[w] = item[job[w]].off
      BY <2>1, <2>3 DEF DropItem, WorkOK, Working, TypeOK, InHand
    <3>2. /\ \A s \in Subs : Settled(s) \subseteq Settled(s)'
          /\ off[w] \in dropped'[tgt[w]]
      BY <2>3, <3>1 DEF DropItem, Settled, TypeOK, LogTypeOK, envVars, selVars
    <3>3. \A r \in pending : r \in pending' \/ item[r].off \in Settled(item[r].sub)'
      BY <2>3, <3>1, <3>2 DEF DropItem, Settled
    <3> QED
      BY <1>0, <2>3, <3>2, <3>3
         DEF DropItem, Grows, Registered, envVars, storeVars, subVars, tallies
  <2>4. CASE Reschedule(w)
    BY <1>0, <2>4
       DEF Reschedule, Grows, Settled, Registered, envVars, storeVars, subVars, selVars,
           logVars, tallies, TypeOK, QueueTypeOK, Item
  <2>5. CASE Complete(w)
    <3>1. /\ off[w] \in Settled(tgt[w]) \/ AgedOut(off[w])
          /\ tgt[w] = item[job[w]].sub /\ off[w] = item[job[w]].off
      BY <2>1, <2>5 DEF Complete, WorkOK, Working
    <3>2. /\ \A s : Settled(s)' = Settled(s)
          /\ \A o : AgedOut(o)' <=> AgedOut(o)
      BY <2>5 DEF Complete, Settled, AgedOut, envVars, storeVars, selVars, logVars
    <3>3. \A r \in pending : \/ r \in pending'
                             \/ item[r].off \in Settled(item[r].sub)'
                             \/ AgedOut(item[r].off)'
      BY <2>5, <3>1, <3>2 DEF Complete
    <3> QED
      BY <1>0, <2>5, <3>2, <3>3
         DEF Complete, Grows, Registered, envVars, storeVars, subVars, tallies
  <2> QED BY <1>11, <2>2, <2>3, <2>4, <2>5 DEF WorkerStep
<1>12. ASSUME NEW a \in Ackers, NEW s \in Subs, NEW o \in Offsets, Ack(a, s, o)
       PROVE  Grows
    BY <1>0, <1>12
       DEF Ack, Grows, Settled, Registered, Max2, Offsets, envVars, storeVars, subVars,
           selVars, logVars, queueVars, TypeOK, SubTypeOK
<1> QED
    BY <1>1, <1>2, <1>3, <1>4, <1>5, <1>6, <1>7, <1>8, <1>9, <1>10, <1>11, <1>12
       DEF Next

\* Hence what is accounted for stays accounted for.
LEMMA AccountedStays ==
    ASSUME IInv, TypeOK', Grows
    PROVE  /\ \A s \in Subs, o \in Int : Accounted(s, o) => Accounted(s, o)'
           /\ \A s \in Subs, n \in Int :
                  Registered(s) /\ AccountedUpTo(s, n) => AccountedUpTo(s, n)'
<1>1. ASSUME NEW s \in Subs, NEW o \in Int, Accounted(s, o) PROVE Accounted(s, o)'
  <2>0. /\ ackedTo[s] \in Int /\ ackedTo'[s] \in Int
        /\ nextOffset \in Int /\ nextOffset' \in Int
        /\ pending \subseteq 0 .. nextRetry - 1
    BY EventStoreAssumption
       DEF IInv, TypeOK, SubTypeOK, StoreTypeOK, QueueTypeOK, Position, NoCursor
  <2>1. CASE o \in Settled(s)
    BY <2>1 DEF Grows, Accounted
  <2>2. CASE o <= ackedTo[s]
    BY <2>0, <2>2 DEF Grows, Accounted
  <2>3. CASE AgedOut(o)
    BY <2>0, <2>3 DEF Grows, Accounted, AgedOut
  <2>4. CASE Queued(s, o)
    BY <2>0, <2>4 DEF Grows, Accounted, Queued
  <2> QED BY <1>1, <2>1, <2>2, <2>3, <2>4 DEF Accounted
<1>2. ASSUME NEW s \in Subs, NEW n \in Int, Registered(s), AccountedUpTo(s, n)
      PROVE  AccountedUpTo(s, n)'
  <2>1. start'[s] = start[s] /\ start[s] \in Int
    BY <1>2 DEF Grows, IInv, TypeOK, SubTypeOK, Position, NoCursor
  <2> QED BY <1>1, <1>2, <2>1 DEF AccountedUpTo
<1> QED BY <1>1, <1>2

-----------------------------------------------------------------------------
(* What a step does not touch keeps its part of the invariant *)

Same(q) ==
    /\ pc'[q] = pc[q]
    /\ tgt'[q] = tgt[q]
    /\ scan'[q] = scan[q]
    /\ page'[q] = page[q]
    /\ off'[q] = off[q]
    /\ batch'[q] = batch[q]
    /\ job'[q] = job[q]

LEMMA PageStays ==
    ASSUME IInv, TypeOK', Grows, NEW q \in Procs, PageOK(q),
           page'[q] = page[q], scan'[q] = scan[q]
    PROVE  PageOK(q)'
<1>1. nextOffset \in Int /\ nextOffset' \in Int /\ live' \subseteq Int
    BY EventStoreAssumption DEF IInv, TypeOK, StoreTypeOK
<1>2. \A x \in page[q], o \in live' : o < x => o \in live
    BY <1>1 DEF PageOK, Grows
<1> QED BY <1>1, <1>2 DEF PageOK, Grows

LEMMA FrameProc ==
    ASSUME IInv, TypeOK', Grows, NEW q \in Procs, Same(q)
    PROVE  ProcOK(q)'
<1>0. ProcOK(q) /\ InHand(q)
    BY DEF IInv, TypeOK
<1>1. /\ off[q] \in Int /\ scan[q] \in Int
      /\ nextRetry \in Int /\ nextRetry' \in Int
      /\ batch[q] \subseteq [id : RetryIds, attempt : Nat]
    BY DispatchAssumption
       DEF IInv, TypeOK, LocalTypeOK, QueueTypeOK, Position, NoCursor
<1>2. pc[q] \notin {"idle", "batch"} => tgt[q] \in Subs /\ Registered(tgt[q])
    BY <1>0 DEF ProcOK, InHand
<1>3. \A n \in Int : pc[q] \notin {"idle", "batch"} /\ AccountedUpTo(tgt[q], n)
                         => AccountedUpTo(tgt[q], n)'
    BY <1>2, AccountedStays DEF Same
<1>4. pc'[q] \notin {"idle", "batch"} => Registered(tgt[q])'
    BY <1>2 DEF Same, Grows
<1>5. pc'[q] \in Undecided => AccountedUpTo(tgt[q], off[q] - 1)'
    BY <1>0, <1>1, <1>3 DEF Same, ProcOK, Undecided
<1>6. pc'[q] \in Decided => AccountedUpTo(tgt[q], off[q])'
    BY <1>0, <1>1, <1>3 DEF Same, ProcOK, Decided
<1>7. ASSUME q \in Dispatchers PROVE CatchUpOK(q)'
  <2>1. CatchUpOK(q)
    BY <1>0, <1>7 DEF ProcOK
  <2>2. PageOK(q) => PageOK(q)'
    BY PageStays DEF Same
  <2>3. IsNext(q, off[q]) => IsNext(q, off[q])'
    BY DEF Same, IsNext
  <2>4. pc'[q] \in {"read", "scan", "persistRead", "persistSet"}
            => AccountedUpTo(tgt[q], scan[q])'
    BY <1>1, <1>3, <2>1 DEF Same, CatchUpOK
  <2> QED BY <2>1, <2>2, <2>3, <2>4 DEF CatchUpOK, Same
<1>8. ASSUME q \in Workers PROVE WorkOK(q)'
  <2>1. WorkOK(q)
    BY <1>0, <1>8 DEF ProcOK
  <2>2. \A c \in batch'[q] : c.id < nextRetry'
    BY <1>1, <2>1, DispatchAssumption DEF Same, WorkOK, Grows, RetryIds
  <2>3. pc[q] \in Delivering \cup (Working \ {"batch"}) =>
            job[q] \in 0 .. nextRetry - 1 /\ tgt[q] \in Subs
    BY <1>0, <1>1, <1>8, <2>1, DispatchAssumption
       DEF WorkOK, InHand, Delivering, Working, RetryIds
  <2>4. pc'[q] \in Delivering \cup (Working \ {"batch"}) =>
            job'[q] < nextRetry' /\ tgt'[q] = item'[job'[q]].sub
                                 /\ off'[q] = item'[job'[q]].off
    BY <1>1, <2>1, <2>3 DEF Same, WorkOK, Grows
  <2>5. pc'[q] \in Decided => off'[q] \in Settled(tgt[q])'
    BY <2>1, <2>3 DEF Same, WorkOK, Grows, Decided, Delivering
  <2>6. pc'[q] = "complete" => off'[q] \in Settled(tgt[q])' \/ AgedOut(off[q])'
    <3>1. nextOffset \in Int /\ nextOffset' \in Int
      BY EventStoreAssumption DEF IInv, TypeOK, StoreTypeOK
    <3>2. AgedOut(off[q]) => AgedOut(off[q])'
      BY <1>1, <3>1 DEF Same, Grows, AgedOut
    <3> QED BY <2>1, <2>3, <3>2 DEF Same, WorkOK, Grows, Working
  <2> QED BY <2>1, <2>2, <2>4, <2>5, <2>6 DEF WorkOK, Same
<1>9. ASSUME q \in Ackers PROVE AckOK(q)'
  <2>1. AckOK(q)
    BY <1>0, <1>9 DEF ProcOK
  <2>2. pc[q] # "idle" => tgt[q] \in Subs
    BY <1>2, <2>1 DEF AckOK
  <2>3. \A s \in Subs : ackedTo[s] \in Int /\ ackedTo'[s] \in Int
    BY DEF IInv, TypeOK, SubTypeOK, Position, NoCursor
  <2> QED BY <1>1, <2>1, <2>2, <2>3 DEF AckOK, Same, Grows
<1> QED BY <1>4, <1>5, <1>6, <1>7, <1>8, <1>9 DEF ProcOK

LEMMA FrameItem ==
    ASSUME IInv, TypeOK', Grows, NEW r \in 0 .. nextRetry - 1
    PROVE  ItemOK(r)'
<1>1. /\ item[r].sub \in Subs /\ item[r].off \in Int
      /\ item'[r].sub = item[r].sub /\ item'[r].off = item[r].off
      /\ nextOffset \in Int /\ nextOffset' \in Int
    BY EventStoreAssumption, DispatchAssumption
       DEF IInv, TypeOK, QueueTypeOK, StoreTypeOK, Item, Grows, RetryIds
<1>2. ItemOK(r)
    BY DEF IInv
<1>3. AccountedUpTo(item[r].sub, item[r].off)'
    BY <1>1, <1>2, AccountedStays DEF ItemOK
<1> QED BY <1>1, <1>2, <1>3 DEF ItemOK, Grows

LEMMA FrameMark ==
    ASSUME IInv, TypeOK', Grows, NEW s \in Subs, hw'[s] = hw[s],
           start'[s] = start[s], Registered(s)' => Registered(s)
    PROVE  MarkOK(s)'
<1>1. hw[s] \in Int /\ start[s] \in Int
    BY DEF IInv, TypeOK, SubTypeOK, Position, NoCursor
<1>2. MarkOK(s)
    BY DEF IInv
<1>3. AccountedUpTo(s, hw[s])'
    BY <1>1, <1>2, AccountedStays DEF MarkOK, AccountedUpTo
<1> QED BY <1>2, <1>3 DEF MarkOK, Grows

\* A step of process p alone, as far as the invariant can see.
Others(p) == \A q \in Procs \ {p} : Same(q)

LEMMA OneProc ==
    ASSUME IInv, TypeOK', Grows, NEW p \in Procs, Others(p), ProcOK(p)',
           \A s \in Subs : MarkOK(s)',
           \A r \in 0 .. nextRetry' - 1 : ItemOK(r)'
    PROVE  IInv'
<1>1. \A q \in Procs \ {p} : ProcOK(q)'
    BY FrameProc DEF Others
<1> QED BY <1>1 DEF IInv

\* Marks stay accounted for when one is set to an accounted position.
LEMMA SetMark ==
    ASSUME IInv, TypeOK', Grows, UNCHANGED <<status, start>>, NEW s \in Subs,
           NEW n \in Nat \cup {NoCursor}, Registered(s), AccountedUpTo(s, n),
           hw' = hw \/ hw' = [hw EXCEPT ![s] = n]
    PROVE  \A x \in Subs : MarkOK(x)'
<1>1. CASE hw' = hw
    BY <1>1, FrameMark DEF Registered
<1>2. CASE hw' = [hw EXCEPT ![s] = n]
  <2>1. hw'[s] = n /\ n \in Int
    BY <1>2 DEF IInv, TypeOK, SubTypeOK, NoCursor
  <2>2. \A x \in Subs : x # s => hw'[x] = hw[x]
    BY <1>2 DEF IInv, TypeOK, SubTypeOK
  <2>3. \A x \in Subs : x # s => MarkOK(x)'
    BY <2>2, FrameMark DEF Registered
  <2>4. AccountedUpTo(s, n)'
    BY <2>1, AccountedStays
  <2>5. MarkOK(s)'
    BY <2>1, <2>4 DEF MarkOK, Registered
  <2> QED BY <2>3, <2>5
<1> QED BY <1>1, <1>2

LEMMA RestOK ==
    ASSUME IInv, TypeOK', NEW p \in Procs, Rest(p)
    PROVE  ProcOK(p)' /\ Others(p)
<1>1. Others(p)
    BY DEF Others, Same, Rest, Goto, IInv, TypeOK, LocalTypeOK
<1>2. pc'[p] = "idle" /\ batch'[p] = {}
    BY DEF Rest, Goto, IInv, TypeOK, LocalTypeOK
<1>3. ProcOK(p)'
    BY <1>2 DEF ProcOK, CatchUpOK, WorkOK, AckOK, Undecided, Decided, Delivering,
                Working
<1> QED BY <1>1, <1>3

\* FirstN takes an initial segment.
LEMMA FirstNPrefix ==
    ASSUME NEW S \in SUBSET Int, IsFiniteSet(S), NEW n \in Nat,
           NEW x \in FirstN(S, n), NEW o \in S, o < x
    PROVE  o \in FirstN(S, n)
<1> DEFINE A == {y \in S : y < o}
           B == {y \in S : y < x}
<1>0. FirstN(S, n) = {z \in S : Cardinality({y \in S : y < z}) < n}
    BY DEF FirstN
<1>1. x \in S /\ Cardinality(B) < n
    BY <1>0
<1>2. A \subseteq B
  <2>1. x \in Int /\ o \in Int
    BY <1>1
  <2> SUFFICES ASSUME NEW y \in S, y < o PROVE y < x
    OBVIOUS
  <2> QED BY <2>1
<1>3. IsFiniteSet(B)
    BY FS_Subset
<1>4. IsFiniteSet(A) /\ Cardinality(A) <= Cardinality(B)
    BY <1>2, <1>3, FS_Subset
<1>5. Cardinality(A) \in Nat /\ Cardinality(B) \in Nat
    BY <1>3, <1>4, FS_CardinalityType
<1>6. Cardinality(A) < n
    BY <1>1, <1>4, <1>5
<1> QED BY <1>6 DEF FirstN

\* The page read by a catch-up is an initial segment of the live events above
\* its position.
LEMMA NextPageOK ==
    ASSUME TypeOK, NEW position \in Position
    PROVE  /\ NextPage(position) \subseteq live
           /\ \A x \in NextPage(position) : position < x
           /\ \A x \in NextPage(position), o \in live :
                  position < o /\ o < x => o \in NextPage(position)
<1> DEFINE above == {o \in live : position < o}
<1>1. live \subseteq 0 .. nextOffset - 1 /\ nextOffset \in Int
    BY EventStoreAssumption DEF TypeOK, StoreTypeOK
<1>2. IsFiniteSet(0 .. nextOffset - 1)
    BY <1>1, FS_Interval
<1>3. IsFiniteSet(live)
    BY <1>1, <1>2, FS_Subset
<1>4. IsFiniteSet(above)
    BY <1>3, FS_Subset
<1>5. live \subseteq Int /\ position \in Int
    BY <1>1 DEF Position, NoCursor
<1>6. CursorExpired(position) => above = live
    BY <1>5 DEF CursorExpired
<1>7. NextPage(position) = FirstN(above, PageSize)
    BY <1>6 DEF NextPage
<1>8. above \in SUBSET Int
    BY <1>5
<1> HIDE DEF above
<1>9. FirstN(above, PageSize) \subseteq above
    BY DEF FirstN
<1>10. \A x \in FirstN(above, PageSize), o \in above :
           o < x => o \in FirstN(above, PageSize)
    BY <1>4, <1>8, FirstNPrefix, DispatchAssumption
<1>11. above = {o \in live : position < o}
    BY DEF above
<1> QED BY <1>7, <1>9, <1>10, <1>11

-----------------------------------------------------------------------------
(* The induction *)

LEMMA InitInv == Init => IInv
<1> SUFFICES ASSUME Init PROVE IInv
    OBVIOUS
<1>1. TypeOK
    BY InitType
<1>2. \A s \in Subs : MarkOK(s)
    BY DEF Init, MarkOK, AccountedUpTo, NoCursor
<1>3. \A p \in Procs : ProcOK(p)
    BY DEF Init, ProcOK, CatchUpOK, WorkOK, AckOK, Undecided, Decided, Delivering,
           Working
<1>4. \A r \in 0 .. nextRetry - 1 : ItemOK(r)
    BY DEF Init
<1> QED BY <1>1, <1>2, <1>3, <1>4 DEF IInv

\* The marks and the items survive a step that does not touch them.
LEMMA FrameStores ==
    ASSUME IInv, TypeOK', Grows
    PROVE  /\ UNCHANGED <<status, start, hw>> => \A s \in Subs : MarkOK(s)'
           /\ UNCHANGED nextRetry => \A r \in 0 .. nextRetry' - 1 : ItemOK(r)'
BY FrameMark, FrameItem DEF Registered

\* Steps of the catch-up.  Each moves one process; only PersistSet sets a mark.
LEMMA CatchUpInv ==
    ASSUME IInv, TypeOK', Grows, NEW d \in Dispatchers, CatchUpStep(d)
    PROVE  IInv'
<1> USE DEF IInv
<1>0. /\ d \in Procs /\ d \notin Workers /\ d \notin Ackers
      /\ ProcOK(d) /\ CatchUpOK(d) /\ InHand(d)
      /\ pc \in [Procs -> Labels] /\ scan \in [Procs -> Position]
      /\ page \in [Procs -> SUBSET Nat] /\ off \in [Procs -> Position]
      /\ seen \in [Procs -> Position]
    BY DispatchAssumption DEF Procs, ProcOK, TypeOK, LocalTypeOK
<1>1. tgt[d] \in Subs /\ Registered(tgt[d])
    BY <1>0
       DEF CatchUpStep, Acquire, ReadPosition, ReadPage, SkipRecord, SelectorRaises,
           StartDelivery, EndPage, PersistRead, PersistSet, ProcOK, InHand
<1>2. /\ UNCHANGED <<status, start, nextRetry, live, nextOffset>>
      /\ PersistSet(d) \/ UNCHANGED hw
  <2>1. UNCHANGED <<status, start, nextRetry, live, nextOffset>>
    BY DEF CatchUpStep, Acquire, ReadPosition, ReadPage, SkipRecord, SelectorRaises,
           StartDelivery, EndPage, PersistRead, PersistSet, envVars, storeVars, subVars,
           queueVars
  <2>2. PersistSet(d) \/ UNCHANGED hw
    BY DEF CatchUpStep, Acquire, ReadPosition, ReadPage, SkipRecord, SelectorRaises,
           StartDelivery, EndPage, PersistRead
  <2> QED BY <2>1, <2>2
<1>3. scan[d] \in Int /\ hw[tgt[d]] \in Int
    BY <1>0, <1>1 DEF TypeOK, SubTypeOK, Position, NoCursor
<1>4. \A n \in Int : AccountedUpTo(tgt[d], n) /\ tgt'[d] = tgt[d]
                         => AccountedUpTo(tgt[d], n)'
    BY <1>1, AccountedStays
<1>5. \A s \in Subs : MarkOK(s)'
  <2>1. CASE PersistSet(d)
    <3>1. AccountedUpTo(tgt[d], scan[d])
      BY <1>0, <2>1 DEF PersistSet, CatchUpOK
    <3>2. hw' = hw \/ hw' = [hw EXCEPT ![tgt[d]] = scan[d]]
      BY <2>1 DEF PersistSet
    <3> QED BY <1>0, <1>1, <1>2, <3>1, <3>2, SetMark DEF Position
  <2>2. CASE UNCHANGED hw
    BY <1>2, <2>2, FrameStores
  <2> QED BY <1>2, <2>1, <2>2
<1>6. \A r \in 0 .. nextRetry' - 1 : ItemOK(r)'
    BY <1>2, FrameStores
<1>7. CASE Rest(d)
    BY <1>0, <1>5, <1>6, <1>7, RestOK, OneProc
<1>8. CASE ~Rest(d)
  <2>1. Others(d) /\ tgt'[d] = tgt[d]
    BY <1>0, <1>8
       DEF CatchUpStep, Acquire, ReadPosition, ReadPage, SkipRecord, SelectorRaises,
           StartDelivery, EndPage, PersistRead, PersistSet, Others, Same, Goto,
           localVars
  <2>2. Registered(tgt[d])'
    BY <1>1, <1>2, <2>1 DEF Registered
  <2>3. AccountedUpTo(tgt[d], scan[d]) /\ scan'[d] = scan[d]
            => AccountedUpTo(tgt[d], scan[d])'
    BY <1>3, <1>4, <2>1
  <2>4. ProcOK(d)'
    <3>1. CASE Acquire(d)
      <4>1. pc'[d] = "position"
        BY <1>0, <3>1 DEF Acquire, Goto
      <4> QED
        BY <1>0, <2>2, <4>1
           DEF ProcOK, CatchUpOK, Undecided, Decided, Delivering, Working
    <3>2. CASE ReadPosition(d)
      <4>1. pc'[d] = "read" /\ scan'[d] = hw[tgt[d]]
        BY <1>0, <3>2 DEF ReadPosition, Goto
      <4>2. AccountedUpTo(tgt[d], hw[tgt[d]])
        BY <1>1 DEF MarkOK
      <4>3. AccountedUpTo(tgt[d], scan[d])'
        BY <1>3, <1>4, <2>1, <4>1, <4>2
      <4> QED
        BY <1>0, <2>2, <4>1, <4>3
           DEF ProcOK, CatchUpOK, Undecided, Decided, Delivering, Working
    <3>3. CASE ReadPage(d)
      <4>1. pc'[d] = "scan" /\ page'[d] = NextPage(scan[d]) /\ scan'[d] = scan[d]
        BY <1>0, <1>8, <3>3 DEF ReadPage, Goto
      <4>2. AccountedUpTo(tgt[d], scan[d])'
        BY <1>0, <2>3, <3>3, <4>1 DEF ReadPage, CatchUpOK
      <4>3. /\ NextPage(scan[d]) \subseteq live
            /\ \A x \in NextPage(scan[d]) : scan[d] < x
            /\ \A x \in NextPage(scan[d]), o \in live :
                   scan[d] < o /\ o < x => o \in NextPage(scan[d])
        BY <1>0, NextPageOK
      <4>4. live \subseteq 0 .. nextOffset - 1
        BY EventStoreAssumption DEF TypeOK, StoreTypeOK
      <4>5. PageOK(d)'
        BY <1>2, <4>1, <4>3, <4>4 DEF PageOK
      <4> QED
        BY <1>0, <2>2, <4>1, <4>2, <4>5
           DEF ProcOK, CatchUpOK, Undecided, Decided, Delivering, Working
    <3>4. CASE SkipRecord(d)
      <4>0. PICK o \in missed[tgt[d]] :
                /\ IsNext(d, o)
                /\ scan' = [scan EXCEPT ![d] = o]
                /\ page' = [page EXCEPT ![d] = @ \ {o}]
        BY <3>4 DEF SkipRecord
      <4>1. pc[d] = "scan" /\ pc'[d] = "scan" /\ scan'[d] = o /\ page'[d] = page[d] \ {o}
        BY <1>0, <3>4, <4>0 DEF SkipRecord
      <4>2. o \in Nat /\ o \in page[d] /\ PageOK(d) /\ AccountedUpTo(tgt[d], scan[d])
        BY <1>0, <4>0, <4>1 DEF IsNext, CatchUpOK
      <4>3. AccountedUpTo(tgt[d], o)
        <5> SUFFICES ASSUME NEW x \in start[tgt[d]] + 1 .. o PROVE Accounted(tgt[d], x)
          BY DEF AccountedUpTo
        <5>0. start[tgt[d]] \in Int /\ nextOffset \in Int
          BY <1>1, EventStoreAssumption
             DEF TypeOK, SubTypeOK, StoreTypeOK, Position, NoCursor
        <5>1. CASE x <= scan[d]
          BY <1>3, <4>2, <5>0, <5>1 DEF AccountedUpTo
        <5>2. CASE x = o
          BY <4>0, <5>2 DEF Accounted, Settled
        <5>3. CASE scan[d] < x /\ x < o
          <6>1. x < nextOffset
            BY <4>2, <5>0, <5>3 DEF PageOK
          <6>2. x \notin page[d]
            BY <1>0, <4>0, <5>3 DEF IsNext
          <6>3. x \notin live
            BY <4>2, <5>3, <6>2 DEF PageOK
          <6> QED BY <6>1, <6>3 DEF Accounted, AgedOut
        <5> QED BY <1>3, <4>2, <5>0, <5>1, <5>2, <5>3
      <4>4. AccountedUpTo(tgt[d], scan[d])'
        BY <1>4, <2>1, <4>1, <4>2, <4>3
      <4>5. PageOK(d)'
        BY <1>0, <1>2, <1>3, <4>0, <4>1, <4>2, EventStoreAssumption
           DEF PageOK, IsNext, TypeOK, StoreTypeOK
      <4> QED
        BY <1>0, <2>2, <4>1, <4>4, <4>5
           DEF ProcOK, CatchUpOK, Undecided, Decided, Delivering, Working
    <3>6. CASE StartDelivery(d)
      <4>0. PICK o \in page[d] :
                /\ IsNext(d, o)
                /\ off' = [off EXCEPT ![d] = o]
        BY <3>6 DEF StartDelivery
      <4>1. /\ pc[d] = "scan" /\ pc'[d] = "send" /\ off'[d] = o
            /\ scan'[d] = scan[d] /\ page'[d] = page[d] /\ o \in Nat
        BY <1>0, <3>6, <4>0 DEF StartDelivery, Goto
      <4>2. PageOK(d) /\ AccountedUpTo(tgt[d], scan[d])
        BY <1>0, <4>1 DEF CatchUpOK
      <4>3. AccountedUpTo(tgt[d], o - 1)
        <5> SUFFICES ASSUME NEW x \in start[tgt[d]] + 1 .. o - 1
                     PROVE  Accounted(tgt[d], x)
          BY DEF AccountedUpTo
        <5>0. start[tgt[d]] \in Int /\ nextOffset \in Int
          BY <1>1, EventStoreAssumption
             DEF TypeOK, SubTypeOK, StoreTypeOK, Position, NoCursor
        <5>1. CASE x <= scan[d]
          BY <1>3, <4>2, <5>0, <5>1 DEF AccountedUpTo
        <5>2. CASE scan[d] < x /\ x < o
          <6>1. x < nextOffset
            BY <4>0, <4>1, <4>2, <5>0, <5>2 DEF PageOK
          <6>2. x \notin page[d]
            BY <1>0, <4>0, <4>1, <5>2 DEF IsNext
          <6>3. x \notin live
            BY <4>0, <4>2, <5>2, <6>2 DEF PageOK
          <6> QED BY <6>1, <6>3 DEF Accounted, AgedOut
        <5> QED BY <1>3, <4>1, <5>0, <5>1, <5>2
      <4>4. AccountedUpTo(tgt[d], off[d] - 1)'
        BY <1>4, <2>1, <4>1, <4>3
      <4>5. PageOK(d)' /\ IsNext(d, off[d])'
        BY <1>0, <4>0, <4>1, <4>2, PageStays DEF IsNext
      <4> QED
        BY <1>0, <2>2, <4>1, <4>4, <4>5
           DEF ProcOK, CatchUpOK, Undecided, Decided, Delivering, Working
    <3>7. CASE EndPage(d) \/ PersistRead(d)
      <4>1. /\ pc'[d] \in {"persistRead", "persistSet"} /\ scan'[d] = scan[d]
            /\ pc[d] \in {"scan", "persistRead"}
        BY <1>0, <3>7 DEF EndPage, PersistRead, Goto, localVars
      <4>2. AccountedUpTo(tgt[d], scan[d])'
        BY <1>0, <2>3, <4>1 DEF CatchUpOK
      <4> QED
        BY <1>0, <2>2, <4>1, <4>2
           DEF ProcOK, CatchUpOK, Undecided, Decided, Delivering, Working
    <3>8. CASE PersistSet(d)
      <4>1. pc'[d] = "position"
        BY <1>0, <3>8 DEF PersistSet, Goto
      <4> QED
        BY <1>0, <2>2, <4>1
           DEF ProcOK, CatchUpOK, Undecided, Decided, Delivering, Working
    <3> QED
      BY <1>8, <3>1, <3>2, <3>3, <3>4, <3>6, <3>7, <3>8
         DEF CatchUpStep, SelectorRaises
  <2> QED BY <1>0, <1>5, <1>6, <2>1, <2>4, OneProc
<1> QED BY <1>7, <1>8

\* The event in hand, once accounted for, completes what lies below it.
LEMMA AccountedNext ==
    ASSUME TypeOK', NEW s \in Subs, NEW o \in Nat, AccountedUpTo(s, o - 1)',
           Accounted(s, o)'
    PROVE  AccountedUpTo(s, o)'
<1>1. start'[s] \in Int
    BY DEF TypeOK, SubTypeOK, Position, NoCursor
<1> SUFFICES ASSUME NEW x \in start'[s] + 1 .. o PROVE Accounted(s, x)'
    BY DEF AccountedUpTo
<1>2. CASE x = o
    BY <1>2
<1>3. CASE x # o
    BY <1>1, <1>3 DEF AccountedUpTo
<1> QED BY <1>2, <1>3

\* After Accounting a process has kept its part of the invariant.
LEMMA AccountingOK ==
    ASSUME IInv, TypeOK', Grows, NEW p \in Procs, Accounting(p),
           pc[p] \in {"advSet", "handoff"}, UNCHANGED <<storeVars, queueVars>>
    PROVE  ProcOK(p)' /\ Others(p)
<1> USE DEF IInv
<1>0. /\ ProcOK(p) /\ InHand(p) /\ tgt[p] \in Subs /\ off[p] \in Nat
      /\ Registered(tgt[p]) /\ AccountedUpTo(tgt[p], off[p])
    BY DEF TypeOK, InHand, ProcOK, Delivering, Decided
<1>1. /\ pc \in [Procs -> Labels] /\ scan \in [Procs -> Position]
      /\ page \in [Procs -> SUBSET Nat] /\ off \in [Procs -> Position]
      /\ nextOffset \in Int /\ live \subseteq Int
    BY EventStoreAssumption DEF TypeOK, LocalTypeOK, StoreTypeOK
<1>2. CASE p \in Dispatchers /\ ~Rest(p)
  <2>0. p \notin Workers /\ p \notin Ackers /\ CatchUpOK(p)
    BY <1>0, <1>2, DispatchAssumption DEF ProcOK
  <2>1. /\ pc'[p] = "scan" /\ tgt'[p] = tgt[p] /\ scan'[p] = off[p]
        /\ page'[p] = page[p] \ {off[p]}
    BY <1>1, <1>2, <2>0 DEF Accounting, Goto
  <2>2. Others(p)
    BY <1>1, <1>2, <2>0 DEF Accounting, Goto, Others, Same, TypeOK, LocalTypeOK
  <2>3. PageOK(p) /\ IsNext(p, off[p])
    BY <2>0 DEF CatchUpOK, Delivering
  <2>4. PageOK(p)'
    BY <1>0, <1>1, <2>1, <2>3 DEF PageOK, IsNext, storeVars, Position, NoCursor
  <2>5. AccountedUpTo(tgt[p], scan[p])'
    BY <1>0, <2>1, AccountedStays
  <2>6. Registered(tgt[p])'
    BY <1>0, <2>1 DEF Grows
  <2> QED
    BY <2>0, <2>1, <2>2, <2>4, <2>5, <2>6
       DEF ProcOK, CatchUpOK, Undecided, Decided, Delivering, Working
<1>3. CASE p \in Workers /\ ~Rest(p)
  <2>0. p \notin Dispatchers /\ p \notin Ackers /\ WorkOK(p)
    BY <1>0, <1>3, DispatchAssumption DEF ProcOK
  <2>1. pc'[p] = "complete" /\ UNCHANGED localVars
    BY <1>1, <1>3, <2>0 DEF Accounting, Goto
  <2>2. Others(p)
    BY <1>1, <1>3, <2>0 DEF Accounting, Goto, Others, Same, localVars
  <2>3. /\ off[p] \in Settled(tgt[p])
        /\ \A c \in batch[p] : c.id < nextRetry
        /\ job[p] < nextRetry
        /\ tgt[p] = item[job[p]].sub
        /\ off[p] = item[job[p]].off
    BY <2>0 DEF WorkOK, Decided, Delivering
  <2>4. WorkOK(p)'
    BY <1>0, <2>1, <2>3
       DEF WorkOK, Grows, Decided, Delivering, Working, localVars, queueVars
  <2>5. Registered(tgt[p])'
    BY <1>0, <2>1 DEF Grows, localVars
  <2> QED
    BY <2>0, <2>1, <2>2, <2>4, <2>5 DEF ProcOK, Undecided, Decided
<1>4. CASE Rest(p)
    BY <1>4, RestOK
<1> QED BY <1>2, <1>3, <1>4 DEF Accounting

\* Steps of a delivery: each keeps or gains the evidence the next one needs.
LEMMA DeliveryInv ==
    ASSUME IInv, TypeOK', Grows, NEW p \in Procs, DeliveryStep(p)
    PROVE  IInv'
<1> USE DEF IInv
<1>0. /\ pc[p] \in Delivering /\ ProcOK(p) /\ InHand(p)
      /\ tgt[p] \in Subs /\ off[p] \in Nat /\ Registered(tgt[p])
  <2>1. pc[p] \in Delivering
    BY DEF DeliveryStep, SendAcked, SendRefused, SendFailed, RecordDelivered,
           AdvanceCursor, AdvanceRead, AdvanceSet, RecordDead, Enqueue, HandOff,
           Delivering
  <2> QED BY <2>1 DEF TypeOK, InHand, ProcOK, Delivering
<1>1. pc \in [Procs -> Labels] /\ nextRetry \in Nat /\ nextOffset \in Int
    BY EventStoreAssumption, DispatchAssumption
       DEF TypeOK, LocalTypeOK, QueueTypeOK, StoreTypeOK
<1>2. UNCHANGED <<storeVars, status, start>>
    BY DEF DeliveryStep, SendAcked, SendRefused, SendFailed, RecordDelivered,
           AdvanceCursor, AdvanceRead, AdvanceSet, RecordDead, Enqueue, HandOff,
           envVars, subVars
<1>3. CASE AdvanceSet(p) \/ HandOff(p)
  <2>1. pc[p] \in {"advSet", "handoff"} /\ Accounting(p) /\ UNCHANGED queueVars
    BY <1>3 DEF AdvanceSet, HandOff
  <2>2. ProcOK(p)' /\ Others(p)
    BY <1>2, <2>1, AccountingOK
  <2>3. AccountedUpTo(tgt[p], off[p])
    BY <1>0, <2>1 DEF ProcOK, Decided
  <2>4. hw' = hw \/ hw' = [hw EXCEPT ![tgt[p]] = off[p]]
    BY <1>3 DEF AdvanceSet, HandOff
  <2>5. \A s \in Subs : MarkOK(s)'
    BY <1>0, <1>2, <2>3, <2>4, SetMark
  <2>6. \A r \in 0 .. nextRetry' - 1 : ItemOK(r)'
    BY <2>1, FrameStores DEF queueVars
  <2> QED BY <2>2, <2>5, <2>6, OneProc
<1>4. CASE ~(AdvanceSet(p) \/ HandOff(p))
  <2>1. /\ UNCHANGED <<hw, tgt, scan, page, off, batch, job>>
        /\ Others(p)
        /\ pc'[p] \in Delivering \cup {"reschedule"}
    BY <1>1, <1>4
       DEF DeliveryStep, SendAcked, SendRefused, SendFailed, RecordDelivered,
           AdvanceCursor, AdvanceRead, RecordDead, Enqueue, Others, Same, Goto,
           localVars, Delivering
  <2>2. \A s \in Subs : MarkOK(s)'
    BY <1>2, <2>1, FrameStores
  <2>3. \A n \in Int : AccountedUpTo(tgt[p], n) => AccountedUpTo(tgt[p], n)'
    BY <1>0, <2>1, AccountedStays
  <2>4. Registered(tgt[p])'
    BY <1>0, <2>1 DEF Grows
  <2>5. \/ RecordDelivered(p) \/ RecordDead(p) \/ Enqueue(p)
        \/ (pc[p] \in Undecided /\ pc'[p] \in Undecided \cup {"reschedule"})
        \/ (pc[p] \in {"cursor", "advRead"} /\ pc'[p] \in {"advRead", "advSet"})
    BY <1>1, <1>4
       DEF DeliveryStep, SendAcked, SendRefused, SendFailed, AdvanceCursor, AdvanceRead,
           Goto, Undecided
  <2>6. pc'[p] = "reschedule" \/ pc'[p] = "enqueue" => pc[p] = "send"
    BY <1>1, <1>4
       DEF DeliveryStep, SendAcked, SendRefused, SendFailed, RecordDelivered,
           AdvanceCursor, AdvanceRead, RecordDead, Enqueue, Goto
  <2>7. /\ pc'[p] = "reschedule" => p \in Workers
        /\ pc'[p] = "enqueue" => p \in Dispatchers
    BY <1>1, <1>4
       DEF DeliveryStep, SendAcked, SendRefused, SendFailed, RecordDelivered,
           AdvanceCursor, AdvanceRead, RecordDead, Enqueue, Goto
  <2>8. CASE RecordDelivered(p) \/ RecordDead(p) \/ Enqueue(p)
    <3>1. pc[p] \in Undecided /\ pc'[p] \in {"cursor", "handoff"}
      BY <1>1, <2>8 DEF RecordDelivered, RecordDead, Enqueue, Goto, Undecided
    <3>2. RecordDelivered(p) \/ RecordDead(p) => off[p] \in Settled(tgt[p])'
      BY <1>0, <2>1 DEF RecordDelivered, RecordDead, Settled, TypeOK, LogTypeOK
    <3>3. Enqueue(p) =>
              /\ Queued(tgt[p], off[p])'
              /\ item'[nextRetry].sub = tgt[p] /\ item'[nextRetry].off = off[p]
              /\ nextRetry' = nextRetry + 1
      BY <1>1, <2>1, DispatchAssumption
         DEF Enqueue, Queued, TypeOK, QueueTypeOK, RetryIds
    <3>4. Accounted(tgt[p], off[p])'
      BY <2>1, <2>8, <3>2, <3>3 DEF Accounted
    <3>5. AccountedUpTo(tgt[p], off[p] - 1)'
      BY <1>0, <2>1, <2>3, <3>1 DEF ProcOK
    <3>6. AccountedUpTo(tgt[p], off[p])'
      BY <1>0, <2>1, <3>4, <3>5, AccountedNext
    <3>7. p \in Dispatchers => CatchUpOK(p)'
      <4>1. p \in Dispatchers => PageOK(p) /\ IsNext(p, off[p])
        BY <1>0 DEF ProcOK, CatchUpOK
      <4>2. p \in Dispatchers => PageOK(p)' /\ IsNext(p, off[p])'
        BY <2>1, <4>1, PageStays DEF IsNext
      <4> QED BY <3>1, <4>2 DEF CatchUpOK, Delivering, Working
    <3>8. p \in Workers => WorkOK(p)'
      <4> SUFFICES ASSUME p \in Workers PROVE WorkOK(p)'
        OBVIOUS
      <4>1. WorkOK(p) /\ pc[p] # "enqueue" /\ ~Enqueue(p)
        BY <1>0 DEF ProcOK, WorkOK, Enqueue
      <4>2. off[p] \in Settled(tgt[p])' /\ UNCHANGED queueVars
        BY <2>8, <3>2, <4>1 DEF RecordDelivered, RecordDead
      <4> QED
        BY <1>0, <2>1, <3>1, <4>1, <4>2
           DEF WorkOK, Decided, Delivering, Working, queueVars
    <3>9. p \notin Ackers
      BY <1>0, <3>1 DEF ProcOK, AckOK, Undecided
    <3>10. ProcOK(p)'
      BY <2>1, <2>4, <3>1, <3>6, <3>7, <3>8, <3>9 DEF ProcOK, Undecided
    <3>11. \A r \in 0 .. nextRetry' - 1 : ItemOK(r)'
      <4>1. CASE ~Enqueue(p)
        BY <2>8, <4>1, FrameStores DEF RecordDelivered, RecordDead, queueVars
      <4>2. CASE Enqueue(p)
        <5>1. p \in Dispatchers
          <6>1. p \notin Workers
            BY <1>0, <4>2 DEF ProcOK, WorkOK, Enqueue
          <6> QED BY <3>9, <6>1 DEF Procs
        <5>2. off[p] < nextOffset'
          BY <1>0, <1>1, <1>2, <5>1
             DEF ProcOK, CatchUpOK, PageOK, IsNext, storeVars
        <5>3. \A r : r = nextRetry => ItemOK(r)'
          <6>1. UNCHANGED nextOffset
            BY <1>2 DEF storeVars
          <6>2. ASSUME NEW r, r = nextRetry PROVE ItemOK(r)'
            BY <2>1, <2>4, <3>3, <3>6, <4>2, <5>2, <6>1, <6>2 DEF ItemOK
          <6> QED BY <6>2
        <5>4. \A r \in 0 .. nextRetry - 1 : ItemOK(r)'
          BY FrameItem
        <5> QED BY <1>1, <3>3, <4>2, <5>3, <5>4
      <4> QED BY <4>1, <4>2
    <3> QED BY <2>1, <2>2, <3>10, <3>11, OneProc
  <2>9. CASE ~(RecordDelivered(p) \/ RecordDead(p) \/ Enqueue(p))
    <3>0. UNCHANGED <<queueVars, ackedTo>>
      BY <1>4, <2>9
         DEF DeliveryStep, SendAcked, SendRefused, SendFailed, AdvanceCursor,
             AdvanceRead, tallies
    <3>1. pc'[p] \in Undecided => AccountedUpTo(tgt[p], off[p] - 1)'
      BY <1>0, <2>1, <2>3, <2>5, <2>9 DEF ProcOK, Undecided
    <3>2. pc'[p] \in Decided => pc[p] \in Decided /\ AccountedUpTo(tgt[p], off[p])'
      BY <1>0, <2>1, <2>3, <2>5, <2>9 DEF ProcOK, Decided, Undecided
    <3>3. p \in Dispatchers => CatchUpOK(p)'
      <4>1. p \in Dispatchers => PageOK(p) /\ IsNext(p, off[p])
        BY <1>0 DEF ProcOK, CatchUpOK
      <4>2. p \in Dispatchers => PageOK(p)' /\ IsNext(p, off[p])'
        BY <2>1, <4>1, PageStays DEF IsNext
      <4>3. p \in Dispatchers => pc'[p] \in Delivering
        BY <2>1, <2>7, DispatchAssumption
      <4> QED BY <4>2, <4>3 DEF CatchUpOK, Delivering, Working
    <3>4. p \in Workers => WorkOK(p)'
      <4> SUFFICES ASSUME p \in Workers PROVE WorkOK(p)'
        OBVIOUS
      <4>1. WorkOK(p) /\ pc'[p] # "enqueue"
        BY <1>0, <2>7, DispatchAssumption DEF ProcOK
      <4>2. pc'[p] \in Decided => off[p] \in Settled(tgt[p])'
        BY <1>0, <2>1, <3>2, <4>1 DEF WorkOK, Grows
      <4> QED
        BY <1>0, <2>1, <3>0, <4>1, <4>2 DEF WorkOK, Delivering, Working, queueVars
    <3>5. p \in Ackers => AckOK(p)'
      BY <1>0, <2>1, <2>5, <2>9, <3>0 DEF ProcOK, AckOK, Undecided, Delivering
    <3>6. ProcOK(p)'
      BY <2>1, <2>4, <3>1, <3>2, <3>3, <3>4, <3>5 DEF ProcOK
    <3>7. \A r \in 0 .. nextRetry' - 1 : ItemOK(r)'
      BY <3>0, FrameStores DEF queueVars
    <3> QED BY <2>1, <2>2, <3>6, <3>7, OneProc
  <2> QED BY <2>8, <2>9
<1> QED BY <1>3, <1>4

\* Steps of nobody: publishing, ageing, lifecycle calls, clocks.  A subscription
\* enters the store with its mark at its start offset, so nothing is owed below it.
LEMMA QuietInv ==
    ASSUME IInv, TypeOK', Grows, UNCHANGED <<pc, localVars, nextRetry>>,
           \A s \in Subs : MarkOK(s)'
    PROVE  IInv'
<1>1. \A q \in Procs : ProcOK(q)'
    BY FrameProc DEF Same, localVars
<1>2. \A r \in 0 .. nextRetry' - 1 : ItemOK(r)'
    BY FrameStores
<1> QED BY <1>1, <1>2 DEF IInv

LEMMA LifecycleMarks ==
    ASSUME IInv, TypeOK', Grows, NEW s \in Subs, Lifecycle(s)
    PROVE  \A x \in Subs : MarkOK(x)'
<1> USE DEF IInv
<1>0. /\ status \in [Subs -> {"none", "starting", "active", "lapsed", "expired",
                              "deleted"}]
      /\ start \in [Subs -> Position] /\ hw \in [Subs -> Position]
      /\ \A x \in Subs : MarkOK(x)
    BY DEF TypeOK, SubTypeOK
<1>1. ASSUME NEW from \in Offsets \cup {NoCursor}, CaptureStart(s, from)
      PROVE  \A x \in Subs : MarkOK(x)'
  <2>1. /\ UNCHANGED hw
        /\ \A x \in Subs : x # s => start'[x] = start[x] /\ status'[x] = status[x]
        /\ ~Registered(s) /\ ~Registered(s)'
    BY <1>0, <1>1 DEF CaptureStart, Registered
  <2>2. \A x \in Subs : x # s => MarkOK(x)'
    BY <2>1, FrameMark DEF Registered
  <2>3. hw'[s] = NoCursor /\ start'[s] \in Position
    BY <1>0, <2>1 DEF MarkOK, TypeOK, SubTypeOK
  <2>4. MarkOK(s)'
    BY <2>1, <2>3 DEF MarkOK, AccountedUpTo, Position, NoCursor
  <2> QED BY <2>2, <2>4
<1>2. CASE AddSubscription(s)
  <2>1. /\ hw'[s] = start'[s] /\ start'[s] \in Position /\ Registered(s)'
        /\ \A x \in Subs : x # s => hw'[x] = hw[x] /\ status'[x] = status[x]
        /\ UNCHANGED start
    BY <1>0, <1>2 DEF AddSubscription, Registered
  <2>2. \A x \in Subs : x # s => MarkOK(x)'
    BY <2>1, FrameMark DEF Registered
  <2>3. MarkOK(s)'
    BY <2>1 DEF MarkOK, AccountedUpTo, Position, NoCursor
  <2> QED BY <2>2, <2>3
<1>3. CASE Lapse(s) \/ Expire(s) \/ Renew(s) \/ Delete(s)
           \/ \E g \in BOOLEAN : SetGrant(s, g)
  <2>1. UNCHANGED <<start, hw>> /\ \A x \in Subs : Registered(x)' => Registered(x)
    BY <1>0, <1>3
       DEF Lapse, Expire, Renew, Delete, StatusStep, SetGrant, Registered
  <2> QED BY <2>1, FrameMark
<1> QED BY <1>1, <1>2, <1>3 DEF Lifecycle

\* Steps that start a process.
LEMMA StartInv ==
    ASSUME IInv, TypeOK', Grows
    PROVE  /\ \A d \in Dispatchers, s \in Subs : Begin(d, s) => IInv'
           /\ \A w \in Workers : Claim(w) => IInv'
           /\ \A a \in Ackers, s \in Subs, o \in Offsets : Ack(a, s, o) => IInv'
<1> USE DEF IInv
<1>0. pc \in [Procs -> Labels] /\ tgt \in [Procs -> Subs \cup {NoSub}]
      /\ off \in [Procs -> Position]
      /\ batch \in [Procs -> SUBSET [id : RetryIds, attempt : Nat]]
      /\ \A p \in Procs : ProcOK(p)
    BY DEF TypeOK, LocalTypeOK
<1>1. ASSUME NEW d \in Dispatchers, NEW s \in Subs, Begin(d, s) PROVE IInv'
  <2>1. d \in Procs /\ d \notin Workers /\ d \notin Ackers
    BY DispatchAssumption DEF Procs
  <2>2. pc'[d] = "lock" /\ tgt'[d] = s /\ Registered(s)' /\ Others(d)
    BY <1>0, <1>1, <2>1
       DEF Begin, Goto, Registered, Others, Same, envVars, subVars
  <2>3. ProcOK(d)'
    BY <2>1, <2>2 DEF ProcOK, CatchUpOK, Undecided, Decided, Delivering, Working
  <2>4. UNCHANGED <<status, start, hw, nextRetry>>
    BY <1>1 DEF Begin, envVars, subVars, queueVars
  <2> QED BY <2>1, <2>2, <2>3, <2>4, FrameStores, OneProc
<1>2. ASSUME NEW w \in Workers, Claim(w) PROVE IInv'
  <2>1. w \in Procs /\ w \notin Dispatchers /\ w \notin Ackers
    BY DispatchAssumption DEF Procs
  <2>2. pc'[w] = "batch" /\ Others(w)
    BY <1>0, <1>2, <2>1 DEF Claim, Goto, Others, Same
  <2>3. \A r \in due : r < nextRetry
    BY DispatchAssumption DEF TypeOK, QueueTypeOK
  <2>4. batch'[w] = {[id |-> r, attempt |-> item[r].attempt] : r \in due}
    BY <1>0, <1>2, <2>1 DEF Claim
  <2>5. \A c \in batch'[w] : c.id < nextRetry'
    BY <1>2, <2>3, <2>4 DEF Claim
  <2>6. ProcOK(w)'
    BY <2>1, <2>2, <2>5 DEF ProcOK, WorkOK, Undecided, Decided, Delivering, Working
  <2>7. UNCHANGED <<status, start, hw, nextRetry>>
    BY <1>2 DEF Claim, envVars, subVars
  <2> QED BY <2>1, <2>2, <2>6, <2>7, FrameStores, OneProc
<1>3. ASSUME NEW a \in Ackers, NEW s \in Subs, NEW o \in Offsets, Ack(a, s, o)
      PROVE  IInv'
  <2>1. a \in Procs /\ a \notin Dispatchers /\ a \notin Workers
    BY DispatchAssumption DEF Procs
  <2>2. /\ pc'[a] = "cursor" /\ tgt'[a] = s /\ off'[a] = o /\ Registered(s)'
        /\ Others(a)
    BY <1>0, <1>3, <2>1
       DEF Ack, Goto, Registered, Others, Same, envVars, subVars
  <2>3. o <= ackedTo'[s] /\ o \in Int /\ ackedTo'[s] \in Int
    BY <1>3, EventStoreAssumption
       DEF Ack, Max2, Offsets, TypeOK, SubTypeOK, Position, NoCursor
  <2>4. start'[s] \in Int
    BY DEF TypeOK, SubTypeOK, Position, NoCursor
  <2>5. AccountedUpTo(s, o)'
    BY <2>3, <2>4 DEF AccountedUpTo, Accounted
  <2>6. ProcOK(a)'
    BY <2>1, <2>2, <2>3, <2>5 DEF ProcOK, AckOK, Undecided
  <2>7. UNCHANGED <<status, start, hw, nextRetry>>
    BY <1>3 DEF Ack, envVars, subVars, queueVars
  <2> QED BY <2>1, <2>2, <2>6, <2>7, FrameStores, OneProc
<1> QED BY <1>1, <1>2, <1>3

\* Steps of a worker over its batch.  What it knows of an event it takes from the
\* item: the mark could be set to that event without leaving anything behind.
LEMMA WorkerInv ==
    ASSUME IInv, TypeOK', Grows, NEW w \in Workers, WorkerStep(w)
    PROVE  IInv'
<1> USE DEF IInv
<1>0. /\ w \in Procs /\ w \notin Dispatchers /\ w \notin Ackers
      /\ ProcOK(w) /\ WorkOK(w) /\ InHand(w)
      /\ pc \in [Procs -> Labels] /\ tgt \in [Procs -> Subs \cup {NoSub}]
      /\ off \in [Procs -> Position] /\ job \in [Procs -> RetryIds \cup {NoJob}]
      /\ batch \in [Procs -> SUBSET [id : RetryIds, attempt : Nat]]
    BY DispatchAssumption DEF Procs, ProcOK, TypeOK, LocalTypeOK
<1>1. UNCHANGED <<storeVars, status, start, hw, nextRetry>>
    BY DEF WorkerStep, TakeItem, EndBatch, DropItem, LoadRecord, Reschedule, Complete,
           envVars, subVars, queueVars
<1>2. /\ \A s \in Subs : MarkOK(s)'
      /\ \A r \in 0 .. nextRetry' - 1 : ItemOK(r)'
    BY <1>1, FrameStores
<1>3. CASE EndBatch(w)
    BY <1>0, <1>2, <1>3, RestOK, OneProc DEF EndBatch
<1>4. CASE DropItem(w) \/ Reschedule(w) \/ Complete(w)
  <2>1. pc'[w] = "batch" /\ batch'[w] = batch[w] /\ Others(w)
    BY <1>0, <1>4
       DEF DropItem, Reschedule, Complete, NextItem, Goto, Others, Same
  <2>2. ProcOK(w)'
    BY <1>0, <1>1, <2>1
       DEF ProcOK, WorkOK, Undecided, Decided, Delivering, Working
  <2> QED BY <1>0, <1>2, <2>1, <2>2, OneProc
<1>5. CASE TakeItem(w)
  <2> PICK c \in batch[w] :
          /\ batch' = [batch EXCEPT ![w] = @ \ {c}]
          /\ job' = [job EXCEPT ![w] = c.id]
          /\ att' = [att EXCEPT ![w] = c.attempt]
          /\ tgt' = [tgt EXCEPT ![w] = item[c.id].sub]
          /\ off' = [off EXCEPT ![w] = item[c.id].off]
          /\ Goto(w, IF status[item[c.id].sub] \in {"active", "lapsed"}
                     THEN "load" ELSE "drop")
    BY <1>5 DEF TakeItem
  <2>1. c.id \in 0 .. nextRetry - 1
    BY <1>0, DispatchAssumption DEF WorkOK, RetryIds, TypeOK, QueueTypeOK
  <2>2. ItemOK(c.id)
    BY <2>1
  <2>3. /\ pc'[w] \in {"load", "drop"} /\ batch'[w] \subseteq batch[w]
        /\ job'[w] = c.id /\ tgt'[w] = item[c.id].sub /\ off'[w] = item[c.id].off
    BY <1>0 DEF Goto
  <2>4. Others(w) /\ UNCHANGED <<item, nextRetry>>
    BY <1>0, <1>5 DEF TakeItem, Goto, Others, Same, queueVars
  <2>5. Registered(tgt[w])'
    BY <1>1, <2>2, <2>3 DEF ItemOK, Registered
  <2>6. WorkOK(w)'
    BY <1>0, <2>1, <2>3, <2>4 DEF WorkOK, Decided, Delivering, Working
  <2>7. ProcOK(w)'
    BY <1>0, <2>3, <2>5, <2>6 DEF ProcOK, Undecided, Decided
  <2> QED BY <1>0, <1>2, <2>4, <2>7, OneProc
<1>6. CASE LoadRecord(w)
  <2>1. /\ pc[w] = "load" /\ Others(w)
        /\ UNCHANGED <<tgt, off, batch, job, item, nextRetry>>
    BY <1>0, <1>6 DEF LoadRecord, Goto, Others, Same, queueVars
  <2>2. /\ job[w] \in 0 .. nextRetry - 1 /\ tgt[w] = item[job[w]].sub
        /\ off[w] = item[job[w]].off /\ tgt[w] \in Subs /\ off[w] \in Nat
        /\ Registered(tgt[w])
    BY <1>0, <2>1, DispatchAssumption
       DEF ProcOK, WorkOK, InHand, Working, RetryIds, TypeOK, QueueTypeOK
  <2>3. AccountedUpTo(tgt[w], off[w]) /\ off[w] < nextOffset
    BY <2>2 DEF ItemOK
  <2>4. AccountedUpTo(tgt[w], off[w])'
    BY <2>1, <2>2, <2>3, AccountedStays
  <2>5. start'[tgt[w]] \in Int
    BY <2>2 DEF TypeOK, SubTypeOK, Position, NoCursor
  <2>6. AccountedUpTo(tgt[w], off[w] - 1)'
    BY <2>1, <2>2, <2>4, <2>5 DEF AccountedUpTo
  <2>7. Registered(tgt[w])'
    BY <2>1, <2>2 DEF Grows
  <2>8. pc'[w] = "send" \/ (pc'[w] = "complete" /\ AgedOut(off[w]))
    BY <1>0, <1>6, <2>3 DEF LoadRecord, Goto, AgedOut
  <2>9. pc'[w] = "send" \/ (pc'[w] = "complete" /\ AgedOut(off[w])')
    BY <1>1, <2>1, <2>8 DEF AgedOut, storeVars
  <2>10. WorkOK(w)'
    BY <1>0, <2>1, <2>2, <2>9 DEF WorkOK, Decided, Delivering, Working
  <2>11. ProcOK(w)'
    BY <1>0, <2>6, <2>7, <2>9, <2>10 DEF ProcOK, Undecided, Decided
  <2> QED BY <1>0, <1>2, <2>1, <2>11, OneProc
<1> QED BY <1>3, <1>4, <1>5, <1>6 DEF WorkerStep

LEMMA NextInv == IInv /\ [Next]_vars => IInv'
<1> SUFFICES ASSUME IInv, [Next]_vars PROVE IInv'
    OBVIOUS
<1>0. TypeOK' /\ Grows
    BY NextType, StepGrows DEF IInv
<1>1. ASSUME NEW s \in Subs, Lifecycle(s) PROVE IInv'
  <2>1. UNCHANGED <<pc, localVars, nextRetry>>
    BY <1>1 DEF Lifecycle, CaptureStart, AddSubscription, Lapse, Expire, Renew, Delete,
                StatusStep, SetGrant, queueVars
  <2> QED BY <1>0, <1>1, <2>1, LifecycleMarks, QuietInv
<1>2. CASE \/ UNCHANGED vars
           \/ \E verdict \in [Subs -> Verdicts] : Publish(verdict)
           \/ AgeOrCompact
           \/ \E r \in RetryIds : FallDue(r)
  <2>1. UNCHANGED <<pc, localVars, nextRetry, status, start, hw>>
    BY <1>2 DEF vars, Publish, AgeOrCompact, FallDue, envVars, subVars, queueVars
  <2> QED BY <1>0, <2>1, FrameStores, QuietInv
<1>3. ASSUME NEW p \in Procs, Fail(p) PROVE IInv'
  <2>1. Rest(p) /\ UNCHANGED <<status, start, hw, nextRetry>>
    BY <1>3 DEF Fail, envVars, subVars, queueVars
  <2> QED BY <1>0, <2>1, RestOK, FrameStores, OneProc
<1> QED
    BY <1>0, <1>1, <1>2, <1>3, StartInv, CatchUpInv, DeliveryInv, WorkerInv DEF Next

\* NoLoss for any number of subscriptions, hosts, slots, workers, ackers, events and
\* attempts, with or without the retry queue, retention and failures: no race of
\* catch-ups, retries and acks moves the mark that subs.set_high_water keeps past
\* an event that is still owed.
THEOREM NoEventLost == Spec => []NoLoss
<1>1. IInv => NoLoss
    BY DEF IInv, MarkOK, NoLoss
<1> QED BY <1>1, InitInv, NextInv, PTL DEF Spec
=============================================================================
