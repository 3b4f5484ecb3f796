------------------------ MODULE DispatchOrderProofs ------------------------
(***************************************************************************)
(* What the dispatch core keeps besides NoLoss: how often an event is sent,  *)
(* what the acked cursor stands for, who is left alone, and - in the modes   *)
(* in which the code promises it - the order of deliveries.  At the end, the  *)
(* same core driven by the loop of a DispatchWorker.                         *)
(***************************************************************************)
EXTENDS DispatchProofs, DispatchLoop

-----------------------------------------------------------------------------
(* Attempts *)

\* An attempt that is still to be made has a number up to the ceiling, one that
\* goes back to the queue a number below it.
AttemptInv ==
    /\ \A p \in Procs : att[p] <= MaxAttempts
    /\ \A p \in Procs : pc[p] \in {"load", "reschedule", "enqueue"} => att[p] < MaxAttempts
    /\ \A p \in Dispatchers : pc[p] \in {"send", "enqueue"} => att[p] >= 1
    /\ \A p \in Procs : \A c \in batch[p] : c.attempt < MaxAttempts
    /\ \A r \in RetryIds : item[r].attempt < MaxAttempts

LEMMA InitAttempts == Init => AttemptInv
<1> SUFFICES ASSUME Init PROVE AttemptInv
  OBVIOUS
<1>1. MaxAttempts \in Nat \ {0} /\ Dispatchers \subseteq Procs
  BY DispatchAssumption DEF Procs
<1>2. \A p \in Procs : att[p] = 0 /\ pc[p] = "idle" /\ batch[p] = {}
  BY DEF Init
<1>3. \A r \in RetryIds : item[r].attempt = 0
  BY DEF Init
<1> QED
  BY <1>1, <1>2, <1>3 DEF AttemptInv

LEMMA NextAttempts == IInv /\ AttemptInv /\ [Next]_vars => AttemptInv'
<1> SUFFICES ASSUME IInv, AttemptInv, [Next]_vars PROVE AttemptInv'
  OBVIOUS
<1>0. /\ MaxAttempts \in Nat \ {0}
      /\ pc \in [Procs -> Labels] /\ att \in [Procs -> Nat]
      /\ batch \in [Procs -> SUBSET [id : RetryIds, attempt : Nat]]
      /\ job \in [Procs -> RetryIds \cup {NoJob}]
      /\ item \in [RetryIds -> Item] /\ nextRetry \in Nat
      /\ Dispatchers \subseteq Procs /\ Workers \subseteq Procs /\ Ackers \subseteq Procs
      /\ Dispatchers \cap Workers = {}
      /\ due \subseteq RetryIds
  BY DispatchAssumption DEF IInv, TypeOK, LocalTypeOK, QueueTypeOK, Procs, RetryIds
<1>q. ASSUME UNCHANGED <<att, pc, batch, item>> PROVE AttemptInv'
  BY <1>q DEF AttemptInv
<1>r. ASSUME NEW p \in Procs, Rest(p), UNCHANGED item PROVE AttemptInv'
  BY <1>0, <1>r DEF Rest, Goto, AttemptInv
<1>g. ASSUME NEW p \in Procs, NEW l \in Labels, Goto(p, l), UNCHANGED <<att, batch, item>>,
             l \in {"load", "reschedule", "enqueue"} => att[p] < MaxAttempts,
             l \in {"send", "enqueue"} /\ p \in Dispatchers => att[p] >= 1
      PROVE  AttemptInv'
  BY <1>0, <1>g DEF Goto, AttemptInv
<1>n. ASSUME NEW p \in Procs, NextItem(p), UNCHANGED item PROVE AttemptInv'
  BY <1>0, <1>n DEF NextItem, Goto, AttemptInv
<1>1. ASSUME NEW verdict \in [Subs -> Verdicts], Publish(verdict) PROVE AttemptInv'
  BY <1>q, <1>1 DEF Publish, localVars, queueVars
<1>2. CASE AgeOrCompact
  BY <1>q, <1>2 DEF AgeOrCompact, localVars, queueVars
<1>3. ASSUME NEW s \in Subs, Lifecycle(s) PROVE AttemptInv'
  BY <1>q, <1>3 DEF Lifecycle, CaptureStart, AddSubscription, Lapse, Expire, Renew, Delete,
     StatusStep, SetGrant, localVars, queueVars
<1>4. ASSUME NEW d \in Dispatchers, NEW s \in Subs, Begin(d, s) PROVE AttemptInv'
  BY <1>0, <1>g, <1>4 DEF Begin, queueVars, Labels
<1>5. ASSUME NEW d \in Dispatchers, CatchUpStep(d) PROVE AttemptInv'
  <2>1. CASE Acquire(d)
    BY <1>0, <1>g, <2>1 DEF Acquire, queueVars, localVars, Labels, Scanning
  <2>2. CASE ReadPosition(d)
    BY <1>0, <1>g, <2>2 DEF ReadPosition, queueVars, Labels, Scanning
  <2>3. CASE ReadPage(d)
    BY <1>0, <1>g, <1>r, <2>3 DEF ReadPage, queueVars, Labels, Scanning
  <2>4. CASE SkipRecord(d)
    BY <1>q, <2>4 DEF SkipRecord, queueVars
  <2>5. CASE SelectorRaises(d)
    BY <1>0, <1>r, <2>5 DEF SelectorRaises, queueVars
  <2>6. CASE StartDelivery(d)
    BY <1>0, <2>6 DEF StartDelivery, Goto, AttemptInv, queueVars
  <2>7. CASE EndPage(d)
    BY <1>0, <1>g, <2>7 DEF EndPage, queueVars, localVars, Labels, Scanning
  <2>8. CASE PersistRead(d)
    BY <1>0, <1>g, <2>8 DEF PersistRead, queueVars, Labels, Scanning
  <2>9. CASE PersistSet(d)
    BY <1>0, <1>g, <2>9 DEF PersistSet, queueVars, Labels, Scanning
  <2> QED
    BY <1>5, <2>1, <2>2, <2>3, <2>4, <2>5, <2>6, <2>7, <2>8, <2>9 DEF CatchUpStep
<1>a. ASSUME NEW p \in Procs, Accounting(p), UNCHANGED item PROVE AttemptInv'
  <2>1. CASE Accounting(p)!1
    BY <1>0, <1>a, <2>1 DEF Goto, AttemptInv
  <2>2. CASE Accounting(p)!2
    BY <1>0, <1>a, <1>g, <2>2 DEF localVars, Labels, Working
  <2>3. CASE Rest(p)
    BY <1>a, <1>r, <2>3
  <2> QED
    BY <1>a, <2>1, <2>2, <2>3 DEF Accounting
<1>6. ASSUME NEW p \in Procs, DeliveryStep(p) PROVE AttemptInv'
  <2>1. CASE SendAcked(p) \/ SendRefused(p) \/ RecordDelivered(p) \/ AdvanceCursor(p)
             \/ RecordDead(p)
    BY <1>0, <1>g, <2>1 DEF SendAcked, SendRefused, RecordDelivered, AdvanceCursor, RecordDead,
       queueVars, localVars, Labels, Delivering
  <2>2. CASE AdvanceRead(p)
    BY <1>0, <1>g, <2>2 DEF AdvanceRead, queueVars, Labels, Delivering
  <2>3. ASSUME NEW reached \in BOOLEAN, SendFailed(p, reached) PROVE AttemptInv'
    <3>1. /\ UNCHANGED <<batch, item>> /\ pc[p] = "send"
          /\ \/ Goto(p, "dead") /\ UNCHANGED att
             \/ att[p] < MaxAttempts /\ att' = [att EXCEPT ![p] = @ + 1] /\ UNCHANGED pc
             \/ att[p] < MaxAttempts /\ Goto(p, "enqueue") /\ UNCHANGED att
             \/ att[p] < MaxAttempts /\ Goto(p, "reschedule") /\ UNCHANGED att
      BY <2>3 DEF SendFailed, queueVars
    <3>2. p \in Dispatchers => att[p] >= 1
      BY <3>1 DEF AttemptInv
    <3>3. CASE att[p] < MaxAttempts /\ att' = [att EXCEPT ![p] = @ + 1] /\ UNCHANGED pc
      BY <1>0, <3>1, <3>3 DEF AttemptInv
    <3> QED
      BY <1>g, <3>1, <3>2, <3>3 DEF Labels, Delivering, Working
  <2>4. CASE Enqueue(p)
    <3>1. p \in Dispatchers
      BY <2>4 DEF Enqueue, IInv, ProcOK, WorkOK, AckOK, Procs
    <3>2. 1 < MaxAttempts
      BY <1>0, <2>4, <3>1 DEF Enqueue, AttemptInv
    <3>3. \A r \in RetryIds : item'[r].attempt < MaxAttempts
      BY <1>0, <2>4, <3>2 DEF Enqueue, AttemptInv, RetryIds
    <3>4. UNCHANGED <<att, batch>> /\ Goto(p, "handoff")
      BY <2>4 DEF Enqueue, localVars
    <3> QED
      BY <1>0, <3>3, <3>4 DEF AttemptInv, Goto
  <2>5. CASE AdvanceSet(p) \/ HandOff(p)
    BY <1>a, <2>5 DEF AdvanceSet, HandOff, queueVars
  <2> QED
    BY <1>6, <2>1, <2>2, <2>3, <2>4, <2>5 DEF DeliveryStep
<1>7. ASSUME NEW r \in RetryIds, FallDue(r) PROVE AttemptInv'
  BY <1>q, <1>7 DEF FallDue, localVars
<1>8. ASSUME NEW w \in Workers, Claim(w) PROVE AttemptInv'
  <2>1. /\ batch' = [batch EXCEPT ![w] = {[id |-> r, attempt |-> item[r].attempt] : r \in due}]
        /\ Goto(w, "batch") /\ UNCHANGED <<att, item>>
    BY <1>8 DEF Claim
  <2>2. \A c \in batch'[w] : c.attempt < MaxAttempts
    BY <1>0, <2>1 DEF AttemptInv
  <2> QED
    BY <1>0, <2>1, <2>2 DEF Goto, AttemptInv
<1>9. ASSUME NEW w \in Workers, WorkerStep(w) PROVE AttemptInv'
  <2>1. CASE TakeItem(w)
    <3>1. PICK c \in batch[w] :
             /\ batch' = [batch EXCEPT ![w] = @ \ {c}]
             /\ att' = [att EXCEPT ![w] = c.attempt]
             /\ Goto(w, "load") \/ Goto(w, "drop")
      BY <2>1 DEF TakeItem
    <3>2. c.attempt < MaxAttempts /\ c.attempt \in Nat
      BY <1>0 DEF AttemptInv
    <3>3. UNCHANGED item
      BY <2>1 DEF TakeItem, queueVars
    <3> QED
      BY <1>0, <3>1, <3>2, <3>3 DEF Goto, AttemptInv
  <2>2. CASE EndBatch(w)
    BY <1>0, <1>r, <2>2 DEF EndBatch, queueVars
  <2>3. CASE DropItem(w) \/ Complete(w)
    BY <1>0, <1>n, <2>3 DEF DropItem, Complete
  <2>4. CASE LoadRecord(w)
    <3>1. pc[w] = "load" /\ att[w] < MaxAttempts
      BY <1>0, <2>4 DEF LoadRecord, AttemptInv
    <3>2. /\ UNCHANGED <<batch, item>>
          /\ \/ att' = [att EXCEPT ![w] = @ + 1] /\ Goto(w, "send")
             \/ UNCHANGED att /\ Goto(w, "complete")
      BY <2>4 DEF LoadRecord, queueVars
    <3> QED
      BY <1>0, <3>1, <3>2 DEF Goto, AttemptInv
  <2>5. CASE Reschedule(w)
    <3>1. att[w] < MaxAttempts /\ att[w] \in Nat
      BY <1>0, <2>5 DEF Reschedule, AttemptInv
    <3>2. item' = item \/ item' = [item EXCEPT ![job[w]].attempt = att[w]]
      BY <2>5 DEF Reschedule
    <3>3. \A r \in RetryIds : item'[r].attempt < MaxAttempts
      BY <1>0, <3>1, <3>2 DEF AttemptInv, Item
    <3> QED
      BY <1>0, <2>5, <3>3 DEF Reschedule, NextItem, Goto, AttemptInv
  <2> QED
    BY <1>9, <2>1, <2>2, <2>3, <2>4, <2>5 DEF WorkerStep
<1>10. ASSUME NEW a \in Ackers, NEW s \in Subs, NEW o \in Offsets, Ack(a, s, o)
       PROVE  AttemptInv'
  BY <1>0, <1>g, <1>10 DEF Ack, queueVars, Labels, Delivering
<1>11. ASSUME NEW p \in Procs, Fail(p) PROVE AttemptInv'
  BY <1>r, <1>11 DEF Fail, queueVars
<1>12. CASE UNCHANGED vars
  BY <1>q, <1>12 DEF vars, localVars, queueVars
<1> QED
  BY <1>1, <1>2, <1>3, <1>4, <1>5, <1>6, <1>7, <1>8, <1>9, <1>10, <1>11, <1>12 DEF Next

LEMMA Inductive == Spec => []IInv
BY InitInv, NextInv, PTL DEF Spec

\* No event is sent more often than max_attempts in one series of attempts, and
\* an item in the retry queue always has an attempt left, whatever is claimed
\* twice, rescheduled late or lost in a crash.
THEOREM AttemptsAreBounded == Spec => []AttemptsBounded
<1>1. Spec => [](IInv /\ AttemptInv)
  BY Inductive, InitAttempts, NextAttempts, InitInv, NextInv, PTL DEF Spec
<1>2. IInv /\ AttemptInv => AttemptsBounded
  <2>1. IInv => pending \subseteq RetryIds
    BY DispatchAssumption DEF IInv, TypeOK, QueueTypeOK, RetryIds
  <2> QED
    BY <2>1 DEF AttemptInv, AttemptsBounded
<1> QED
  BY <1>1, <1>2, PTL

-----------------------------------------------------------------------------
(* The acked cursor *)

\* Whoever is about to move the cursor has the right to.
EarnedInv ==
    /\ CursorIsEarned
    /\ \A p \in Procs : pc[p] = "cursor" =>
          off[p] \in delivered[tgt[p]] \/ off[p] <= ackedTo[tgt[p]]

LEMMA NextEarned == IInv /\ EarnedInv /\ [Next]_vars => EarnedInv'
<1> SUFFICES ASSUME IInv, EarnedInv, [Next]_vars PROVE EarnedInv'
  OBVIOUS
<1>0. /\ pc \in [Procs -> Labels] /\ tgt \in [Procs -> Subs \cup {NoSub}]
      /\ off \in [Procs -> Position]
      /\ cursor \in [Subs -> Position] /\ ackedTo \in [Subs -> Position]
      /\ delivered \in [Subs -> SUBSET Nat]
      /\ Dispatchers \subseteq Procs /\ Workers \subseteq Procs /\ Ackers \subseteq Procs
      /\ Position \subseteq Int /\ NoCursor \in Int
      /\ \A p \in Procs : pc[p] # "idle" /\ pc[p] # "batch" => tgt[p] \in Subs
      /\ \A p \in Procs : pc[p] = "cursor" \/ pc[p] = "delivered" => off[p] \in Nat
  BY DEF IInv, TypeOK, LocalTypeOK, SubTypeOK, LogTypeOK, InHand, Delivering, Procs,
         Position, NoCursor
\* A step that neither moves a cursor nor brings a process to that point.
<1>q. ASSUME UNCHANGED <<cursor, delivered, ackedTo>>,
             \A p \in Procs : pc'[p] = "cursor" =>
                 pc[p] = "cursor" /\ tgt'[p] = tgt[p] /\ off'[p] = off[p]
      PROVE  EarnedInv'
  BY <1>q DEF EarnedInv, CursorIsEarned
<1>g. ASSUME NEW p \in Procs, UNCHANGED <<cursor, delivered, ackedTo>>, NEW l, Goto(p, l),
             l # "cursor",
             \A q \in Procs \ {p} : tgt'[q] = tgt[q] /\ off'[q] = off[q]
      PROVE  EarnedInv'
  BY <1>0, <1>q, <1>g DEF Goto
<1>r. ASSUME NEW p \in Procs, UNCHANGED <<cursor, delivered, ackedTo>>, Rest(p)
      PROVE  EarnedInv'
  BY <1>0, <1>g, <1>r DEF Rest
<1>n. ASSUME NEW p \in Procs, UNCHANGED <<cursor, delivered, ackedTo>>, NextItem(p)
      PROVE  EarnedInv'
  BY <1>0, <1>g, <1>n DEF NextItem
<1>1. ASSUME NEW verdict \in [Subs -> Verdicts], Publish(verdict) PROVE EarnedInv'
  BY <1>q, <1>1 DEF Publish, localVars, logVars, tallies
<1>2. CASE AgeOrCompact
  BY <1>q, <1>2 DEF AgeOrCompact, localVars, logVars, tallies
<1>3. ASSUME NEW s \in Subs, Lifecycle(s) PROVE EarnedInv'
  BY <1>q, <1>3 DEF Lifecycle, CaptureStart, AddSubscription, Lapse, Expire, Renew, Delete,
     StatusStep, SetGrant, localVars, logVars, tallies
<1>4. ASSUME NEW d \in Dispatchers, NEW s \in Subs, Begin(d, s) PROVE EarnedInv'
  BY <1>0, <1>g, <1>4 DEF Begin, logVars, tallies
<1>5. ASSUME NEW d \in Dispatchers, CatchUpStep(d) PROVE EarnedInv'
  <2>1. UNCHANGED <<cursor, delivered, ackedTo>> /\ d \in Procs
    BY <1>0, <1>5 DEF CatchUpStep, Acquire, ReadPosition, ReadPage, SkipRecord, SelectorRaises,
       StartDelivery, EndPage, PersistRead, PersistSet, logVars, tallies
  <2>2. CASE SelectorRaises(d) \/ ReadPage(d)
    BY <1>r, <1>g, <2>1, <2>2 DEF SelectorRaises, ReadPage
  <2>3. CASE SkipRecord(d)
    BY <1>q, <2>1, <2>3 DEF SkipRecord
  <2>4. CASE StartDelivery(d)
    BY <1>0, <1>g, <2>1, <2>4 DEF StartDelivery
  <2>5. CASE Acquire(d) \/ ReadPosition(d) \/ EndPage(d) \/ PersistRead(d) \/ PersistSet(d)
    BY <1>g, <2>1, <2>5 DEF Acquire, ReadPosition, EndPage, PersistRead, PersistSet, localVars
  <2> QED
    BY <1>5, <2>2, <2>3, <2>4, <2>5 DEF CatchUpStep
<1>a. ASSUME NEW p \in Procs, Accounting(p), UNCHANGED <<cursor, delivered, ackedTo>>
      PROVE  EarnedInv'
  BY <1>0, <1>a, <1>g, <1>r DEF Accounting, localVars
<1>6. ASSUME NEW p \in Procs, DeliveryStep(p) PROVE EarnedInv'
  <2>1. CASE SendAcked(p) \/ SendRefused(p) \/ RecordDead(p) \/ Enqueue(p) \/ AdvanceRead(p)
    BY <1>g, <2>1 DEF SendAcked, SendRefused, RecordDead, Enqueue, AdvanceRead,
       localVars, logVars, tallies
  <2>2. ASSUME NEW reached \in BOOLEAN, SendFailed(p, reached) PROVE EarnedInv'
    BY <1>g, <1>q, <2>2 DEF SendFailed, tallies
  <2>3. CASE RecordDelivered(p)
    <3>1. /\ tgt[p] \in Subs /\ off[p] \in Nat
          /\ UNCHANGED <<tgt, off, cursor, ackedTo>> /\ pc' = [pc EXCEPT ![p] = "cursor"]
          /\ delivered' = [delivered EXCEPT ![tgt[p]] = @ \cup {off[p]}]
      BY <1>0, <2>3 DEF RecordDelivered, Goto, localVars, tallies
    <3>2. /\ \A s \in Subs : delivered[s] \subseteq delivered'[s]
          /\ off[p] \in delivered'[tgt[p]]
      BY <1>0, <3>1
    <3>3. CursorIsEarned'
      BY <3>1, <3>2 DEF EarnedInv, CursorIsEarned
    <3>4. ASSUME NEW q \in Procs, pc'[q] = "cursor"
          PROVE  off'[q] \in delivered'[tgt'[q]] \/ off'[q] <= ackedTo'[tgt'[q]]
      <4>1. CASE q = p
        BY <3>1, <3>2, <4>1
      <4>2. CASE q # p
        BY <1>0, <3>1, <3>2, <3>4, <4>2 DEF EarnedInv
      <4> QED BY <4>1, <4>2
    <3> QED BY <3>3, <3>4 DEF EarnedInv
  <2>4. CASE AdvanceCursor(p)
    <3>1. /\ tgt[p] \in Subs /\ off[p] \in Nat
          /\ UNCHANGED <<tgt, off, delivered, ackedTo>> /\ pc' = [pc EXCEPT ![p] = "advRead"]
          /\ cursor' = [cursor EXCEPT ![tgt[p]] = Max2(@, off[p])]
          /\ off[p] \in delivered[tgt[p]] \/ off[p] <= ackedTo[tgt[p]]
      BY <1>0, <2>4 DEF AdvanceCursor, Goto, localVars, logVars, tallies, EarnedInv
    <3>2. \A s \in Subs : cursor'[s] = cursor[s] \/ (s = tgt[p] /\ cursor'[s] = off[p])
      <4>1. cursor'[tgt[p]] = Max2(cursor[tgt[p]], off[p])
        BY <1>0, <3>1
      <4>2. cursor'[tgt[p]] = cursor[tgt[p]] \/ cursor'[tgt[p]] = off[p]
        BY <4>1 DEF Max2
      <4>3. \A s \in Subs \ {tgt[p]} : cursor'[s] = cursor[s]
        BY <1>0, <3>1
      <4> QED BY <4>2, <4>3, Zenon
    <3>3. CursorIsEarned'
      BY <3>1, <3>2 DEF EarnedInv, CursorIsEarned
    <3> QED BY <1>0, <3>1, <3>3 DEF EarnedInv
  <2>5. CASE AdvanceSet(p) \/ HandOff(p)
    BY <1>a, <2>5 DEF AdvanceSet, HandOff, logVars, tallies
  <2> QED
    BY <1>6, <2>1, <2>2, <2>3, <2>4, <2>5 DEF DeliveryStep
<1>7. ASSUME NEW r \in RetryIds, FallDue(r) PROVE EarnedInv'
  BY <1>q, <1>7 DEF FallDue, localVars, logVars, tallies
<1>8. ASSUME NEW w \in Workers, Claim(w) PROVE EarnedInv'
  BY <1>0, <1>g, <1>8 DEF Claim, logVars, tallies
<1>9. ASSUME NEW w \in Workers, WorkerStep(w) PROVE EarnedInv'
  <2>1. w \in Procs /\ UNCHANGED <<cursor, delivered, ackedTo>>
    BY <1>0, <1>9 DEF WorkerStep, TakeItem, EndBatch, DropItem, LoadRecord, Reschedule,
       Complete, logVars, tallies
  <2>2. CASE TakeItem(w)
    <3>1. PICK c \in batch[w] :
            /\ tgt' = [tgt EXCEPT ![w] = item[c.id].sub]
            /\ off' = [off EXCEPT ![w] = item[c.id].off]
            /\ Goto(w, "load") \/ Goto(w, "drop")
      BY <2>2 DEF TakeItem
    <3> QED BY <1>0, <1>g, <2>1, <3>1
  <2>3. CASE EndBatch(w) \/ DropItem(w) \/ Reschedule(w) \/ Complete(w)
    BY <1>r, <1>n, <2>1, <2>3 DEF EndBatch, DropItem, Reschedule, Complete
  <2>4. CASE LoadRecord(w)
    BY <1>g, <2>1, <2>4 DEF LoadRecord
  <2> QED
    BY <1>9, <2>2, <2>3, <2>4 DEF WorkerStep
<1>10. ASSUME NEW a \in Ackers, NEW s \in Subs, NEW o \in Offsets, Ack(a, s, o)
       PROVE  EarnedInv'
  <2>1. /\ a \in Procs /\ o \in Nat /\ UNCHANGED <<cursor, delivered>>
        /\ tgt' = [tgt EXCEPT ![a] = s] /\ off' = [off EXCEPT ![a] = o]
        /\ ackedTo' = [ackedTo EXCEPT ![s] = Max2(@, o)]
        /\ pc' = [pc EXCEPT ![a] = "cursor"]
    BY <1>0, <1>10, EventStoreAssumption DEF Ack, Goto, logVars, Offsets
  <2>2. /\ \A x \in Subs : ackedTo[x] <= ackedTo'[x] /\ ackedTo'[x] \in Int
        /\ o <= ackedTo'[s]
    <3>1. ackedTo'[s] = Max2(ackedTo[s], o) /\ ackedTo[s] \in Int
      BY <1>0, <2>1
    <3>2. ackedTo'[s] \in Int /\ ackedTo[s] <= ackedTo'[s] /\ o <= ackedTo'[s]
      BY <2>1, <3>1 DEF Max2
    <3>3. \A x \in Subs \ {s} : ackedTo'[x] = ackedTo[x] /\ ackedTo[x] \in Int
      BY <1>0, <2>1
    <3> QED BY <3>2, <3>3
  <2>3. CursorIsEarned'
    <3> SUFFICES ASSUME NEW x \in Subs, cursor[x] # NoCursor
                 PROVE  cursor[x] \in delivered[x] \/ cursor[x] <= ackedTo'[x]
      BY <2>1 DEF CursorIsEarned
    <3>1. cursor[x] \in Int /\ ackedTo[x] \in Int
      BY <1>0
    <3>2. cursor[x] \in delivered[x] \/ cursor[x] <= ackedTo[x]
      BY DEF EarnedInv, CursorIsEarned
    <3> QED BY <2>2, <3>1, <3>2
  <2>4. ASSUME NEW q \in Procs, pc'[q] = "cursor"
        PROVE  off'[q] \in delivered'[tgt'[q]] \/ off'[q] <= ackedTo'[tgt'[q]]
    <3>1. CASE q = a
      BY <1>0, <2>1, <2>2, <3>1
    <3>2. CASE q # a
      <4>1. /\ pc[q] = "cursor" /\ tgt'[q] = tgt[q] /\ off'[q] = off[q]
            /\ tgt[q] \in Subs /\ off[q] \in Nat
        BY <1>0, <2>1, <2>4, <3>2
      <4>2. ackedTo[tgt[q]] \in Int /\ ackedTo[tgt[q]] <= ackedTo'[tgt[q]]
            /\ ackedTo'[tgt[q]] \in Int
        BY <1>0, <2>2, <4>1
      <4>3. off[q] \in delivered[tgt[q]] \/ off[q] <= ackedTo[tgt[q]]
        BY <4>1 DEF EarnedInv
      <4> QED BY <2>1, <4>1, <4>2, <4>3
    <3> QED BY <3>1, <3>2
  <2> QED BY <2>3, <2>4 DEF EarnedInv
<1>11. ASSUME NEW p \in Procs, Fail(p) PROVE EarnedInv'
  BY <1>r, <1>11 DEF Fail, logVars
<1>12. CASE UNCHANGED vars
  BY <1>q, <1>12 DEF vars, localVars, logVars, tallies
<1> QED
  BY <1>1, <1>2, <1>3, <1>4, <1>5, <1>6, <1>7, <1>8, <1>9, <1>10, <1>11, <1>12 DEF Next

\* The acked cursor a subscription shows stands at an event that was delivered to
\* it or that it acked itself: no dead letter, retry or crash moves it.
THEOREM CursorsAreEarned == Spec => []CursorIsEarned
<1>1. Init => EarnedInv
  BY DEF Init, EarnedInv, CursorIsEarned
<1>2. EarnedInv => CursorIsEarned
  BY DEF EarnedInv
<1> QED
  BY <1>1, <1>2, Inductive, NextEarned, PTL DEF Spec

-----------------------------------------------------------------------------
(* Who is left alone *)

Still == {"idle", "batch", "drop"}

\* A process turns to a subscription nobody works for in two places only: where
\* a catch-up begins, and where a worker takes an item whose subscription it
\* found active.
LEMMA WhoStarts ==
    ASSUME IInv, [Next]_vars, NEW s \in Subs, ~Engaged(s), Engaged(s)'
    PROVE  \/ status[s] = "active" /\ granted[s]
           \/ /\ status[s] \in {"active", "lapsed"}
              /\ \E w \in Workers : TakeItem(w)
<1>0. /\ pc \in [Procs -> Labels] /\ tgt \in [Procs -> Subs \cup {NoSub}]
      /\ Dispatchers \subseteq Procs /\ Workers \subseteq Procs /\ Ackers \subseteq Procs
  BY DEF IInv, TypeOK, LocalTypeOK, Procs
\* No process comes to work for s that did not already.
<1>q. ASSUME \A p \in Procs : pc'[p] \in Still \/ (pc[p] \notin Still /\ tgt'[p] = tgt[p])
      PROVE  FALSE
  BY <1>0, <1>q DEF Engaged, Still
<1>g. ASSUME NEW p \in Procs, NEW l, Goto(p, l), l \in Still \/ pc[p] \notin Still,
             \A q \in Procs \ {p} : tgt'[q] = tgt[q],
             l \in Still \/ tgt'[p] = tgt[p]
      PROVE  FALSE
  BY <1>0, <1>q, <1>g DEF Goto
<1>r. ASSUME NEW p \in Procs, Rest(p) PROVE FALSE
  BY <1>0, <1>r, <1>g DEF Rest, Still
<1>n. ASSUME NEW p \in Procs, NextItem(p) PROVE FALSE
  BY <1>0, <1>n, <1>g DEF NextItem, Still
<1>u. ASSUME UNCHANGED <<pc, tgt>> PROVE FALSE
  BY <1>0, <1>q, <1>u DEF Engaged
<1>1. ASSUME NEW verdict \in [Subs -> Verdicts], Publish(verdict) PROVE FALSE
  BY <1>u, <1>1 DEF Publish, localVars
<1>2. ASSUME AgeOrCompact PROVE FALSE
  BY <1>u, <1>2 DEF AgeOrCompact, localVars
<1>3. ASSUME NEW x \in Subs, Lifecycle(x) PROVE FALSE
  BY <1>u, <1>3 DEF Lifecycle, CaptureStart, AddSubscription, Lapse, Expire, Renew, Delete,
     StatusStep, SetGrant, localVars
<1>4. ASSUME NEW d \in Dispatchers, NEW x \in Subs, Begin(d, x)
      PROVE  status[s] = "active" /\ granted[s]
  <2>1. /\ status[x] = "active" /\ granted[x] /\ pc' = [pc EXCEPT ![d] = "lock"]
        /\ tgt' = [tgt EXCEPT ![d] = x]
    BY <1>4 DEF Begin, Goto
  <2>2. CASE x = s
    BY <2>1, <2>2
  <2>3. CASE x # s
    BY <1>0, <2>1, <2>3 DEF Engaged
  <2> QED BY <2>2, <2>3
<1>5. ASSUME NEW d \in Dispatchers, CatchUpStep(d) PROVE FALSE
  <2>2. CASE SelectorRaises(d) \/ ReadPage(d)
    BY <1>0, <1>r, <1>g, <2>2 DEF SelectorRaises, ReadPage, Still
  <2>3. CASE SkipRecord(d)
    BY <1>u, <2>3 DEF SkipRecord
  <2>4. CASE Acquire(d) \/ ReadPosition(d) \/ EndPage(d) \/ PersistRead(d) \/ PersistSet(d)
             \/ StartDelivery(d)
    BY <1>0, <1>g, <2>4 DEF Acquire, ReadPosition, EndPage, PersistRead, PersistSet,
       StartDelivery, localVars, Still
  <2> QED
    BY <1>5, <2>2, <2>3, <2>4 DEF CatchUpStep
<1>6. ASSUME NEW p \in Procs, DeliveryStep(p) PROVE FALSE
  <2>1. CASE SendAcked(p) \/ SendRefused(p) \/ RecordDead(p) \/ Enqueue(p) \/ AdvanceRead(p)
             \/ RecordDelivered(p) \/ AdvanceCursor(p)
    BY <1>g, <2>1 DEF SendAcked, SendRefused, RecordDead, Enqueue, AdvanceRead, RecordDelivered,
       AdvanceCursor, localVars, Still
  <2>2. ASSUME NEW reached \in BOOLEAN, SendFailed(p, reached) PROVE FALSE
    BY <1>g, <1>u, <2>2 DEF SendFailed, Still
  <2>3. ASSUME AdvanceSet(p) \/ HandOff(p) PROVE FALSE
    <3>1. Accounting(p) /\ pc[p] \notin Still
      BY <2>3 DEF AdvanceSet, HandOff, Still
    <3> QED
      BY <1>r, <1>g, <3>1 DEF Accounting, localVars
  <2> QED
    BY <1>6, <2>1, <2>2, <2>3 DEF DeliveryStep
<1>7. ASSUME NEW r \in RetryIds, FallDue(r) PROVE FALSE
  BY <1>u, <1>7 DEF FallDue, localVars
<1>8. ASSUME NEW w \in Workers, Claim(w) PROVE FALSE
  BY <1>0, <1>g, <1>8 DEF Claim, Still
<1>9. ASSUME NEW w \in Workers, WorkerStep(w)
      PROVE  TakeItem(w) /\ status[s] \in {"active", "lapsed"}
  <2>1. CASE TakeItem(w)
    <3>1. PICK c \in batch[w] :
            /\ tgt' = [tgt EXCEPT ![w] = item[c.id].sub]
            /\ Goto(w, IF status[item[c.id].sub] \in {"active", "lapsed"}
                       THEN "load" ELSE "drop")
      BY <2>1 DEF TakeItem
    <3>2. CASE status[item[c.id].sub] \notin {"active", "lapsed"}
      BY <1>0, <1>g, <3>1, <3>2 DEF Still
    <3>3. CASE item[c.id].sub # s
      BY <1>0, <3>1, <3>3 DEF Engaged, Goto
    <3> QED BY <2>1, <3>2, <3>3
  <2>2. CASE EndBatch(w) \/ DropItem(w) \/ Reschedule(w) \/ Complete(w)
    BY <1>0, <1>r, <1>n, <2>2 DEF EndBatch, DropItem, Reschedule, Complete
  <2>3. CASE LoadRecord(w)
    BY <1>0, <1>g, <2>3 DEF LoadRecord, Still
  <2> QED
    BY <1>9, <2>1, <2>2, <2>3 DEF WorkerStep
<1>10. ASSUME NEW a \in Ackers, NEW x \in Subs, NEW o \in Offsets, Ack(a, x, o) PROVE FALSE
  <2>1. a \notin Dispatchers /\ a \notin Workers
    BY DispatchAssumption
  <2>2. pc' = [pc EXCEPT ![a] = "cursor"] /\ tgt' = [tgt EXCEPT ![a] = x]
    BY <1>10 DEF Ack, Goto
  <2> QED BY <1>0, <2>1, <2>2 DEF Engaged
<1>11. ASSUME NEW p \in Procs, Fail(p) PROVE FALSE
  BY <1>r, <1>11 DEF Fail
<1>12. ASSUME UNCHANGED vars PROVE FALSE
  BY <1>u, <1>12 DEF vars, localVars
<1> QED
  BY <1>1, <1>2, <1>3, <1>4, <1>5, <1>6, <1>7, <1>8, <1>9, <1>10, <1>11, <1>12 DEF Next

\* A deleted subscription gets nothing more once the deliveries under way have
\* ended, whatever is still in the retry queue or in a worker's batch for it.
THEOREM DeletedIsLeftAlone == Spec => DeletedStaysQuiet
<1>1. IInv /\ [Next]_vars =>
          [\A s \in Subs : status[s] = "deleted" /\ ~Engaged(s) => ~Engaged(s)']_vars
  BY WhoStarts
<1> QED
  BY <1>1, Inductive, PTL DEF Spec, DeletedStaysQuiet

-----------------------------------------------------------------------------
(* Without a retry queue *)

\* Nothing is ever enqueued, so no retry worker finds anything to do.
NoQueue ==
    /\ pending = {}
    /\ due = {}
    /\ \A p \in Procs : pc[p] # "enqueue"
    /\ \A w \in Workers : pc[w] = "idle"

LEMMA NextNoQueue ==
    ASSUME ~QueueEnabled
    PROVE  IInv /\ NoQueue /\ [Next]_vars => NoQueue'
<1> SUFFICES ASSUME IInv, NoQueue, [Next]_vars PROVE NoQueue'
  OBVIOUS
<1>0. /\ pc \in [Procs -> Labels]
      /\ Dispatchers \subseteq Procs /\ Workers \subseteq Procs /\ Ackers \subseteq Procs
      /\ Dispatchers \cap Workers = {} /\ Workers \cap Ackers = {}
  BY DispatchAssumption DEF IInv, TypeOK, LocalTypeOK, Procs
<1>q. ASSUME UNCHANGED <<pc, pending, due>> PROVE NoQueue'
  BY <1>q DEF NoQueue
<1>g. ASSUME NEW p \in Procs, NEW l, Goto(p, l), UNCHANGED <<pending, due>>,
             l # "enqueue", l = "idle" \/ p \notin Workers
      PROVE  NoQueue'
  BY <1>0, <1>g DEF Goto, NoQueue
<1>r. ASSUME NEW p \in Procs, Rest(p), UNCHANGED <<pending, due>> PROVE NoQueue'
  BY <1>r, <1>g DEF Rest
<1>1. ASSUME NEW verdict \in [Subs -> Verdicts], Publish(verdict) PROVE NoQueue'
  BY <1>q, <1>1 DEF Publish, queueVars
<1>2. CASE AgeOrCompact
  BY <1>q, <1>2 DEF AgeOrCompact, queueVars
<1>3. ASSUME NEW x \in Subs, Lifecycle(x) PROVE NoQueue'
  BY <1>q, <1>3 DEF Lifecycle, CaptureStart, AddSubscription, Lapse, Expire, Renew, Delete,
     StatusStep, SetGrant, queueVars
<1>4. ASSUME NEW d \in Dispatchers, NEW x \in Subs, Begin(d, x) PROVE NoQueue'
  BY <1>0, <1>g, <1>4 DEF Begin, queueVars
<1>5. ASSUME NEW d \in Dispatchers, CatchUpStep(d) PROVE NoQueue'
  <2>1. d \in Procs /\ d \notin Workers
    BY <1>0
  <2>2. CASE SelectorRaises(d) \/ ReadPage(d)
    BY <1>r, <1>g, <2>1, <2>2 DEF SelectorRaises, ReadPage, queueVars
  <2>3. CASE SkipRecord(d)
    BY <1>q, <2>3 DEF SkipRecord, queueVars
  <2>4. CASE Acquire(d) \/ ReadPosition(d) \/ EndPage(d) \/ PersistRead(d) \/ PersistSet(d)
             \/ StartDelivery(d)
    BY <1>g, <2>1, <2>4 DEF Acquire, ReadPosition, EndPage, PersistRead, PersistSet,
       StartDelivery, queueVars
  <2> QED
    BY <1>5, <2>2, <2>3, <2>4 DEF CatchUpStep
<1>6. ASSUME NEW p \in Procs, DeliveryStep(p) PROVE NoQueue'
  <2>1. pc[p] # "idle" /\ pc[p] # "enqueue" /\ p \notin Workers
    BY <1>6 DEF DeliveryStep, SendAcked, SendRefused, RecordDead, Enqueue, AdvanceRead,
       RecordDelivered, AdvanceCursor, SendFailed, AdvanceSet, HandOff, NoQueue
  <2>2. CASE SendAcked(p) \/ SendRefused(p) \/ RecordDead(p) \/ AdvanceRead(p)
             \/ RecordDelivered(p) \/ AdvanceCursor(p)
    BY <1>g, <2>1, <2>2 DEF SendAcked, SendRefused, RecordDead, AdvanceRead, RecordDelivered,
       AdvanceCursor, queueVars
  <2>3. ASSUME NEW reached \in BOOLEAN, SendFailed(p, reached) PROVE NoQueue'
    BY <1>g, <1>q, <2>1, <2>3 DEF SendFailed, queueVars
  <2>4. CASE AdvanceSet(p) \/ HandOff(p)
    BY <1>g, <1>r, <2>1, <2>4 DEF AdvanceSet, HandOff, Accounting, queueVars
  <2> QED
    BY <1>6, <2>1, <2>2, <2>3, <2>4 DEF DeliveryStep, Enqueue
<1>7. ASSUME NEW r \in RetryIds, FallDue(r) PROVE NoQueue'
  BY <1>7 DEF FallDue, NoQueue
<1>8. ASSUME NEW w \in Workers, Claim(w) \/ WorkerStep(w) PROVE NoQueue'
  BY <1>8 DEF Claim, WorkerStep, TakeItem, EndBatch, DropItem, LoadRecord, Reschedule,
     Complete, NoQueue
<1>10. ASSUME NEW a \in Ackers, NEW x \in Subs, NEW o \in Offsets, Ack(a, x, o)
       PROVE  NoQueue'
  BY <1>0, <1>g, <1>10 DEF Ack, queueVars
<1>11. ASSUME NEW p \in Procs, Fail(p) PROVE NoQueue'
  BY <1>r, <1>11 DEF Fail, queueVars
<1>12. CASE UNCHANGED vars
  BY <1>q, <1>12 DEF vars, queueVars
<1> QED
  BY <1>1, <1>2, <1>3, <1>4, <1>5, <1>6, <1>7, <1>8, <1>10, <1>11, <1>12 DEF Next

LEMMA QueueStaysEmpty == ASSUME ~QueueEnabled PROVE Spec => []NoQueue
<1>1. Init => NoQueue
  BY DEF Init, NoQueue, Procs
<1> QED
  BY <1>1, Inductive, NextNoQueue, PTL DEF Spec

\* Who sends to a subscriber, and what.
LEMMA WhoReceives ==
    ASSUME IInv, [Next]_vars, NEW s \in Subs, NEW o \in received'[s] \ received[s]
    PROVE  \E p \in Procs : pc[p] = "send" /\ tgt[p] = s /\ off[p] = o
<1>0. received \in [Subs -> SUBSET Nat]
  BY DEF IInv, TypeOK, LogTypeOK
<1>1. received' # received
  OBVIOUS
<1>2. PICK p \in Procs : SendAcked(p) \/ \E reached \in BOOLEAN : SendFailed(p, reached)
  BY <1>1 DEF Next, vars, logVars,
     Publish, AgeOrCompact, Lifecycle, CaptureStart, AddSubscription, Lapse, Expire, Renew,
     Delete, StatusStep, SetGrant, Begin, CatchUpStep, Acquire, ReadPosition, ReadPage,
     SkipRecord, SelectorRaises, StartDelivery, EndPage, PersistRead, PersistSet,
     DeliveryStep, SendRefused, RecordDelivered, AdvanceCursor, AdvanceRead, AdvanceSet,
     RecordDead, Enqueue, HandOff, FallDue, Claim, WorkerStep, TakeItem, EndBatch, DropItem,
     LoadRecord, Reschedule, Complete, Ack, Fail
<1>3. /\ pc[p] = "send"
      /\ received' = [received EXCEPT ![tgt[p]] = @ \cup {off[p]}]
  BY <1>1, <1>2 DEF SendAcked, SendFailed
<1> QED BY <1>0, <1>3

\* In the inline mode events reach each subscription in log order, even when
\* several hosts catch up for it at once, handlers ack and processes fail.
THEOREM DeliveredInOrder ==
    ASSUME ~QueueEnabled
    PROVE  Spec => InOrder
<1>1. ASSUME IInv, NoQueue, [Next]_vars,
             NEW s \in Subs, NEW o \in received'[s] \ received[s],
             NEW x \in live, start[s] < x, x < o
      PROVE  x \in received[s] \cup Settled(s) \/ x <= ackedTo[s]
  <2>1. PICK p \in Procs : pc[p] = "send" /\ tgt[p] = s /\ off[p] = o
    BY <1>1, WhoReceives
  <2>2. AccountedUpTo(s, o - 1)
    BY <1>1, <2>1 DEF IInv, ProcOK, Undecided
  <2>3. start[s] \in Int /\ x \in Int /\ o \in Int
    <3>1. \A n \in Position : n \in Int
      BY DEF Position, NoCursor
    <3>2. start[s] \in Position /\ off[p] \in Position
      BY <1>1, <2>1 DEF IInv, TypeOK, SubTypeOK, LocalTypeOK
    <3>3. live \subseteq Int
      BY <1>1, EventStoreAssumption DEF IInv, TypeOK, StoreTypeOK
    <3> QED BY <1>1, <2>1, <3>1, <3>2, <3>3
  <2>4. Accounted(s, x)
    BY <1>1, <2>2, <2>3 DEF AccountedUpTo
  <2> QED
    BY <1>1, <2>4 DEF Accounted, AgedOut, Queued, NoQueue
<1>2. IInv /\ NoQueue /\ [Next]_vars =>
         [\A s \in Subs : \A o \in received'[s] \ received[s] :
             \A x \in live : (start[s] < x /\ x < o) =>
                 x \in received[s] \cup Settled(s) \/ x <= ackedTo[s]]_vars
  BY <1>1
<1> QED
  BY <1>2, Inductive, QueueStaysEmpty, PTL DEF Spec, InOrder

-----------------------------------------------------------------------------
(* One host, inline, and no explicit acks: a subscription has one catch-up at  *)
(* a time, and the mark follows it.                                            *)

Holding(d) == pc[d] \notin {"idle", "lock"}

Done(s) == delivered[s] \cup dead[s]

\* The dispatch lock keeps out every other catch-up of the subscription.
LockInv ==
    \A d, e \in Dispatchers : Holding(d) /\ Holding(e) /\ tgt[d] = tgt[e] => d = e

\* The catch-up is never behind the mark, and what it read of the mark is not
\* ahead of it.
MarkOf(d) ==
    /\ pc[d] \in {"read", "scan", "persistRead", "persistSet"} \cup Delivering
          => hw[tgt[d]] <= scan[d]
    /\ pc[d] = "advSet" => seen[d] <= hw[tgt[d]]

\* Without failures, an event that is done lies below the mark or is the one the
\* catch-up moves the mark to next; the one being sent is not done.
DupInv ==
    failures = 0 =>
       /\ \A s \in Subs : \A o \in Done(s) :
             \/ o <= hw[s]
             \/ \E d \in Dispatchers : pc[d] \in Decided /\ tgt[d] = s /\ off[d] = o
       /\ \A d \in Dispatchers : pc[d] \in {"send", "delivered", "dead"}
             => off[d] \notin Done(tgt[d])

SoloInv ==
    /\ LockInv
    /\ \A d \in Dispatchers : MarkOf(d)
    /\ DupInv

\* What a step of d leaves of the others.
Alone(d) ==
    \A e \in Dispatchers \ {d} :
        /\ pc'[e] = pc[e] /\ tgt'[e] = tgt[e] /\ scan'[e] = scan[e]
        /\ off'[e] = off[e] /\ seen'[e] = seen[e]

\* A step of the catch-up d keeps SoloInv if it keeps d's own part of it, moves
\* no mark back, and touches the mark and the record of its subscription only
\* while it holds the lock.
LEMMA SoloStep ==
    ASSUME IInv, SoloInv, NEW d \in Dispatchers, Alone(d),
           hw' \in [Subs -> Position],
           \A s \in Subs : hw[s] <= hw'[s],
           \A s \in Subs : hw'[s] = hw[s] \/ (Holding(d) /\ s = tgt[d]),
           \A s \in Subs : \A o \in Done(s)' :
               \/ o \in Done(s)
               \/ /\ Holding(d) /\ s = tgt[d] /\ o = off[d]
                  /\ pc'[d] \in Decided /\ tgt'[d] = tgt[d] /\ off'[d] = off[d],
           Holding(d)' => /\ tgt'[d] = tgt[d]
                          /\ \/ Holding(d)
                             \/ \A e \in Dispatchers : tgt[e] = tgt[d] => ~Holding(e),
           MarkOf(d)',
           failures' = 0 => failures = 0,
           failures' = 0 /\ pc[d] \in Decided =>
               \/ off[d] <= hw'[tgt[d]]
               \/ pc'[d] \in Decided /\ tgt'[d] = tgt[d] /\ off'[d] = off[d],
           failures' = 0 /\ pc'[d] \in {"send", "delivered", "dead"} =>
               off'[d] \notin Done(tgt[d])' /\ tgt'[d] = tgt[d]
    PROVE  SoloInv'
<1>0. /\ \A s \in Subs : hw[s] \in Int /\ hw'[s] \in Int
      /\ \A e \in Dispatchers : Holding(e) => tgt[e] \in Subs
      /\ \A s \in Subs : Done(s) \subseteq Int
      /\ \A e \in Dispatchers : pc[e] \in Delivering => off[e] \in Int
  BY DEF IInv, TypeOK, SubTypeOK, LogTypeOK, InHand, Position, NoCursor, Holding, Done, Procs,
         ProcOK, CatchUpOK, Working
<1>1. LockInv'
  BY DEF SoloInv, LockInv, Alone, Holding
<1>2. ASSUME NEW e \in Dispatchers, e # d PROVE MarkOf(e)'
  <2>1. /\ pc'[e] = pc[e] /\ tgt'[e] = tgt[e] /\ scan'[e] = scan[e] /\ seen'[e] = seen[e]
        /\ MarkOf(e)
    BY <1>2 DEF SoloInv, Alone
  <2>2. CASE ~Holding(e)
    BY <2>1, <2>2 DEF MarkOf, Holding, Delivering
  <2>3. CASE Holding(e)
    <3>1. hw'[tgt[e]] = hw[tgt[e]]
      BY <1>0, <1>2, <2>3 DEF SoloInv, LockInv
    <3> QED BY <2>1, <3>1 DEF MarkOf
  <2> QED BY <2>2, <2>3
<1>3. ASSUME failures' = 0, NEW s \in Subs, NEW o \in Done(s)'
      PROVE  \/ o <= hw'[s]
             \/ \E e \in Dispatchers : pc'[e] \in Decided /\ tgt'[e] = s /\ off'[e] = o
  <2>1. CASE o \notin Done(s)
    BY <1>3, <2>1
  <2>2. CASE o \in Done(s) /\ o <= hw[s]
    BY <1>0, <2>2
  <2>3. CASE /\ o \in Done(s)
             /\ \E e \in Dispatchers : pc[e] \in Decided /\ tgt[e] = s /\ off[e] = o
    <3>1. PICK e \in Dispatchers : pc[e] \in Decided /\ tgt[e] = s /\ off[e] = o
      BY <2>3
    <3>2. CASE e = d
      BY <1>3, <3>1, <3>2
    <3>3. CASE e # d
      BY <3>1, <3>3 DEF Alone
    <3> QED BY <3>2, <3>3
  <2> QED BY <1>3, <2>1, <2>2, <2>3 DEF SoloInv, DupInv
<1>4. ASSUME failures' = 0, NEW e \in Dispatchers, pc'[e] \in {"send", "delivered", "dead"}
      PROVE  (off[e] \notin Done(tgt[e]))'
  <2>1. CASE e = d
    BY <1>4, <2>1 DEF Done
  <2>2. CASE e # d
    <3>1. /\ pc[e] = pc'[e] /\ tgt'[e] = tgt[e] /\ off'[e] = off[e] /\ Holding(e)
          /\ off[e] \notin Done(tgt[e]) /\ tgt[e] \in Subs
      BY <1>0, <1>4, <2>2 DEF Alone, Holding, SoloInv, DupInv
    <3>2. \A o \in Done(tgt[e])' : o \in Done(tgt[e])
      BY <2>2, <3>1 DEF SoloInv, LockInv
    <3> QED BY <3>1, <3>2 DEF Done
  <2> QED BY <2>1, <2>2
<1>5. DupInv'
  BY <1>3, <1>4 DEF DupInv, Done
<1> QED BY <1>1, <1>2, <1>5 DEF SoloInv

\* A step that leaves the processes alone, and marks only subscriptions that are
\* not registered yet.
LEMMA SoloQuiet ==
    ASSUME IInv, SoloInv, UNCHANGED <<pc, tgt, scan, off, seen, delivered, dead, failures>>,
           \A s \in Subs : hw'[s] \in Int /\ hw[s] <= hw'[s],
           \A s \in Subs : hw'[s] = hw[s] \/ ~Registered(s)
    PROVE  SoloInv'
<1>0. /\ \A s \in Subs : hw[s] \in Int
      /\ \A s \in Subs : Done(s) \subseteq Int
      /\ \A d \in Dispatchers : Holding(d) => tgt[d] \in Subs /\ Registered(tgt[d])
  BY DEF IInv, TypeOK, SubTypeOK, LogTypeOK, InHand, Position, NoCursor, Holding, Done, Procs,
         ProcOK, CatchUpOK, Working
<1>1. LockInv'
  BY DEF SoloInv, LockInv, Holding
<1>2. ASSUME NEW d \in Dispatchers PROVE MarkOf(d)'
  <2>1. MarkOf(d)
    BY DEF SoloInv
  <2>2. Holding(d) => hw'[tgt[d]] = hw[tgt[d]]
    BY <1>0
  <2> QED BY <2>1, <2>2 DEF MarkOf, Holding, Delivering
<1>3. DupInv'
  <2>1. \A s \in Subs : \A o \in Done(s) : o <= hw[s] => o <= hw'[s]
    BY <1>0
  <2> QED BY <2>1 DEF SoloInv, DupInv, Done
<1> QED BY <1>1, <1>2, <1>3 DEF SoloInv

\* The steps of a catch-up outside the delivery of an event.
LEMMA SoloCatchUp ==
    ASSUME IInv, SoloInv, \A g, h \in Hosts : g = h,
           NEW d \in Dispatchers, CatchUpStep(d)
    PROVE  SoloInv' /\ \A s \in Subs : hw[s] <= hw'[s]
<1>0. /\ d \in Procs /\ Dispatchers \subseteq Procs
      /\ pc \in [Procs -> Labels] /\ tgt \in [Procs -> Subs \cup {NoSub}]
      /\ scan \in [Procs -> Position] /\ off \in [Procs -> Position]
      /\ seen \in [Procs -> Position] /\ hw \in [Subs -> Position]
      /\ pc[d] # "idle" => tgt[d] \in Subs
      /\ MarkOf(d) /\ CatchUpOK(d)
      /\ Position \subseteq Int
      /\ \A s \in Subs : hw[s] \in Int /\ hw[s] <= hw[s]
  BY DEF IInv, TypeOK, LocalTypeOK, SubTypeOK, InHand, Procs, ProcOK, CatchUpOK, SoloInv,
         Working, Position, NoCursor
<1>1. UNCHANGED <<delivered, dead, failures>>
  BY DEF CatchUpStep, Acquire, ReadPosition, ReadPage, SkipRecord, SelectorRaises,
     StartDelivery, EndPage, PersistRead, PersistSet, logVars, tallies
\* A step that keeps the mark and the lock.
<1>s. ASSUME UNCHANGED hw, pc[d] \in Scanning, Alone(d), MarkOf(d)',
             Holding(d)' => tgt'[d] = tgt[d],
             failures = 0 /\ pc'[d] \in {"send", "delivered", "dead"} =>
                 off'[d] \notin Done(tgt[d])' /\ tgt'[d] = tgt[d]
      PROVE  SoloInv' /\ \A s \in Subs : hw[s] <= hw'[s]
  <2>1. Holding(d) /\ pc[d] \notin Decided
    BY <1>s DEF Holding, Scanning, Decided
  <2>2. \A s \in Subs : hw[s] <= hw'[s]
    BY <1>0, <1>s, Zenon
  <2>3. \A s \in Subs : Done(s)' = Done(s)
    BY <1>1 DEF Done
  <2> QED BY <1>0, <1>1, <1>s, <2>1, <2>2, <2>3, SoloStep
<1>2. CASE Acquire(d)
  <2>1. /\ pc[d] = "lock" /\ pc' = [pc EXCEPT ![d] = "position"] /\ UNCHANGED hw
        /\ UNCHANGED <<tgt, scan, off, seen>>
        /\ \A e \in Dispatchers : e[1] = d[1] /\ tgt[e] = tgt[d] => pc[e] \in {"idle", "lock"}
    BY <1>2 DEF Acquire, Goto, localVars
  <2>2. \A e \in Dispatchers : e[1] = d[1]
    BY DEF Dispatchers
  <2>3. \A e \in Dispatchers : tgt[e] = tgt[d] => ~Holding(e)
    BY <2>1, <2>2 DEF Holding
  <2>4. Alone(d) /\ MarkOf(d)' /\ pc'[d] \notin {"send", "delivered", "dead"}
        /\ pc[d] \notin Decided
    BY <1>0, <2>1 DEF Alone, MarkOf, Delivering, Decided
  <2>5. \A s \in Subs : Done(s)' = Done(s)
    BY <1>1 DEF Done
  <2>6. \A s \in Subs : hw[s] <= hw'[s]
    BY <1>0, <2>1, Zenon
  <2> QED BY <1>0, <1>1, <2>1, <2>3, <2>4, <2>5, <2>6, SoloStep
<1>3. CASE ReadPosition(d)
  <2>1. /\ pc[d] = "position" /\ pc' = [pc EXCEPT ![d] = "read"] /\ UNCHANGED hw
        /\ UNCHANGED <<tgt, off, seen>> /\ scan' = [scan EXCEPT ![d] = hw[tgt[d]]]
    BY <1>3 DEF ReadPosition, Goto
  <2>2. /\ pc'[d] = "read" /\ scan'[d] = hw[tgt[d]] /\ tgt'[d] = tgt[d]
        /\ hw'[tgt[d]] <= hw[tgt[d]]
    BY <1>0, <2>1
  <2>3. Alone(d) /\ MarkOf(d)'
    BY <1>0, <2>1, <2>2 DEF Alone, MarkOf
  <2> QED BY <1>0, <1>s, <2>1, <2>3 DEF Scanning
<1>r. ASSUME Rest(d), pc[d] \in Scanning, UNCHANGED hw
      PROVE  SoloInv' /\ \A s \in Subs : hw[s] <= hw'[s]
  <2>1. Alone(d) /\ pc'[d] = "idle"
    BY <1>0, <1>r DEF Alone, Rest, Goto
  <2>2. MarkOf(d)' /\ ~Holding(d)'
    BY <2>1 DEF MarkOf, Delivering, Holding
  <2> QED BY <1>s, <1>r, <2>1, <2>2
<1>4. CASE ReadPage(d)
  <2>1. CASE Rest(d)
    BY <1>4, <1>r, <2>1 DEF ReadPage, Scanning
  <2>2. CASE ~Rest(d)
    <3>1. /\ pc[d] = "read" /\ pc' = [pc EXCEPT ![d] = "scan"]
          /\ UNCHANGED <<hw, tgt, scan, off, seen>>
      BY <1>4, <2>2 DEF ReadPage, Goto
    <3>2. Alone(d) /\ MarkOf(d)'
      BY <1>0, <3>1 DEF Alone, MarkOf, Delivering
    <3> QED BY <1>0, <1>s, <3>1, <3>2 DEF Scanning
  <2> QED BY <2>1, <2>2
<1>5. CASE SelectorRaises(d)
  BY <1>5, <1>r DEF SelectorRaises, Scanning
<1>6. CASE SkipRecord(d)
  <2>1. PICK o \in missed[tgt[d]] : IsNext(d, o) /\ scan' = [scan EXCEPT ![d] = o]
    BY <1>6 DEF SkipRecord
  <2>2. pc[d] = "scan" /\ UNCHANGED <<hw, pc, tgt, off, seen>>
    BY <1>6 DEF SkipRecord
  <2>3. scan[d] < o /\ o \in Int /\ hw[tgt[d]] <= scan[d]
    BY <1>0, <2>1, <2>2 DEF CatchUpOK, PageOK, IsNext, MarkOf, IInv, TypeOK, LocalTypeOK
  <2>4. scan[d] \in Int /\ hw[tgt[d]] \in Int
    BY <1>0, <2>2
  <2>5. Alone(d) /\ scan'[d] = o
    BY <1>0, <2>1, <2>2 DEF Alone
  <2>6. MarkOf(d)'
    BY <2>2, <2>3, <2>4, <2>5 DEF MarkOf
  <2> QED BY <1>0, <1>s, <2>2, <2>5, <2>6 DEF Scanning
<1>7. CASE StartDelivery(d)
  <2>1. PICK o \in page[d] : IsNext(d, o) /\ off' = [off EXCEPT ![d] = o]
    BY <1>7 DEF StartDelivery
  <2>2. /\ pc[d] = "scan" /\ pc' = [pc EXCEPT ![d] = "send"] /\ tgt[d] \in Subs
        /\ UNCHANGED <<hw, tgt, scan, seen>>
    BY <1>0, <1>7 DEF StartDelivery, Goto
  <2>3. scan[d] < o /\ o \in Int /\ hw[tgt[d]] <= scan[d]
    BY <1>0, <2>1, <2>2 DEF CatchUpOK, PageOK, IsNext, MarkOf, IInv, TypeOK, LocalTypeOK
  <2>4. scan[d] \in Int /\ hw[tgt[d]] \in Int
    BY <1>0, <2>2
  <2>5. Alone(d) /\ off'[d] = o /\ MarkOf(d)'
    BY <1>0, <2>1, <2>2, <2>3 DEF Alone, MarkOf
  <2>6. failures = 0 => o \notin Done(tgt[d])
    <3> SUFFICES ASSUME failures = 0, o \in Done(tgt[d]) PROVE FALSE
      OBVIOUS
    <3>1. PICK e \in Dispatchers : pc[e] \in Decided /\ tgt[e] = tgt[d]
      BY <2>2, <2>3, <2>4 DEF SoloInv, DupInv
    <3>2. e = d
      BY <2>2, <3>1 DEF SoloInv, LockInv, Holding, Decided
    <3> QED BY <2>2, <3>1, <3>2 DEF Decided
  <2>7. Done(tgt[d])' = Done(tgt[d])
    BY <1>1, <2>2 DEF Done
  <2> QED BY <1>0, <1>s, <2>2, <2>5, <2>6, <2>7 DEF Scanning
<1>8. CASE EndPage(d)
  <2>1. /\ pc[d] = "scan" /\ pc' = [pc EXCEPT ![d] = "persistRead"]
        /\ UNCHANGED <<hw, tgt, scan, off, seen>>
    BY <1>8 DEF EndPage, Goto, localVars
  <2>2. Alone(d) /\ MarkOf(d)'
    BY <1>0, <2>1 DEF Alone, MarkOf, Delivering
  <2> QED BY <1>0, <1>s, <2>1, <2>2 DEF Scanning
<1>9. CASE PersistRead(d)
  <2>1. /\ pc[d] = "persistRead" /\ pc' = [pc EXCEPT ![d] = "persistSet"]
        /\ UNCHANGED <<hw, tgt, scan, off>> /\ seen' = [seen EXCEPT ![d] = hw[tgt[d]]]
    BY <1>9 DEF PersistRead, Goto
  <2>2. Alone(d) /\ MarkOf(d)'
    BY <1>0, <2>1 DEF Alone, MarkOf, Delivering
  <2> QED BY <1>0, <1>s, <2>1, <2>2 DEF Scanning
<1>10. CASE PersistSet(d)
  <2>1. /\ pc[d] = "persistSet" /\ pc' = [pc EXCEPT ![d] = "position"]
        /\ UNCHANGED <<tgt, scan, off>> /\ seen' = [seen EXCEPT ![d] = NoCursor]
        /\ hw' = hw \/ hw' = [hw EXCEPT ![tgt[d]] = scan[d]]
    BY <1>10 DEF PersistSet, Goto
  <2>2. Alone(d) /\ MarkOf(d)' /\ Holding(d) /\ tgt[d] \in Subs
    BY <1>0, <2>1 DEF Alone, MarkOf, Delivering, Holding
  <2>3. hw[tgt[d]] <= scan[d]
    BY <1>0, <2>1 DEF MarkOf
  <2>4. /\ hw' \in [Subs -> Position]
        /\ \A s \in Subs : hw[s] <= hw'[s]
        /\ \A s \in Subs : hw'[s] = hw[s] \/ s = tgt[d]
    <3>1. scan[d] \in Position /\ scan[d] \in Int
      BY <1>0
    <3>2. CASE hw' = hw
      BY <1>0, <3>2, Zenon
    <3>3. CASE hw' = [hw EXCEPT ![tgt[d]] = scan[d]]
      <4>1. hw' \in [Subs -> Position] /\ hw'[tgt[d]] = scan[d]
        BY <1>0, <2>2, <3>1, <3>3
      <4>2. \A s \in Subs : hw'[s] = hw[s] \/ s = tgt[d]
        BY <1>0, <3>3
      <4> QED BY <1>0, <2>3, <4>1, <4>2, Zenon
    <3> QED BY <2>1, <3>2, <3>3
  <2>5. \A s \in Subs : Done(s)' = Done(s)
    BY <1>1 DEF Done
  <2>6. pc[d] \notin Decided /\ pc'[d] \notin {"send", "delivered", "dead"}
        /\ tgt'[d] = tgt[d]
    BY <1>0, <2>1 DEF Decided
  <2> QED BY <1>1, <2>2, <2>4, <2>5, <2>6, SoloStep
<1> QED
  BY <1>2, <1>3, <1>4, <1>5, <1>6, <1>7, <1>8, <1>9, <1>10 DEF CatchUpStep

\* The steps of the delivery of one event.
LEMMA SoloDelivery ==
    ASSUME IInv, SoloInv, NoQueue, NEW d \in Dispatchers, DeliveryStep(d)
    PROVE  SoloInv' /\ \A s \in Subs : hw[s] <= hw'[s]
<1>0. /\ d \in Procs /\ Dispatchers \subseteq Procs
      /\ d \notin Workers /\ d \notin Ackers
      /\ pc \in [Procs -> Labels] /\ tgt \in [Procs -> Subs \cup {NoSub}]
      /\ scan \in [Procs -> Position] /\ off \in [Procs -> Position]
      /\ seen \in [Procs -> Position] /\ hw \in [Subs -> Position]
      /\ MarkOf(d) /\ CatchUpOK(d)
      /\ \A s \in Subs : hw[s] \in Int /\ hw[s] <= hw[s]
      /\ delivered \in [Subs -> SUBSET Nat] /\ dead \in [Subs -> SUBSET Nat]
  BY DispatchAssumption
     DEF IInv, TypeOK, LocalTypeOK, SubTypeOK, LogTypeOK, Procs, ProcOK, SoloInv, Position,
         NoCursor
<1>1. pc[d] \in Delivering /\ UNCHANGED failures
  BY DEF DeliveryStep, SendAcked, SendRefused, SendFailed, RecordDelivered, AdvanceCursor,
     AdvanceRead, AdvanceSet, RecordDead, Enqueue, HandOff, Delivering, tallies
<1>2. /\ Holding(d) /\ tgt[d] \in Subs /\ off[d] \in Nat
      /\ hw[tgt[d]] <= scan[d] /\ scan[d] < off[d]
      /\ scan[d] \in Int /\ hw[tgt[d]] \in Int
  <2>1. Holding(d) /\ tgt[d] \in Subs /\ off[d] \in Nat
    BY <1>0, <1>1 DEF Holding, Delivering, IInv, TypeOK, InHand
  <2>2. hw[tgt[d]] <= scan[d] /\ scan[d] < off[d]
    BY <1>0, <1>1 DEF MarkOf, CatchUpOK, PageOK, IsNext
  <2> QED BY <1>0, <2>1, <2>2 DEF Position, NoCursor
\* A step that moves no mark and records nothing.
<1>s. ASSUME NEW l \in Delivering, pc'[d] = l,
             \A e \in Dispatchers \ {d} : pc'[e] = pc[e],
             UNCHANGED <<hw, tgt, scan, off, delivered, dead>>,
             \A e \in Dispatchers \ {d} : seen'[e] = seen[e],
             l = "advSet" => seen'[d] <= hw[tgt[d]],
             l \in {"send", "delivered", "dead"} => pc[d] \in {"send", "delivered", "dead"},
             pc[d] \in Decided => l \in Decided
      PROVE  SoloInv' /\ \A s \in Subs : hw[s] <= hw'[s]
  <2>1. Alone(d) /\ MarkOf(d)'
    BY <1>2, <1>s DEF Alone, MarkOf
  <2>2. \A s \in Subs : hw[s] <= hw'[s]
    BY <1>0, <1>s, Zenon
  <2>3. \A s \in Subs : Done(s)' = Done(s)
    BY <1>s DEF Done
  <2>4. failures' = 0 /\ pc'[d] \in {"send", "delivered", "dead"} =>
            off'[d] \notin Done(tgt[d])' /\ tgt'[d] = tgt[d]
    BY <1>1, <1>s DEF SoloInv, DupInv, Done
  <2> QED BY <1>0, <1>1, <1>2, <1>s, <2>1, <2>2, <2>3, <2>4, SoloStep
<1>g. ASSUME NEW l \in Delivering, Goto(d, l), UNCHANGED <<hw, localVars, delivered, dead>>,
             l # "advSet",
             l \in {"send", "delivered", "dead"} => pc[d] \in {"send", "delivered", "dead"},
             pc[d] \in Decided => l \in Decided
      PROVE  SoloInv' /\ \A s \in Subs : hw[s] <= hw'[s]
  <2>1. pc'[d] = l /\ \A e \in Dispatchers \ {d} : pc'[e] = pc[e]
    BY <1>0, <1>g DEF Goto
  <2> QED BY <1>g, <1>s, <2>1 DEF localVars
<1>3. CASE SendAcked(d) \/ SendRefused(d) \/ AdvanceCursor(d)
  BY <1>3, <1>g DEF SendAcked, SendRefused, AdvanceCursor, Delivering, Decided, logVars
<1>4. ASSUME NEW reached \in BOOLEAN, SendFailed(d, reached)
      PROVE  SoloInv' /\ \A s \in Subs : hw[s] <= hw'[s]
  <2>1. /\ UNCHANGED <<hw, tgt, scan, off, seen, delivered, dead>> /\ pc[d] = "send"
        /\ \/ pc' = [pc EXCEPT ![d] = "dead"]
           \/ UNCHANGED pc
           \/ pc' = [pc EXCEPT ![d] = "enqueue"]
    BY <1>0, <1>4 DEF SendFailed, Goto
  <2>2. /\ pc'[d] \in {"send", "dead", "enqueue"}
        /\ \A e \in Dispatchers \ {d} : pc'[e] = pc[e]
    BY <1>0, <2>1
  <2> QED BY <1>s, <2>1, <2>2 DEF Delivering, Decided
<1>5. CASE AdvanceRead(d)
  <2>1. /\ UNCHANGED <<hw, tgt, scan, off, delivered, dead>> /\ pc[d] = "advRead"
        /\ pc' = [pc EXCEPT ![d] = "advSet"] /\ seen' = [seen EXCEPT ![d] = hw[tgt[d]]]
    BY <1>5 DEF AdvanceRead, Goto, logVars
  <2>2. /\ pc'[d] = "advSet" /\ seen'[d] = hw[tgt[d]]
        /\ \A e \in Dispatchers \ {d} : pc'[e] = pc[e] /\ seen'[e] = seen[e]
    BY <1>0, <2>1
  <2> QED BY <1>0, <1>2, <1>s, <2>1, <2>2 DEF Delivering, Decided
<1>6. CASE RecordDelivered(d) \/ RecordDead(d)
  <2>1. /\ UNCHANGED <<hw, tgt, scan, off, seen>> /\ pc[d] \in {"delivered", "dead"}
        /\ pc' = [pc EXCEPT ![d] = "cursor"] \/ pc' = [pc EXCEPT ![d] = "handoff"]
        /\ \/ delivered' = [delivered EXCEPT ![tgt[d]] = @ \cup {off[d]}] /\ UNCHANGED dead
           \/ dead' = [dead EXCEPT ![tgt[d]] = @ \cup {off[d]}] /\ UNCHANGED delivered
    BY <1>6 DEF RecordDelivered, RecordDead, Goto, localVars
  <2>2. pc'[d] \in {"cursor", "handoff"} /\ Alone(d)
    BY <1>0, <2>1 DEF Alone
  <2>3. MarkOf(d)'
    BY <1>2, <2>1, <2>2 DEF MarkOf
  <2>4. \A s \in Subs : \A o \in Done(s)' : o \in Done(s) \/ (s = tgt[d] /\ o = off[d])
    BY <1>0, <1>2, <2>1 DEF Done
  <2>5. \A s \in Subs : hw[s] <= hw'[s]
    BY <1>0, <2>1, Zenon
  <2>6. /\ pc'[d] \in Decided /\ tgt'[d] = tgt[d] /\ off'[d] = off[d]
        /\ pc'[d] \notin {"send", "delivered", "dead"}
    BY <2>1, <2>2 DEF Decided
  <2> QED BY <1>0, <1>1, <1>2, <2>1, <2>2, <2>3, <2>4, <2>5, <2>6, SoloStep
<1>7. CASE AdvanceSet(d) \/ HandOff(d)
  <2>1. /\ hw' = [hw EXCEPT ![tgt[d]] = off[d]]
        /\ Accounting(d) /\ UNCHANGED <<delivered, dead>>
    <3>1. CASE HandOff(d)
      BY <3>1 DEF HandOff, logVars
    <3>2. CASE AdvanceSet(d)
      <4>1. seen[d] <= hw[tgt[d]] /\ seen[d] \in Int
        BY <1>0, <3>2 DEF AdvanceSet, MarkOf, Position, NoCursor
      <4>2. off[d] > seen[d]
        BY <1>2, <4>1
      <4> QED BY <3>2, <4>2 DEF AdvanceSet, logVars
    <3> QED BY <1>7, <3>1, <3>2
  <2>2. /\ scan' = [scan EXCEPT ![d] = off[d]] /\ off' = [off EXCEPT ![d] = NoCursor]
        /\ seen' = [seen EXCEPT ![d] = NoCursor] /\ pc' = [pc EXCEPT ![d] = "scan"]
        /\ UNCHANGED tgt
    BY <1>0, <2>1 DEF Accounting, Goto
  <2>3. Alone(d) /\ pc'[d] = "scan" /\ scan'[d] = off[d] /\ tgt'[d] = tgt[d]
    BY <1>0, <2>2 DEF Alone
  <2>4. /\ hw' \in [Subs -> Position] /\ hw'[tgt[d]] = off[d]
        /\ \A s \in Subs : hw'[s] = hw[s] \/ s = tgt[d]
    BY <1>0, <1>2, <2>1 DEF Position
  <2>5. hw[tgt[d]] <= off[d] /\ off[d] <= off[d]
    BY <1>2
  <2>6. \A s \in Subs : hw[s] <= hw'[s]
    BY <1>0, <2>4, <2>5, Zenon
  <2>7. MarkOf(d)'
    BY <2>3, <2>4, <2>5 DEF MarkOf
  <2>8. \A s \in Subs : Done(s)' = Done(s)
    BY <2>1 DEF Done
  <2>9. off[d] <= hw'[tgt[d]] /\ pc'[d] \notin {"send", "delivered", "dead"}
    BY <2>3, <2>4, <2>5
  <2> QED BY <1>1, <1>2, <2>3, <2>4, <2>6, <2>7, <2>8, <2>9, SoloStep
<1> QED
  BY <1>3, <1>4, <1>5, <1>6, <1>7, <1>0 DEF DeliveryStep, Enqueue, NoQueue

LEMMA NextSolo ==
    ASSUME Ackers = {}, \A g, h \in Hosts : g = h
    PROVE  IInv /\ NoQueue /\ SoloInv /\ [Next]_vars =>
               SoloInv' /\ \A s \in Subs : hw[s] <= hw'[s]
<1> DEFINE Goal == SoloInv' /\ \A s \in Subs : hw[s] <= hw'[s]
<1> SUFFICES ASSUME IInv, NoQueue, SoloInv, [Next]_vars PROVE Goal
  OBVIOUS
<1>0. /\ Dispatchers \subseteq Procs
      /\ \A p \in Procs : p \in Dispatchers \/ p \in Workers
      /\ pc \in [Procs -> Labels] /\ tgt \in [Procs -> Subs \cup {NoSub}]
      /\ scan \in [Procs -> Position] /\ off \in [Procs -> Position]
      /\ seen \in [Procs -> Position] /\ hw \in [Subs -> Position]
      /\ \A s \in Subs : hw[s] \in Int /\ hw[s] <= hw[s]
      /\ \A s \in Subs : start[s] \in Int /\ NoCursor <= start[s]
      /\ failures \in Nat
  BY DispatchAssumption
     DEF IInv, TypeOK, LocalTypeOK, SubTypeOK, Procs, Position, NoCursor
<1>q. ASSUME UNCHANGED <<pc, localVars, delivered, dead, failures, hw>> PROVE Goal
  BY <1>0, <1>q, SoloQuiet DEF localVars
<1>1. ASSUME NEW verdict \in [Subs -> Verdicts], Publish(verdict) PROVE Goal
  BY <1>q, <1>1 DEF Publish, logVars, tallies
<1>2. CASE AgeOrCompact
  BY <1>q, <1>2 DEF AgeOrCompact, logVars, tallies
<1>3. ASSUME NEW x \in Subs, Lifecycle(x) PROVE Goal
  <2>1. CASE AddSubscription(x)
    <3>1. /\ status[x] = "starting" /\ hw' = [hw EXCEPT ![x] = start[x]]
          /\ UNCHANGED <<pc, localVars, delivered, dead, failures>>
      BY <2>1 DEF AddSubscription, logVars, tallies
    <3>2. ~Registered(x)
      BY <3>1 DEF Registered
    <3>3. hw[x] = NoCursor
      BY <3>2 DEF IInv, MarkOK
    <3>4. hw'[x] = start[x] /\ \A s \in Subs \ {x} : hw'[s] = hw[s]
      BY <1>0, <3>1
    <3>5. \A s \in Subs : hw'[s] \in Int /\ hw[s] <= hw'[s]
      BY <1>0, <3>3, <3>4, Zenon
    <3>6. \A s \in Subs : hw'[s] = hw[s] \/ ~Registered(s)
      BY <3>2, <3>4
    <3> QED BY <3>1, <3>5, <3>6, SoloQuiet DEF localVars
  <2>2. CASE ~AddSubscription(x)
    BY <1>3, <1>q, <2>2 DEF Lifecycle, CaptureStart, Lapse, Expire, Renew, Delete,
       StatusStep, SetGrant, logVars, tallies
  <2> QED BY <2>1, <2>2
\* A step of one process that starts or ends its work.
<1>e. ASSUME NEW d \in Dispatchers, Alone(d), UNCHANGED <<hw, delivered, dead>>,
             pc'[d] \in {"idle", "lock"},
             (failures' = failures /\ pc[d] \notin Decided) \/ failures' # 0
      PROVE  Goal
  <2>1. MarkOf(d)' /\ ~Holding(d)'
    BY <1>e DEF MarkOf, Delivering, Holding
  <2>2. \A s \in Subs : Done(s)' = Done(s)
    BY <1>e DEF Done
  <2>3. \A s \in Subs : hw[s] <= hw'[s]
    BY <1>0, <1>e, Zenon
  <2> QED BY <1>0, <1>e, <2>1, <2>2, <2>3, SoloStep
<1>4. ASSUME NEW d \in Dispatchers, NEW x \in Subs, Begin(d, x) PROVE Goal
  <2>1. /\ Alone(d) /\ pc'[d] = "lock"
        /\ UNCHANGED <<hw, delivered, dead, failures>> /\ pc[d] \notin Decided
    BY <1>0, <1>4 DEF Begin, Goto, Alone, logVars, tallies, Decided
  <2> QED BY <1>e, <2>1
<1>5. ASSUME NEW d \in Dispatchers, CatchUpStep(d) PROVE Goal
  BY <1>5, SoloCatchUp
<1>6. ASSUME NEW p \in Procs, DeliveryStep(p) PROVE Goal
  <2>1. pc[p] # "idle"
    BY <1>6 DEF DeliveryStep, SendAcked, SendRefused, RecordDead, Enqueue, AdvanceRead,
       RecordDelivered, AdvanceCursor, SendFailed, AdvanceSet, HandOff
  <2>2. p \in Dispatchers
    BY <1>0, <2>1 DEF NoQueue
  <2> QED BY <1>6, <2>2, SoloDelivery
<1>7. ASSUME NEW r \in RetryIds, FallDue(r) PROVE Goal
  BY <1>7 DEF FallDue, NoQueue
<1>8. ASSUME NEW w \in Workers, Claim(w) \/ WorkerStep(w) PROVE Goal
  BY <1>8 DEF Claim, WorkerStep, TakeItem, EndBatch, DropItem, LoadRecord, Reschedule,
     Complete, NoQueue
<1>9. ASSUME NEW p \in Procs, Fail(p) PROVE Goal
  <2>1. p \in Dispatchers
    BY <1>0, <1>9 DEF Fail, NoQueue
  <2>2. Alone(p) /\ pc'[p] = "idle"
    BY <1>0, <1>9 DEF Fail, Rest, Goto, Alone
  <2>3. UNCHANGED <<hw, delivered, dead>> /\ failures' # 0
    BY <1>0, <1>9 DEF Fail, logVars
  <2> QED BY <1>e, <2>1, <2>2, <2>3
<1>10. CASE UNCHANGED vars
  BY <1>q, <1>10 DEF vars, logVars, tallies
<1> QED
  BY <1>1, <1>2, <1>3, <1>4, <1>5, <1>6, <1>7, <1>8, <1>9, <1>10 DEF Next

LEMMA OneCatchUp ==
    ASSUME ~QueueEnabled, Ackers = {}, \A g, h \in Hosts : g = h
    PROVE  Spec => []SoloInv
<1>1. Init => SoloInv
  BY DEF Init, SoloInv, LockInv, MarkOf, DupInv, Holding, Done, Delivering, Procs
<1> QED
  BY <1>1, Inductive, QueueStaysEmpty, NextSolo, PTL DEF Spec

\* On one host, inline and without explicit acks, the high-water mark of a
\* registered subscription never moves back, although it is set by steps that
\* read it earlier or do not read it at all.
THEOREM MarkNeverFalls ==
    ASSUME ~QueueEnabled, Ackers = {}, \A g, h \in Hosts : g = h
    PROVE  Spec => HighWaterMonotone
<1>1. IInv /\ NoQueue /\ SoloInv /\ [Next]_vars =>
          [\A s \in Subs : Registered(s) => hw[s] <= hw'[s]]_vars
  BY NextSolo
<1> QED
  BY <1>1, Inductive, QueueStaysEmpty, OneCatchUp, PTL DEF Spec, HighWaterMonotone

\* There, an event that is delivered or dead-lettered is not sent again unless a
\* process failed: duplicates are the price of failures only.
THEOREM DuplicatesNeedFailures ==
    ASSUME ~QueueEnabled, Ackers = {}, \A g, h \in Hosts : g = h
    PROVE  Spec => []NoNeedlessDuplicate
<1>1. IInv /\ NoQueue /\ SoloInv => NoNeedlessDuplicate
  BY DEF NoQueue, SoloInv, DupInv, Done, NoNeedlessDuplicate, Procs
<1> QED
  BY <1>1, Inductive, QueueStaysEmpty, OneCatchUp, PTL

-----------------------------------------------------------------------------
(* The dispatch core under the worker's loop *)

LEMMA LoopStepIsCoreStep == [ServiceNext]_serviceVars => [Next]_vars
<1>0. Dispatchers \subseteq Procs /\ Workers \subseteq Procs /\ Ackers \subseteq Procs
  BY DEF Procs
<1>1. ASSUME Start \/ Stop \/ Enter \/ PollAgain \/ ListPending \/ ReturnPending
      PROVE  UNCHANGED vars
  BY <1>1 DEF Start, Stop, Enter, PollAgain, ListPending, ReturnPending
<1>2. ASSUME NEW s \in Subs, BeginCatchUp(s) PROVE Next
  <2> DEFINE free == CHOOSE d \in Dispatchers : pc[d] = "idle"
  <2>1. free \in Dispatchers /\ Begin(free, s)
    BY <1>2 DEF BeginCatchUp
  <2> HIDE DEF free
  <2> QED BY <2>1 DEF Next
<1>3. ASSUME NEW s \in Subs, SkipSubscription(s) PROVE Next \/ UNCHANGED vars
  BY <1>3 DEF SkipSubscription, Next, Lifecycle
<1>4. ASSUME NEW p \in Procs, Proceed(p) PROVE Next
  BY <1>4 DEF Proceed, Next
<1>5. ASSUME NEW d \in Dispatchers, Interrupted(d) PROVE Next
  BY <1>0, <1>5 DEF Interrupted, Next, CatchUpStep
<1>6. ASSUME Elsewhere PROVE Next
  BY <1>0, <1>6 DEF Elsewhere, Next
<1>7. ASSUME UNCHANGED serviceVars PROVE UNCHANGED vars
  BY <1>7 DEF serviceVars
<1> QED BY <1>1, <1>2, <1>3, <1>4, <1>5, <1>6, <1>7 DEF ServiceNext, LoopStep

\* The core driven by a DispatchWorker, with its rounds, gather() and stop(),
\* implements the dispatch core: each step of the service is a step of the core or
\* leaves it alone, so what the core promises - no loss, bounded attempts, the
\* order of deliveries - holds in the deferred mode as well.
THEOREM LoopImplementsCore == ServiceSpec => Spec
<1>1. ServiceInit => Init
  BY DEF ServiceInit
<1> QED BY <1>1, LoopStepIsCoreStep, PTL DEF ServiceSpec, Spec

\* In the deferred mode too, the mark passes no event that is still owed.
THEOREM LoopLosesNothing == ServiceSpec => []NoLoss
BY LoopImplementsCore, NoEventLost, PTL

\* No process has failed and no selector can have raised.
Clean == failures = 0 /\ \A s \in Subs : poison[s] = {}

LEMMA CleanBefore ==
    ASSUME IInv, [Next]_vars, Clean'
    PROVE  Clean
<1>0. /\ poison \in [Subs -> SUBSET Nat] /\ failures \in Nat
  BY DispatchAssumption DEF IInv, TypeOK, LogTypeOK
<1>1. CASE UNCHANGED <<poison, failures>>
  BY <1>1 DEF Clean
<1>2. ASSUME NEW verdict \in [Subs -> Verdicts], Publish(verdict) PROVE Clean
  <2>1. /\ \A s \in Subs : poison[s] \subseteq poison'[s]
        /\ failures' = failures
    BY <1>0, <1>2 DEF Publish, tallies
  <2> QED BY <1>0, <2>1 DEF Clean
<1>3. ASSUME NEW p \in Procs, Fail(p) PROVE Clean
  <2>1. failures' = failures + 1
    BY <1>3 DEF Fail
  <2> QED BY <1>0, <2>1 DEF Clean
<1>4. ASSUME AgeOrCompact PROVE Clean
  BY <1>1, <1>4 DEF AgeOrCompact, selVars, tallies
<1>5. ASSUME NEW s \in Subs, Lifecycle(s) PROVE Clean
  BY <1>1, <1>5 DEF Lifecycle, CaptureStart, AddSubscription, Lapse, Expire, Renew, Delete,
     StatusStep, SetGrant, selVars, tallies
<1>6. ASSUME NEW d \in Dispatchers, NEW s \in Subs, Begin(d, s) PROVE Clean
  BY <1>1, <1>6 DEF Begin, envVars, selVars, tallies
<1>7. ASSUME NEW d \in Dispatchers, CatchUpStep(d) PROVE Clean
  BY <1>1, <1>7 DEF CatchUpStep, Acquire, ReadPosition, ReadPage, SkipRecord, SelectorRaises,
     StartDelivery, EndPage, PersistRead, PersistSet, envVars, selVars, tallies
<1>8. ASSUME NEW p \in Procs, DeliveryStep(p) PROVE Clean
  BY <1>1, <1>8 DEF DeliveryStep, SendAcked, SendRefused, SendFailed, RecordDelivered,
     AdvanceCursor, AdvanceRead, AdvanceSet, RecordDead, Enqueue, HandOff, envVars, selVars,
     tallies
<1>9. ASSUME NEW r \in RetryIds, FallDue(r) PROVE Clean
  BY <1>1, <1>9 DEF FallDue, envVars, selVars, tallies
<1>10. ASSUME NEW w \in Workers, Claim(w) \/ WorkerStep(w) PROVE Clean
  BY <1>1, <1>10 DEF Claim, WorkerStep, TakeItem, EndBatch, DropItem, LoadRecord, Reschedule,
     Complete, envVars, selVars, tallies
<1>11. ASSUME NEW a \in Ackers, NEW s \in Subs, NEW o \in Offsets, Ack(a, s, o) PROVE Clean
  BY <1>1, <1>11 DEF Ack, envVars, selVars
<1>12. ASSUME UNCHANGED vars PROVE Clean
  BY <1>1, <1>12 DEF vars, envVars, selVars, tallies
<1> QED
  BY <1>2, <1>3, <1>4, <1>5, <1>6, <1>7, <1>8, <1>9, <1>10, <1>11, <1>12 DEF Next

\* A dispatcher at rest stays at rest unless a catch-up begins.
LEMMA OnlyBeginWakes ==
    ASSUME IInv, (\E p \in Procs : Proceed(p)) \/ Elsewhere
    PROVE  \A d \in Dispatchers : pc[d] = "idle" => pc'[d] = "idle"
<1> SUFFICES ASSUME NEW d \in Dispatchers, pc[d] = "idle" PROVE pc'[d] = "idle"
  OBVIOUS
<1>0. /\ pc \in [Procs -> Labels] /\ d \in Procs
      /\ Workers \subseteq Procs /\ Ackers \subseteq Procs
      /\ d \notin Workers /\ d \notin Ackers
  BY DispatchAssumption DEF IInv, TypeOK, LocalTypeOK, Procs
<1>g. ASSUME NEW p, p # d, NEW l, Goto(p, l) PROVE pc'[d] = "idle"
  BY <1>0, <1>g DEF Goto
<1>r. ASSUME NEW p, p # d, Rest(p) \/ NextItem(p) PROVE pc'[d] = "idle"
  BY <1>g, <1>r DEF Rest, NextItem
<1>1. ASSUME NEW p \in Procs, Proceed(p) PROVE pc'[d] = "idle"
  <2>1. CASE CatchUpStep(p)
    <3>1. p # d
      BY <2>1 DEF CatchUpStep, Acquire, ReadPosition, ReadPage, SkipRecord, SelectorRaises,
         StartDelivery, EndPage, PersistRead, PersistSet
    <3> QED
      BY <1>g, <1>r, <2>1, <3>1 DEF CatchUpStep, Acquire, ReadPosition, ReadPage, SkipRecord,
         SelectorRaises, StartDelivery, EndPage, PersistRead, PersistSet
  <2>2. CASE DeliveryStep(p)
    <3>1. p # d
      BY <2>2 DEF DeliveryStep, SendAcked, SendRefused, SendFailed, RecordDelivered,
         AdvanceCursor, AdvanceRead, AdvanceSet, RecordDead, Enqueue, HandOff
    <3> QED
      BY <1>g, <1>r, <2>2, <3>1 DEF DeliveryStep, SendAcked, SendRefused, SendFailed,
         RecordDelivered, AdvanceCursor, AdvanceRead, AdvanceSet, RecordDead, Enqueue, HandOff,
         Accounting
  <2> QED BY <1>1, <2>1, <2>2 DEF Proceed
<1>2. ASSUME NEW verdict \in [Subs -> Verdicts], Publish(verdict) PROVE pc'[d] = "idle"
  BY <1>2 DEF Publish
<1>3. ASSUME AgeOrCompact PROVE pc'[d] = "idle"
  BY <1>3 DEF AgeOrCompact
<1>4. ASSUME NEW s \in Subs, Lifecycle(s) PROVE pc'[d] = "idle"
  BY <1>4 DEF Lifecycle, CaptureStart, AddSubscription, Lapse, Expire, Renew, Delete,
     StatusStep, SetGrant
<1>5. ASSUME NEW r \in RetryIds, FallDue(r) PROVE pc'[d] = "idle"
  BY <1>5 DEF FallDue
<1>6. ASSUME NEW w \in Workers, Claim(w) \/ WorkerStep(w) PROVE pc'[d] = "idle"
  <2>1. w # d
    BY <1>0
  <2> QED
    BY <1>g, <1>r, <1>6, <2>1 DEF Claim, WorkerStep, TakeItem, EndBatch, DropItem, LoadRecord,
       Reschedule, Complete
<1>7. ASSUME NEW a \in Ackers, NEW s \in Subs, NEW o \in Offsets, Ack(a, s, o)
      PROVE  pc'[d] = "idle"
  BY <1>0, <1>g, <1>7 DEF Ack
<1>8. ASSUME NEW p \in Workers \cup Ackers, Fail(p) PROVE pc'[d] = "idle"
  BY <1>0, <1>r, <1>8 DEF Fail
<1> QED BY <1>1, <1>2, <1>3, <1>4, <1>5, <1>6, <1>7, <1>8 DEF Elsewhere

\* As long as nothing was raised, every catch-up under way belongs to the round
\* under way, and outside of a round nothing is under way.
RoundInv ==
    Clean =>
        /\ \A d \in Dispatchers : pc[d] # "idle" => d \in awaited
        /\ ~(loop = "round" /\ listed) => todo = {} /\ awaited = {}

LEMMA NextRound ==
    IInv /\ RoundInv /\ [ServiceNext]_serviceVars => RoundInv'
<1> SUFFICES ASSUME IInv, RoundInv, [ServiceNext]_serviceVars, Clean' PROVE RoundInv'
  BY DEF RoundInv
<1>0. Clean
  BY LoopStepIsCoreStep, CleanBefore
<1>1. /\ \A d \in Dispatchers : pc[d] # "idle" => d \in awaited
      /\ ~(loop = "round" /\ listed) => todo = {} /\ awaited = {}
  BY <1>0 DEF RoundInv
<1>t. /\ pc \in [Procs -> Labels] /\ tgt \in [Procs -> Subs \cup {NoSub}]
      /\ Dispatchers \subseteq Procs /\ \A p \in Procs : InHand(p)
      /\ failures \in Nat
  BY DispatchAssumption DEF IInv, TypeOK, LocalTypeOK, Procs
<1>2. CASE Start
  <2>1. loop # "round" /\ UNCHANGED <<pc, listed, todo, awaited>>
    BY <1>2 DEF Start, StartLoop, Running, vars, roundVars
  <2> QED BY <1>1, <2>1 DEF RoundInv
<1>3. CASE Stop
  BY <1>1, <1>3 DEF Stop, StopLoop, vars, roundVars, RoundInv
<1>4. CASE Enter \/ PollAgain
  <2>1. loop # "round" /\ UNCHANGED <<pc, listed, todo, awaited>>
    BY <1>4 DEF Enter, PollAgain, EnterLoop, Wake, vars, roundVars
  <2> QED BY <1>1, <2>1 DEF RoundInv
<1>5. CASE ListPending
  <2>1. ~listed /\ loop = "round" /\ loop' = loop /\ listed' /\ pc' = pc /\ awaited' = {}
    BY <1>5 DEF ListPending, vars, loopVars
  <2> QED BY <1>1, <2>1 DEF RoundInv
<1>6. CASE ReturnPending
  <2>1. /\ \A d \in awaited : pc[d] = "idle"
        /\ todo' = {} /\ awaited' = {} /\ pc' = pc
    BY <1>6 DEF ReturnPending, vars
  <2> QED BY <1>1, <2>1 DEF RoundInv
<1>7. ASSUME NEW s \in Subs, BeginCatchUp(s) PROVE RoundInv'
  <2> DEFINE free == CHOOSE d \in Dispatchers : pc[d] = "idle"
  <2>1. /\ free \in Dispatchers /\ Begin(free, s) /\ awaited' = awaited \cup {free}
        /\ s \in todo /\ UNCHANGED <<loop, stopped, listed>>
    BY <1>7 DEF BeginCatchUp, loopVars
  <2> HIDE DEF free
  <2>2. pc' = [pc EXCEPT ![free] = "lock"]
    BY <2>1 DEF Begin, Goto
  <2>3. loop = "round" /\ listed
    BY <1>1, <2>1
  <2> QED BY <1>1, <1>t, <2>1, <2>2, <2>3 DEF RoundInv
<1>8. ASSUME NEW s \in Subs, SkipSubscription(s) PROVE RoundInv'
  <2>1. /\ pc' = pc /\ todo' \subseteq todo
        /\ UNCHANGED <<loop, listed, awaited>>
    BY <1>8 DEF SkipSubscription, Expire, StatusStep, vars, loopVars
  <2> QED BY <1>1, <2>1 DEF RoundInv
<1>9. ASSUME NEW p \in Procs, Proceed(p) PROVE RoundInv'
  <2>1. UNCHANGED <<loop, listed, todo, awaited>>
    BY <1>9 DEF Proceed, loopVars, roundVars
  <2>2. \A d \in Dispatchers : pc[d] = "idle" => pc'[d] = "idle"
    BY <1>9, OnlyBeginWakes
  <2> QED BY <1>1, <2>1, <2>2 DEF RoundInv
<1>10. ASSUME NEW d \in Dispatchers, Interrupted(d) PROVE FALSE
  <2>1. CASE SelectorRaises(d)
    <3>1. tgt[d] \in Subs /\ poison[tgt[d]] # {}
      BY <1>t, <2>1 DEF SelectorRaises, InHand
    <3> QED BY <1>0, <3>1 DEF Clean
  <2>2. CASE Fail(d)
    BY <1>t, <2>2 DEF Fail, Clean
  <2> QED BY <1>10, <2>1, <2>2 DEF Interrupted
<1>11. ASSUME Elsewhere, UNCHANGED <<loopVars, roundVars>> PROVE RoundInv'
  <2>1. UNCHANGED <<loop, listed, todo, awaited>>
    BY <1>11 DEF loopVars, roundVars
  <2>2. \A d \in Dispatchers : pc[d] = "idle" => pc'[d] = "idle"
    BY <1>11, OnlyBeginWakes
  <2> QED BY <1>1, <2>1, <2>2 DEF RoundInv
<1>12. ASSUME UNCHANGED serviceVars PROVE RoundInv'
  BY <1>1, <1>12 DEF serviceVars, vars, loopVars, roundVars, RoundInv
<1> QED
  BY <1>2, <1>3, <1>4, <1>5, <1>6, <1>7, <1>8, <1>9, <1>10, <1>11, <1>12
  DEF ServiceNext, LoopStep

\* When run_forever has returned after stop(), none of its catch-ups is under way:
\* gather() awaited every one of them, unless an exception cut a round short.
THEOREM StopLeavesNothing == ServiceSpec => []StopIsClean
<1>1. ServiceInit => RoundInv
  <2> SUFFICES ASSUME ServiceInit PROVE RoundInv
    OBVIOUS
  <2>1. \A d \in Dispatchers : pc[d] = "idle"
    BY DEF ServiceInit, Init, Procs
  <2> QED BY <2>1 DEF ServiceInit, RoundInv
<1>2. ServiceSpec => []IInv
  BY LoopImplementsCore, Inductive, PTL
<1>3. ServiceSpec => []RoundInv
  BY <1>1, <1>2, NextRound, PTL DEF ServiceSpec
<1>4. RoundInv => StopIsClean
  <2> SUFFICES ASSUME RoundInv, loop = "ended", Clean
               PROVE  todo = {} /\ \A d \in Dispatchers : pc[d] = "idle"
    BY DEF StopIsClean, Clean
  <2> QED BY DEF RoundInv
<1> QED BY <1>3, <1>4, PTL
=============================================================================
