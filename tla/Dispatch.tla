------------------------------ MODULE Dispatch ------------------------------
(***************************************************************************)
(* How events reach subscriptions: the dispatch core of                     *)
(* runtime/publisher.py with its three drivers.                             *)
(*                                                                         *)
(*   dispatchers  catch-up of one subscription (subscribe, publish and      *)
(*                DispatchWorker.run_once all end in _dispatch_subscription)*)
(*   workers      RetryWorker.run_once draining the retry queue             *)
(*   ackers       handlers of an explicit ack                               *)
(*                                                                         *)
(* Every call into a store is a step of its own: with offload_store each    *)
(* one is an await, so any other coroutine may run in between.  The stores  *)
(* and the queue are durable; what a process holds (pc and the variables    *)
(* under localVars) is lost when it fails.                                  *)
(***************************************************************************)
EXTENDS EventStore

CONSTANTS
    Subs,           \* subscriptions
    Hosts,          \* publisher processes, each with its own dispatch locks
    Slots,          \* concurrent catch-ups within one host
    Workers,        \* retry workers
    Ackers,         \* concurrent ack requests
    PageSize,       \* PublisherConfig.page_size
    MaxAttempts,    \* PublisherConfig.max_attempts
    QueueEnabled,   \* PublisherConfig.retry_queue is set
    Verdicts,       \* outcomes of matches(): "match", "miss", "raise"
    Retention,      \* the topic's retention_seconds is positive
    Starts,         \* fromCursor values: "latest", "earliest", "cursor"
    Calls,          \* lifecycle changes that happen: "lapse", "delete", "revoke"
    LostAnswers,    \* whether a failed attempt may have reached the subscriber
    MaxRetries,     \* bound: retry items ever enqueued
    MaxFailures     \* bound: exceptions and crashes of processes

Dispatchers == Hosts \X Slots
Procs == Dispatchers \cup Workers \cup Ackers
RetryIds == 0 .. MaxRetries - 1

ASSUME DispatchAssumption ==
    /\ Subs # {}
    /\ PageSize \in Nat \ {0}
    /\ MaxAttempts \in Nat \ {0}
    /\ QueueEnabled \in BOOLEAN
    /\ Verdicts \subseteq {"match", "miss", "raise"}
    /\ Retention \in BOOLEAN
    /\ Starts \subseteq {"latest", "earliest", "cursor"}
    /\ Calls \subseteq {"lapse", "delete", "revoke"}
    /\ LostAnswers \in BOOLEAN
    /\ MaxRetries \in Nat
    /\ MaxFailures \in Nat
    /\ Dispatchers \cap Workers = {}
    /\ Dispatchers \cap Ackers = {}
    /\ Workers \cap Ackers = {}

VARIABLES
    \* the subscription store
    status,         \* "lapsed" is a stored ACTIVE whose lease_until has passed
    granted,        \* the authorizer's answer for the subscription
    start,          \* the start offset captured by subscribe
    hw,             \* high-water mark
    cursor,         \* acked cursor, NoCursor when absent
    delivered, dead,    \* offsets with a recorded attempt of that status
    \* the selector's verdict on each event
    missed, poison,
    \* the retry queue: fields of each item, which are in the queue, which due
    item, pending, due, nextRetry,
    \* processes
    pc,             \* what the process does next
    tgt,            \* its subscription
    scan, page,     \* _catch_up: scan position, records of the page left to do
    off, att,       \* the event in delivery, the attempt's number
    seen,           \* a high-water mark read by an earlier step
    batch, job,     \* claimed items left to do, the one in hand
    \* histories
    received,       \* offsets that reached the subscriber
    dropped,        \* offsets whose retry was dropped
    ackedTo,        \* highest offset acked explicitly
    failures

subVars   == <<status, granted, start>>
logVars   == <<delivered, dead, received, dropped>>
selVars   == <<missed, poison>>
queueVars == <<item, pending, due, nextRetry>>
localVars == <<tgt, scan, page, off, att, seen, batch, job>>
envVars   == <<storeVars, subVars, selVars>>
tallies   == <<ackedTo, failures>>
vars == <<envVars, hw, cursor, logVars, queueVars, pc, localVars, tallies>>

NoSub == "none"
NoJob == -1

Max2(a, b) == IF a < b THEN b ELSE a

Item == [sub : Subs, off : Nat, attempt : Nat]

\* Where a catch-up can be: holding the lock, at a step of _catch_up.
Scanning   == {"position", "read", "scan", "persistRead", "persistSet"}
\* ... or at a step of the delivery of one event.
Delivering == {"send", "delivered", "cursor", "advRead", "advSet",
               "dead", "enqueue", "handoff"}
Working    == {"batch", "load", "drop", "reschedule", "complete"}
Labels     == {"idle", "lock"} \cup Scanning \cup Delivering \cup Working

Registered(s) == status[s] \in {"active", "lapsed", "expired", "deleted"}

Position == Nat \cup {NoCursor}

SubTypeOK ==
    /\ status \in [Subs -> {"none", "starting", "active", "lapsed", "expired",
                            "deleted"}]
    /\ granted \in [Subs -> BOOLEAN]
    /\ start \in [Subs -> Position]
    /\ hw \in [Subs -> Position]
    /\ cursor \in [Subs -> Position]
    /\ ackedTo \in [Subs -> Position]

LogTypeOK ==
    /\ delivered \in [Subs -> SUBSET Nat]
    /\ dead \in [Subs -> SUBSET Nat]
    /\ received \in [Subs -> SUBSET Nat]
    /\ dropped \in [Subs -> SUBSET Nat]
    /\ missed \in [Subs -> SUBSET Nat]
    /\ poison \in [Subs -> SUBSET Nat]

QueueTypeOK ==
    /\ nextRetry \in 0 .. MaxRetries
    /\ item \in [RetryIds -> Item]
    /\ pending \subseteq 0 .. nextRetry - 1
    /\ due \subseteq pending

LocalTypeOK ==
    /\ pc \in [Procs -> Labels]
    /\ tgt \in [Procs -> Subs \cup {NoSub}]
    /\ scan \in [Procs -> Position]
    /\ page \in [Procs -> SUBSET Nat]
    /\ off \in [Procs -> Position]
    /\ att \in [Procs -> Nat]
    /\ seen \in [Procs -> Position]
    /\ batch \in [Procs -> SUBSET [id : RetryIds, attempt : Nat]]
    /\ job \in [Procs -> RetryIds \cup {NoJob}]

\* A process has a subscription, an event and a retry item in hand wherever the
\* code would dereference them.
InHand(p) ==
    /\ pc[p] \notin {"idle", "batch"} => tgt[p] \in Subs
    /\ pc[p] \in Delivering => off[p] \in Nat
    /\ pc[p] \in Working \ {"batch"} => job[p] \in RetryIds /\ off[p] \in Nat
    /\ p \in Workers /\ pc[p] \in Delivering => job[p] \in RetryIds

\* Types of all variables, and what a process holds at each step.
TypeOK ==
    /\ StoreTypeOK
    /\ SubTypeOK
    /\ LogTypeOK
    /\ QueueTypeOK
    /\ LocalTypeOK
    /\ \A p \in Procs : InHand(p)
    /\ failures \in 0 .. MaxFailures

Init ==
    /\ StoreInit
    /\ status = [s \in Subs |-> "none"]
    /\ granted = [s \in Subs |-> TRUE]
    /\ start = [s \in Subs |-> NoCursor]
    /\ hw = [s \in Subs |-> NoCursor]
    /\ cursor = [s \in Subs |-> NoCursor]
    /\ ackedTo = [s \in Subs |-> NoCursor]
    /\ delivered = [s \in Subs |-> {}]
    /\ dead = [s \in Subs |-> {}]
    /\ received = [s \in Subs |-> {}]
    /\ dropped = [s \in Subs |-> {}]
    /\ missed = [s \in Subs |-> {}]
    /\ poison = [s \in Subs |-> {}]
    /\ nextRetry = 0
    /\ item = [r \in RetryIds |->
                  [sub |-> CHOOSE s \in Subs : TRUE, off |-> 0, attempt |-> 0]]
    /\ pending = {}
    /\ due = {}
    /\ pc = [p \in Procs |-> "idle"]
    /\ tgt = [p \in Procs |-> NoSub]
    /\ scan = [p \in Procs |-> NoCursor]
    /\ page = [p \in Procs |-> {}]
    /\ off = [p \in Procs |-> NoCursor]
    /\ att = [p \in Procs |-> 0]
    /\ seen = [p \in Procs |-> NoCursor]
    /\ batch = [p \in Procs |-> {}]
    /\ job = [p \in Procs |-> NoJob]
    /\ failures = 0

-----------------------------------------------------------------------------
(* The log and the subscriptions, seen from outside the dispatch core *)

\* publish(): append; each subscription's selector has its verdict on the event.
Publish(verdict) ==
    /\ AppendEvent
    /\ missed' = [s \in Subs |-> IF verdict[s] = "miss"
                                 THEN missed[s] \cup {nextOffset} ELSE missed[s]]
    /\ poison' = [s \in Subs |-> IF verdict[s] = "raise"
                                 THEN poison[s] \cup {nextOffset} ELSE poison[s]]
    /\ UNCHANGED <<subVars, hw, cursor, logVars, queueVars, pc, localVars,
                   tallies>>

\* With retention_seconds <= 0 nothing ages and compact() skips the topic.
AgeOrCompact ==
    /\ Retention
    /\ Compact \/ \E o \in live : Age(o)
    /\ UNCHANGED <<subVars, hw, cursor, logVars, selVars, queueVars, pc,
                   localVars, tallies>>

\* subscribe() up to the capture of the start offset, its linearization point:
\* "latest", "earliest" or a cursor that read() does not reject as expired.
CaptureStart(s, from) ==
    /\ status[s] = "none"
    /\ granted[s]
    /\ \/ "latest" \in Starts /\ from = StartLatest
       \/ "earliest" \in Starts /\ from = NoCursor
       \/ "cursor" \in Starts /\ from \in Offsets /\ ~CursorExpired(from)
    /\ status' = [status EXCEPT ![s] = "starting"]
    /\ start' = [start EXCEPT ![s] = from]
    /\ UNCHANGED <<storeVars, granted, hw, cursor, logVars, selVars,
                   queueVars, pc, localVars, tallies>>

\* subscribe(): subs.add stores the subscription with its start offset.
AddSubscription(s) ==
    /\ status[s] = "starting"
    /\ status' = [status EXCEPT ![s] = "active"]
    /\ hw' = [hw EXCEPT ![s] = start[s]]
    /\ UNCHANGED <<storeVars, granted, start, cursor, logVars, selVars,
                   queueVars, pc, localVars, tallies>>

\* Lapse: the lease runs out.  Expire: some call meets the lapsed lease in
\* _expire_if_due.  Renew: renew() of a subscription that is not deleted (its
\* get_subscription expires a lapsed one first, to the same effect).
StatusStep(s, from, to) ==
    /\ status[s] \in from
    /\ status' = [status EXCEPT ![s] = to]
    /\ UNCHANGED <<storeVars, granted, start, hw, cursor, logVars, selVars,
                   queueVars, pc, localVars, tallies>>

Lapse(s)  == "lapse" \in Calls /\ StatusStep(s, {"active"}, "lapsed")
Expire(s) == StatusStep(s, {"lapsed"}, "expired")
Renew(s)  == StatusStep(s, {"active", "lapsed", "expired"}, "active")
Delete(s) == /\ "delete" \in Calls
             /\ StatusStep(s, {"active", "lapsed", "expired"}, "deleted")

\* The policy behind the authorizer changes.
SetGrant(s, g) ==
    /\ "revoke" \in Calls
    /\ granted[s] # g
    /\ granted' = [granted EXCEPT ![s] = g]
    /\ UNCHANGED <<storeVars, status, start, hw, cursor, logVars, selVars,
                   queueVars, pc, localVars, tallies>>

-----------------------------------------------------------------------------
(* Steps of a process *)

Goto(p, label) == pc' = [pc EXCEPT ![p] = label]

\* The process is done with what it did, or has failed: all it held is gone.
Rest(p) ==
    /\ Goto(p, "idle")
    /\ tgt' = [tgt EXCEPT ![p] = NoSub]
    /\ scan' = [scan EXCEPT ![p] = NoCursor]
    /\ page' = [page EXCEPT ![p] = {}]
    /\ off' = [off EXCEPT ![p] = NoCursor]
    /\ att' = [att EXCEPT ![p] = 0]
    /\ seen' = [seen EXCEPT ![p] = NoCursor]
    /\ batch' = [batch EXCEPT ![p] = {}]
    /\ job' = [job EXCEPT ![p] = NoJob]

\* A store, transport or selector exception ends the coroutine, or the host
\* crashes (a crash is one such step for each of its processes).
Fail(p) ==
    /\ pc[p] # "idle"
    /\ failures < MaxFailures
    /\ failures' = failures + 1
    /\ Rest(p)
    /\ UNCHANGED <<envVars, hw, cursor, logVars, queueVars, ackedTo>>

\* _dispatch_subscription: the checks come before the lock is awaited.
Begin(d, s) ==
    /\ pc[d] = "idle"
    /\ status[s] = "active"
    /\ granted[s]
    /\ Goto(d, "lock")
    /\ tgt' = [tgt EXCEPT ![d] = s]
    /\ UNCHANGED <<envVars, hw, cursor, logVars, queueVars, scan, page, off,
                   att, seen, batch, job, tallies>>

\* Mutant: no dispatch lock.
AcquireUnlocked(d) ==
    /\ pc[d] = "lock"
    /\ Goto(d, "position")
    /\ UNCHANGED <<envVars, hw, cursor, logVars, queueVars, localVars,
                   tallies>>

\* async with lock: one catch-up per subscription within a host.
Acquire(d) ==
    /\ pc[d] = "lock"
    /\ \A q \in Dispatchers :
           (q[1] = d[1] /\ tgt[q] = tgt[d]) => pc[q] \in {"idle", "lock"}
    /\ Goto(d, "position")
    /\ UNCHANGED <<envVars, hw, cursor, logVars, queueVars, localVars,
                   tallies>>

\* _catch_up: high_water().get(topic, -1).
ReadPosition(d) ==
    /\ pc[d] = "position"
    /\ scan' = [scan EXCEPT ![d] = hw[tgt[d]]]
    /\ Goto(d, "read")
    /\ UNCHANGED <<envVars, hw, cursor, logVars, queueVars, tgt, page, off,
                   att, seen, batch, job, tallies>>

\* Mutant: an expired position is replaced by the oldest live event's cursor,
\* which leaves that event itself out.
NextPageSkipsOldest(position) ==
    IF CursorExpired(position)
    THEN FirstN({o \in live : \E x \in live : x < o}, PageSize)
    ELSE FirstN({o \in live : position < o}, PageSize)

\* The page _catch_up works on: from the position, or from the oldest live
\* event once the position has expired.  (A position above every live event
\* never expires, so the events of a page lie above it either way.)
NextPage(position) ==
    IF CursorExpired(position)
    THEN FirstN(live, PageSize)
    ELSE FirstN({o \in live : position < o}, PageSize)

\* _catch_up: read a page; an empty one ends the catch-up and frees the lock.
ReadPage(d) ==
    /\ pc[d] = "read"
    /\ \/ /\ NextPage(scan[d]) = {}
          /\ Rest(d)
       \/ /\ NextPage(scan[d]) # {}
          /\ page' = [page EXCEPT ![d] = NextPage(scan[d])]
          /\ Goto(d, "scan")
          /\ UNCHANGED <<tgt, scan, off, att, seen, batch, job>>
    /\ UNCHANGED <<envVars, hw, cursor, logVars, queueVars, tallies>>

\* Mutant: the page is walked from its newest record.
IsNextNewest(d, o) == o \in page[d] /\ \A x \in page[d] : x <= o

\* The record the loop of _catch_up comes to next.
IsNext(d, o) == o \in page[d] /\ \A x \in page[d] : o <= x

\* The selector does not match: only the scan position moves.
SkipRecord(d) ==
    /\ pc[d] = "scan"
    /\ \E o \in missed[tgt[d]] :
           /\ IsNext(d, o)
           /\ scan' = [scan EXCEPT ![d] = o]
           /\ page' = [page EXCEPT ![d] = @ \ {o}]
    /\ UNCHANGED <<envVars, hw, cursor, logVars, queueVars, pc, tgt, off, att,
                   seen, batch, job, tallies>>

\* matches() raises INVALID_SELECTOR: the exception leaves the catch-up.
SelectorRaises(d) ==
    /\ pc[d] = "scan"
    /\ \E o \in poison[tgt[d]] : IsNext(d, o)
    /\ Rest(d)
    /\ UNCHANGED <<envVars, hw, cursor, logVars, queueVars, tallies>>

\* The selector matches: _deliver_one starts with attempt 1.
StartDelivery(d) ==
    /\ pc[d] = "scan"
    /\ \E o \in page[d] :
           /\ IsNext(d, o)
           /\ o \notin missed[tgt[d]] \cup poison[tgt[d]]
           /\ off' = [off EXCEPT ![d] = o]
    /\ att' = [att EXCEPT ![d] = 1]
    /\ Goto(d, "send")
    /\ UNCHANGED <<envVars, hw, cursor, logVars, queueVars, tgt, scan, page,
                   seen, batch, job, tallies>>

\* The page is worked off; the scan position is persisted next.
EndPage(d) ==
    /\ pc[d] = "scan"
    /\ page[d] = {}
    /\ Goto(d, "persistRead")
    /\ UNCHANGED <<envVars, hw, cursor, logVars, queueVars, localVars,
                   tallies>>

\* _catch_up, after the page: read the high-water mark again ...
PersistRead(d) ==
    /\ pc[d] = "persistRead"
    /\ seen' = [seen EXCEPT ![d] = hw[tgt[d]]]
    /\ Goto(d, "persistSet")
    /\ UNCHANGED <<envVars, hw, cursor, logVars, queueVars, tgt, scan, page,
                   off, att, batch, job, tallies>>

\* ... set it to the scan position if that was below, and go for another page.
PersistSet(d) ==
    /\ pc[d] = "persistSet"
    /\ hw' = IF scan[d] > seen[d] THEN [hw EXCEPT ![tgt[d]] = scan[d]] ELSE hw
    /\ seen' = [seen EXCEPT ![d] = NoCursor]
    /\ Goto(d, "position")
    /\ UNCHANGED <<envVars, cursor, logVars, queueVars, tgt, scan, page, off,
                   att, batch, job, tallies>>

-----------------------------------------------------------------------------
(* The delivery of one event: shared by dispatchers and workers *)

\* The attempt is acknowledged.
SendAcked(p) ==
    /\ pc[p] = "send"
    /\ received' = [received EXCEPT ![tgt[p]] = @ \cup {off[p]}]
    /\ Goto(p, "delivered")
    /\ UNCHANGED <<envVars, hw, cursor, delivered, dead, dropped, queueVars,
                   localVars, tallies>>

\* Mutant: one attempt more than max_attempts.
SendFailedOnceMore(p, reached) ==
    /\ pc[p] = "send"
    /\ reached => LostAnswers
    /\ received' = IF reached
                   THEN [received EXCEPT ![tgt[p]] = @ \cup {off[p]}]
                   ELSE received
    /\ \/ /\ att[p] > MaxAttempts
          /\ Goto(p, "dead")
          /\ UNCHANGED att
       \/ /\ att[p] <= MaxAttempts
          /\ p \in Dispatchers /\ ~QueueEnabled
          /\ att' = [att EXCEPT ![p] = @ + 1]
          /\ UNCHANGED pc
       \/ /\ att[p] <= MaxAttempts
          /\ QueueEnabled
          /\ Goto(p, IF p \in Workers THEN "reschedule" ELSE "enqueue")
          /\ UNCHANGED att
    /\ UNCHANGED <<envVars, hw, cursor, delivered, dead, dropped, queueVars,
                   tgt, scan, page, off, seen, batch, job, tallies>>

\* The attempt fails in a way worth retrying: a timeout, a 5xx, a lost answer
\* (then the event did reach the subscriber).  At the attempt ceiling that is
\* terminal.  Below it, the inline mode sleeps and sends again, a dispatcher
\* with a queue enqueues the event and a worker reschedules its item.
SendFailed(p, reached) ==
    /\ pc[p] = "send"
    /\ reached => LostAnswers
    /\ received' = IF reached
                   THEN [received EXCEPT ![tgt[p]] = @ \cup {off[p]}]
                   ELSE received
    /\ \/ /\ att[p] >= MaxAttempts
          /\ Goto(p, "dead")
          /\ UNCHANGED att
       \/ /\ att[p] < MaxAttempts
          /\ p \in Dispatchers /\ ~QueueEnabled
          /\ att' = [att EXCEPT ![p] = @ + 1]
          /\ UNCHANGED pc
       \/ /\ att[p] < MaxAttempts
          /\ p \in Dispatchers /\ QueueEnabled
          /\ Goto(p, "enqueue")
          /\ UNCHANGED att
       \/ /\ att[p] < MaxAttempts
          /\ p \in Workers
          /\ Goto(p, "reschedule")
          /\ UNCHANGED att
    /\ UNCHANGED <<envVars, hw, cursor, delivered, dead, dropped, queueVars,
                   tgt, scan, page, off, seen, batch, job, tallies>>

\* The subscriber refuses the event for good (not result.retry).
SendRefused(p) ==
    /\ pc[p] = "send"
    /\ Goto(p, "dead")
    /\ UNCHANGED <<envVars, hw, cursor, logVars, queueVars, localVars,
                   tallies>>

\* _on_delivered: record the attempt ...
RecordDelivered(p) ==
    /\ pc[p] = "delivered"
    /\ delivered' = [delivered EXCEPT ![tgt[p]] = @ \cup {off[p]}]
    /\ Goto(p, "cursor")
    /\ UNCHANGED <<envVars, hw, cursor, dead, received, dropped, queueVars,
                   localVars, tallies>>

\* ... and _advance, which an explicit ack enters too: the acked cursor first,
AdvanceCursor(p) ==
    /\ pc[p] = "cursor"
    /\ cursor' = [cursor EXCEPT ![tgt[p]] = Max2(@, off[p])]
    /\ Goto(p, "advRead")
    /\ UNCHANGED <<envVars, hw, logVars, queueVars, localVars, tallies>>

\* then the high-water mark is read,
AdvanceRead(p) ==
    /\ pc[p] = "advRead"
    /\ seen' = [seen EXCEPT ![p] = hw[tgt[p]]]
    /\ Goto(p, "advSet")
    /\ UNCHANGED <<envVars, hw, cursor, logVars, queueVars, tgt, scan, page,
                   off, att, batch, job, tallies>>

\* Where a process goes when it has accounted for its event: the catch-up to
\* the next record, the worker to queue.complete, the ack handler home.
Accounting(p) ==
    \/ /\ p \in Dispatchers
       /\ scan' = [scan EXCEPT ![p] = off[p]]
       /\ page' = [page EXCEPT ![p] = @ \ {off[p]}]
       /\ off' = [off EXCEPT ![p] = NoCursor]
       /\ att' = [att EXCEPT ![p] = 0]
       /\ seen' = [seen EXCEPT ![p] = NoCursor]
       /\ Goto(p, "scan")
       /\ UNCHANGED <<tgt, batch, job>>
    \/ /\ p \in Workers
       /\ Goto(p, "complete")
       /\ UNCHANGED localVars
    \/ /\ p \in Ackers
       /\ Rest(p)

\* Mutant: the mark is taken for the next offset to deliver.
AdvanceSetPastEvent(p) ==
    /\ pc[p] = "advSet"
    /\ hw' = IF off[p] > seen[p] THEN [hw EXCEPT ![tgt[p]] = off[p] + 1] ELSE hw
    /\ Accounting(p)
    /\ UNCHANGED <<envVars, cursor, logVars, queueVars, tallies>>

\* and set to the event's offset if it was below.
AdvanceSet(p) ==
    /\ pc[p] = "advSet"
    /\ hw' = IF off[p] > seen[p] THEN [hw EXCEPT ![tgt[p]] = off[p]] ELSE hw
    /\ Accounting(p)
    /\ UNCHANGED <<envVars, cursor, logVars, queueVars, tallies>>

\* Mutant: a dead letter moves the acked cursor too.
RecordDeadAcks(p) ==
    /\ pc[p] = "dead"
    /\ dead' = [dead EXCEPT ![tgt[p]] = @ \cup {off[p]}]
    /\ cursor' = [cursor EXCEPT ![tgt[p]] = Max2(@, off[p])]
    /\ Goto(p, "handoff")
    /\ UNCHANGED <<envVars, hw, delivered, received, dropped, queueVars,
                   localVars, tallies>>

\* _on_terminal: the attempt is recorded as a dead letter ...
RecordDead(p) ==
    /\ pc[p] = "dead"
    /\ dead' = [dead EXCEPT ![tgt[p]] = @ \cup {off[p]}]
    /\ Goto(p, "handoff")
    /\ UNCHANGED <<envVars, hw, cursor, delivered, received, dropped,
                   queueVars, localVars, tallies>>

\* _deliver_queued: the event is put into the retry queue ...
Enqueue(p) ==
    /\ pc[p] = "enqueue"
    /\ nextRetry < MaxRetries
    /\ nextRetry' = nextRetry + 1
    /\ item' = [item EXCEPT ![nextRetry] =
                   [sub |-> tgt[p], off |-> off[p], attempt |-> 1]]
    /\ pending' = pending \cup {nextRetry}
    /\ UNCHANGED due
    /\ Goto(p, "handoff")
    /\ UNCHANGED <<envVars, hw, cursor, logVars, localVars, tallies>>

\* ... and both set the high-water mark to the event, whatever it is by now.
HandOff(p) ==
    /\ pc[p] = "handoff"
    /\ hw' = [hw EXCEPT ![tgt[p]] = off[p]]
    /\ Accounting(p)
    /\ UNCHANGED <<envVars, cursor, logVars, queueVars, tallies>>

-----------------------------------------------------------------------------
(* The retry worker and its queue *)

\* Time passes: an item's backoff, or its visibility lease, is over.
FallDue(r) ==
    /\ r \in pending \ due
    /\ due' = due \cup {r}
    /\ UNCHANGED <<envVars, hw, cursor, logVars, item, pending, nextRetry, pc,
                   localVars, tallies>>

\* RetryWorker.run_once: claim_due takes copies of the due items and hides the
\* items behind a visibility lease.
Claim(w) ==
    /\ pc[w] = "idle"
    /\ due # {}
    /\ batch' = [batch EXCEPT ![w] =
                    {[id |-> r, attempt |-> item[r].attempt] : r \in due}]
    /\ due' = {}
    /\ Goto(w, "batch")
    /\ UNCHANGED <<envVars, hw, cursor, logVars, item, pending, nextRetry,
                   tgt, scan, page, off, att, seen, job, tallies>>

\* retry_delivery returns and the loop of run_once goes on.
NextItem(w) ==
    /\ Goto(w, "batch")
    /\ tgt' = [tgt EXCEPT ![w] = NoSub]
    /\ off' = [off EXCEPT ![w] = NoCursor]
    /\ att' = [att EXCEPT ![w] = 0]
    /\ seen' = [seen EXCEPT ![w] = NoCursor]
    /\ job' = [job EXCEPT ![w] = NoJob]
    /\ UNCHANGED <<scan, page, batch>>

\* Mutant: retry_delivery does not look at the subscription's status.
TakeItemUnchecked(w) ==
    /\ pc[w] = "batch"
    /\ \E c \in batch[w] :
           /\ batch' = [batch EXCEPT ![w] = @ \ {c}]
           /\ job' = [job EXCEPT ![w] = c.id]
           /\ att' = [att EXCEPT ![w] = c.attempt]
           /\ tgt' = [tgt EXCEPT ![w] = item[c.id].sub]
           /\ off' = [off EXCEPT ![w] = item[c.id].off]
           /\ Goto(w, "load")
    /\ UNCHANGED <<envVars, hw, cursor, logVars, queueVars, scan, page, seen,
                   tallies>>

\* retry_delivery: the next claimed item goes on if its subscription's stored
\* status is ACTIVE, which a lapsed lease still is.
TakeItem(w) ==
    /\ pc[w] = "batch"
    /\ \E c \in batch[w] :
           /\ batch' = [batch EXCEPT ![w] = @ \ {c}]
           /\ job' = [job EXCEPT ![w] = c.id]
           /\ att' = [att EXCEPT ![w] = c.attempt]
           /\ tgt' = [tgt EXCEPT ![w] = item[c.id].sub]
           /\ off' = [off EXCEPT ![w] = item[c.id].off]
           /\ Goto(w, IF status[item[c.id].sub] \in {"active", "lapsed"}
                      THEN "load" ELSE "drop")
    /\ UNCHANGED <<envVars, hw, cursor, logVars, queueVars, scan, page, seen,
                   tallies>>

EndBatch(w) ==
    /\ pc[w] = "batch"
    /\ batch[w] = {}
    /\ Rest(w)
    /\ UNCHANGED <<envVars, hw, cursor, logVars, queueVars, tallies>>

\* retry_delivery: the subscription is gone or not active, drop the retry.
DropItem(w) ==
    /\ pc[w] = "drop"
    /\ pending' = pending \ {job[w]}
    /\ due' = due \ {job[w]}
    /\ dropped' = [dropped EXCEPT ![tgt[w]] = @ \cup {off[w]}]
    /\ NextItem(w)
    /\ UNCHANGED <<envVars, hw, cursor, delivered, dead, received, item,
                   nextRetry, tallies>>

\* retry_delivery: _record_at finds the event, or it has aged out of retention.
LoadRecord(w) ==
    /\ pc[w] = "load"
    /\ \/ /\ off[w] \in live
          /\ att' = [att EXCEPT ![w] = @ + 1]
          /\ Goto(w, "send")
       \/ /\ off[w] \notin live
          /\ Goto(w, "complete")
          /\ UNCHANGED att
    /\ UNCHANGED <<envVars, hw, cursor, logVars, queueVars, tgt, scan, page,
                   off, seen, batch, job, tallies>>

\* Mutant: a failed retry is taken out of the queue.
RescheduleLoses(w) ==
    /\ pc[w] = "reschedule"
    /\ pending' = pending \ {job[w]}
    /\ due' = due \ {job[w]}
    /\ NextItem(w)
    /\ UNCHANGED <<envVars, hw, cursor, logVars, item, nextRetry, tallies>>

\* Mutant: the item goes back into the queue with the attempt it came with.
RescheduleSameAttempt(w) ==
    /\ pc[w] = "reschedule"
    /\ due' = due \ {job[w]}
    /\ NextItem(w)
    /\ UNCHANGED <<envVars, hw, cursor, logVars, item, pending, nextRetry,
                   tallies>>

\* queue.reschedule, which ignores an item that is no longer there.
Reschedule(w) ==
    /\ pc[w] = "reschedule"
    /\ item' = IF job[w] \in pending
               THEN [item EXCEPT ![job[w]].attempt = att[w]] ELSE item
    /\ due' = due \ {job[w]}
    /\ NextItem(w)
    /\ UNCHANGED <<envVars, hw, cursor, logVars, pending, nextRetry,
                   tallies>>

\* Mutant: an item whose lease ran out meanwhile stays claimable.
CompleteKeepsDue(w) ==
    /\ pc[w] = "complete"
    /\ pending' = pending \ {job[w]}
    /\ NextItem(w)
    /\ UNCHANGED <<envVars, hw, cursor, logVars, item, due, nextRetry, tallies>>

\* queue.complete.
Complete(w) ==
    /\ pc[w] = "complete"
    /\ pending' = pending \ {job[w]}
    /\ due' = due \ {job[w]}
    /\ NextItem(w)
    /\ UNCHANGED <<envVars, hw, cursor, logVars, item, nextRetry, tallies>>

-----------------------------------------------------------------------------
(* The explicit ack *)

\* ack(): an active subscription, and any well-formed cursor of its topic - the
\* code does not ask whether the event at the cursor exists yet.
Ack(a, s, o) ==
    /\ pc[a] = "idle"
    /\ status[s] = "active"
    /\ tgt' = [tgt EXCEPT ![a] = s]
    /\ off' = [off EXCEPT ![a] = o]
    /\ ackedTo' = [ackedTo EXCEPT ![s] = Max2(@, o)]
    /\ Goto(a, "cursor")
    /\ UNCHANGED <<envVars, hw, cursor, logVars, queueVars, scan, page, att,
                   seen, batch, job, failures>>

-----------------------------------------------------------------------------
Lifecycle(s) ==
    \/ \E from \in Offsets \cup {NoCursor} : CaptureStart(s, from)
    \/ AddSubscription(s)
    \/ Lapse(s) \/ Expire(s) \/ Renew(s) \/ Delete(s)
    \/ \E g \in BOOLEAN : SetGrant(s, g)

CatchUpStep(d) ==
    \/ Acquire(d) \/ ReadPosition(d) \/ ReadPage(d)
    \/ SkipRecord(d) \/ SelectorRaises(d) \/ StartDelivery(d) \/ EndPage(d)
    \/ PersistRead(d) \/ PersistSet(d)

DeliveryStep(p) ==
    \/ SendAcked(p) \/ SendRefused(p)
    \/ \E reached \in BOOLEAN : SendFailed(p, reached)
    \/ RecordDelivered(p) \/ AdvanceCursor(p) \/ AdvanceRead(p) \/ AdvanceSet(p)
    \/ RecordDead(p) \/ Enqueue(p) \/ HandOff(p)

WorkerStep(w) ==
    \/ TakeItem(w) \/ EndBatch(w) \/ DropItem(w) \/ LoadRecord(w)
    \/ Reschedule(w) \/ Complete(w)

Next ==
    \/ \E verdict \in [Subs -> Verdicts] : Publish(verdict)
    \/ AgeOrCompact
    \/ \E s \in Subs : Lifecycle(s)
    \/ \E d \in Dispatchers, s \in Subs : Begin(d, s)
    \/ \E d \in Dispatchers : CatchUpStep(d)
    \/ \E p \in Procs : DeliveryStep(p)
    \/ \E r \in RetryIds : FallDue(r)
    \/ \E w \in Workers : Claim(w) \/ WorkerStep(w)
    \/ \E a \in Ackers, s \in Subs, o \in Offsets : Ack(a, s, o)
    \/ \E p \in Procs : Fail(p)

Spec == Init /\ [][Next]_vars

\* The event loop runs every coroutine that can run, a send always returns (the
\* transport has a timeout), clocks advance, and the polling loops of
\* DispatchWorker and RetryWorker come back to every active subscription and
\* every due item.  Publishing, lifecycle calls and failures owe nothing.
Fairness ==
    /\ \A d \in Dispatchers : WF_vars(CatchUpStep(d))
    /\ \A p \in Procs : WF_vars(DeliveryStep(p))
    /\ \A w \in Workers : WF_vars(WorkerStep(w)) /\ WF_vars(Claim(w))
    /\ \A r \in RetryIds : WF_vars(FallDue(r))
    /\ \A s \in Subs : SF_vars(\E d \in Dispatchers : Begin(d, s))

FairSpec == Spec /\ Fairness
-----------------------------------------------------------------------------
(* Properties *)

\* Delivered, dead-lettered, filtered by the selector, or dropped as a retry.
Settled(s) == delivered[s] \cup dead[s] \cup missed[s] \cup dropped[s]

Queued(s, o) == \E r \in pending : item[r].sub = s /\ item[r].off = o

AgedOut(o) == o < nextOffset /\ o \notin live

\* Nothing more is owed to s for o by the catch-up.
Accounted(s, o) ==
    \/ o \in Settled(s)
    \/ o <= ackedTo[s]
    \/ AgedOut(o)
    \/ Queued(s, o)

AccountedUpTo(s, n) ==
    \A o \in start[s] + 1 .. n : Accounted(s, o)

\* The high-water mark never passes an event that is still owed: whatever lies
\* between the start offset and the mark was delivered, dead-lettered, filtered,
\* acked by the subscriber, has aged out, or sits in the retry queue - whichever
\* processes ran, raced or failed on the way.
NoLoss == \A s \in Subs : AccountedUpTo(s, hw[s])

\* Events reach a subscription in log order: when one arrives for the first
\* time, every earlier live event the subscription was owed has arrived or been
\* settled before it.
InOrder ==
    [][\A s \in Subs : \A o \in received'[s] \ received[s] :
           \A x \in live : (start[s] < x /\ x < o) =>
               x \in received[s] \cup Settled(s) \/ x <= ackedTo[s]]_vars

\* The mark of a registered subscription never moves back.
HighWaterMonotone ==
    [][\A s \in Subs : Registered(s) => hw[s] <= hw'[s]]_vars

\* An event that is delivered or dead-lettered is not sent again unless some
\* process failed: duplicates are the price of failures only.
NoNeedlessDuplicate ==
    failures = 0 =>
        \A p \in Procs : pc[p] = "send" =>
            off[p] \notin delivered[tgt[p]] \cup dead[tgt[p]]

\* Some process is on its way to send to s.
Engaged(s) ==
    \E p \in Dispatchers \cup Workers :
        tgt[p] = s /\ pc[p] \notin {"idle", "batch", "drop"}

\* A deleted subscription gets nothing more once the deliveries under way end.
DeletedStaysQuiet ==
    [][\A s \in Subs : status[s] = "deleted" /\ ~Engaged(s) => ~Engaged(s)']_vars

\* No event is sent more often than max_attempts in one series of attempts,
\* and a queued item always has an attempt left.
AttemptsBounded ==
    /\ \A p \in Procs : att[p] <= MaxAttempts
    /\ \A r \in pending : item[r].attempt < MaxAttempts

\* The acked cursor stands only where the subscriber has acknowledged: at an
\* event it was delivered, or at one it acked explicitly.
CursorIsEarned ==
    \A s \in Subs : cursor[s] # NoCursor =>
        cursor[s] \in delivered[s] \/ cursor[s] <= ackedTo[s]

\* What dispatcher.py promises of the log ("duplicates are possible, loss is
\* not"), without NoLoss's excuse of a dropped retry.
NothingDropped ==
    \A s \in Subs : status[s] = "active" =>
        \A o \in live : (start[s] < o /\ o <= hw[s]) =>
            \/ o \in delivered[s] \cup dead[s] \cup missed[s]
            \/ o <= ackedTo[s]
            \/ Queued(s, o)

\* Every event owed to a subscription that stays active and authorized is
\* eventually settled.
EventuallySettled ==
    \A s \in Subs, o \in Offsets :
        (status[s] = "active" /\ granted[s] /\ o \in live /\ start[s] < o)
            ~> \/ o \in Settled(s) \/ o <= ackedTo[s] \/ o \notin live
               \/ status[s] # "active" \/ ~granted[s]

\* No event stays in the retry queue for ever: it is delivered, dead-lettered, ages
\* out or is dropped, whatever ends a worker on the way, however often the
\* visibility lease runs out, and whatever becomes of the subscription.
RetriesEnd == \A s \in Subs, o \in Offsets : Queued(s, o) ~> ~Queued(s, o)
=============================================================================
