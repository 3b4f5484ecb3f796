# A TLA+ model of a2a-events-python

`a2a_events` is a publisher/subscriber runtime for agents. A publisher keeps an
append-only log per topic, delivers each subscription's events from a durable
high-water mark, retries what fails, and lets a subscriber replay, acknowledge
and renew. The library promises at-least-once delivery in log order, over an
in-memory or a Postgres store.

This directory models that core: the log, its readers and their selectors, the
dispatch of events to subscriptions and the worker that drives it, the requests
that make and list subscriptions, the subscription record, the signed delivery of
one event and the client's lease renewal. TLC checks the models on small
instances; TLAPS proves the central results for every instance.

Paths below are relative to `src/src/a2a_events/`.

## 1. The system

| Part | Source | State | Operations | What makes it correct |
|---|---|---|---|---|
| Event store | `runtime/memory/event_store.py`, `runtime/postgres/event_store.py` | per topic: rows, next offset, retention window | `append`, `read`, `latest_cursor`, `count`, `compact` | offsets are never reused; a page never skips silently; both backends agree |
| Dispatch core | `runtime/publisher.py` | per subscription: high-water mark, acked cursor, recorded attempts; one lock per subscription and host | `_dispatch_subscription`, `_catch_up`, `_deliver_one`, `_deliver_queued`, `_on_delivered`, `_on_terminal`, `_advance`, `ack` | nothing below the mark is owed; log order; every owed event settles |
| Retry queue and worker | `runtime/*/retry_queue.py`, `runtime/retry_worker.py` | items with attempt number, due time | `enqueue`, `claim_due`, `complete`, `reschedule`, `retry_delivery` | an item leaves only when its event is settled; attempts are bounded |
| Worker loops | `runtime/dispatcher.py`, `runtime/retry_worker.py`, `runtime/retention.py` | stop flag | `run_once`, `run_forever`, `stop` | come back to every active subscription; stop when told to, with nothing left under way |
| Subscriptions | `runtime/publisher.py`, `runtime/*/subscription_store.py` | status, lease, cursors | `subscribe`, `get`, `renew`, `delete`, lazy expiry | deletion is final; an answered renewal counts |
| Replay | `runtime/publisher.py` | none of its own | `replay` | a follower misses nothing silently |
| Signing keys | `signing.py` | published keys, active key | `add`, `activate`, `retire`, `jwks` | rotation alone refuses no event |
| Receiver | `receiver.py`, `server.py` | seen ids, key cache | `accept`, `JwksKeyResolver` | each event is handled once although deliveries repeat |
| HTTP transport | `runtime/http_delivery.py` | none | `send` | the answer means the same to both sides |
| Retention compactor | `runtime/retention.py` | none | `run_once` | deletes only what has left the window |
| Lease renewer (client) | `lease.py` | task, known lease | `start`, `aclose`, the loop | the lease is kept through transient failures |
| Limits, rate limiter, quota | `limits.py`, `publisher._check_subscription_quota` | token buckets | `check` | no more than the configured rate and number |
| Selectors | `selectors.py` | none | `matches`, `validate_selector` | the order of a filter's fields never decides a match |
| Cursors | `cursor.py` | none | `encode`, `offset_for` | string order is offset order |
| Pagination | `pagination.py` | none (the token is the client's) | `paginate` | a walk repeats nothing and omits nothing that stays |
| Agent cards, SSRF policy | `agentcard.py`, `runtime/ssrf.py` | none | card resolution, `check_endpoint` | events go to trusted endpoints only |
| Auth tokens, bindings, models, metrics | the remaining files | none, or counters | validation and translation | - |

**How they interact.** `subscribe`, `publish` and the dispatch worker all end in
`_dispatch_subscription`: check status and grant, take the subscription's lock,
then page through the log from the high-water mark, sending each event and moving
the mark. With a retry queue a failed first attempt is enqueued and the mark moves
on; the retry worker later calls `retry_delivery`, which does not take the lock.
`ack` moves cursor and mark from outside. All meet in the stores only. `subscribe`
passes, in this order, the lease, the rate limiter, the selector limits, the
authorizer, the quota, the subscriber's card, the endpoint policy and the topics
before it stores anything. With
`offload_store` every store call is an await, so each is a point where any other
coroutine runs; a second host shares the stores and not the locks. The transport
crosses to the receiver, where keys, skew and duplicates decide.

**What is hard.** Three kinds of process move one mark, each by a read, an await
and a write. A crash may fall between any two store calls. The window moves under
readers. Handlers hold records across awaits. Attempts overlap when an answer is
late. The quota is counted before the record is stored, the clock is read before
the limiter's lock, a page token names an item that may be deleted, and one
exception in one catch-up ends the loop that serves everybody. `PROJECT.json` lists the hazards one by one, each at its line.

## 2. The modules

```
EventStore --+-- Replay (+ Selectors, Cursor) --+-- MCReplay
             |                                  '-- ReplayProofs
             |-- Dispatch --+-- MCDispatch
             |              |-- DispatchProofs ---------------+
             |              '-- DispatchLoop (+ WorkerLoop) --+-- DispatchOrderProofs
             '..(refined by) PgLog --- PgLogProofs
TokenBucket, Pagination, AgentCard, Selectors --- ControlPlane --+-- MCControlPlane
                                                                 '-- ControlPlaneProofs
SubscriptionRecord --- SubscriptionRecordProofs
SignedDelivery --- SignedDeliveryProofs
LeaseRenewer --- LeaseRenewerProofs
```

**EventStore** is the abstract log, one topic: the counter, the offsets with a row
(`stored`) and those still in the window (`live`). An event is its offset, a
cursor is an offset, `NoCursor` is Python's `None`. `AppendEvent`, `Age`, `Compact`
change it. `ReadMemory` is the in-memory `read`, which decodes cursors to offsets,
`StartLatest` is `_start_offset("latest")`, `RecordAt` is `_record_at`. Aging is a
step of its own, because the window moves with the clock while rows stay until
`compact`. `OrderedAging = FALSE` lets rows age out of offset order, which
Postgres allows: `created_at` is the transaction's start, taken before the wait for
the advisory lock.

**Cursor** is the text of a cursor: the offset's digits, padded to `Width`, and
the lexicographic order that Postgres compares them by. An offset past the width
takes more digits, as in the code.

**Selectors** holds the matching rules and the checks made of a selector when a
subscription is created. An event is the function from the paths of its JSON tree
to what is found there; `TypedEq` keeps `True` apart from `1`, a list matches by
any element, and an object or a list of objects on the path raises. A field filter
is a sequence, because its loop ends at the first field that does not match.

**Replay** adds a subscriber that pages through the log with a selector and starts
over on `CURSOR_EXPIRED`, over either backend (`backend`). `ReadPostgres`, the other
`read`, stands here, because it works on the text of cursors: limit + 1 rows in
string order, the last one cut off. It runs as two statements, each on a connection
and with a `now()` of its own: `PgCheck` compares the cursor with `min(cursor)`
(`event_store.py:256`), `PgSelect` takes the page (284-288), and the log may grow, age
and be compacted in between. The history `slipped` records that the window moved past
the position inside a call. `ReadPostgres` itself is both statements on one window,
which is what `BackendsAgree` compares.

**PgLog** opens up Postgres `append`: `Begin`, `Lock` (advisory lock),
`ReadCounter`, `CountRows`, `Insert`, `Commit`, and `Abort` at any of them, with
each statement seeing the committed tables. The lookup of "latest" is three
statements too. `legacy`, chosen at the start, is the number of rows of a table made
before the `next_offset` column, which the migration leaves at 0; the history `early`
says that rows were deleted while it was still 0. A table that had the counter from
its first row implements EventStore under the identity mapping.

**Dispatch** is the dispatch core and its drivers. Each process is a program
counter (`pc`) over the store calls of the code:

| `pc` | Code |
|---|---|
| `lock` | `async with lock` in `_dispatch_subscription` |
| `position`, `read`, `scan`, `persistRead`, `persistSet` | `_catch_up` |
| `send` | `_attempt_send` |
| `delivered`, `cursor`, `advRead`, `advSet` | `_on_delivered`, `_advance` |
| `dead`, `handoff` | `_on_terminal` |
| `enqueue`, `handoff` | `_deliver_queued` |
| `batch`, `load`, `drop`, `reschedule`, `complete` | `RetryWorker.run_once`, `retry_delivery` |

Dispatchers are pairs of a host and a slot, because locks belong to a host.
`Fail(p)` ends a process at any step and takes what it held; a crash of a host is
one such step for each of its processes. `received`, `dropped`, `ackedTo` and
`failures` are histories. Lifecycle calls are atomic here; SubscriptionRecord is
about their steps.

**WorkerLoop** is `run_forever` and `stop`, which the three background workers
share line by line: clear the flag, then a round and a wait until the flag is up.
**DispatchLoop** composes it with Dispatch: `ListPending`, a coroutine for every
subscription (`BeginCatchUp`, `SkipSubscription`), and `ReturnPending` once
`gather()` has them all back. `RaiseFrom` is an exception of one of them: the loop
is over, and the other coroutines run on without anybody awaiting them.

**TokenBucket** is the rate limiter. `ReadClock` and the step under the lock are
apart, so callers on several threads can reach a bucket with an older reading than
the last one. **Pagination** is `paginate`. **AgentCard** turns a card and a
delivery mode into the endpoint deliveries go to, or a refusal: the card's trust
policy, then the publisher's SSRF policy. A URL is what the two tell apart.

**ControlPlane** is `subscribe` as a sequence of steps (`Call`, `Limit`,
`CountQuota`, `Stamp`, `Add`) of concurrent requests, beside lapse, renewal,
deletion and a client that walks through `ListSubscriptions`. `deploy` says where
the code awaits: `inline` runs from the quota to `subs.add` in one turn of the
event loop, `offload` awaits at every store call, `threads` are several loops on one
limiter and one store. `turn` is the request that has not awaited yet.
`byCreation` is the order of `list_all`: `created_at` in Postgres, insertion in
memory. The history `overtaken` holds the requests between whose count and
`subs.add` another request of the same subscriber was stored. `Stamp` keeps the selector checks of
`subscribe` because they are among its refusals; no property depends on them.

**SubscriptionRecord** is one record under concurrent handlers, each of which
takes the object from the store, changes fields and hands it back whole.
`store` is the in-memory one (which gives out the stored object itself, `LiveRefs`)
or Postgres (a copy, written back in full). `turn` is the handler that has not
awaited yet: a send always awaits, a store call only with `offload`. Two histories:
`promised` is the lease the last answer granted, `overtaken` the handlers that hold an
object read before another handler changed the record.

**SignedDelivery** follows an event through the attempts of the publisher, the
requests under way (those of abandoned attempts included), the receiver's key
lookup, skew test, duplicate test and handler, while keys are added, activated
and retired. The handler's `DeliveryResult` is any combination of `ack`, `retry` and
`status_code`. It comes back as `mode` has it: a webhook as an HTTP status
(`ReceiveStatus` in `server.py`, then `ResultFromStatus` in `http_delivery.py`), an A2A
message as the `ack` and `retry` of a JSON-RPC result; an exception is a 500 in both.
The history `belied` holds the events a handler refused under a 2xx status.

**LeaseRenewer** is the client's loop: sleep until `renew_fraction` of the lease
has elapsed, call, and on failure pause and come round. Instants are kept as the
time left until them, so the model has no bound on time. A request may be handled
after its caller has given up (`GrantLate`).

### Choices a reader may ask about

- Dispatch gives every process the live record, as the in-memory store does. What
  copies change is the subject of SubscriptionRecord.
- `_catch_up` re-reads from the start of retention when its position has expired.
  The two reads are one step: in between the window only loses events from below,
  so the second read alone decides the page.
- That holds as well for the two statements of a Postgres `read` in Dispatch, where
  `CURSOR_EXPIRED` only leads to the re-read, and for `RecordAt`: the last statement
  alone decides what is found. In Replay the subscriber sees the difference, and the
  statements are apart. The in-memory `read` takes its two readings of the clock
  within one turn; they are one instant here.
- The retry worker takes the items of a batch in any order, a superset of the
  code's. The batch limit of 100 is above what the bounds reach.
- In PgLog a transaction is shorter than the retention window: a row does not age
  out before it is committed.
- `read` with `limit = 0` is left out. The in-memory loop returns one record, the
  Postgres code indexes an empty list; both are transcribed in the operators.
- Cursors are offsets everywhere but in Cursor and in Postgres `read`. Replay's
  subscriber returns cursors the publisher made; one written by hand without
  padding, which `_split` accepts, is outside the model.
- In Dispatch a selector is its verdict on an event: match, miss or raise. The
  operators that decide it are in Selectors. There a text is the set of the words
  in it, which is what a search for words tells apart; the limit on a keyword's
  length is left out.
- What a subscribe request asks for (selector, delivery mode, card) is chosen at
  the step that looks at it, which includes every request that asks for it from
  the start.
- Subscriptions that were deleted stay in `added`; `list_all` and the quota leave
  them out as the code does.
- A token's units are chosen so that one tick refills one unit; the code's floats
  are exact in them.
- Two assumptions about the renewer's environment, which `lease.py` neither checks nor
  enforces: its clock and the publisher's agree, and the renew callable ends within
  `MaxLatency`. `lease.py:113` awaits the callable without a timeout; one that never
  returned would stop the loop.

## 3. The runs

Passing runs:

| Run | Question | Bounds |
|---|---|---|
| `replay` | do the backends agree, and does a follower with a selector miss nothing silently? | both backends, 5 events, page limits 1-3, 7 selectors that match, miss and raise: every position relative to page and window edges |
| `pg_log` | do concurrent transactions implement the log? | 3 connections, 3 events, 4 transactions, up to 2 of them the legacy rows' own: one holds the lock, one waits, one rolls back |
| `dispatch_inline` | inline retries: loss, order, duplicates, monotone marks, with revocation | 3 events, pages of 2, 2 slots of a host, 2 attempts, 1 failure, retention out of order, lost answers, raising selectors |
| `dispatch_queue` | queue mode: types, attempts, deletion, and does everything settle and leave the queue? | 1 event, 1 worker, 3 attempts, 4 queue items, 1 failure, lapse, delete, retention |
| `dispatch_ack` | acks racing a catch-up, from every start | 2 events, 1 ack handler, pages of 1, 1 failure, revocation |
| `dispatch_loop` | does the worker's loop itself come back, and does it stop? | 2 subscriptions, 2 slots, 1 event, matching or raising selectors, deletion, starts and stops at any time |
| `control_plane` | quota, rate, endpoints and listing under concurrent requests | 3 requests of one subscriber, quota 2, burst 1, pages of 1, time 2, all three deployments, both orders; every combination of card endpoints |
| `subscription_record` | one record under concurrent handlers | 2 handlers, both stores, store calls that await or not, lease 2, time 4: a lease granted, lapsed and granted again |
| `signed_delivery` | repeated deliveries under key rotation | 1 event, 2 requests under way, 3 keys, 3 attempts, skew 1, time 2, both modes, statuses none, 200, 400 and 503: one of each class |
| `lease_renewer` | the renewal loop against a slow or failing publisher | lease 20, margin 8 (fraction 0.6), min_sleep 1, timeout 1: two failures in a row are tolerated |

The bounds are the smallest at which each race can happen: two catch-ups for the
lock, a page and a rest for paging, a failure for every recovery path, a second
queue item for the crash between `enqueue` and `set_high_water`. In queue mode
one event suffices for everything but the order of marks; `NoLoss` with several
events and workers is covered by its proof. Three requests against a quota of two
make the race for the last place, and three subscriptions in pages of one a token
in the middle of the list that may be deleted. Binary digits of width 3 hold the
five events; they are encoded, padded and compared as the decimal ones are.

What the properties say:

- `NoLoss` - whatever lies between the start offset and the mark was delivered,
  dead-lettered, filtered, acked, has aged out, is queued, or was dropped by
  `retry_delivery`.
- `InOrder`, `HighWaterMonotone`, `NoNeedlessDuplicate` - inline mode keeps log
  order, the mark never moves back, and without a failure nothing is sent again
  after it was settled. None of the three holds with a queue: retries run beside
  the catch-up, and `_on_terminal` sets the mark without comparing.
- `DeletedStaysQuiet` - once the deliveries under way have ended, none starts for a
  deleted subscription.
- `AttemptsBounded`, `CursorIsEarned`, `EventuallySettled`, `RetriesEnd` - attempts
  are bounded, the acked cursor stands at something acknowledged, every owed event
  settles, and no event stays in the retry queue for ever, whatever ends a worker or
  becomes of the subscription.
- `ImplementsLog`, `CursorNeverReused`, `NeverCollides`, `LatestIsConsistent` -
  append is atomic to readers, offsets are fresh, no append meets the UNIQUE
  cursor, and a "latest" start is neither behind an older row nor past the head. The
  second and third hold for migrated tables too, unless `early`; the first and last
  are about tables that had the counter from their first row.
- `BackendsAgree`, `RecordAtFindsLive`, `FollowsTheLog` - both reads give the same
  answers on a window; a follower gets on, in spite of filtered pages and a moving
  window.
- `NoLiveSkipped`, `NoSilentGap` - nothing a follower has passed is still live and
  was withheld from it; and whatever else it has passed it got, or was told of,
  unless the window slipped inside one call.
- `OrderOnlyDecidesErrors` - the order of a filter's fields, which a JSONB column
  does not keep, decides between a miss and an error at most.
- `ServedWhileRunning`, `StopEnds`, `StopIsClean` - while the loop runs every
  owed event settles; `stop()` ends it; nothing of its rounds is left under way.
- `QuotaHeld`, `RateHeld` - the quota is exceeded by overtaken requests only, and
  where nothing awaits between count and `add` none is; the rate for every interval of time, also when the bucket's time runs
  backwards.
- `TargetsAreTrusted` - every stored endpoint passed both policies.
- `PagesAreFaithful` - a walk shows nothing twice and omits nothing that was
  there all along, unless the item of its token was deleted.
- `LeaseHonoured`, `RevivedByLateOnly` - a promised lease is cut short, and a deleted
  subscription revived, by the step of an overtaken handler only; the first with
  copies alone, the second with copies or with store calls that await.
- `HandledOnce`, `DeliveredWasHandled`, `UnknownKeyWasRetired`, `EveryEventEnds` -
  publisher and receiver agree, unless a webhook handler's status belies its result.
- `KnownIsKept`, `LeaseKept`, `GivesUpLapsed`, `RenewsOrEnds` - the renewer.

The type invariants of Replay, PgLog, SubscriptionRecord and LeaseRenewer are in no
cfg; they are proved, as part of the inductive invariants.

Every property has a mutant: a plausible slip in the code (a dropped guard, a
missing lock, an off-by-one) under which TLC finds the property violated. Mutants
stand before the definition they replace and are used nowhere else.

### Where code and documents disagree

Two runs expect a violation. Each checks what a document or comment says.

1. `queue_loss` - `dispatcher.py` says "duplicates are possible, loss is not".
   `retry_delivery` completes the item of a subscription that is not active, so a
   lease that lapses while a retry waits, and is renewed later, leaves an event
   that is neither delivered, dead-lettered nor queued.
2. `subscription_copies` - the in-memory store is documented as identical in
   semantics to the Postgres one. With Postgres, `_advance` of a delivery under
   way writes its stale copy back and revives a deleted subscription.

Conditions in the properties mark the others. When the condition of one of the first
six is dropped, TLC finds the violation in the same run:

- `CursorNeverReused` and `NeverCollides` excuse `early`. `retention.py` says that
  deleting rows never causes a cursor to be reused, and `append` is said to heal
  `next_offset` by the row count. On a migrated table, a compaction before the first
  append has committed lowers that count.
- `LatestIsConsistent` excuses migrated tables: `count()` is not healed, so that
  "latest" starts before the rows that are there.
- `NoSilentGap` excuses `slipped`. A Postgres `read` whose window moves between its
  expiry test and its page steps over what has just aged out, without
  `CURSOR_EXPIRED`.
- `DeliveredWasHandled` excuses `belied`. A webhook handler that returns `ack=False`
  with a 2xx `status_code` has its event recorded as delivered; the same result over
  an A2A message is a refusal. Likewise `retry=True` under a 4xx status is final by
  webhook and retried by message.
- `QuotaHeld` excuses overtaken requests. With `offload_store`, or several loops, two
  requests may both count before either is stored.
- `LeaseHonoured` excuses overtaken copies: with Postgres a handler that read the
  record before a renewal may write the old lease back.
- `PagesAreFaithful` promises the subscriptions made during a walk only for
  insertion order. `pagination.py` says that new rows append after the cursor; in
  Postgres the order is that of `created_at`, stamped before `subs.add`.
- `ServedWhileRunning` and `StopIsClean` excuse exceptions. The dispatcher is
  documented as not letting a failing subscriber block another; a selector that
  raises, or a store that does, ends `run_forever` for all of them, and leaves the
  other catch-ups unawaited.
- `StopEnds` excuses a `stop()` ahead of the task's first step, which is lost.
- `OrderOnlyDecidesErrors` is what is left of "must match ... identically" (`selectors.py`): a filter
  stored as JSONB may raise where the one that was sent missed.

One is left without a property: `DeletedStaysQuiet` has no counterpart for a revoked
grant. A comment at `publisher.py:602-603` says that a revoked grant stops future
deliveries; the catch-up asks the authorizer, and `retry_delivery` does not.

## 4. Fairness

Fairness is assumed for what the event loop and the workers do on their own, and
never for publishing, lifecycle calls, failures, lost messages or key rotation.

- Weak fairness of each process's steps: the event loop runs every coroutine
  that can run, and a send ends because the transport has a timeout.
- Weak fairness of `FallDue` and `Claim`: clocks advance, and `RetryWorker` polls.
- Strong fairness of `Begin` for each subscription: `DispatchWorker` comes round
  again and again and meets the subscription active, though not at every moment.
- DispatchLoop: weak fairness only, of the loop's steps and of the coroutines
  (`LoopStep`, `Proceed`, `Poisoned`). It needs no assumption about `Begin`: that
  the loop comes back is what it shows, and what Dispatch takes for granted.
  Starting the loop, and starting it again after its end, is owed by nobody.
- Replay: the reader keeps asking.
- ControlPlane: none, its properties are safety. Its requests are finitely many,
  so that it may stop.
- SignedDelivery: strong for `Send` (the dispatcher retries what is open, and
  connections become free again and again), weak for the receiver.
- LeaseRenewer: weak for the loop and the clock. That a call returns is the
  assumption on the renew callable named in section 2.

A selector that raises on an event stops the catch-up at it for ever. That is what
the code does. The run that checks `EventuallySettled` leaves such events out;
`dispatch_loop` has them, and excuses what is owed once the loop has ended.

## 5. The proofs

Every invariant and every action property of the passing runs is proved for all
values of the constants, within the assumptions named here. The recurring pattern
is an inductive invariant that says, for each process, what the value it carries
from one await to the next is still good for. Where a theorem has a hypothesis
about the deployment (no queue, one host, ordered aging, the in-memory store without
offload), the hypothesis is needed: TLC refutes the property when the constant
of its run is changed.

**DispatchProofs** - for any sets of subscriptions, hosts, slots, workers and ack
handlers, any bounds, pages and attempts (`DispatchAssumption`,
`EventStoreAssumption`).

- `TypeCorrect`: `Spec => []TypeOK`, with `InHand`: no process reaches a step
  without the subscription, event or retry item it works on.
- `NoEventLost`: `Spec => []NoLoss`. `NoLoss` is not inductive: it speaks of
  the mark, and every process carries a position it will set the mark to later.
  `IInv` adds for each process that what lies below its own position is accounted
  for (`CatchUpOK`, `WorkOK`, `AckOK`), and for each retry item that the event is
  settled or aged out once the item has left the queue (`ItemOK`). `Grows`
  collects what no step takes back. With it, a process that does not move keeps
  its part of `IInv`, and each action is left with its own. The lock plays no part:
  nothing is lost even without it, and only order and duplicates depend on it.

**DispatchOrderProofs** - what else the core keeps, on top of `IInv`.

- `AttemptsAreBounded` (`AttemptInv`: an attempt on its way back to the queue has
  a number below the ceiling, in the queue, in a claimed copy and in hand) and
  `CursorsAreEarned` (`EarnedInv`: whoever is about to move the cursor has recorded
  the delivery or the ack): in every mode.
- `DeletedIsLeftAlone`, in every mode. It rests on `WhoStarts`: a process turns to a
  subscription in two places only, and both look at its status.
- `DeliveredInOrder`, without a queue, for any number of hosts and acks. `NoQueue`:
  the queue stays empty, so that what `IInv` says of the catch-up's position leaves
  nothing owed below the event it sends.
- `MarkNeverFalls` and `DuplicatesNeedFailures`, without a queue and ack handlers and
  on one host, which is what the lock covers. `SoloInv`: at most one catch-up of a
  subscription is past the lock, it is never behind the mark, and what was settled
  lies below the mark or is what it moves the mark to next. With a queue, with two
  hosts or with racing acks these two are false: `_on_terminal` sets the mark
  without looking.
- `LoopImplementsCore`: `ServiceSpec => Spec`. The loop's steps are steps of the core
  or stutter, so that all of the above holds in the deferred mode;
  `LoopLosesNothing` is one instance. `StopLeavesNothing` adds `RoundInv`: as long as
  nothing was raised, every catch-up under way is one that the current `gather()`
  awaits, and outside of a round there is none.

**ReplayProofs** - any log, window, page limit, selector, radix and width.

- `BackendsServeAlike`, as long as the offsets fit in the width
  (`MaxEvents < Power[Width]`; the code has 16 decimal digits). `StringOrder` is
  the heart: the leading digits of two numbers of full width agree up to the first
  digit that differs, and that digit decides both the string and the number. `RowLeftOver`
  counts: by rank, limit + 1 rows are found exactly when the in-memory loop has
  filled its page and sees another event. `Power` is a recursive function; that
  it has the values its equation says is proved (`PowerDef`), by tables of its
  values and the least place two of them could differ at.
- `FollowingIsGapless`, when events age in order (`OrderedAging`): a page is an
  initial segment of what lies above the position (`MemoryPage`), and the window
  reaches up to the head (`WindowInv`), so that a position that has not expired has
  nothing missing above it. `CoverInv` carries that from the first statement of a
  Postgres `read` to the second, as long as the window has not slipped. With rows that
  age out of order the window has holes, and what was in them is skipped.
- `SkippedIsGone`, in whatever order events age and wherever the window moves: a page
  ends at the last row it looked at, so that what it leaves out was not live then.
- `OrderIsHarmless`, for filters of any length, and `LookupFindsLive`.

**ControlPlaneProofs** - any requests, owners, cards, quota, burst, page size and
interval (`ControlAssumption`).

- `RequestTypes`, `EndpointsAreTrusted` (`RequestInv`: what each request has made
  sure of by the step it has reached).
- `RateIsHeld`. `Ledger`: a bucket's tokens, less the instant they were counted at,
  only fall by what was taken, and an older reading of the clock adds nothing; so
  the calls of any interval were paid for by the burst and the refill.
- `QuotaIsHeld`, in every deployment. `RoomInv`: there is room for each counted
  request that has not been overtaken, and inline a counted request has the turn until
  it is stored, so that none is.
- `PagesShowAll`, an action property of the walk. `WalkInv`: what was shown is
  different items up to the token, and of the items stored up to the token only
  those put in behind the walk are missing.

**SubscriptionRecordProofs** - any number of handlers, any lease, both stores and
both offload settings. `RecordInv` says that the copy of a handler that was not
overtaken is fresh in what it will write (`CopyInv`), and that between its check and
its next await a handler finds the status it checked (`CheckedInv`); it gives
`LeasesAreHonoured` and `OnlyLateHandlersRevive`. `DeletionIsFinal` is the case of the
in-memory store without offload; elsewhere it is false, as `subscription_copies` shows
for Postgres.

**SignedDeliveryProofs** - any number of events, requests, keys and attempts.
`DeliveryInv` gives `DeliveryTypes`, `EventsHandledOnce`, `DeliveriesAreReal`
(`SeenIsHandled`: an event is in the seen set exactly when it was handled, and
whatever is recorded as delivered is in it or belied; `HeardFacts`: a
refusal is heard as an acceptance only by webhook, and only where its status
contradicts it) and `RotationIsSafe` (`KidsOK`: every kid in
use was given out before, and a new key gets a fresh one, so that a kid that was
retired is never served again).

**PgLogProofs** - any number of connections and legacy rows. `LogInv`: at most
one transaction is past the lock, what it has read or allocated is still the
committed counter, and rows lie below `Head`, which is the counter or, while that is
0, the number of legacy rows. `Healing`: unless rows were deleted early, the legacy
rows are there until the counter is written, so that `max(next_offset, count)` is
`Head`. It gives `PgImplementsLog`, `OffsetsAreFresh` and `NoAppendCollides`.
`LatestHolds` adds `AskInv`: the rows that were there when "latest" was asked for
lie below the counter, and past its first statement the log has had an event.

**LeaseRenewerProofs** - any lease, margin, `min_sleep` and timeout under
`RenewerAssumption` (the margin exceeds a call, and a renewal answered at the
latest is followed by a full sleep). `Margin` is the account: at each await the
known lease exceeds the time yet to sleep by `Early` less what the failures so far
have cost, and a failure costs the call and twice `min_sleep`. It gives
`RenewerKeepsLease` and, through `GrantIsFresh`, `RenewerNeverOverestimates`.
`RenewerGivesUpLapsed` adds `HeardInv`: as long as no grant went unheard the renewer
knows the publisher's lease exactly, or has it on the way back.

Only model-checked: liveness, which needs fairness and `ENABLED` and is out of the
prover's reach (`FollowsTheLog`, `EventuallySettled`, `RetriesEnd`, `ServedWhileRunning`,
`StopEnds`, `EveryEventEnds`, `RenewsOrEnds`), and the two violations.

## 6. Not modelled, and the plan

Left out for good: cryptography and canonical JSON (a signature is genuine or its
key is unknown), malformed tokens and cursors (rejected on arrival), metrics,
models, schema export, the in-memory transport of the tests, and the bindings'
translation of requests and errors.

Planned, most important first:

1. What is left without those hypotheses, stated as properties of their own: which
   events a follower can miss when rows age out of order, and how far back the mark
   can fall when acks race a dead letter.
2. WorkerLoop composed with the retry worker, as DispatchLoop is with the
   dispatcher, and the pages of `list_delivery_attempts`.
