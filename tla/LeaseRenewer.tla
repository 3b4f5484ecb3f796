---------------------------- MODULE LeaseRenewer ----------------------------
(***************************************************************************)
(* AutoLeaseRenewer of lease.py: the subscriber's background task that      *)
(* renews one subscription, and the lease the publisher keeps for it.       *)
(*                                                                         *)
(* Time is counted in ticks, and an instant (a lease_until, a wake-up) is   *)
(* the time left until it; a lease_until that has passed is 0.  So nothing  *)
(* bounds how long the renewer runs.  The two clocks agree.                 *)
(***************************************************************************)
EXTENDS Integers

CONSTANTS
    Lease,          \* lease_seconds
    Early,          \* (1 - renew_fraction) * lease_seconds
    MinSleep,       \* min_sleep
    MaxLatency      \* timeout of the renew callable, which lease.py leaves to it

\* A renewal answered at once is due after the usual sleep, not after min_sleep.
ASSUME RenewerAssumption ==
    /\ Lease \in Nat /\ Early \in Nat
    /\ MinSleep \in Nat \ {0} /\ MaxLatency \in Nat
    /\ MaxLatency < Early
    /\ Early + MaxLatency + MinSleep <= Lease

\* What one failed renewal costs: the call, the pause, and min_sleep once more
\* when the loop comes round.
CostOfFailure == MaxLatency + 2 * MinSleep

\* How many renewals in a row may fail with the next one still in time.
Tolerated == (Early - MaxLatency - 1) \div CostOfFailure

VARIABLES
    left,       \* the publisher's lease_until
    deleted,    \* the subscription is gone
    task,       \* _task: "none", the await it is at, or "ended"
    stopped,    \* _stopped
    known,      \* lease_until in _run
    timer,      \* time left to sleep
    elapsed,    \* time since the request was sent
    granted,    \* the lease_until on its way back, 0 when there is none
    floating,   \* the request of an earlier call may yet reach the publisher
    onTime,     \* history: the loop was entered before the renewal was due
    fails,      \* history: renewals that failed since the last answer
    unheard     \* history: some renewal's answer did not arrive

vars == <<left, deleted, task, stopped, known, timer, elapsed, granted,
          floating, onTime, fails, unheard>>

Running == task \in {"sleep", "renew", "pause"}

FlagsOK ==
    /\ deleted \in BOOLEAN /\ stopped \in BOOLEAN
    /\ floating \in BOOLEAN /\ unheard \in BOOLEAN /\ onTime \in BOOLEAN

\* Types: no sleep is longer than a lease, no call longer than its timeout.
TypeOK ==
    /\ FlagsOK
    /\ left \in 0 .. Lease /\ known \in 0 .. Lease /\ granted \in 0 .. Lease
    /\ task \in {"none", "sleep", "renew", "pause", "ended"}
    /\ timer \in 0 .. Lease
    /\ elapsed \in 0 .. MaxLatency
    /\ fails \in 0 .. Tolerated + 1

Init ==
    /\ left = Lease
    /\ deleted = FALSE
    /\ task = "none"
    /\ stopped = FALSE
    /\ known = 0
    /\ timer = 0
    /\ elapsed = 0
    /\ granted = 0
    /\ floating = FALSE
    /\ onTime = FALSE
    /\ fails = 0
    /\ unheard = FALSE

Larger(a, b) == IF a < b THEN b ELSE a
Smaller(a, b) == IF a < b THEN a ELSE b

-----------------------------------------------------------------------------
\* Mutant: the whole of the lease is slept.
RenewalDelayFull(until) == Larger(MinSleep, until)

\* _renewal_delay.
RenewalDelay(until) == Larger(MinSleep, until - Early)

\* start() with the lease_until of the subscription; the loop is not entered
\* once the renewer has been closed.
Start ==
    /\ task = "none"
    /\ task' = IF stopped THEN "ended" ELSE "sleep"
    /\ known' = left
    /\ timer' = RenewalDelay(left)
    /\ onTime' = (left >= Early + MinSleep)
    /\ fails' = 0
    /\ UNCHANGED <<left, deleted, stopped, elapsed, granted, floating, unheard>>

\* The sleep is over: call renew.
Wake ==
    /\ task = "sleep"
    /\ timer = 0
    /\ task' = "renew"
    /\ elapsed' = 0
    /\ granted' = 0
    /\ UNCHANGED <<left, deleted, stopped, known, timer, floating, onTime,
                   fails, unheard>>

\* The publisher handles the request: a fresh lease, the lapsed one too.
Grant ==
    /\ task = "renew"
    /\ granted = 0
    /\ ~deleted
    /\ left' = Lease
    /\ granted' = Lease
    /\ UNCHANGED <<deleted, task, stopped, known, timer, elapsed, floating,
                   onTime, fails, unheard>>

\* ... or does so when nobody waits for the answer any more.
GrantLate ==
    /\ floating
    /\ floating' = FALSE
    /\ left' = IF deleted THEN left ELSE Lease
    /\ unheard' = (unheard \/ ~deleted)
    /\ UNCHANGED <<deleted, task, stopped, known, timer, elapsed, granted,
                   onTime, fails>>

\* Mutant: the new lease is counted from the arrival of the answer.
AnsweredLocally ==
    /\ task = "renew"
    /\ granted > 0
    /\ known' = Lease
    /\ timer' = RenewalDelay(Lease)
    /\ onTime' = TRUE
    /\ task' = "sleep"
    /\ fails' = 0
    /\ UNCHANGED <<left, deleted, stopped, elapsed, granted, floating, unheard>>

\* renew returns the new lease_until, and the loop comes round.
Answered ==
    /\ task = "renew"
    /\ granted > 0
    /\ known' = granted
    /\ timer' = RenewalDelay(granted)
    /\ onTime' = TRUE
    /\ task' = "sleep"
    /\ fails' = 0
    /\ UNCHANGED <<left, deleted, stopped, elapsed, granted, floating, unheard>>

\* SUBSCRIPTION_NOT_FOUND ends the loop.
NotFound ==
    /\ task = "renew"
    /\ granted = 0
    /\ deleted
    /\ task' = "ended"
    /\ UNCHANGED <<left, deleted, stopped, known, timer, elapsed, granted,
                   floating, onTime, fails, unheard>>

\* Mutant: the loop never gives up.
RetryPauseAlways ==
    /\ task' = "pause"
    /\ timer' = MinSleep

\* Mutant: the loop gives up when less than a pause is left.
RetryPauseShort ==
    \/ /\ known <= MinSleep
       /\ task' = "ended"
       /\ UNCHANGED timer
    \/ /\ known > MinSleep
       /\ task' = "pause"
       /\ timer' = MinSleep

\* _retry_pause.
RetryPause ==
    \/ /\ known = 0
       /\ task' = "ended"
       /\ UNCHANGED timer
    \/ /\ known > 0
       /\ task' = "pause"
       /\ timer' = Smaller(MinSleep, known)

\* renew raises anything else.  The request has been handled, is lost, or still
\* travels.
Failed ==
    /\ task = "renew"
    /\ RetryPause
    /\ fails' = Smaller(fails + 1, Tolerated + 1)
    /\ unheard' = (unheard \/ granted > 0)
    /\ floating' \in {floating, floating \/ granted = 0}
    /\ granted' = 0
    /\ UNCHANGED <<left, deleted, stopped, known, elapsed, onTime>>

\* The pause is over and the loop comes round.
Again ==
    /\ task = "pause"
    /\ timer = 0
    /\ task' = "sleep"
    /\ timer' = RenewalDelay(known)
    /\ UNCHANGED <<left, deleted, stopped, known, elapsed, granted, floating,
                   onTime, fails, unheard>>

\* aclose(): cancel the task wherever it is; the renewer may be started again.
Close ==
    /\ stopped' = TRUE
    /\ task' = "none"
    /\ floating' \in {floating, floating \/ (task = "renew" /\ granted = 0)}
    /\ unheard' = (unheard \/ (task = "renew" /\ granted > 0))
    /\ granted' = 0
    /\ UNCHANGED <<left, deleted, known, timer, elapsed, onTime, fails>>

\* The subscription is deleted.
Delete ==
    /\ deleted' = TRUE
    /\ UNCHANGED <<left, task, stopped, known, timer, elapsed, granted,
                   floating, onTime, fails, unheard>>

Less(n) == Larger(n - 1, 0)

\* Time passes, though not past the end of a sleep or of the call's timeout.
Tick ==
    /\ task \in {"sleep", "pause"} => timer > 0
    /\ task = "renew" => elapsed < MaxLatency
    /\ left' = Less(left)
    /\ known' = Less(known)
    /\ granted' = Less(granted)
    /\ timer' = Less(timer)
    /\ elapsed' = IF task = "renew" THEN elapsed + 1 ELSE elapsed
    /\ UNCHANGED <<deleted, task, stopped, floating, onTime, fails, unheard>>

Loop == Wake \/ Answered \/ NotFound \/ Failed \/ Again

Next == Start \/ Loop \/ Grant \/ GrantLate \/ Close \/ Delete \/ Tick

\* The clock runs, and the event loop runs a task whose await is over.
Spec == Init /\ [][Next]_vars /\ WF_vars(Loop) /\ WF_vars(Tick)
-----------------------------------------------------------------------------
(* Properties *)

\* The renewer never believes in a lease that is longer than the one the
\* publisher keeps: it goes by the lease_until of the answer, whenever that
\* arrives.
KnownIsKept == Running => known <= left

\* The point of renewing at renew_fraction: the lease of a running renewer that
\* was started on time does not lapse as long as no more than Tolerated renewals
\* in a row fail, whatever each failure costs in time.
LeaseKept == Running /\ onTime /\ fails <= Tolerated => left > 0

\* "It keeps retrying until the lease would expire": a loop that has given up
\* leaves a lapsed lease behind, unless the subscription is gone or the
\* publisher granted a renewal the renewer never heard of.
GivesUpLapsed ==
    task = "ended" => left = 0 \/ deleted \/ stopped \/ unheard

\* A renewal attempt leads to a fresh lease or to the end of the loop: the loop
\* neither hangs nor retries for ever.
RenewsOrEnds == task = "renew" ~> (~Running \/ known > Early)
=============================================================================
