---------------------------- MODULE TokenBucket ----------------------------
(***************************************************************************)
(* TokenBucketRateLimiter of limits.py.  Callers on several threads share   *)
(* it: check() reads the clock first and takes the lock afterwards, so the  *)
(* bucket may be asked at an earlier instant than the last time.            *)
(*                                                                         *)
(* Tokens are counted in the part of a token that one tick refills, so that *)
(* a token is Cost units and the rate is one unit per tick.                 *)
(***************************************************************************)
EXTENDS Integers, FiniteSets

CONSTANTS
    Callers,    \* concurrent calls of check()
    Keys,       \* principals
    Capacity,   \* capacity of a bucket, in units
    Cost,       \* units of one token
    MaxTime     \* bound: ticks of the clock

ASSUME BucketAssumption ==
    /\ Capacity \in Nat
    /\ Cost \in Nat \ {0}
    /\ MaxTime \in Nat

VARIABLES
    clock,
    bucket,     \* tokens and the instant they were counted at
    now,        \* the instant a caller has read, until the lock is its own
    taken       \* history: the calls let through

bucketVars == <<clock, bucket, now, taken>>

NoTime == -1
Times == 0 .. MaxTime

BucketTypeOK ==
    /\ clock \in Times
    /\ bucket \in [Keys -> [tokens : Int, last : Times \cup {NoTime}]]
    /\ now \in [Callers -> Times \cup {NoTime}]
    /\ taken \subseteq [by : Callers, key : Keys, at : Times]

BucketInit ==
    /\ clock = 0
    /\ bucket = [k \in Keys |-> [tokens |-> Capacity, last |-> NoTime]]
    /\ now = [c \in Callers |-> NoTime]
    /\ taken = {}

Tick ==
    /\ clock < MaxTime
    /\ clock' = clock + 1
    /\ UNCHANGED <<bucket, now, taken>>

\* check(): now = self._clock(), outside the lock.
ReadClock(c) ==
    /\ now' = [now EXCEPT ![c] = clock]
    /\ UNCHANGED <<clock, bucket, taken>>

\* Mutant: the bucket fills beyond its capacity.
RefilledUncapped(k, t) ==
    IF bucket[k].last = NoTime
    THEN Capacity
    ELSE bucket[k].tokens + t - bucket[k].last

\* The tokens of k at instant t; a bucket met for the first time is full.
Refilled(k, t) ==
    IF bucket[k].last = NoTime
    THEN Capacity
    ELSE LET tokens == bucket[k].tokens + t - bucket[k].last
         IN  IF tokens < Capacity THEN tokens ELSE Capacity

\* check(), under the lock: the call takes a token ...
TakeToken(c, k) ==
    /\ Refilled(k, now[c]) >= Cost
    /\ bucket' = [bucket EXCEPT ![k] =
                     [tokens |-> Refilled(k, now[c]) - Cost, last |-> now[c]]]
    /\ taken' = taken \cup {[by |-> c, key |-> k, at |-> now[c]]}
    /\ now' = [now EXCEPT ![c] = NoTime]
    /\ UNCHANGED clock

\* ... or is rejected with RATE_LIMITED, which counts the bucket anew too.
RateLimited(c, k) ==
    /\ Refilled(k, now[c]) < Cost
    /\ bucket' = [bucket EXCEPT ![k] =
                     [tokens |-> Refilled(k, now[c]), last |-> now[c]]]
    /\ now' = [now EXCEPT ![c] = NoTime]
    /\ UNCHANGED <<clock, taken>>

-----------------------------------------------------------------------------
CallsBetween(calls, k, a, b) ==
    {call \in calls : call.key = k /\ a <= call.at /\ call.at <= b}

\* Calls of k let through at instants between a and b, by the time they read.
TakenBetween(k, a, b) == Cardinality(CallsBetween(taken, k, a, b))

\* A principal gets no more than its burst and the refill of the interval, for
\* every interval of time, although threads reach the lock with old readings of
\* the clock and send the bucket's time backwards.
RateHeld ==
    \A k \in Keys : \A a \in Times : \A b \in a .. MaxTime :
        Cost * TakenBetween(k, a, b) <= Capacity + b - a
=============================================================================
