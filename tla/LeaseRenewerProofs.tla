------------------------- MODULE LeaseRenewerProofs -------------------------
(***************************************************************************)
(* The renewer keeps its lease through Tolerated failures in a row, for     *)
(* every lease, renew_fraction, min_sleep and timeout of the renew call.    *)
(*                                                                         *)
(* LeaseKept says nothing of how late the renewer is, so it is not          *)
(* inductive.  Margin is the account that makes it so: at every await, the  *)
(* lease the renewer knows of exceeds the time it has yet to sleep by what  *)
(* Early had in store, less the cost of the failures so far.                *)
(***************************************************************************)
EXTENDS LeaseRenewer, TLAPS

Spent == fails * CostOfFailure

Margin ==
    onTime /\ fails <= Tolerated =>
        /\ task = "sleep" => known - timer >= Early - Spent
        /\ task = "pause" => known - timer >= Early - Spent + MinSleep
        /\ task = "renew" => known >= Early - Spent - elapsed

\* The answer on its way is a lease the publisher keeps, as old as the call at
\* most.
GrantIsFresh ==
    task = "renew" =>
        /\ granted <= left
        /\ granted > 0 => granted >= Lease - elapsed

LeaseInv == TypeOK /\ KnownIsKept /\ GrantIsFresh /\ Margin

-----------------------------------------------------------------------------
(* Arithmetic *)

\* What Tolerated is chosen for: that many failures, and one more call.
LEMMA ToleratedFits ==
    /\ CostOfFailure \in Nat \ {0}
    /\ Tolerated \in Nat
    /\ Tolerated * CostOfFailure + MaxLatency + 1 <= Early
<1>1. CostOfFailure \in Nat \ {0}
  BY RenewerAssumption DEF CostOfFailure
<1> DEFINE n == Early - MaxLatency - 1
<1>2. n \in Nat
  BY RenewerAssumption
<1>3. ASSUME NEW a \in Nat, NEW d \in Nat \ {0}
      PROVE  a \div d \in Nat /\ (a \div d) * d <= a
  OBVIOUS
<1> HIDE DEF n
<1>4. n \div CostOfFailure \in Nat /\ (n \div CostOfFailure) * CostOfFailure <= n
  BY <1>1, <1>2, <1>3
<1>5. Tolerated = n \div CostOfFailure
  BY DEF Tolerated, n
<1>6. Tolerated \in Nat /\ Tolerated * CostOfFailure <= n
  BY <1>4, <1>5
<1> DEFINE t == Tolerated * CostOfFailure
<1>7. t \in Int
  BY <1>1, <1>6
<1> HIDE DEF t
<1>8. t <= n => t + MaxLatency + 1 <= Early
  BY <1>7, RenewerAssumption DEF n
<1> QED
  BY <1>1, <1>6, <1>8 DEF t

\* The cost of failures adds up, and up to Tolerated of them it stays in bounds.
LEMMA SpentGrows ==
    ASSUME NEW f \in Nat
    PROVE  /\ f * CostOfFailure \in Nat
           /\ (f + 1) * CostOfFailure = f * CostOfFailure + CostOfFailure
           /\ f <= Tolerated =>
                  f * CostOfFailure <= Tolerated * CostOfFailure
<1>1. ASSUME NEW c \in Nat, NEW t \in Nat
      PROVE  /\ f * c \in Nat
             /\ (f + 1) * c = f * c + c
             /\ f <= t => f * c <= t * c
  OBVIOUS
<1> QED
  BY <1>1, ToleratedFits

-----------------------------------------------------------------------------
LEMMA LeaseInit == Init => LeaseInv
<1> SUFFICES ASSUME Init PROVE LeaseInv
  OBVIOUS
<1>1. FlagsOK
  BY Zenon DEF Init, FlagsOK
<1>2. TypeOK
  BY <1>1, ToleratedFits, RenewerAssumption DEF Init, TypeOK
<1> QED
  BY <1>2 DEF Init, LeaseInv, KnownIsKept, GrantIsFresh, Margin, Running

LEMMA FlagsStep == FlagsOK /\ [Next]_vars => FlagsOK'
<1> SUFFICES ASSUME FlagsOK, [Next]_vars PROVE FlagsOK'
  OBVIOUS
<1> USE DEF FlagsOK
<1>1. CASE Start
  <2>1. (left >= Early + MinSleep) \in BOOLEAN
    BY SMT
  <2> QED
    BY <1>1, <2>1, Zenon DEF Start
<1>2. CASE Loop
  BY <1>2, Zenon DEF Loop, Wake, Answered, NotFound, Failed, Again
<1>3. CASE Grant \/ GrantLate
  BY <1>3, Zenon DEF Grant, GrantLate
<1>4. CASE Close \/ Delete
  BY <1>4, Zenon DEF Close, Delete
<1>5. CASE Tick
  BY <1>5, Zenon DEF Tick
<1>6. CASE UNCHANGED vars
  BY <1>6, Zenon DEF vars
<1> QED
  BY <1>1, <1>2, <1>3, <1>4, <1>5, <1>6 DEF Next

\* Every step keeps the account.
LEMMA LeaseStep == LeaseInv /\ [Next]_vars => LeaseInv'
<1> SUFFICES ASSUME LeaseInv, [Next]_vars PROVE LeaseInv'
  OBVIOUS
<1>f. FlagsOK'
  BY FlagsStep DEF LeaseInv, TypeOK
<1>t. Tolerated \in Nat /\ CostOfFailure \in Nat
  BY ToleratedFits
<1> USE RenewerAssumption, <1>f, <1>t
<1> DEFINE w == fails * CostOfFailure
           t == Tolerated * CostOfFailure
<1>a. /\ w \in Nat /\ t \in Nat
      /\ fails <= Tolerated => w <= t
  BY SpentGrows, ToleratedFits DEF LeaseInv, TypeOK
<1>n. (fails + 1) * CostOfFailure = w + CostOfFailure
  BY SpentGrows, ToleratedFits DEF LeaseInv, TypeOK
<1>b. CostOfFailure = MaxLatency + 2 * MinSleep
  BY DEF CostOfFailure
<1>1. CASE Start
  <2>1. TypeOK' /\ KnownIsKept' /\ GrantIsFresh'
    BY <1>1 DEF Start, LeaseInv, TypeOK, KnownIsKept, GrantIsFresh, Running,
       RenewalDelay, Larger
  <2>2. onTime' => left >= Early + MinSleep
    BY <1>1, Zenon DEF Start
  <2>3. Spent' = 0
    BY <1>1 DEF Start, Spent, CostOfFailure
  <2>4. Margin'
    BY <1>1, <2>2, <2>3 DEF Start, LeaseInv, TypeOK, Margin, RenewalDelay,
       Larger
  <2> QED
    BY <2>1, <2>4 DEF LeaseInv
<1>2. CASE Wake
  BY <1>2, <1>a DEF Wake, LeaseInv, TypeOK, KnownIsKept, GrantIsFresh, Margin,
     Running, Spent
<1>3. CASE Grant
  BY <1>3, <1>a DEF Grant, LeaseInv, TypeOK, KnownIsKept, GrantIsFresh, Margin,
     Running, Spent
<1>4. CASE GrantLate
  BY <1>4, <1>a DEF GrantLate, LeaseInv, TypeOK, KnownIsKept, GrantIsFresh,
     Margin, Running, Spent
<1>5. CASE Answered
  BY <1>5 DEF Answered, LeaseInv, TypeOK, KnownIsKept, GrantIsFresh, Margin,
     Running, Spent, RenewalDelay, Larger
<1>6. CASE NotFound
  BY <1>6 DEF NotFound, LeaseInv, TypeOK, KnownIsKept, GrantIsFresh, Margin,
     Running, Spent
<1>7. CASE Failed
  <2>1. TypeOK'
    BY <1>7 DEF Failed, RetryPause, Smaller, LeaseInv, TypeOK
  <2>2. KnownIsKept' /\ GrantIsFresh'
    BY <1>7 DEF Failed, RetryPause, LeaseInv, TypeOK, KnownIsKept,
       GrantIsFresh, Running
  <2>3. fails' <= Tolerated => fails' = fails + 1 /\ fails <= Tolerated
    BY <1>7 DEF Failed, Smaller, LeaseInv, TypeOK
  <2>4. Margin'
    <3> SUFFICES ASSUME onTime', fails' <= Tolerated, task' = "pause"
                 PROVE  known' - timer' >= Early - Spent' + MinSleep
      BY <1>7 DEF Failed, RetryPause, Margin
    <3>1. known >= Early - w - elapsed
      BY <1>7, <2>3 DEF Failed, LeaseInv, Margin, Spent
    <3>2. Spent' = w + CostOfFailure
      BY <1>n, <2>3 DEF Spent, CostOfFailure
    <3>3. known' = known
      BY <1>7 DEF Failed
    <3>4. PICK x \in Nat : x = timer' /\ x <= MinSleep
      BY <1>7, <2>1 DEF Failed, RetryPause, Smaller, LeaseInv, TypeOK
    <3>5. PICK v \in Nat : v = w
      BY <1>a
    <3>6. /\ known >= Early - v - elapsed
          /\ elapsed \in 0 .. MaxLatency
          /\ known \in Nat
      BY <3>1, <3>5 DEF LeaseInv, TypeOK
    <3>7. x <= MinSleep
      BY <3>4
    <3>8. known >= Early - v - MaxLatency
      BY <3>6
    <3>9. known - x >= Early - v - MaxLatency - MinSleep
      BY <3>6, <3>7, <3>8
    <3>10. known - x >= Early - (v + MaxLatency + 2 * MinSleep) + MinSleep
      BY <3>6, <3>9
    <3> QED
      BY <3>2, <3>3, <3>4, <3>5, <3>10, <1>b
  <2> QED
    BY <2>1, <2>2, <2>4 DEF LeaseInv
<1>8. CASE Again
  BY <1>8, <1>a DEF Again, LeaseInv, TypeOK, KnownIsKept, GrantIsFresh, Margin,
     Running, Spent, RenewalDelay, Larger
<1>9. CASE Close
  BY <1>9 DEF Close, LeaseInv, TypeOK, KnownIsKept, GrantIsFresh, Margin,
     Running, Spent
<1>10. CASE Delete
  BY <1>10 DEF Delete, LeaseInv, TypeOK, KnownIsKept, GrantIsFresh, Margin,
     Running, Spent
<1>11. CASE Tick
  BY <1>11, <1>a DEF Tick, Less, Larger, LeaseInv, TypeOK, KnownIsKept,
     GrantIsFresh, Margin, Running, Spent
<1>12. CASE UNCHANGED vars
  BY <1>12 DEF vars, LeaseInv, TypeOK, KnownIsKept, GrantIsFresh, Margin,
     Running, Spent
<1> QED
  BY <1>1, <1>2, <1>3, <1>4, <1>5, <1>6, <1>7, <1>8, <1>9, <1>10, <1>11,
     <1>12 DEF Next, Loop

LEMMA LeaseInvariant == Spec => []LeaseInv
  BY LeaseInit, LeaseStep, PTL DEF Spec

\* A running AutoLeaseRenewer that was started on time and meets no more than
\* Tolerated failures in a row never lets the lease lapse, whatever the lease,
\* the margin, min_sleep and the timeout of a call are.
THEOREM RenewerKeepsLease == Spec => []LeaseKept
<1>1. LeaseInv => LeaseKept
  <2> SUFFICES ASSUME LeaseInv, Running, onTime, fails <= Tolerated
               PROVE  left > 0
    BY DEF LeaseKept
  <2> DEFINE w == fails * CostOfFailure
             t == Tolerated * CostOfFailure
  <2>1. w \in Nat /\ t \in Nat /\ w <= t
    BY SpentGrows, ToleratedFits DEF LeaseInv, TypeOK
  <2>2. t + MaxLatency + 1 <= Early
    BY ToleratedFits
  <2>3. known > 0
    BY <2>1, <2>2, RenewerAssumption
       DEF LeaseInv, TypeOK, Margin, Running, Spent
  <2> QED
    BY <2>3, RenewerAssumption DEF LeaseInv, TypeOK, KnownIsKept
<1> QED
  BY <1>1, LeaseInvariant, PTL

\* The lease_until the renewer goes by is never later than the publisher's.
THEOREM RenewerNeverOverestimates == Spec => []KnownIsKept
<1>1. LeaseInv => KnownIsKept
  BY DEF LeaseInv
<1> QED
  BY <1>1, LeaseInvariant, PTL

-----------------------------------------------------------------------------
(* Giving up *)

\* As long as no grant went unheard, a running renewer knows the publisher's
\* lease exactly, or has it on the way back.
HeardInv ==
    ~deleted /\ ~stopped /\ ~unheard =>
        /\ Running => left = IF task = "renew" /\ granted > 0 THEN granted ELSE known
        /\ task = "ended" => left = 0

LEMMA HeardStep == LeaseInv /\ LeaseInv' /\ HeardInv /\ [Next]_vars => HeardInv'
<1> SUFFICES ASSUME LeaseInv, LeaseInv', HeardInv, [Next]_vars PROVE HeardInv'
  OBVIOUS
<1> USE RenewerAssumption DEF HeardInv, Running
<1>t. /\ left \in Nat /\ known \in Nat /\ granted \in Nat
      /\ deleted \in BOOLEAN /\ stopped \in BOOLEAN /\ unheard \in BOOLEAN
      /\ floating \in BOOLEAN
  BY DEF LeaseInv, TypeOK, FlagsOK
<1>1. CASE Start
  BY <1>1, <1>t DEF Start
<1>2. CASE Wake
  BY <1>2, <1>t DEF Wake
<1>3. CASE Grant
  <2>1. Lease \in Nat /\ Lease > 0
    OBVIOUS
  <2> QED
    BY <1>3, <1>t, <2>1 DEF Grant
<1>4. CASE GrantLate
  <2>1. deleted' \/ unheard'
    BY <1>4, <1>t, Zenon DEF GrantLate
  <2> QED
    BY <2>1
<1>5. CASE Answered
  BY <1>5, <1>t DEF Answered
<1>6. CASE NotFound
  BY <1>6, <1>t DEF NotFound
<1>7. CASE Failed
  <2>1. granted > 0 => unheard'
    BY <1>7, Zenon DEF Failed
  <2>2. unheard => unheard'
    BY <1>7, Zenon DEF Failed
  <2> QED
    BY <1>7, <1>t, <2>1, <2>2 DEF Failed, RetryPause
<1>8. CASE Again
  BY <1>8, <1>t DEF Again
<1>9. CASE Close
  BY <1>9 DEF Close
<1>10. CASE Delete
  BY <1>10 DEF Delete
<1>11. CASE Tick
  <2>1. task = "renew" /\ granted > 0 => granted' > 0
    BY <1>11, <1>t DEF Tick, Less, Larger, LeaseInv, TypeOK, GrantIsFresh
  <2> QED
    BY <1>11, <1>t, <2>1 DEF Tick, Less, Larger
<1>12. CASE UNCHANGED vars
  BY <1>12 DEF vars
<1> QED
  BY <1>1, <1>2, <1>3, <1>4, <1>5, <1>6, <1>7, <1>8, <1>9, <1>10, <1>11,
     <1>12 DEF Next, Loop

\* A loop that has given up leaves a lapsed lease behind, unless the subscription
\* is gone, the renewer was closed, or a grant was never heard of.
THEOREM RenewerGivesUpLapsed == Spec => []GivesUpLapsed
<1>1. Init => HeardInv
  BY DEF Init, HeardInv, Running
<1>2. Spec => [](LeaseInv /\ HeardInv)
  BY <1>1, LeaseInit, LeaseStep, HeardStep, PTL DEF Spec
<1>3. LeaseInv /\ HeardInv => GivesUpLapsed
  BY DEF HeardInv, GivesUpLapsed
<1> QED
  BY <1>2, <1>3, PTL
=============================================================================
