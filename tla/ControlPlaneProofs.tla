------------------------ MODULE ControlPlaneProofs ------------------------
(***************************************************************************)
(* What publisher.subscribe and the listing keep, for any number of         *)
(* requests, principals, cards and policies, any capacity and any quota.    *)
(***************************************************************************)
EXTENDS ControlPlane, FiniteSetTheorems, WellFoundedInduction, TLAPS

-----------------------------------------------------------------------------
(* The rate limiter *)

\* What a bucket owes to the calls it let through since a: its tokens, counted
\* back to instant 0, are below what a full bucket at a would have left.
Spent(k, a, b) ==
    LET n == TakenBetween(k, a, b)
    IN  n > 0 => /\ bucket[k].last \in Times
                 /\ bucket[k].tokens - bucket[k].last <= Capacity - a - Cost * n

Ledger ==
    /\ IsFiniteSet(taken)
    /\ \A k \in Keys : \A a \in Times : \A b \in a .. MaxTime : Spent(k, a, b)

LEMMA Counts ==
    ASSUME NEW calls, IsFiniteSet(calls), NEW k, NEW a, NEW b
    PROVE  /\ IsFiniteSet(CallsBetween(calls, k, a, b))
           /\ Cardinality(CallsBetween(calls, k, a, b)) \in Nat
<1>1. CallsBetween(calls, k, a, b) \in SUBSET calls
  BY DEF CallsBetween
<1> QED
  BY <1>1, FS_Subset, FS_CardinalityType

LEMMA CostOfOneMore ==
    ASSUME NEW n \in Nat
    PROVE  Cost * n \in Int /\ Cost * (n + 1) = Cost * n + Cost
BY BucketAssumption

\* A clock reading never leaves the range of the clock, and refilling never adds
\* more than the time that has passed.
LEMMA RefillBound ==
    ASSUME BucketTypeOK, NEW k \in Keys, NEW t \in Times
    PROVE  /\ Refilled(k, t) \in Int
           /\ Refilled(k, t) <= Capacity
           /\ bucket[k].last \in Times =>
                 Refilled(k, t) - t <= bucket[k].tokens - bucket[k].last
<1>1. bucket[k] \in [tokens : Int, last : Times \cup {NoTime}]
  BY DEF BucketTypeOK
<1> QED
  BY <1>1, BucketAssumption DEF Refilled, Times, NoTime

\* A call that is let through is one more in the intervals that hold its instant.
LEMMA OneMoreCall ==
    ASSUME NEW calls, IsFiniteSet(calls), NEW call, NEW k, NEW a, NEW b
    PROVE  LET old == CallsBetween(calls, k, a, b)
               new == CallsBetween(calls \cup {call}, k, a, b)
           IN  \/ Cardinality(new) = Cardinality(old)
               \/ /\ call.key = k /\ a <= call.at /\ call.at <= b
                  /\ Cardinality(new) = Cardinality(old) + 1
<1> DEFINE old == CallsBetween(calls, k, a, b)
           new == CallsBetween(calls \cup {call}, k, a, b)
<1>1. CASE call.key = k /\ a <= call.at /\ call.at <= b
  <2>1. new = old \cup {call}
    BY <1>1 DEF CallsBetween
  <2>2. \/ Cardinality(old \cup {call}) = Cardinality(old)
        \/ Cardinality(old \cup {call}) = Cardinality(old) + 1
    BY Counts, FS_AddElement
  <2> QED
    BY <1>1, <2>1, <2>2
<1>2. CASE ~(call.key = k /\ a <= call.at /\ call.at <= b)
  <2>1. new = old
    BY <1>2 DEF CallsBetween
  <2> QED
    BY <2>1
<1> QED
  BY <1>1, <1>2

LEMMA LedgerInit == BucketInit => Ledger /\ RateHeld
<1> SUFFICES ASSUME BucketInit PROVE Ledger /\ RateHeld
  OBVIOUS
<1>1. IsFiniteSet(taken)
  BY FS_EmptySet DEF BucketInit
<1>2. ASSUME NEW k, NEW a, NEW b PROVE TakenBetween(k, a, b) = 0
  <2>1. CallsBetween(taken, k, a, b) = {}
    BY DEF BucketInit, CallsBetween
  <2> QED
    BY <2>1, FS_EmptySet DEF TakenBetween
<1>3. Ledger
  BY <1>1, <1>2 DEF Ledger, Spent
<1>4. RateHeld
  <2> SUFFICES ASSUME NEW k \in Keys, NEW a \in Times, NEW b \in a .. MaxTime
               PROVE  Cost * TakenBetween(k, a, b) <= Capacity + b - a
    BY DEF RateHeld
  <2>1. TakenBetween(k, a, b) = 0
    BY <1>2
  <2> QED
    BY <2>1, BucketAssumption DEF Times
<1> QED
  BY <1>3, <1>4

\* The limiter lets a call through that read the clock at t.
LEMMA LedgerTake ==
    ASSUME BucketTypeOK, Ledger, RateHeld, NEW c \in Callers, NEW k \in Keys,
           now[c] \in Times, TakeToken(c, k)
    PROVE  Ledger' /\ RateHeld'
<1> PICK t \in Times : t = now[c]
  OBVIOUS
<1>0. IsFiniteSet(taken)
  BY DEF Ledger
<1>1. IsFiniteSet(taken')
  BY <1>0, FS_AddElement DEF TakeToken
<1>2. ASSUME NEW q \in Keys, NEW a \in Times, NEW b \in a .. MaxTime
      PROVE  Spent(q, a, b)' /\ (Cost * TakenBetween(q, a, b) <= Capacity + b - a)'
  <2> DEFINE n == TakenBetween(q, a, b)
             m == TakenBetween(q, a, b)'
  <2>1. n \in Nat /\ m \in Nat
    BY <1>0, <1>1, Counts DEF TakenBetween
  <2>2. m = n \/ (m = n + 1 /\ k = q /\ a <= t /\ t <= b)
    <3> DEFINE call == [by |-> c, key |-> k, at |-> t]
    <3>1. taken' = taken \cup {call}
      BY DEF TakeToken
    <3>2. call.key = k /\ call.at = t
      OBVIOUS
    <3> HIDE DEF call
    <3> QED
      BY <1>0, <3>1, <3>2, OneMoreCall DEF TakenBetween
  <2>3. Spent(q, a, b) /\ Cost * n <= Capacity + b - a
    BY DEF Ledger, RateHeld
  <2>4. n > 0 => /\ bucket[q].last \in Times
                 /\ bucket[q].tokens - bucket[q].last <= Capacity - a - Cost * n
    BY <2>3 DEF Spent
  <2>5. CASE q # k
    <3>1. m = n /\ bucket'[q] = bucket[q]
      BY <2>2, <2>5 DEF TakeToken, BucketTypeOK
    <3> HIDE DEF n, m
    <3>2. m > 0 => /\ bucket'[q].last \in Times
                 /\ bucket'[q].tokens - bucket'[q].last <= Capacity - a - Cost * m
      BY <2>4, <3>1
    <3>3. Cost * m <= Capacity + b - a
      BY <2>3, <3>1
    <3> QED
      BY <3>2, <3>3 DEF Spent, m
  <2>6. CASE q = k
    <3>1. bucket[q] \in [tokens : Int, last : Times \cup {NoTime}]
      BY DEF BucketTypeOK
    <3>2. /\ bucket'[q].tokens = Refilled(q, t) - Cost
          /\ bucket'[q].last = t
          /\ Refilled(q, t) >= Cost
      BY <2>6 DEF TakeToken, BucketTypeOK
    <3>3. /\ Refilled(q, t) \in Int
          /\ Refilled(q, t) <= Capacity
          /\ bucket[q].last \in Times =>
                 Refilled(q, t) - t <= bucket[q].tokens - bucket[q].last
      BY RefillBound
    <3>4. Cost * n \in Int /\ Cost * (n + 1) = Cost * n + Cost
      BY <2>1, CostOfOneMore
    <3>4a. Cost * 0 = 0 /\ Cost \in Nat /\ Capacity \in Nat /\ MaxTime \in Nat
      BY BucketAssumption
    <3> HIDE DEF n, m
    <3>5. bucket[q].tokens \in Int /\ (bucket[q].last \in Times => bucket[q].last \in Int)
      BY <3>1 DEF Times
    <3>6. a \in Int /\ b \in Int /\ t \in Int
      BY BucketAssumption DEF Times
    <3>7. CASE m = n
      <4>1. Cost * m = Cost * n
        BY <3>7
      <4>2. m > 0 => Refilled(q, t) - Cost - t <= Capacity - a - Cost * m
        BY <2>1, <2>4, <3>3, <3>4, <3>4a, <3>5, <3>6, <3>7, <4>1
      <4>3. Cost * m <= Capacity + b - a
        BY <2>3, <4>1
      <4> QED
        BY <3>2, <4>2, <4>3 DEF Spent, m
    <3>8. CASE m = n + 1 /\ a <= t /\ t <= b
      <4>1. Cost * m = Cost * n + Cost
        BY <3>4, <3>8
      <4>2. n = 0 => Cost * n = 0
        BY <3>4a
      <4>3. Refilled(q, t) - Cost - t <= Capacity - a - (Cost * n + Cost)
        BY <2>1, <2>4, <3>3, <3>4, <3>4a, <3>5, <3>6, <3>8, <4>2
      <4>4. Cost * n + Cost <= Capacity + b - a
        BY <3>2, <3>3, <3>4, <3>4a, <3>6, <3>8, <4>3
      <4> QED
        BY <3>2, <4>1, <4>3, <4>4 DEF Spent, m
    <3> QED
      BY <2>2, <3>7, <3>8
  <2> QED
    BY <2>5, <2>6
<1>3. Ledger'
  BY <1>1, <1>2 DEF Ledger
<1>4. RateHeld'
  BY <1>2 DEF RateHeld
<1> QED
  BY <1>3, <1>4

\* Nor does a rejection put more into the bucket than time has brought.
LEMMA LedgerReject ==
    ASSUME BucketTypeOK, Ledger, RateHeld, NEW c \in Callers, NEW k \in Keys,
           now[c] \in Times, RateLimited(c, k)
    PROVE  Ledger' /\ RateHeld'
<1> DEFINE t == now[c]
<1>0. IsFiniteSet(taken)
  BY DEF Ledger
<1>1. taken' = taken
  BY DEF RateLimited
<1>2. ASSUME NEW q \in Keys, NEW a \in Times, NEW b \in a .. MaxTime
      PROVE  Spent(q, a, b)'
  <2> DEFINE n == TakenBetween(q, a, b)
  <2>1. n' = n /\ n \in Nat
    BY <1>0, <1>1, Counts DEF TakenBetween
  <2>2. n > 0 => /\ bucket[q].last \in Times
                 /\ bucket[q].tokens - bucket[q].last <= Capacity - a - Cost * n
    BY DEF Spent, Ledger
  <2>3. bucket[q] \in [tokens : Int, last : Times \cup {NoTime}]
    BY DEF BucketTypeOK
  <2>4. Cost * n \in Int
    BY <2>1, CostOfOneMore
  <2>5. q # k => bucket'[q] = bucket[q]
    BY DEF RateLimited, BucketTypeOK
  <2>6. q = k => bucket'[q].tokens = Refilled(q, t) /\ bucket'[q].last = t
    BY DEF RateLimited, BucketTypeOK
  <2>7. /\ Refilled(q, t) \in Int
        /\ bucket[q].last \in Times =>
               Refilled(q, t) - t <= bucket[q].tokens - bucket[q].last
    BY RefillBound
  <2> HIDE DEF n
  <2>8. n > 0 => /\ bucket'[q].last \in Times
                 /\ bucket'[q].tokens - bucket'[q].last <= Capacity - a - Cost * n
    BY <2>2, <2>3, <2>4, <2>5, <2>6, <2>7, BucketAssumption DEF Times
  <2>9. Spent(q, a, b)' =
          (n' > 0 => /\ bucket'[q].last \in Times
                     /\ bucket'[q].tokens - bucket'[q].last <= Capacity - a - Cost * n')
    BY DEF Spent, n
  <2> QED
    BY <2>1, <2>8, <2>9
<1>3. Ledger'
  BY <1>1, <1>2 DEF Ledger
<1>4. RateHeld'
  BY <1>1 DEF RateHeld, TakenBetween
<1> QED
  BY <1>3, <1>4

LEMMA LedgerStays ==
    ASSUME Ledger, RateHeld, UNCHANGED <<bucket, taken>>
    PROVE  Ledger' /\ RateHeld'
BY DEF Ledger, RateHeld, Spent, TakenBetween

-----------------------------------------------------------------------------
(* The endpoint *)

LEMMA LeastIndex ==
    ASSUME NEW S \in SUBSET Nat, S # {}
    PROVE  \E m \in S : \A x \in S : m <= x
<1>1. IsWellFoundedOn(OpToRel(<, Nat), Nat)
  BY NatLessThanWellFounded
<1>2. PICK m \in S : \A y \in S : ~ (<<y, m>> \in OpToRel(<, Nat))
  BY <1>1, WFMin
<1>3. \A y \in S : ~ (y < m)
  BY <1>2 DEF OpToRel
<1> QED
  BY <1>3

\* The first JSON-RPC interface of a card, or its url, is a URL of the card.
LEMMA EndpointType ==
    ASSUME NEW card \in Cards
    PROVE  A2AEndpointOf(card) \in Urls
<1> DEFINE fits == {i \in DOMAIN card.interfaces :
                       card.interfaces[i].url # NoUrl /\ card.interfaces[i].jsonrpc}
           first == CHOOSE i \in fits : \A j \in fits : i <= j
<1>1. /\ card.url \in Urls
      /\ card.interfaces \in Seq([url : Urls, jsonrpc : BOOLEAN])
  BY ControlAssumption
<1>2. A2AEndpointOf(card) = IF fits = {} THEN card.url ELSE card.interfaces[first].url
  BY DEF A2AEndpointOf
<1>3. ASSUME fits # {} PROVE first \in DOMAIN card.interfaces
  <2>1. fits \in SUBSET Nat
    BY <1>1
  <2>2. \E i \in fits : \A j \in fits : i <= j
    BY <1>3, <2>1, LeastIndex
  <2>3. first \in fits
    BY <2>2
  <2> QED
    BY <2>3
<1>4. \A i \in DOMAIN card.interfaces : card.interfaces[i].url \in Urls
  <2> DEFINE Interface == [url : Urls, jsonrpc : BOOLEAN]
             offered == card.interfaces
  <2>1. offered \in Seq(Interface)
    BY <1>1
  <2> HIDE DEF Interface, offered
  <2>2. \A i \in DOMAIN offered : offered[i] \in Interface
    BY <2>1
  <2> QED
    BY <2>2 DEF Interface, offered
<1> HIDE DEF fits, first
<1> QED
  BY <1>1, <1>2, <1>3, <1>4

\* What both policies ask of an endpoint.
Safe(url) ==
    /\ CardPolicy.requireHttps \/ EndpointPolicy.requireHttps => url.https
    /\ CardPolicy.requireSameOrigin => url.sameOrigin
    /\ url.host \notin EndpointPolicy.blocked \ EndpointPolicy.allowHosts

\* An endpoint that was not refused is declared and passed both policies.
LEMMA ResolvedIsSafe ==
    ASSUME NEW url \in Targets, url # Refused
    PROVE  url \in Urls \ {NoUrl} /\ Safe(url)
<1>1. PICK mode \in Modes, card \in Cards :
         url = IF mode \in Topic.deliveryModes THEN ResolveDelivery(mode, card) ELSE Refused
  BY DEF Targets
<1>2. url = ResolveDelivery(mode, card)
  BY <1>1
<1> DEFINE u == IF mode = "webhook" THEN card.receiveUrl ELSE A2AEndpointOf(card)
<1>3. url = u /\ ParseSubscriberCard(card) /\ u # NoUrl /\ CheckEndpoint(u)
  BY <1>2 DEF ResolveDelivery
<1>4. u \in Urls
  BY EndpointType, ControlAssumption
<1>5. Trusted(u)
  BY <1>3 DEF ParseSubscriberCard
<1> HIDE DEF u
<1>6. /\ CardPolicy.requireHttps => u.https
      /\ CardPolicy.requireSameOrigin => u.sameOrigin
  BY <1>3, <1>5 DEF Trusted
<1>7. Safe(u)
  BY <1>3, <1>6, Zenon DEF CheckEndpoint, Safe
<1> QED
  BY <1>3, <1>4, <1>7

-----------------------------------------------------------------------------
(* The order of the listing *)

\* The members of S below x in the relation R.
Below(S, R, x) == {y \in S : <<y, x>> \in R}

\* In a finite set with a strict total order, the number of members below one is
\* a different one for each, every number occurs, and it grows with the order.
LEMMA Ranks ==
    ASSUME NEW S, IsFiniteSet(S), NEW R,
           \A x \in S : <<x, x>> \notin R,
           \A x, y, z \in S : <<x, y>> \in R /\ <<y, z>> \in R => <<x, z>> \in R,
           \A x, y \in S : x # y => <<x, y>> \in R \/ <<y, x>> \in R
    PROVE  /\ \A x \in S : Cardinality(Below(S, R, x)) \in Nat
           /\ \A n \in 1 .. Cardinality(S) :
                 \E x \in S : Cardinality(Below(S, R, x)) = n - 1
           /\ \A x, z \in S : <<x, z>> \in R =>
                 Cardinality(Below(S, R, x)) < Cardinality(Below(S, R, z))
<1> DEFINE below(x) == Below(S, R, x)
           N == Cardinality(S)
<1>1. N \in Nat /\ IsFiniteSet(1 .. N) /\ Cardinality(1 .. N) = N
  <2>1. N \in Nat
    BY FS_CardinalityType
  <2> QED
    BY <2>1, FS_Interval
<1>2. ASSUME NEW x \in S
      PROVE  /\ IsFiniteSet(below(x))
             /\ Cardinality(below(x)) \in Nat
             /\ Cardinality(below(x)) + 1 \in 1 .. N
  <2>1. below(x) \in SUBSET S /\ below(x) # S
    BY DEF Below
  <2>2. /\ IsFiniteSet(below(x))
        /\ Cardinality(below(x)) <= N
        /\ Cardinality(below(x)) # N
    BY <2>1, FS_Subset
  <2>3. Cardinality(below(x)) \in Nat
    BY <2>2, FS_CardinalityType
  <2> QED
    BY <1>1, <2>2, <2>3
<1>3. ASSUME NEW x \in S, NEW z \in S, <<x, z>> \in R
      PROVE  Cardinality(below(x)) < Cardinality(below(z))
  <2>1. below(x) \in SUBSET below(z) /\ below(x) # below(z)
    BY <1>3 DEF Below
  <2> HIDE DEF below
  <2>2. /\ Cardinality(below(x)) <= Cardinality(below(z))
        /\ Cardinality(below(x)) # Cardinality(below(z))
    BY <1>2, <2>1, FS_Subset
  <2> QED
    BY <1>2, <2>2
<1> DEFINE f == [x \in S |-> Cardinality(below(x)) + 1]
<1> HIDE DEF below, N
<1>4. f \in Injection(S, 1 .. N)
  <2>1. f \in [S -> 1 .. N]
    BY <1>2
  <2>2. ASSUME NEW x \in S, NEW z \in S, f[x] = f[z] PROVE x = z
    <3>1. Cardinality(below(x)) = Cardinality(below(z))
      BY <1>2, <2>2
    <3>2. <<x, z>> \notin R /\ <<z, x>> \notin R
      BY <1>2, <1>3, <3>1
    <3> QED
      BY <3>2
  <2> QED
    BY <2>1, <2>2 DEF Injection, IsInjective
<1>5. f \in Surjection(S, 1 .. N)
  <2>1. Cardinality(S) = Cardinality(1 .. N)
    BY <1>1 DEF N
  <2> HIDE DEF f
  <2> QED
    BY <1>1, <1>4, <2>1, FS_Injection
<1>6. ASSUME NEW n \in 1 .. N PROVE \E x \in S : Cardinality(below(x)) = n - 1
  <2>1. PICK x \in S : f[x] = n
    BY <1>5 DEF Surjection
  <2> QED
    BY <1>2, <2>1
<1> QED
  BY <1>2, <1>3, <1>6 DEF below, N

-----------------------------------------------------------------------------
(* Types, and what a request has made sure of by the step it has reached *)

RequestInv ==
    /\ added \in Seq(Requests)
    /\ IsFiniteSet(AddedSet)
    /\ created \in [Requests -> Times \cup {NoTime}]
    /\ \A r \in Requests : pc[r] = "called" => now[r] \in Times
    /\ target \in [Requests -> Urls]
    /\ \A r \in Requests : pc[r] \in {"stamped", "added"} =>
          created[r] \in Times /\ target[r] \in Urls \ {NoUrl} /\ Safe(target[r])

LEMMA AddedInRequests ==
    ASSUME RequestInv
    PROVE  /\ AddedSet \subseteq Requests
           /\ \A i \in DOMAIN added : added[i] \in AddedSet /\ i \in Nat
           /\ \A r \in AddedSet : \E i \in DOMAIN added : added[i] = r
BY DEF RequestInv, AddedSet

\* list_all puts any two stored subscriptions in one order.
LEMMA BeforeIsAnOrder ==
    ASSUME TypeOK, RequestInv
    PROVE  /\ \A q \in AddedSet : ~ Before(q, q)
           /\ \A p, q, r \in AddedSet : Before(p, q) /\ Before(q, r) => Before(p, r)
           /\ \A q, r \in AddedSet : q # r => Before(q, r) \/ Before(r, q)
<1>1. AddedSet \subseteq Nat /\ \A r \in AddedSet : created[r] \in Nat
  <2>1. AddedSet \subseteq Requests /\ Requests \subseteq Nat
    BY AddedInRequests, ControlAssumption
  <2>2. \A r \in AddedSet : created[r] \in Times
    BY DEF TypeOK
  <2>3. Times \subseteq Nat
    BY DEF Times
  <2> QED
    BY <2>1, <2>2, <2>3
<1>2. CASE byCreation
  <2>1. \A q, r : Before(q, r) <=> (created[q] < created[r] \/ (created[q] = created[r] /\ q < r))
    BY <1>2 DEF Before
  <2> QED
    BY <1>1, <2>1
<1>3. CASE ~ byCreation
  <2>1. \A q, r : Before(q, r) <=>
            (\E i, j \in DOMAIN added : i < j /\ added[i] = q /\ added[j] = r)
    BY <1>3 DEF Before
  <2>2. \A i, j \in DOMAIN added : added[i] = added[j] => i = j
    BY DEF TypeOK
  <2>3. \A r \in AddedSet : \E i \in DOMAIN added : added[i] = r
    BY AddedInRequests
  <2>4. \A i \in DOMAIN added : i \in Nat
    BY AddedInRequests
  <2>5. \A q \in AddedSet : ~ Before(q, q)
    BY <2>1, <2>2, <2>4
  <2>6. ASSUME NEW p \in AddedSet, NEW q \in AddedSet, NEW r \in AddedSet,
               Before(p, q), Before(q, r)
        PROVE  Before(p, r)
    <3>1. PICK i \in DOMAIN added, j \in DOMAIN added : i < j /\ added[i] = p /\ added[j] = q
      BY <2>1, <2>6
    <3>2. PICK k \in DOMAIN added, l \in DOMAIN added : k < l /\ added[k] = q /\ added[l] = r
      BY <2>1, <2>6
    <3>3. i < l
      BY <2>2, <2>4, <3>1, <3>2
    <3> QED
      BY <2>1, <3>1, <3>2, <3>3
  <2>7. ASSUME NEW q \in AddedSet, NEW r \in AddedSet, q # r
        PROVE  Before(q, r) \/ Before(r, q)
    <3>1. PICK i \in DOMAIN added : added[i] = q
      BY <2>3
    <3>2. PICK j \in DOMAIN added : added[j] = r
      BY <2>3
    <3>3. i < j \/ j < i
      BY <2>4, <2>7, <3>1, <3>2
    <3> QED
      BY <2>1, <3>1, <3>2, <3>3
  <2> QED
    BY <2>5, <2>6, <2>7
<1> QED
  BY <1>2, <1>3

\* list_all lists the stored subscriptions, each once, in that order.
LEMMA ListedInOrder ==
    ASSUME TypeOK, RequestInv
    PROVE  /\ Listed \in Seq(Present)
           /\ Listed \in Seq(Requests)
           /\ DOMAIN Listed = 1 .. Len(Listed)
           /\ \A i \in 1 .. Len(Listed) : Listed[i] \in Present
           /\ \A i, j \in 1 .. Len(Listed) : i < j <=> Before(Listed[i], Listed[j])
           /\ \A r \in Present : \E i \in 1 .. Len(Listed) : Listed[i] = r
<1> DEFINE R == {e \in Present \X Present : Before(e[1], e[2])}
           rank(r) == Cardinality({q \in Present : Before(q, r)})
           N == Cardinality(Present)
<1>1. Present \subseteq AddedSet /\ IsFiniteSet(Present) /\ N \in Nat
  BY FS_Subset, FS_CardinalityType DEF Present, RequestInv
<1>2. \A q, r \in Present : <<q, r>> \in R <=> Before(q, r)
  OBVIOUS
<1>3. /\ \A x \in Present : <<x, x>> \notin R
      /\ \A x, y, z \in Present : <<x, y>> \in R /\ <<y, z>> \in R => <<x, z>> \in R
      /\ \A x, y \in Present : x # y => <<x, y>> \in R \/ <<y, x>> \in R
  <2> HIDE DEF R
  <2> QED
    BY <1>1, <1>2, BeforeIsAnOrder
<1>4. \A r \in Present : rank(r) = Cardinality(Below(Present, R, r))
  BY <1>2 DEF Below
<1>5. /\ \A r \in Present : Cardinality(Below(Present, R, r)) \in Nat
      /\ \A n \in 1 .. N : \E r \in Present : Cardinality(Below(Present, R, r)) = n - 1
      /\ \A q, r \in Present : <<q, r>> \in R =>
             Cardinality(Below(Present, R, q)) < Cardinality(Below(Present, R, r))
  <2> HIDE DEF R
  <2> QED
    BY <1>1, <1>3, Ranks
<1>6. /\ \A r \in Present : rank(r) \in Nat
      /\ \A n \in 1 .. N : \E r \in Present : rank(r) = n - 1
      /\ \A q, r \in Present : Before(q, r) => rank(q) < rank(r)
  <2> HIDE DEF R, rank
  <2> QED
    BY <1>2, <1>4, <1>5
<1> HIDE DEF rank, N
<1>7. Listed = [n \in 1 .. N |-> CHOOSE r \in Present : rank(r) = n - 1]
  BY DEF Listed, rank, N
<1>8. ASSUME NEW n \in 1 .. N PROVE Listed[n] \in Present /\ rank(Listed[n]) = n - 1
  BY <1>6, <1>7
<1>9. \A q, r \in Present : q # r => Before(q, r) \/ Before(r, q)
  BY <1>1, BeforeIsAnOrder
<1>10. Len(Listed) = N /\ DOMAIN Listed = 1 .. N /\ Listed \in Seq(Present)
  <2>1. Listed \in [1 .. N -> Present]
    BY <1>7, <1>8
  <2> QED
    BY <1>1, <2>1
<1>11. Listed \in Seq(Requests)
  <2>1. Listed \in [1 .. N -> Requests]
    BY <1>1, <1>7, <1>8, AddedInRequests
  <2> QED
    BY <1>1, <2>1
<1>12. ASSUME NEW i \in 1 .. N, NEW j \in 1 .. N
       PROVE  i < j <=> Before(Listed[i], Listed[j])
  <2>1. /\ Listed[i] \in Present /\ rank(Listed[i]) = i - 1
        /\ Listed[j] \in Present /\ rank(Listed[j]) = j - 1
    BY <1>8
  <2>2. Before(Listed[i], Listed[j]) => i < j
    BY <1>1, <1>6, <2>1
  <2>3. ASSUME i < j PROVE Before(Listed[i], Listed[j])
    <3>1. Listed[i] # Listed[j]
      BY <1>1, <2>1, <2>3
    <3>2. ~ Before(Listed[j], Listed[i])
      BY <1>1, <1>6, <2>1, <2>3
    <3> QED
      BY <1>9, <2>1, <3>1, <3>2
  <2> QED
    BY <2>2, <2>3
<1>13. ASSUME NEW r \in Present PROVE \E i \in 1 .. N : Listed[i] = r
  <2>1. rank(r) + 1 \in 1 .. N
    <3>1. {q \in Present : Before(q, r)} \in SUBSET Present
      OBVIOUS
    <3>2. r \notin {q \in Present : Before(q, r)}
      BY <1>1, BeforeIsAnOrder
    <3>3. rank(r) <= N /\ rank(r) # N
      BY <1>1, <3>1, <3>2, FS_Subset DEF rank, N
    <3> QED
      BY <1>1, <1>6, <3>3
  <2>2. Listed[rank(r) + 1] \in Present /\ rank(Listed[rank(r) + 1]) = rank(r)
    BY <1>6, <1>8, <2>1
  <2>3. Listed[rank(r) + 1] = r
    BY <1>6, <1>9, <2>2
  <2> QED
    BY <2>1, <2>3
<1> QED
  BY <1>8, <1>10, <1>11, <1>12, <1>13

LEMMA InitRequests == Init => TypeOK /\ RequestInv
<1> SUFFICES ASSUME Init PROVE TypeOK /\ RequestInv
  OBVIOUS
<1>1. AddedSet = {} /\ Present = {} /\ DOMAIN added = {} /\ added \in Seq(Requests)
  BY DEF Init, AddedSet, Present
<1>2. IsFiniteSet(AddedSet)
  BY <1>1, FS_EmptySet
<1>3. BucketTypeOK
  BY BucketAssumption DEF Init, BucketInit, BucketTypeOK, Times
<1>4. TypeOK
  BY <1>1, <1>3 DEF Init, TypeOK
<1>5. NoUrl \in Urls
  BY DEF NoUrl, Urls, Url, Hosts
<1>6. RequestInv
  BY <1>1, <1>2, <1>5 DEF Init, RequestInv
<1> QED
  BY <1>4, <1>6

\* What the store holds is unchanged by a step that leaves the store alone.
LEMMA StoreStays ==
    ASSUME UNCHANGED <<added, status>>
    PROVE  AddedSet' = AddedSet /\ Present' = Present
BY DEF AddedSet, Present

LEMMA SameStore ==
    ASSUME UNCHANGED added
    PROVE  AddedSet' = AddedSet
BY DEF AddedSet

\* Expiring a lapsed lease keeps what is stored.
LEMMA SweptStore ==
    ASSUME TypeOK, RequestInv, UNCHANGED added, status' = Swept
    PROVE  /\ Present' = Present
           /\ status' \in [Requests -> {"none", "active", "expired", "deleted"}]
           /\ \A r \in Requests : (status'[r] = "none") = (status[r] = "none")
<1>1. \A r \in Requests : (status'[r] = "deleted") = (status[r] = "deleted")
  BY DEF TypeOK, Swept
<1>2. /\ status' \in [Requests -> {"none", "active", "expired", "deleted"}]
      /\ \A r \in Requests : (status'[r] = "none") = (status[r] = "none")
  BY DEF TypeOK, Swept
<1>3. AddedSet' = AddedSet /\ AddedSet \subseteq Requests
  BY SameStore, AddedInRequests
<1>4. Present' = Present
  BY <1>1, <1>3 DEF Present
<1> QED
  BY <1>2, <1>4

LEMMA RefuseStep ==
    ASSUME TypeOK, RequestInv, NEW r \in Requests, Refuse(r), pc[r] # "added",
           BucketTypeOK', \A q \in Requests \ {r} : now'[q] = now[q],
           UNCHANGED walkVars
    PROVE  TypeOK' /\ RequestInv'
<1>1. AddedSet' = AddedSet /\ Present' = Present
  BY StoreStays DEF Refuse, storeVars
<1>2. TypeOK'
  BY <1>1 DEF Refuse, Goto, TypeOK, storeVars, walkVars
<1>3. RequestInv'
  BY <1>1 DEF Refuse, Goto, TypeOK, RequestInv, storeVars
<1> QED
  BY <1>2, <1>3

LEMMA CallStep ==
    ASSUME TypeOK, RequestInv, NEW r \in Requests, Call(r)
    PROVE  TypeOK' /\ RequestInv'
<1>0. pc[r] = "idle" /\ UNCHANGED walkVars
  BY DEF Call, Runs
<1>1. CASE Refuse(r) /\ UNCHANGED bucketVars
  BY <1>0, <1>1, RefuseStep DEF bucketVars, TypeOK, BucketTypeOK
<1>2. CASE /\ Goto(r, "called", deploy # "threads")
           /\ ReadClock(r)
           /\ UNCHANGED <<target, created, storeVars>>
  <2>1. AddedSet' = AddedSet /\ Present' = Present
    BY <1>2, StoreStays DEF storeVars
  <2>2. BucketTypeOK' /\ now' = [now EXCEPT ![r] = clock] /\ clock \in Times /\ r \in Callers
    BY <1>2 DEF ReadClock, TypeOK, BucketTypeOK, Requests
  <2>3. TypeOK'
    BY <1>0, <1>2, <2>1, <2>2 DEF Goto, TypeOK, storeVars, walkVars
  <2>4. RequestInv'
    BY <1>0, <1>2, <2>1, <2>2 DEF Goto, TypeOK, BucketTypeOK, RequestInv, storeVars, Requests
  <2> QED
    BY <2>3, <2>4
<1> QED
  BY <1>1, <1>2 DEF Call

LEMMA LimiterTypes ==
    ASSUME TypeOK, RequestInv, NEW r \in Requests, pc[r] = "called",
           TakeToken(r, Owner[r]) \/ RateLimited(r, Owner[r])
    PROVE  /\ BucketTypeOK'
           /\ \A q \in Requests \ {r} : now'[q] = now[q]
<1>1. /\ r \in Callers /\ Owner[r] \in Keys /\ now[r] \in Times
      /\ BucketTypeOK
  BY ControlAssumption DEF Requests, RequestInv, TypeOK
<1>2. Refilled(Owner[r], now[r]) \in Int /\ Cost \in Int
  BY <1>1, RefillBound, BucketAssumption
<1>3. CASE TakeToken(r, Owner[r])
  BY <1>1, <1>2, <1>3 DEF TakeToken, BucketTypeOK, Requests
<1>4. CASE RateLimited(r, Owner[r])
  BY <1>1, <1>2, <1>4 DEF RateLimited, BucketTypeOK, Requests
<1> QED
  BY <1>3, <1>4

LEMMA LimitStep ==
    ASSUME TypeOK, RequestInv, NEW r \in Requests, Limit(r)
    PROVE  TypeOK' /\ RequestInv'
<1>0. pc[r] = "called" /\ UNCHANGED walkVars
  BY DEF Limit, Runs
<1>1. /\ BucketTypeOK'
      /\ \A q \in Requests \ {r} : now'[q] = now[q]
  BY <1>0, LimiterTypes DEF Limit
<1>2. CASE Refuse(r)
  BY <1>0, <1>1, <1>2, RefuseStep
<1>3. CASE /\ Goto(r, "limited", deploy = "inline")
           /\ UNCHANGED <<target, created, storeVars>>
  <2>1. AddedSet' = AddedSet /\ Present' = Present
    BY <1>3, StoreStays DEF storeVars
  <2>2. TypeOK'
    BY <1>0, <1>1, <1>3, <2>1 DEF Goto, TypeOK, storeVars, walkVars
  <2>3. RequestInv'
    BY <1>0, <1>1, <1>3, <2>1 DEF Goto, TypeOK, RequestInv, storeVars
  <2> QED
    BY <2>2, <2>3
<1> QED
  BY <1>2, <1>3 DEF Limit

LEMMA CountStep ==
    ASSUME TypeOK, RequestInv, NEW r \in Requests, CountQuota(r)
    PROVE  TypeOK' /\ RequestInv'
<1>1. AddedSet' = AddedSet
  BY SameStore DEF CountQuota
<1>2. /\ Present' = Present
      /\ status' \in [Requests -> {"none", "active", "expired", "deleted"}]
      /\ \A q \in Requests : (status'[q] = "none") = (status[q] = "none")
  BY SweptStore DEF CountQuota
<1>3. pc[r] = "limited" /\ UNCHANGED <<bucketVars, walkVars, added, due, target, created>>
  BY DEF CountQuota, Runs
<1>4. BucketTypeOK'
  BY <1>3 DEF TypeOK, BucketTypeOK, bucketVars
<1>5. \E to \in {"counted", "refused"} : \E keep \in BOOLEAN : Goto(r, to, keep)
  BY DEF CountQuota
<1>6. TypeOK'
  BY <1>1, <1>2, <1>3, <1>4, <1>5 DEF TypeOK, Goto, walkVars
<1>7. RequestInv'
  BY <1>1, <1>3, <1>5 DEF TypeOK, RequestInv, Goto, bucketVars
<1> QED
  BY <1>6, <1>7

LEMMA StampStep ==
    ASSUME TypeOK, RequestInv, NEW r \in Requests, Stamp(r)
    PROVE  TypeOK' /\ RequestInv'
<1>0. pc[r] = "counted" /\ UNCHANGED walkVars /\ UNCHANGED bucketVars
  BY DEF Stamp, Runs
<1>1. BucketTypeOK' /\ \A q \in Requests \ {r} : now'[q] = now[q]
  BY <1>0 DEF TypeOK, BucketTypeOK, bucketVars
<1>2. CASE Refuse(r)
  BY <1>0, <1>1, <1>2, RefuseStep
<1>3. ASSUME NEW url \in Targets, url # Refused,
             target' = [target EXCEPT ![r] = url],
             created' = [created EXCEPT ![r] = clock],
             Goto(r, "stamped", deploy = "inline"),
             UNCHANGED storeVars
      PROVE  TypeOK' /\ RequestInv'
  <2>1. AddedSet' = AddedSet /\ Present' = Present /\ r \notin AddedSet
    BY <1>0, <1>3, StoreStays DEF storeVars, TypeOK
  <2>2. url \in Urls \ {NoUrl} /\ Safe(url) /\ clock \in Times
    BY <1>3, ResolvedIsSafe DEF TypeOK, BucketTypeOK
  <2>3. /\ created' \in [Requests -> Times \cup {NoTime}]
        /\ target' \in [Requests -> Urls]
        /\ target'[r] = url /\ created'[r] = clock
        /\ \A q \in Requests \ {r} : target'[q] = target[q] /\ created'[q] = created[q]
    BY <1>3, <2>2 DEF RequestInv
  <2>4. TypeOK'
    <3>1. \A q \in AddedSet' : created'[q] \in Times /\ target'[q] \in Urls \ {NoUrl}
      BY <2>1, <2>3, AddedInRequests DEF TypeOK
    <3> QED
      BY <1>0, <1>1, <1>3, <2>1, <3>1 DEF Goto, TypeOK, storeVars, walkVars
  <2>5. RequestInv'
    <3>1. \A q \in Requests : pc'[q] \in {"stamped", "added"} =>
             /\ created'[q] \in Times
             /\ target'[q] \in Urls \ {NoUrl}
             /\ Safe(target'[q])
      BY <1>0, <1>3, <2>2, <2>3 DEF Goto, TypeOK, RequestInv
    <3> QED
      BY <1>0, <1>1, <1>3, <2>1, <2>3, <3>1
      DEF Goto, TypeOK, RequestInv, storeVars, bucketVars, Safe
  <2> QED
    BY <2>4, <2>5
<1> QED
  BY <1>2, <1>3 DEF Stamp

\* subs.add puts a subscription behind the stored ones.
LEMMA AddedGrows ==
    ASSUME TypeOK, RequestInv, NEW r \in Requests, Add(r)
    PROVE  /\ r \notin AddedSet
           /\ AddedSet' = AddedSet \cup {r}
           /\ Present' = Present \cup {r}
           /\ added' \in Seq(Requests)
           /\ DOMAIN added' = DOMAIN added \cup {Len(added) + 1}
           /\ Len(added) + 1 \notin DOMAIN added
           /\ \A i \in DOMAIN added : added'[i] = added[i]
           /\ added'[Len(added) + 1] = r
<1>1. added \in Seq(Requests) /\ added' = Append(added, r)
  BY DEF RequestInv, Add
<1>2. /\ added' \in Seq(Requests)
      /\ DOMAIN added' = DOMAIN added \cup {Len(added) + 1}
      /\ Len(added) + 1 \notin DOMAIN added
      /\ \A i \in DOMAIN added : added'[i] = added[i]
      /\ added'[Len(added) + 1] = r
  BY <1>1
<1>3. r \notin AddedSet
  BY DEF Add, Runs, TypeOK
<1>4. AddedSet' = AddedSet \cup {r}
  <2> HIDE <1>1
  <2> QED
    BY <1>2 DEF AddedSet
<1>5. AddedSet \subseteq Requests
  BY AddedInRequests
<1>6. \A q \in Requests : status'[q] = IF q = r THEN "active" ELSE status[q]
  BY DEF Add, TypeOK
<1>7. Present' = Present \cup {r}
  BY <1>3, <1>4, <1>5, <1>6 DEF Present
<1> QED
  BY <1>2, <1>3, <1>4, <1>7

LEMMA AddStep ==
    ASSUME TypeOK, RequestInv, NEW r \in Requests, Add(r)
    PROVE  TypeOK' /\ RequestInv'
<1>1. /\ r \notin AddedSet
      /\ AddedSet' = AddedSet \cup {r}
      /\ Present' = Present \cup {r}
      /\ added' \in Seq(Requests)
      /\ DOMAIN added' = DOMAIN added \cup {Len(added) + 1}
      /\ Len(added) + 1 \notin DOMAIN added
      /\ \A i \in DOMAIN added : added'[i] = added[i] /\ added[i] \in AddedSet
      /\ added'[Len(added) + 1] = r
  BY AddedGrows, AddedInRequests
<1>2. pc[r] = "stamped" /\ UNCHANGED <<walkVars, bucketVars, target, created, due>>
  BY DEF Add, Runs
<1>3. BucketTypeOK'
  BY <1>2 DEF TypeOK, BucketTypeOK, bucketVars
<1>4. IsFiniteSet(AddedSet')
  BY <1>1, FS_AddElement DEF RequestInv
<1>5. created[r] \in Times /\ target[r] \in Urls \ {NoUrl} /\ Safe(target[r])
  BY <1>2 DEF RequestInv
<1>6. /\ status' \in [Requests -> {"none", "active", "expired", "deleted"}]
      /\ \A q \in Requests : status'[q] = IF q = r THEN "active" ELSE status[q]
      /\ pc' \in [Requests -> {"idle", "called", "limited", "counted", "stamped",
                               "added", "refused"}]
      /\ \A q \in Requests : pc'[q] = IF q = r THEN "added" ELSE pc[q]
      /\ turn' = Free
  BY DEF Add, Goto, TypeOK
<1>7. \A i, j \in DOMAIN added' : added'[i] = added'[j] => i = j
  BY <1>1 DEF TypeOK
<1>8. TypeOK'
  BY <1>1, <1>2, <1>3, <1>5, <1>6, <1>7 DEF TypeOK, walkVars
<1>9. RequestInv'
  BY <1>1, <1>2, <1>4, <1>5, <1>6 DEF RequestInv, bucketVars
<1> QED
  BY <1>8, <1>9

LEMMA StatusStep ==
    ASSUME TypeOK, RequestInv, NEW r \in Requests, Lapse(r) \/ Renew(r) \/ Delete(r)
    PROVE  TypeOK' /\ RequestInv'
<1>1. /\ UNCHANGED <<bucketVars, requestVars, walkVars, added>>
      /\ AddedSet' = AddedSet
  BY SameStore DEF Lapse, Renew, Delete
<1>2. BucketTypeOK'
  BY <1>1 DEF TypeOK, BucketTypeOK, bucketVars
<1>3. RequestInv'
  BY <1>1 DEF RequestInv, requestVars, bucketVars
<1>4. AddedSet \subseteq Requests
  BY AddedInRequests
<1>5. /\ status' \in [Requests -> {"none", "active", "expired", "deleted"}]
      /\ \A q \in Requests : (status'[q] = "none") = (q \notin AddedSet')
      /\ due' \subseteq Present'
  <2>1. CASE Lapse(r)
    <3>1. r \in Present /\ Present' = Present
      BY <2>1, <1>1, StoreStays DEF Lapse, TypeOK, Present
    <3> QED
      BY <1>1, <2>1, <3>1 DEF Lapse, TypeOK
  <2>2. CASE Renew(r)
    BY <1>1, <1>4, <2>2 DEF Renew, TypeOK, Present
  <2>3. CASE Delete(r)
    BY <1>1, <1>4, <2>3 DEF Delete, TypeOK, Present
  <2> QED
    BY <2>1, <2>2, <2>3
<1>6. TypeOK'
  BY <1>1, <1>2, <1>5 DEF TypeOK, requestVars, walkVars
<1> QED
  BY <1>3, <1>6

LEMMA ListStep ==
    ASSUME TypeOK, RequestInv, ListPage
    PROVE  TypeOK' /\ RequestInv'
<1>1. AddedSet' = AddedSet
  BY SameStore DEF ListPage
<1>2. /\ Present' = Present
      /\ status' \in [Requests -> {"none", "active", "expired", "deleted"}]
      /\ \A q \in Requests : (status'[q] = "none") = (status[q] = "none")
  BY SweptStore DEF ListPage
<1>3. UNCHANGED <<bucketVars, requestVars, added, due>>
  BY DEF ListPage
<1>4. BucketTypeOK'
  BY <1>3 DEF TypeOK, BucketTypeOK, bucketVars
<1>5. token' \in Requests \cup {NoToken}
  <2> DEFINE start == StartAfter(Listed, token)
  <2>1. /\ Listed \in Seq(Requests)
        /\ DOMAIN Listed = 1 .. Len(Listed)
    BY ListedInOrder
  <2>2. start \in Nat
    BY <2>1 DEF StartAfter
  <2>3. token' = NextToken(Listed, start, ListSize)
    BY DEF ListPage
  <2> HIDE DEF start
  <2> QED
    BY <2>1, <2>2, <2>3, ControlAssumption DEF NextToken
<1>6. TypeOK'
  BY <1>1, <1>2, <1>3, <1>4, <1>5 DEF TypeOK, requestVars
<1>7. RequestInv'
  BY <1>1, <1>3 DEF RequestInv, requestVars, bucketVars
<1> QED
  BY <1>6, <1>7

LEMMA TickStep ==
    ASSUME TypeOK, RequestInv, PassTime
    PROVE  TypeOK' /\ RequestInv'
<1>1. UNCHANGED <<requestVars, storeVars, walkVars, now>> /\ BucketTypeOK'
  BY BucketAssumption DEF PassTime, Tick, TypeOK, BucketTypeOK, Times
<1>2. AddedSet' = AddedSet /\ Present' = Present
  BY <1>1, StoreStays DEF storeVars
<1>3. TypeOK'
  BY <1>1, <1>2 DEF TypeOK, requestVars, storeVars, walkVars
<1>4. RequestInv'
  BY <1>1, <1>2 DEF RequestInv, requestVars, storeVars
<1> QED
  BY <1>3, <1>4

LEMMA NextRequests == TypeOK /\ RequestInv /\ [Next]_vars => TypeOK' /\ RequestInv'
<1> SUFFICES ASSUME TypeOK, RequestInv, [Next]_vars PROVE TypeOK' /\ RequestInv'
  OBVIOUS
<1>1. ASSUME NEW r \in Requests, Subscribe(r) PROVE TypeOK' /\ RequestInv'
  BY <1>1, CallStep, LimitStep, CountStep, StampStep, AddStep DEF Subscribe
<1>2. ASSUME NEW r \in Requests, Lapse(r) \/ Renew(r) \/ Delete(r)
      PROVE  TypeOK' /\ RequestInv'
  BY <1>2, StatusStep
<1>3. CASE ListPage
  BY <1>3, ListStep
<1>4. CASE PassTime
  BY <1>4, TickStep
<1>5. CASE UNCHANGED vars
  <2>1. UNCHANGED <<requestVars, storeVars, walkVars, bucketVars>>
    BY <1>5 DEF vars
  <2>2. AddedSet' = AddedSet /\ Present' = Present /\ BucketTypeOK'
    BY <2>1, StoreStays DEF storeVars, bucketVars, TypeOK, BucketTypeOK
  <2> QED
    BY <2>1, <2>2 DEF TypeOK, RequestInv, requestVars, storeVars, walkVars, bucketVars
<1> QED
  BY <1>1, <1>2, <1>3, <1>4, <1>5 DEF Next

\* Types, and that a stored subscription has a creation time and a declared
\* endpoint, that it is stored once, and that the listing finds a token's item.
THEOREM RequestTypes == Spec => []TypeOK
<1>1. Spec => [](TypeOK /\ RequestInv)
  BY InitRequests, NextRequests, PTL DEF Spec
<1> QED
  BY <1>1, PTL

\* Every endpoint that publisher.subscribe stored passed the policy of the card
\* resolver and that of the publisher, for any cards and any policies.
THEOREM EndpointsAreTrusted == Spec => []TargetsAreTrusted
<1>1. Spec => [](TypeOK /\ RequestInv)
  BY InitRequests, NextRequests, PTL DEF Spec
<1>2. TypeOK /\ RequestInv => TargetsAreTrusted
  <2> SUFFICES ASSUME TypeOK, RequestInv, NEW r \in AddedSet
               PROVE  Safe(target[r])
    BY DEF TargetsAreTrusted, Safe
  <2> QED
    BY AddedInRequests DEF TypeOK, RequestInv
<1> QED
  BY <1>1, <1>2, PTL

-----------------------------------------------------------------------------
(* The rate *)

LEMMA NextLedger ==
    ASSUME TypeOK, RequestInv, Ledger, RateHeld, [Next]_vars
    PROVE  Ledger' /\ RateHeld'
<1>1. ASSUME NEW r \in Requests, Limit(r) PROVE Ledger' /\ RateHeld'
  <2>1. /\ r \in Callers /\ Owner[r] \in Keys /\ now[r] \in Times
        /\ BucketTypeOK
    BY <1>1, ControlAssumption DEF Requests, RequestInv, TypeOK, Limit, Runs
  <2>2. TakeToken(r, Owner[r]) \/ RateLimited(r, Owner[r])
    BY <1>1 DEF Limit
  <2> QED
    BY <2>1, <2>2, LedgerTake, LedgerReject
<1>2. ASSUME NEW r \in Requests,
             \/ Call(r) \/ CountQuota(r) \/ Stamp(r) \/ Add(r)
             \/ Lapse(r) \/ Renew(r) \/ Delete(r)
      PROVE  UNCHANGED <<bucket, taken>>
  BY <1>2 DEF Call, ReadClock, CountQuota, Stamp, Add, Lapse, Renew, Delete, bucketVars
<1>3. CASE ListPage \/ PassTime \/ UNCHANGED vars
  <2>1. UNCHANGED <<bucket, taken>>
    BY <1>3 DEF ListPage, PassTime, Tick, vars, bucketVars
  <2> QED
    BY <2>1, LedgerStays
<1> QED
  BY <1>1, <1>2, <1>3, LedgerStays DEF Next, Subscribe

\* A principal gets no more calls through than its burst and the refill of the
\* interval, for every interval of time, although check() reads the clock ahead
\* of the lock and the bucket's time may run backwards.
THEOREM RateIsHeld == Spec => []RateHeld
<1> DEFINE Inv == TypeOK /\ RequestInv /\ Ledger /\ RateHeld
<1>1. Init => Inv
  BY InitRequests, LedgerInit DEF Init
<1>2. Inv /\ [Next]_vars => Inv'
  BY NextRequests, NextLedger
<1>3. Spec => []Inv
  BY <1>1, <1>2, PTL DEF Spec
<1> QED
  BY <1>3, PTL

-----------------------------------------------------------------------------
(* The quota *)

Owned(o) == {r \in Present : Owner[r] = o}

\* Inline, a request that has begun and not yet stored has the turn.  Everywhere,
\* there is still room for one that was counted, unless it was overtaken.
RoomInv ==
    /\ deploy = "inline" =>
          \A r \in Requests :
              pc[r] \in {"called", "limited", "counted", "stamped"} => turn = r
    /\ \A r \in Requests \ overtaken :
          pc[r] \in {"counted", "stamped"} => BelowQuota(Owner[r])

LEMMA OwnedIsFinite ==
    ASSUME RequestInv, NEW o
    PROVE  IsFiniteSet(Owned(o)) /\ Cardinality(Owned(o)) \in Nat
<1>1. Owned(o) \in SUBSET AddedSet
  BY DEF Owned, Present
<1> QED
  BY <1>1, FS_Subset, FS_CardinalityType DEF RequestInv

\* Whatever shrinks or keeps the store keeps the quota and the room below it.
LEMMA FewerOwned ==
    ASSUME RequestInv, Present' \subseteq Present, NEW o
    PROVE  Cardinality(Owned(o))' <= Cardinality(Owned(o))
<1>1. Owned(o)' \in SUBSET Owned(o)
  BY DEF Owned
<1> QED
  BY <1>1, OwnedIsFinite, FS_Subset

LEMMA NextQuota ==
    ASSUME TypeOK, RequestInv, RequestInv', RoomInv, QuotaHeld, [Next]_vars
    PROVE  RoomInv' /\ QuotaHeld'
<1>0. deploy' = deploy /\ overtaken' = overtaken \cup (IF UNCHANGED vars THEN {} ELSE Passed)
  BY DEF Next, Subscribe, Call, Limit, CountQuota, Stamp, Add, Lapse, Renew, Delete,
         ListPage, PassTime, vars
<1>1. /\ deploy = "inline" => \A r \in Requests :
            pc[r] \in {"called", "limited", "counted", "stamped"} => turn = r
      /\ deploy = "inline" => overtaken = {}
      /\ \A r \in Requests \ overtaken : pc[r] \in {"counted", "stamped"} =>
            Cardinality(Owned(Owner[r])) < Quota
      /\ \A o \in Keys : Cardinality(Owned(o) \ overtaken) <= Quota
  BY DEF RoomInv, QuotaHeld, BelowQuota, Owned
<1> DEFINE Kept ==
        /\ deploy = "inline" => \A r \in Requests :
              pc'[r] \in {"called", "limited", "counted", "stamped"} => turn' = r
        /\ deploy = "inline" => overtaken' = {}
        /\ \A r \in Requests \ overtaken' : pc'[r] \in {"counted", "stamped"} =>
              Cardinality(Owned(Owner[r]))' < Quota
        /\ \A o \in Keys : Cardinality(Owned(o) \ overtaken)' <= Quota
<1>2. SUFFICES Kept
  BY <1>0 DEF RoomInv, QuotaHeld, BelowQuota, Owned
<1>3. \A o : /\ Cardinality(Owned(o)) \in Nat /\ Cardinality(Owned(o))' \in Nat
             /\ IsFiniteSet(Owned(o)) /\ IsFiniteSet(Owned(o)')
  <2>1. ASSUME NEW o PROVE Cardinality(Owned(o))' \in Nat /\ IsFiniteSet(Owned(o)')
    <3>1. Owned(o)' \in SUBSET AddedSet' /\ IsFiniteSet(AddedSet')
      BY DEF Owned, Present, RequestInv
    <3> QED
      BY <3>1, FS_Subset, FS_CardinalityType
  <2> QED
    BY <2>1, OwnedIsFinite
<1>4. Quota \in Nat /\ Owner \in [Requests -> Keys] /\ Free \notin Requests
  BY ControlAssumption DEF Free
\* A smaller set that is not overtaken fits as well.
<1>a. ASSUME NEW S, NEW T, IsFiniteSet(T), S \subseteq T
      PROVE  IsFiniteSet(S) /\ Cardinality(S) \in Nat /\ Cardinality(T) \in Nat
             /\ Cardinality(S) <= Cardinality(T)
  BY <1>a, FS_Subset, FS_CardinalityType
<1>5. ASSUME Present' \subseteq Present, added' = added
      PROVE  /\ overtaken' = overtaken
             /\ \A o \in Keys : Cardinality(Owned(o) \ overtaken)' <= Quota
             /\ \A r \in Requests \ overtaken : pc[r] \in {"counted", "stamped"} =>
                   Cardinality(Owned(Owner[r]))' < Quota
  <2>1. \A o : Cardinality(Owned(o))' <= Cardinality(Owned(o))
    BY <1>5, FewerOwned
  <2>2. AddedSet' = AddedSet
    BY <1>5 DEF AddedSet
  <2>3. overtaken' = overtaken
    BY <1>0, <2>2 DEF Passed
  <2>4. ASSUME NEW o \in Keys PROVE Cardinality(Owned(o) \ overtaken)' <= Quota
    <3>1. (Owned(o) \ overtaken)' \subseteq Owned(o) \ overtaken
      BY <1>5, <2>3 DEF Owned
    <3>2. IsFiniteSet(Owned(o) \ overtaken)
      BY <1>3, <1>a
    <3>3. /\ Cardinality((Owned(o) \ overtaken)') \in Nat
          /\ Cardinality(Owned(o) \ overtaken) \in Nat
          /\ Cardinality((Owned(o) \ overtaken)') <= Cardinality(Owned(o) \ overtaken)
      BY <1>a, <3>1, <3>2
    <3> QED
      BY <1>1, <1>4, <3>3
  <2> QED
    BY <1>1, <1>3, <1>4, <2>1, <2>3, <2>4
<1>6. ASSUME NEW r \in Requests, NEW to, NEW keep, Goto(r, to, keep),
             deploy = "inline" /\ to \in {"called", "limited", "counted", "stamped"} => keep,
             turn \in {Free, r},
             r \notin overtaken /\ to \in {"counted", "stamped"} =>
                 Cardinality(Owned(Owner[r])) < Quota,
             Present' \subseteq Present, added' = added
      PROVE  Kept
  <2>1. \A q \in Requests : pc'[q] = IF q = r THEN to ELSE pc[q]
    BY <1>6 DEF Goto, TypeOK
  <2>2. deploy = "inline" => \A q \in Requests \ {r} :
            pc[q] \notin {"called", "limited", "counted", "stamped"}
    BY <1>1, <1>4, <1>6
  <2>3. deploy = "inline" /\ to \in {"called", "limited", "counted", "stamped"} =>
            turn' = r
    BY <1>6 DEF Goto
  <2>4. Cardinality(Owned(Owner[r]))' <= Cardinality(Owned(Owner[r]))
    BY <1>6, FewerOwned
  <2>5. \A q \in Requests \ overtaken' : pc'[q] \in {"counted", "stamped"} =>
            Cardinality(Owned(Owner[q]))' < Quota
    BY <1>3, <1>4, <1>5, <1>6, <2>1, <2>4
  <2> QED
    BY <1>1, <1>5, <1>6, <2>1, <2>2, <2>3, <2>5
<1>7. ASSUME UNCHANGED requestVars, Present' \subseteq Present, added' = added
      PROVE  Kept
  BY <1>1, <1>5, <1>7 DEF requestVars
<1>8. ASSUME NEW r \in Requests, Refuse(r), turn \in {Free, r}
      PROVE  Kept
  <2>1. Present' = Present /\ added' = added /\ Goto(r, "refused", FALSE)
    BY <1>8, StoreStays DEF Refuse, storeVars
  <2> QED
    BY <1>6, <1>8, <2>1
<1> HIDE DEF Kept
<1>9. ASSUME NEW r \in Requests, Call(r) PROVE Kept
  <2>1. CASE Refuse(r)
    BY <1>8, <1>9, <2>1 DEF Call, Runs
  <2>2. CASE Goto(r, "called", deploy # "threads") /\ UNCHANGED storeVars
    <3>1. Present' = Present /\ added' = added
      BY <2>2, StoreStays DEF storeVars
    <3> QED
      BY <1>6, <1>9, <2>2, <3>1 DEF Call, Runs
  <2> QED
    BY <1>9, <2>1, <2>2 DEF Call
<1>10. ASSUME NEW r \in Requests, Limit(r) PROVE Kept
  <2>1. CASE Refuse(r)
    BY <1>8, <1>10, <2>1 DEF Limit, Runs
  <2>2. CASE Goto(r, "limited", deploy = "inline") /\ UNCHANGED storeVars
    <3>1. Present' = Present /\ added' = added
      BY <2>2, StoreStays DEF storeVars
    <3> QED
      BY <1>6, <1>10, <2>2, <3>1 DEF Limit, Runs
  <2> QED
    BY <1>10, <2>1, <2>2 DEF Limit
<1>11. ASSUME NEW r \in Requests, CountQuota(r) PROVE Kept
  <2>1. Present' = Present /\ added' = added
    BY <1>11, SweptStore DEF CountQuota
  <2>2. BelowQuota(Owner[r]) => Cardinality(Owned(Owner[r])) < Quota
    BY DEF BelowQuota, Owned
  <2>3. CASE BelowQuota(Owner[r])
    <3>1. Goto(r, "counted", deploy = "inline")
      BY <1>11, <2>3 DEF CountQuota, Goto
    <3> QED
      BY <1>6, <1>11, <2>1, <2>2, <2>3, <3>1 DEF CountQuota, Runs
  <2>4. CASE ~ BelowQuota(Owner[r])
    <3>1. Goto(r, "refused", FALSE)
      BY <1>11, <2>4 DEF CountQuota, Goto
    <3> QED
      BY <1>6, <1>11, <2>1, <3>1 DEF CountQuota, Runs
  <2> QED
    BY <2>3, <2>4
<1>12. ASSUME NEW r \in Requests, Stamp(r) PROVE Kept
  <2>1. CASE Refuse(r)
    BY <1>8, <1>12, <2>1 DEF Stamp, Runs
  <2>2. CASE Goto(r, "stamped", deploy = "inline") /\ UNCHANGED storeVars
    <3>1. Present' = Present /\ added' = added
      BY <2>2, StoreStays DEF storeVars
    <3>2. r \notin overtaken => Cardinality(Owned(Owner[r])) < Quota
      BY <1>1, <1>12 DEF Stamp, Runs
    <3> QED
      BY <1>6, <1>12, <2>2, <3>1, <3>2 DEF Stamp, Runs
  <2> QED
    BY <1>12, <2>1, <2>2 DEF Stamp
<1>13. ASSUME NEW r \in Requests, Add(r) PROVE Kept
  <2>1. /\ turn \in {Free, r} /\ pc[r] = "stamped" /\ turn' = Free
        /\ \A q \in Requests : pc'[q] = IF q = r THEN "added" ELSE pc[q]
    BY <1>13 DEF Add, Runs, Goto, TypeOK
  <2>2. r \notin Present /\ Present' = Present \cup {r} /\ AddedSet' \ AddedSet = {r}
    BY <1>13, AddedGrows DEF Present
  <2>3. overtaken' = overtaken \cup
            {q \in Requests : /\ pc[q] \in {"counted", "stamped"}
                              /\ r # q /\ Owner[r] = Owner[q]}
    BY <1>0, <2>2 DEF Passed, vars, AddedSet, storeVars
  <2>4. deploy = "inline" =>
            /\ overtaken' = {}
            /\ \A q \in Requests :
                  pc'[q] \notin {"called", "limited", "counted", "stamped"}
    BY <1>1, <1>4, <2>1, <2>3
  <2>5. ASSUME NEW o, Owner[r] # o PROVE Owned(o)' = Owned(o)
    BY <2>2, <2>5 DEF Owned
  <2>6. \A q \in Requests \ overtaken' : pc'[q] \in {"counted", "stamped"} =>
            Cardinality(Owned(Owner[q]))' < Quota
    BY <1>1, <2>1, <2>3, <2>5
  <2>7. ASSUME NEW o \in Keys PROVE Cardinality(Owned(o) \ overtaken)' <= Quota
    <3>1. CASE Owner[r] # o \/ r \in overtaken
      <4>1. (Owned(o) \ overtaken)' \subseteq Owned(o) \ overtaken
        BY <2>2, <2>3, <3>1 DEF Owned
      <4>2. IsFiniteSet(Owned(o) \ overtaken)
        BY <1>3, <1>a
      <4>3. /\ Cardinality((Owned(o) \ overtaken)') \in Nat
            /\ Cardinality(Owned(o) \ overtaken) \in Nat
            /\ Cardinality((Owned(o) \ overtaken)') <= Cardinality(Owned(o) \ overtaken)
        BY <1>a, <4>1, <4>2
      <4> QED
        BY <1>1, <1>4, <4>3
    <3>2. CASE Owner[r] = o /\ r \notin overtaken
      <4>1. Owned(o)' = Owned(o) \cup {r}
        BY <2>2, <3>2 DEF Owned
      <4>2. \/ Cardinality(Owned(o) \cup {r}) = Cardinality(Owned(o))
            \/ Cardinality(Owned(o) \cup {r}) = Cardinality(Owned(o)) + 1
        BY OwnedIsFinite, FS_AddElement
      <4>3. Cardinality(Owned(o)) < Quota
        BY <1>1, <2>1, <3>2
      <4>4. \/ Cardinality(Owned(o))' = Cardinality(Owned(o))
            \/ Cardinality(Owned(o))' = Cardinality(Owned(o)) + 1
        BY <4>1, <4>2
      <4>5. Cardinality((Owned(o) \ overtaken)') <= Cardinality(Owned(o)')
            /\ Cardinality((Owned(o) \ overtaken)') \in Nat
        <5>1. (Owned(o) \ overtaken)' \subseteq Owned(o)'
          OBVIOUS
        <5> QED
          BY <1>3, <1>a, <5>1
      <4> QED
        BY <1>3, <1>4, <4>3, <4>4, <4>5
    <3> QED
      BY <3>1, <3>2
  <2> QED
    BY <2>4, <2>6, <2>7 DEF Kept
<1>14. ASSUME NEW r \in Requests, Lapse(r) \/ Renew(r) \/ Delete(r) PROVE Kept
  <2>1. /\ UNCHANGED requestVars /\ added' = added
        /\ AddedSet' = AddedSet /\ AddedSet \subseteq Requests
    BY <1>14, SameStore, AddedInRequests DEF Lapse, Renew, Delete
  <2>2. \A q \in Requests : status[q] = "deleted" => status'[q] = "deleted"
    BY <1>14 DEF Lapse, Renew, Delete, TypeOK, Present
  <2>3. Present' \subseteq Present
    BY <2>1, <2>2 DEF Present
  <2> QED
    BY <1>7, <2>1, <2>3
<1>15. CASE ListPage
  <2>1. Present' = Present /\ added' = added /\ UNCHANGED requestVars
    BY <1>15, SweptStore DEF ListPage
  <2> QED
    BY <1>7, <2>1
<1>16. CASE PassTime \/ UNCHANGED vars
  <2>1. Present' = Present /\ added' = added /\ UNCHANGED requestVars
    BY <1>16, StoreStays DEF PassTime, vars, storeVars
  <2> QED
    BY <1>7, <2>1
<1> QED
  BY <1>9, <1>10, <1>11, <1>12, <1>13, <1>14, <1>15, <1>16 DEF Next, Subscribe

\* max_subscriptions_per_subscriber is exceeded only by requests that another one
\* of the same subscriber overtook between the count and subs.add, for every
\* deployment, number of requests and quota; inline there are none.
THEOREM QuotaIsHeld == Spec => []QuotaHeld
<1> DEFINE Inv == TypeOK /\ RequestInv /\ RoomInv /\ QuotaHeld
<1>1. Init => Inv
  <2> SUFFICES ASSUME Init PROVE RoomInv /\ QuotaHeld
    BY InitRequests
  <2>1. RoomInv
    BY DEF Init, RoomInv
  <2>2. Present = {}
    BY DEF Init, Present, AddedSet
  <2>3. QuotaHeld
    <3> SUFFICES ASSUME NEW o \in Keys
                 PROVE  Cardinality({r \in Present : Owner[r] = o} \ overtaken) <= Quota
      BY DEF QuotaHeld, Init
    <3>1. {r \in Present : Owner[r] = o} \ overtaken = {}
      BY <2>2
    <3>2. Cardinality({r \in Present : Owner[r] = o} \ overtaken) = 0
      BY <3>1, FS_EmptySet
    <3> QED
      BY <3>2, ControlAssumption
  <2> QED
    BY <2>1, <2>3
<1>2. Inv /\ [Next]_vars => Inv'
  BY NextRequests, NextQuota
<1>3. Spec => []Inv
  BY <1>1, <1>2, PTL DEF Spec
<1> QED
  BY <1>3, PTL

-----------------------------------------------------------------------------
(* The walk through the pages *)

Seen == {shown[i] : i \in DOMAIN shown}

UpTo(q, r) == q = r \/ Before(q, r)

\* What was shown is different items, all of them up to the token; and what is
\* stored up to the token was shown, unless it was put in behind the walk's back.
WalkInv ==
    /\ shown \in Seq(Requests)
    /\ Seen \subseteq AddedSet
    /\ walk \in {"off", "open", "done"}
    /\ walk = "open" => token \in AddedSet
    /\ walk # "open" => token = NoToken
    /\ walk = "off" => shown = <<>>
    /\ since \subseteq AddedSet
    /\ \A i, j \in DOMAIN shown : shown[i] = shown[j] => i = j
    /\ walk = "open" =>
          /\ \A q \in Seen : UpTo(q, token)
          /\ \A q \in Present : UpTo(q, token) /\ (q \in since \/ ~byCreation) => q \in Seen

\* A stored subscription keeps its place in the listing.
LEMMA PlacesStay ==
    ASSUME TypeOK, RequestInv, [Next]_vars
    PROVE  /\ byCreation' = byCreation
           /\ AddedSet \subseteq AddedSet'
           /\ \A q, r \in AddedSet : Before(q, r)' <=> Before(q, r)
<1>1. byCreation' = byCreation
  BY DEF Next, Subscribe, Call, Limit, CountQuota, Stamp, Add, Lapse, Renew, Delete,
         ListPage, PassTime, vars
<1>2. \A r \in AddedSet : created'[r] = created[r]
  <2>1. \A r \in Requests : Stamp(r) => r \notin AddedSet
    BY DEF Stamp, Runs, TypeOK
  <2>2. ASSUME NEW r \in Requests, Stamp(r), NEW q \in AddedSet PROVE created'[q] = created[q]
    <3>1. q # r /\ q \in Requests
      BY <2>1, <2>2, AddedInRequests
    <3>2. created' = created \/ created' = [created EXCEPT ![r] = clock]
      BY <2>2 DEF Stamp, Refuse
    <3> QED
      BY <3>1, <3>2 DEF RequestInv
  <2>3. (\E r \in Requests : Stamp(r)) \/ created' = created
    BY DEF Next, Subscribe, Call, Limit, CountQuota, Add, Lapse, Renew, Delete,
           ListPage, PassTime, vars, Refuse, requestVars
  <2> QED
    BY <2>2, <2>3
<1>3. (\E r \in Requests : Add(r)) \/ added' = added
  BY DEF Next, Subscribe, Call, Limit, CountQuota, Stamp, Lapse, Renew, Delete,
         ListPage, PassTime, vars, Refuse, storeVars
<1>4. AddedSet \subseteq AddedSet'
  BY <1>3, AddedGrows, SameStore
<1>5. \A i \in DOMAIN added : i \in DOMAIN added' /\ added'[i] = added[i]
  BY <1>3, AddedGrows
<1>6. \A i \in DOMAIN added' : i \in DOMAIN added \/ added'[i] \notin AddedSet
  BY <1>3, AddedGrows
<1>7. ASSUME NEW q \in AddedSet, NEW r \in AddedSet PROVE Before(q, r)' <=> Before(q, r)
  <2>1. CASE byCreation
    BY <1>1, <1>2, <2>1 DEF Before
  <2>2. CASE ~ byCreation
    BY <1>1, <1>5, <1>6, <2>2 DEF Before
  <2> QED
    BY <2>1, <2>2
<1> QED
  BY <1>1, <1>4, <1>7

\* Sequences: a stretch of one, and one put behind another.
LEMMA StretchOf ==
    ASSUME NEW S, NEW s \in Seq(S), NEW from \in 0 .. Len(s), NEW to \in 0 .. Len(s), from <= to
    PROVE  /\ SubSeq(s, from + 1, to) \in Seq(S)
           /\ Len(SubSeq(s, from + 1, to)) = to - from
           /\ \A i \in 1 .. to - from : SubSeq(s, from + 1, to)[i] = s[from + i]
OBVIOUS

LEMMA Continued ==
    ASSUME NEW S, NEW s \in Seq(S), NEW t \in Seq(S), NEW n \in Nat, Len(t) = n
    PROVE  /\ s \o t \in Seq(S)
           /\ Len(s \o t) = Len(s) + n
           /\ \A i \in 1 .. Len(s) : (s \o t)[i] = s[i]
           /\ \A i \in 1 .. n : (s \o t)[Len(s) + i] = t[i]
OBVIOUS

\* A page is the stretch of the listing behind the token, and the next token is
\* its last item unless the listing ends there.
LEMMA PageIsAStretch ==
    ASSUME TypeOK, RequestInv, WalkInv, ListPage
    PROVE  \E start, stop \in 0 .. Len(Listed) :
              /\ start <= stop
              /\ shown' \in Seq(Requests)
              /\ Len(shown') = Len(shown) + (stop - start)
              /\ \A i \in 1 .. Len(shown) : shown'[i] = shown[i]
              /\ \A i \in 1 .. stop - start : shown'[Len(shown) + i] = Listed[start + i]
              /\ walk = "off" => start = 0
              /\ walk = "open" /\ token \in Present => start > 0 /\ Listed[start] = token
              /\ walk = "open" /\ token \notin Present => start = Len(Listed)
              /\ token' = NoToken => stop = Len(Listed)
              /\ token' # NoToken => start < stop /\ token' = Listed[stop]
<1> DEFINE L == Listed
           start == StartAfter(L, token)
           stop == IF start + ListSize < Len(L) THEN start + ListSize ELSE Len(L)
<1>1. /\ L \in Seq(Requests)
      /\ DOMAIN L = 1 .. Len(L)
      /\ Len(L) \in Nat
      /\ \A i \in 1 .. Len(L) : L[i] \in Present
      /\ \A r \in Present : \E i \in 1 .. Len(L) : L[i] = r
  BY ListedInOrder
<1>2. ListSize \in Nat \ {0} /\ NoToken \notin Requests
  BY ControlAssumption DEF NoToken
<1>3. \A r \in AddedSet : r # NoToken
  BY <1>2, AddedInRequests
<1> HIDE DEF L
<1>4. /\ start \in 0 .. Len(L)
      /\ walk = "off" => start = 0
      /\ walk = "open" /\ token \in Present => start > 0 /\ L[start] = token
      /\ walk = "open" /\ token \notin Present => start = Len(L)
  <2>1. CASE token = NoToken
    BY <1>1, <1>3, <2>1 DEF StartAfter, WalkInv
  <2>2. CASE token # NoToken /\ \E i \in DOMAIN L : L[i] = token
    <3>1. start \in DOMAIN L /\ L[start] = token
      BY <2>2 DEF StartAfter
    <3>2. walk # "off" /\ token \in Present
      BY <1>1, <2>2 DEF WalkInv
    <3> HIDE DEF start
    <3> QED
      BY <1>1, <3>1, <3>2
  <2>3. CASE token # NoToken /\ ~ \E i \in DOMAIN L : L[i] = token
    <3>1. start = Len(L)
      BY <2>3 DEF StartAfter
    <3>2. walk # "off" /\ token \notin Present
      BY <1>1, <2>3 DEF WalkInv
    <3> HIDE DEF start
    <3> QED
      BY <1>1, <3>1, <3>2
  <2> QED
    BY <2>1, <2>2, <2>3
<1>5. shown' = shown \o SubSeq(L, start + 1, stop)
  BY DEF ListPage, PageAfter, L
<1>6. token' = IF start + ListSize < Len(L) THEN L[start + ListSize] ELSE NoToken
  BY DEF ListPage, NextToken, L
<1> HIDE DEF start
<1> DEFINE N == Len(L)
<1>7. N \in Nat /\ start \in 0 .. N /\ ListSize \in Nat \ {0} /\ L \in Seq(Requests)
  BY <1>1, <1>2, <1>4
<1> HIDE DEF N
<1>8. stop = IF start + ListSize < N THEN start + ListSize ELSE N
  BY DEF N
<1>9. token' = IF start + ListSize < N THEN L[start + ListSize] ELSE NoToken
  BY <1>6 DEF N
<1> HIDE DEF stop
<1>10. stop \in 0 .. N /\ start <= stop
  BY <1>7, <1>8
<1>11. /\ token' = NoToken => stop = N
       /\ token' # NoToken => start < stop /\ token' = L[stop]
  <2>1. CASE start + ListSize < N
    <3>1. stop = start + ListSize /\ start < stop /\ stop \in 1 .. N /\ token' = L[stop]
      BY <1>7, <1>8, <1>9, <2>1
    <3>2. L[stop] \in Requests
      BY <1>7, <3>1 DEF N
    <3> QED
      BY <1>2, <3>1, <3>2
  <2>2. CASE ~ (start + ListSize < N)
    BY <1>8, <1>9, <2>2
  <2> QED
    BY <2>1, <2>2
<1> DEFINE page == SubSeq(L, start + 1, stop)
<1>12. /\ page \in Seq(Requests)
       /\ Len(page) = stop - start
       /\ \A i \in 1 .. stop - start : page[i] = L[start + i]
  BY <1>7, <1>10, StretchOf DEF N
<1> HIDE DEF page
<1>13. /\ shown' \in Seq(Requests)
       /\ Len(shown') = Len(shown) + (stop - start)
       /\ \A i \in 1 .. Len(shown) : shown'[i] = shown[i]
       /\ \A i \in 1 .. stop - start : shown'[Len(shown) + i] = L[start + i]
  <2>1. shown \in Seq(Requests) /\ shown' = shown \o page
    BY <1>5 DEF WalkInv, page
  <2> QED
    BY <1>12, <2>1, Continued
<1> QED
  BY <1>4, <1>10, <1>11, <1>13 DEF L, N

\* The steps of others: nothing is undeleted, and what subs.add stores comes
\* behind a token of the insertion order.
LEMMA OthersKeepWalk ==
    ASSUME TypeOK, RequestInv, WalkInv, Next, ~ ListPage
    PROVE  WalkInv' /\ UNCHANGED walkVars
<1>1. UNCHANGED walkVars
  BY DEF Next, Subscribe, Call, Limit, CountQuota, Stamp, Add, Lapse, Renew, Delete,
         PassTime
<1>2. /\ byCreation' = byCreation
      /\ AddedSet \subseteq AddedSet'
      /\ \A q, r \in AddedSet : Before(q, r)' <=> Before(q, r)
  BY PlacesStay
<1>3. AddedSet \subseteq Requests
  BY AddedInRequests
<1>4. \A q \in Present' : q \in Present \/ (q \in Requests \ AddedSet /\ Add(q))
  <2>1. ASSUME NEW r \in Requests, Add(r)
        PROVE  \A q \in Present' : q \in Present \/ (q \in Requests \ AddedSet /\ Add(q))
    BY <2>1, AddedGrows
  <2>2. ASSUME NEW r \in Requests, Lapse(r) \/ Renew(r) \/ Delete(r)
        PROVE  Present' \subseteq Present
    <3>1. AddedSet' = AddedSet
      BY <2>2, SameStore DEF Lapse, Renew, Delete
    <3>2. \A q \in Requests : status[q] = "deleted" => status'[q] = "deleted"
      BY <2>2 DEF Lapse, Renew, Delete, TypeOK, Present
    <3> QED
      BY <1>3, <3>1, <3>2 DEF Present
  <2>3. ASSUME NEW r \in Requests, CountQuota(r) PROVE Present' = Present
    BY <2>3, SweptStore DEF CountQuota
  <2>4. ASSUME NEW r \in Requests, Call(r) \/ Limit(r) \/ Stamp(r) PROVE Present' = Present
    <3>1. UNCHANGED <<added, status>>
      BY <2>4 DEF Call, Limit, Stamp, Refuse, storeVars
    <3> QED
      BY <3>1, StoreStays
  <2>5. CASE PassTime
    BY <2>5, StoreStays DEF PassTime, storeVars
  <2> QED
    BY <2>1, <2>2, <2>3, <2>4, <2>5 DEF Next, Subscribe
<1>5. Seen' = Seen
  BY <1>1 DEF Seen, walkVars
<1>6. ASSUME walk = "open", NEW q \in Seen PROVE UpTo(q, token)'
  <2>1. q \in AddedSet /\ token \in AddedSet /\ UpTo(q, token)
    BY <1>6 DEF WalkInv
  <2> QED
    BY <1>1, <1>2, <2>1 DEF UpTo, walkVars
<1>7. ASSUME walk = "open", NEW q \in Present', UpTo(q, token)', q \in since \/ ~byCreation
      PROVE  q \in Seen
  <2>1. token \in AddedSet /\ token' = token /\ since \subseteq AddedSet
    BY <1>1, <1>7 DEF WalkInv, walkVars
  <2>2. CASE q \in Present
    <3>1. q \in AddedSet
      BY <2>2 DEF Present
    <3>2. UpTo(q, token)
      BY <1>2, <1>7, <2>1, <3>1 DEF UpTo
    <3> QED
      BY <1>7, <2>2, <3>2 DEF WalkInv
  <2>3. CASE q \in Requests \ AddedSet /\ Add(q)
    <3>1. ~ byCreation /\ ~ byCreation' /\ q # token
      BY <1>2, <1>7, <2>1, <2>3
    <3>2. Before(q, token)'
      BY <1>7, <2>1, <3>1 DEF UpTo
    <3>3. PICK i \in DOMAIN added', j \in DOMAIN added' :
             i < j /\ added'[i] = q /\ added'[j] = token
      BY <2>1, <3>1, <3>2 DEF Before
    <3>5. /\ DOMAIN added' = DOMAIN added \cup {Len(added) + 1}
          /\ \A k \in DOMAIN added : added'[k] = added[k] /\ added[k] \in AddedSet
          /\ added'[Len(added) + 1] = q
      BY <2>3, AddedGrows, AddedInRequests
    <3>6. i = Len(added) + 1 /\ j \in DOMAIN added
      BY <2>1, <2>3, <3>1, <3>3, <3>5
    <3>7. \A k \in DOMAIN added : k <= Len(added) /\ k \in Nat
      BY DEF RequestInv
    <3> QED
      BY <3>3, <3>6, <3>7 DEF RequestInv
  <2> QED
    BY <1>4, <1>7, <2>2, <2>3
<1>8. WalkInv'
  <2>1. /\ shown' \in Seq(Requests)
        /\ Seen' \subseteq AddedSet'
        /\ walk' \in {"off", "open", "done"}
        /\ walk' = "open" => token' \in AddedSet'
        /\ walk' # "open" => token' = NoToken
        /\ walk' = "off" => shown' = <<>>
        /\ since' \subseteq AddedSet'
        /\ \A i, j \in DOMAIN shown' : shown'[i] = shown'[j] => i = j
    BY <1>1, <1>2, <1>5 DEF WalkInv, walkVars
  <2>2. walk' = walk /\ since' = since
    BY <1>1 DEF walkVars
  <2> QED
    BY <1>2, <1>5, <1>6, <1>7, <2>1, <2>2 DEF WalkInv
<1> QED
  BY <1>1, <1>8

\* A page: it shows what comes behind the token and nothing that was shown, and a
\* walk that ends in its place has shown everything it owes.
LEMMA PageKeepsWalk ==
    ASSUME TypeOK, RequestInv, WalkInv, ListPage
    PROVE  /\ WalkInv'
           /\ walk' = "done" /\ ~ cut' =>
                 \A q \in Present : q \in since' \/ ~ byCreation => q \in Seen'
<1> PICK start \in 0 .. Len(Listed), stop \in 0 .. Len(Listed) :
              /\ start <= stop
              /\ shown' \in Seq(Requests)
              /\ Len(shown') = Len(shown) + (stop - start)
              /\ \A i \in 1 .. Len(shown) : shown'[i] = shown[i]
              /\ \A i \in 1 .. stop - start : shown'[Len(shown) + i] = Listed[start + i]
              /\ walk = "off" => start = 0
              /\ walk = "open" /\ token \in Present => start > 0 /\ Listed[start] = token
              /\ walk = "open" /\ token \notin Present => start = Len(Listed)
              /\ token' = NoToken => stop = Len(Listed)
              /\ token' # NoToken => start < stop /\ token' = Listed[stop]
  BY PageIsAStretch
<1> DEFINE L == Listed
           N == Len(Listed)
           S == Len(shown)
<1>1. /\ N \in Nat /\ start \in 0 .. N /\ stop \in 0 .. N /\ start <= stop
      /\ \A i \in 1 .. N : L[i] \in Present
      /\ \A i, j \in 1 .. N : i < j <=> Before(L[i], L[j])
      /\ \A r \in Present : \E i \in 1 .. N : L[i] = r
  <2>1. N \in Nat
    <3>1. Listed \in Seq(Requests)
      BY ListedInOrder
    <3> QED
      BY <3>1
  <2>2. /\ \A i \in 1 .. N : L[i] \in Present
        /\ \A i, j \in 1 .. N : i < j <=> Before(L[i], L[j])
        /\ \A r \in Present : \E i \in 1 .. N : L[i] = r
    BY ListedInOrder
  <2> QED
    BY <2>1, <2>2
<1>2. /\ S \in Nat /\ DOMAIN shown = 1 .. S
      /\ DOMAIN shown' = 1 .. S + (stop - start)
      /\ \A i \in 1 .. S : shown'[i] = shown[i]
      /\ \A i \in 1 .. stop - start : shown'[S + i] = L[start + i]
  BY DEF WalkInv
<1>3. Present \subseteq AddedSet /\ AddedSet' = AddedSet /\ Present' = Present
  BY SameStore, SweptStore DEF Present, ListPage
<1>4. /\ \A q \in AddedSet : ~ Before(q, q)
      /\ \A p, q, r \in AddedSet : Before(p, q) /\ Before(q, r) => Before(p, r)
  BY BeforeIsAnOrder
<1>5. /\ byCreation' = byCreation
      /\ \A q, r \in AddedSet : Before(q, r)' <=> Before(q, r)
  BY DEF ListPage, Before, requestVars
<1>6. /\ walk' = IF token' = NoToken THEN "done" ELSE "open"
      /\ walk \in {"off", "open"}
      /\ since' = IF walk = "off" THEN Present ELSE since
      /\ cut' = (token # NoToken /\ token \notin Present)
  BY DEF ListPage, WalkInv
<1>7. token' # NoToken => token' \in Present /\ token' = L[stop] /\ start < stop
  BY <1>1
<1>8. /\ walk = "off" => start = 0
      /\ walk = "open" /\ token \in Present => start > 0 /\ L[start] = token
      /\ walk = "open" /\ token \notin Present => start = N
      /\ token' = NoToken => stop = N
  OBVIOUS
<1> HIDE DEF L, N, S
\* The items of the page are behind all that was shown.
<1>9. ASSUME NEW i \in 1 .. S, NEW k \in start + 1 .. stop
      PROVE  shown[i] \in AddedSet /\ L[k] \in AddedSet /\ Before(shown[i], L[k])
  <2>1. shown[i] \in Seen /\ Seen \subseteq AddedSet /\ k \in 1 .. N /\ L[k] \in Present
    <3>1. shown[i] \in Seen /\ Seen \subseteq AddedSet
      BY <1>2 DEF Seen, WalkInv
    <3>2. k \in 1 .. N
      BY <1>1
    <3> QED
      BY <1>1, <3>1, <3>2
  <2>2. walk # "off"
    <3>1. walk = "off" => shown = <<>>
      BY DEF WalkInv
    <3> QED
      BY <1>2, <1>9, <3>1
  <2>3. walk = "open" /\ token \in Present /\ start \in 1 .. N /\ L[start] = token
    BY <1>1, <1>6, <1>8, <1>9, <2>2
  <2>4. UpTo(shown[i], token)
    BY <2>1, <2>3 DEF WalkInv
  <2>5. Before(token, L[k])
    BY <1>1, <1>9, <2>1, <2>3
  <2> QED
    BY <1>3, <1>4, <2>1, <2>3, <2>4, <2>5 DEF UpTo
\* An item that is shown now was shown before or is on the page.
<1>10. \A j \in DOMAIN shown' :
          \/ j \in 1 .. S /\ shown'[j] = shown[j]
          \/ \E k \in start + 1 .. stop : j = S + (k - start) /\ shown'[j] = L[k]
  <2> SUFFICES ASSUME NEW j \in DOMAIN shown', j \notin 1 .. S
               PROVE  \E k \in start + 1 .. stop : j = S + (k - start) /\ shown'[j] = L[k]
    BY <1>2
  <2>1. PICK i \in 1 .. stop - start : j = S + i
    <3>1. j - S \in 1 .. stop - start /\ j = S + (j - S)
      BY <1>1, <1>2
    <3> QED
      BY <3>1
  <2>2. shown'[S + i] = L[start + i]
    BY <1>2
  <2>3. start + i \in start + 1 .. stop /\ i = (start + i) - start
    BY <1>1
  <2> QED
    BY <2>1, <2>2, <2>3
<1>11. \A q \in Seen' : q \in Seen \/ \E k \in start + 1 .. stop : q = L[k]
  <2> SUFFICES ASSUME NEW q \in Seen' PROVE q \in Seen \/ \E k \in start + 1 .. stop : q = L[k]
    OBVIOUS
  <2>1. PICK j \in DOMAIN shown' : q = shown'[j]
    BY DEF Seen
  <2>2. CASE j \in 1 .. S /\ shown'[j] = shown[j]
    BY <1>2, <2>1, <2>2 DEF Seen
  <2> QED
    BY <1>10, <2>1, <2>2
<1>12. Seen \subseteq Seen' /\ \A k \in start + 1 .. stop : L[k] \in Seen'
  <2>1. Seen \subseteq Seen'
    <3>1. 1 .. S \subseteq DOMAIN shown'
      BY <1>1, <1>2
    <3> QED
      BY <1>2, <3>1 DEF Seen
  <2>2. ASSUME NEW k \in start + 1 .. stop PROVE L[k] \in Seen'
    <3>1. k - start \in 1 .. stop - start /\ start + (k - start) = k
          /\ S + (k - start) \in DOMAIN shown'
      BY <1>1, <1>2
    <3>2. shown'[S + (k - start)] = L[k]
      BY <1>2, <3>1
    <3> QED
      BY <3>1, <3>2 DEF Seen
  <2> QED
    BY <2>1, <2>2
<1>13. ASSUME NEW i \in DOMAIN shown', NEW j \in DOMAIN shown', shown'[i] = shown'[j]
       PROVE  i = j
  <2>1. ASSUME i \in 1 .. S, j \in 1 .. S PROVE i = j
    BY <1>2, <1>13, <2>1 DEF WalkInv
  <2>2. ASSUME NEW k \in start + 1 .. stop, NEW l \in start + 1 .. stop,
               i = S + (k - start), j = S + (l - start), L[k] = L[l]
        PROVE  i = j
    <3>1. k \in 1 .. N /\ l \in 1 .. N
      BY <1>1
    <3>2. ~ (k < l) /\ ~ (l < k)
      BY <1>1, <1>3, <1>4, <2>2, <3>1
    <3>3. k = l
      BY <3>1, <3>2
    <3> QED
      BY <2>2, <3>3
  <2>3. ASSUME NEW m \in 1 .. S, NEW k \in start + 1 .. stop PROVE shown[m] # L[k]
    BY <1>4, <1>9
  <2>4. CASE i \in 1 .. S /\ shown'[i] = shown[i]
    <3>1. j \in 1 .. S
      BY <1>10, <1>13, <2>3, <2>4
    <3> QED
      BY <2>1, <2>4, <3>1
  <2>5. ASSUME NEW k \in start + 1 .. stop, i = S + (k - start), shown'[i] = L[k]
        PROVE  i = j
    <3>1. CASE j \in 1 .. S /\ shown'[j] = shown[j]
      BY <1>13, <2>3, <2>5, <3>1
    <3>2. ASSUME NEW l \in start + 1 .. stop, j = S + (l - start), shown'[j] = L[l]
          PROVE  i = j
      BY <1>13, <2>2, <2>5, <3>2
    <3> QED
      BY <1>10, <3>1, <3>2
  <2> QED
    BY <1>10, <2>4, <2>5
<1>14. Seen \subseteq AddedSet /\ Seen' \subseteq AddedSet
  <2>1. Seen \subseteq AddedSet
    BY DEF WalkInv
  <2>2. \A k \in start + 1 .. stop : L[k] \in AddedSet
    BY <1>1, <1>3
  <2> QED
    BY <1>11, <2>1, <2>2
\* What is stored up to the page's end was shown.
<1>15. ASSUME NEW k \in 1 .. stop, walk = "open" => token \in Present,
              L[k] \in since' \/ ~ byCreation
       PROVE  L[k] \in Seen'
  <2>1. CASE k \in start + 1 .. stop
    BY <1>12, <2>1
  <2>2. CASE k \notin start + 1 .. stop
    <3>1. k \in 1 .. start /\ start \in 1 .. N /\ k \in 1 .. N
      BY <1>1, <2>2
    <3>2. walk = "open" /\ L[start] = token /\ since' = since
      BY <1>1, <1>6, <1>8, <1>15, <3>1
    <3>3. k = start \/ Before(L[k], L[start])
      BY <1>1, <3>1
    <3>4. L[k] \in Present /\ UpTo(L[k], token)
      BY <1>1, <3>1, <3>2, <3>3 DEF UpTo
    <3>5. L[k] \in Seen
      BY <1>15, <3>2, <3>4 DEF WalkInv
    <3> QED
      BY <1>12, <3>5
  <2> QED
    BY <2>1, <2>2
<1>16. ASSUME walk' = "done", ~ cut', NEW q \in Present, q \in since' \/ ~ byCreation
       PROVE  q \in Seen'
  <2>1. token' = NoToken /\ stop = N /\ (walk = "open" => token \in Present)
    <3>1. walk = "open" => token \in Requests /\ NoToken \notin Requests
      BY AddedInRequests, ControlAssumption DEF WalkInv, NoToken
    <3> QED
      BY <1>6, <1>8, <1>16, <3>1
  <2>2. PICK k \in 1 .. N : L[k] = q
    BY <1>1
  <2> QED
    BY <1>15, <1>16, <2>1, <2>2
<1>17. ASSUME walk' = "open"
       PROVE  /\ token' \in AddedSet'
              /\ \A q \in Seen' : UpTo(q, token)'
              /\ \A q \in Present' : UpTo(q, token)' /\ (q \in since' \/ ~byCreation')
                    => q \in Seen'
  <2>1. token' \in Present /\ token' = L[stop] /\ start < stop /\ stop \in 1 .. N
    BY <1>1, <1>6, <1>7, <1>17
  <2>2. walk = "open" => token \in Present
    BY <1>1, <1>8, <2>1
  <2>3. \A q \in AddedSet : UpTo(q, token)' <=> UpTo(q, L[stop])
    BY <1>3, <1>5, <2>1 DEF UpTo
  <2>4. ASSUME NEW q \in Seen' PROVE UpTo(q, L[stop])
    <3>1. CASE q \in Seen
      <4>1. PICK i \in 1 .. S : q = shown[i]
        BY <1>2, <3>1 DEF Seen
      <4>2. stop \in start + 1 .. stop
        BY <1>1, <2>1
      <4> QED
        BY <1>9, <4>1, <4>2 DEF UpTo
    <3>2. ASSUME NEW k \in start + 1 .. stop, q = L[k] PROVE UpTo(q, L[stop])
      <4>1. k \in 1 .. N /\ (k = stop \/ k < stop)
        BY <1>1
      <4> QED
        BY <1>1, <2>1, <3>2, <4>1 DEF UpTo
    <3> QED
      BY <1>11, <3>1, <3>2
  <2>5. ASSUME NEW q \in Present, UpTo(q, L[stop]), q \in since' \/ ~ byCreation
        PROVE  q \in Seen'
    <3>1. PICK k \in 1 .. N : L[k] = q
      BY <1>1
    <3>2. k <= stop
      <4>1. CASE Before(L[k], L[stop])
        BY <1>1, <2>1, <4>1
      <4>2. CASE L[k] = L[stop]
        <5>1. ~ (stop < k)
          BY <1>1, <1>3, <1>4, <2>1, <4>2
        <5> QED
          BY <1>1, <5>1
      <4> QED
        BY <2>5, <3>1, <4>1, <4>2 DEF UpTo
    <3>3. k \in 1 .. stop
      BY <1>1, <3>2
    <3> QED
      BY <1>15, <2>2, <2>5, <3>1, <3>3
  <2> QED
    BY <1>3, <1>5, <1>14, <2>1, <2>3, <2>4, <2>5
<1>18. WalkInv'
  <2>1. since' \subseteq AddedSet'
    BY <1>3, <1>6 DEF WalkInv
  <2>2. walk' # "open" => token' = NoToken
    BY <1>6
  <2>3. walk' \in {"open", "done"}
    BY <1>6
  <2> QED
    BY <1>3, <1>13, <1>14, <1>17, <2>1, <2>2, <2>3 DEF WalkInv
<1> QED
  BY <1>16, <1>18

\* A walk through ListSubscriptions, page by page, shows no subscription twice,
\* whatever is created, renewed and deleted between two pages; when it ends in its
\* place it has shown each one that was stored all along, with insertion order
\* also those made meanwhile.
THEOREM PagesShowAll == Spec => PagesAreFaithful
<1> DEFINE Inv == TypeOK /\ RequestInv /\ WalkInv
<1>1. Init => Inv
  <2> SUFFICES ASSUME Init PROVE WalkInv
    BY InitRequests
  <2>1. shown \in Seq(Requests) /\ DOMAIN shown = {} /\ Seen = {}
    BY DEF Init, Seen
  <2> QED
    BY <2>1 DEF Init, WalkInv
<1>2. Inv /\ [Next]_vars => Inv'
  <2> SUFFICES ASSUME Inv, [Next]_vars PROVE WalkInv'
    BY NextRequests
  <2>1. CASE ListPage
    BY <2>1, PageKeepsWalk
  <2>2. CASE Next /\ ~ ListPage
    BY <2>2, OthersKeepWalk
  <2>3. CASE UNCHANGED vars
    <3>1. /\ UNCHANGED <<walkVars, byCreation, created, added, status>>
      BY <2>3 DEF vars, requestVars, storeVars
    <3>2. AddedSet' = AddedSet /\ Present' = Present /\ Seen' = Seen
      BY <3>1, StoreStays DEF Seen, walkVars
    <3>3. \A q \in AddedSet : UpTo(q, token)' <=> UpTo(q, token)
      BY <3>1 DEF UpTo, Before, walkVars
    <3>4. Present \subseteq AddedSet
      BY DEF Present
    <3> QED
      BY <3>1, <3>2, <3>3, <3>4 DEF WalkInv, walkVars
  <2> QED
    BY <2>1, <2>2, <2>3
<1>3. Inv /\ Inv' /\ [Next]_vars =>
        [LET seen == {shown'[i] : i \in DOMAIN shown'}
         IN  /\ Cardinality(seen) = Len(shown')
             /\ walk # "done" /\ walk' = "done" /\ ~cut' =>
                   /\ since' \cap Present \subseteq seen
                   /\ ~byCreation => Present \subseteq seen]_vars
  <2> SUFFICES ASSUME Inv, Inv', Next
               PROVE  /\ Cardinality(Seen') = Len(shown')
                      /\ walk # "done" /\ walk' = "done" /\ ~cut' =>
                            /\ since' \cap Present \subseteq Seen'
                            /\ ~byCreation => Present \subseteq Seen'
    BY DEF Seen
  <2>1. Cardinality(Seen') = Len(shown')
    <3>1. /\ shown' \in Seq(Requests)
          /\ \A i, j \in DOMAIN shown' : shown'[i] = shown'[j] => i = j
      BY DEF WalkInv
    <3>2. DOMAIN shown' = 1 .. Len(shown') /\ Len(shown') \in Nat
      BY <3>1
    <3>3. shown' \in [1 .. Len(shown') -> Seen']
      BY <3>1, <3>2 DEF Seen
    <3>4. shown' \in Bijection(1 .. Len(shown'), Seen')
      BY <3>1, <3>2, <3>3 DEF Bijection, Injection, Surjection, IsInjective, Seen
    <3> QED
      BY <3>2, <3>4, FS_CountingElements DEF ExistsBijection
  <2>2. ASSUME walk # "done", walk' = "done", ~ cut'
        PROVE  /\ since' \cap Present \subseteq Seen'
               /\ ~byCreation => Present \subseteq Seen'
    <3>1. ListPage
      BY <2>2, OthersKeepWalk DEF walkVars
    <3> QED
      BY <2>2, <3>1, PageKeepsWalk
  <2> QED
    BY <2>1, <2>2
<1> QED
  BY <1>1, <1>2, <1>3, PTL DEF Spec, PagesAreFaithful
=============================================================================
