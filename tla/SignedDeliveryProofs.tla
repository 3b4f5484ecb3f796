------------------------ MODULE SignedDeliveryProofs ------------------------
(***************************************************************************)
(* Publisher and receiver agree about an event, for any number of events,   *)
(* requests under way, keys and attempts.                                   *)
(***************************************************************************)
EXTENDS SignedDelivery, TLAPS

\* A request names a key that was added, and so does a refusal: a key that is
\* added later has a kid nobody was refused for.
KidsOK ==
    /\ \A r \in Requests : request[r].at # "free" => request[r].kid \in 1 .. added
    /\ \A e \in Events : unverified[e] \subseteq 1 .. added

\* An event that is open and not in the hands of a request has an attempt left.
AttemptLeft ==
    \A e \in Events :
        outcome[e] = "open" /\ awaited[e] = NoRequest => attempt[e] < MaxAttempts

\* _seen is exactly what the application accepted, and an acknowledgement is
\* only given for what is in it, unless a webhook's status belied the result.
Excused(e) == e \in seen \/ (mode = "webhook" /\ e \in belied)
ExcusedNext(e) == e \in seen' \/ (mode' = "webhook" /\ e \in belied')
SeenIsHandled ==
    \A e \in Events :
        /\ handled[e] = IF e \in seen THEN 1 ELSE 0
        /\ outcome[e] = "delivered" => Excused(e)

DeliveryInv ==
    /\ TypeOK
    /\ KidsOK
    /\ AttemptLeft
    /\ SeenIsHandled
    /\ UnknownKeyWasRetired

-----------------------------------------------------------------------------
LEMMA InitInv == Init => DeliveryInv
BY SignedDeliveryAssumption
   DEF Init, DeliveryInv, TypeOK, KidsOK, AttemptLeft, SeenIsHandled,
       Excused, UnknownKeyWasRetired, Kids, Free, NoRequest

\* What a request under way holds.
LEMMA UnderWay ==
    ASSUME TypeOK, NEW r \in Requests, request[r].at # "free"
    PROVE  /\ request[r] \in InFlight
           /\ request[r].event \in Events
           /\ request[r].kid \in Kids
BY DEF TypeOK, InFlight, Free

\* Whatever a handler returns, the publisher hears one of three things, and an
\* acknowledgement of a refusal only from a webhook that belies itself.
LEMMA HeardFacts ==
    ASSUME TypeOK,
           NEW res \in DeliveryResults \cup
                   {Accepted(200), Accepted(204), Refused(401), Refused(403)}
    PROVE  /\ Heard(res) \in {"ack", "retry", "permanent"}
           /\ Heard(res) = "ack" /\ ~res.ack => mode = "webhook" /\ Contradicts(res)
<1> DEFINE Any == [ack : BOOLEAN, retry : BOOLEAN, status : Nat]
<1>1. res.ack \in BOOLEAN /\ res.retry \in BOOLEAN /\ res.status \in Nat
  <2>1. \A n \in Nat : Accepted(n) \in Any /\ Refused(n) \in Any
    BY DEF Accepted, Refused
  <2>2. DeliveryResults \subseteq Any
    BY SignedDeliveryAssumption DEF DeliveryResults
  <2>3. {Accepted(200), Accepted(204), Refused(401), Refused(403)} \subseteq Any
    BY <2>1
  <2>4. res \in Any
    BY <2>2, <2>3
  <2> QED
    BY <2>4
<1>2. ReceiveStatus(res) \in Nat
  BY <1>1 DEF ReceiveStatus, NoStatus
<1>3. \A n \in Nat : ResultFromStatus(n) \in {"ack", "retry", "permanent"}
  BY DEF ResultFromStatus
<1>4. ResultFromMessage(res) \in {"ack", "retry", "permanent"}
      /\ (ResultFromMessage(res) = "ack" => res.ack)
  BY <1>1 DEF ResultFromMessage
<1> QED
  BY <1>2, <1>3, <1>4 DEF Heard, Contradicts, TypeOK

\* The receiver's own refusals and the 500 of an exception are heard as such.
LEMMA RefusalsAreHeard ==
    /\ Heard(Refused(401)) = "permanent"
    /\ Heard(Refused(403)) = "permanent"
    /\ ServerError = "retry"
BY DEF Heard, Refused, ReceiveStatus, ResultFromStatus, ResultFromMessage,
       ServerError, NoStatus

\* The answer to a request keeps what the publisher knows about its events in
\* order, if an acknowledgement is for an event that is (by now) seen.
LEMMA AnswerInv ==
    ASSUME DeliveryInv, NEW r \in Requests, request[r].at # "free",
           NEW answer \in {"ack", "retry", "permanent"}, Answer(r, answer),
           UNCHANGED <<created, attempt>>,
           UNCHANGED mode,
           answer = "ack" => ExcusedNext(request[r].event),
           seen \subseteq seen', belied \subseteq belied'
    PROVE  /\ outcome' \in [Events -> {"open", "delivered", "dead"}]
           /\ awaited' \in [Events -> Requests \cup {NoRequest}]
           /\ request' \in [Requests -> InFlight \cup {Free}]
           /\ \A q \in Requests : request'[q].at # "free" => request'[q] = request[q]
           /\ \A e \in Events : awaited'[e] # NoRequest =>
                  request'[awaited'[e]].at # "free" /\ request'[awaited'[e]].event = e
           /\ AttemptLeft'
           /\ \A e \in Events : outcome'[e] = "delivered" => ExcusedNext(e)
<1> DEFINE x == request[r].event
<1>1. x \in Events
  BY UnderWay DEF DeliveryInv
<1>2. /\ request' = [request EXCEPT ![r] = Free]
      /\ request' \in [Requests -> InFlight \cup {Free}]
      /\ \A q \in Requests : request'[q].at # "free" => request'[q] = request[q] /\ q # r
  BY DEF Answer, DeliveryInv, TypeOK, Free
<1>3. CASE awaited[x] = r
  <2>1. Result(x, answer)
    BY <1>3 DEF Answer
  <2>2. /\ awaited' = [awaited EXCEPT ![x] = NoRequest]
        /\ outcome' \in [Events -> {"open", "delivered", "dead"}]
        /\ \A e \in Events \ {x} : outcome'[e] = outcome[e]
        /\ outcome'[x] = "delivered" => answer = "ack"
        /\ outcome'[x] = "open" => attempt[x] # MaxAttempts
    BY <1>1, <2>1 DEF Result, DeliveryInv, TypeOK
  <2>3. \A e \in Events : awaited'[e] # NoRequest =>
            e # x /\ awaited'[e] = awaited[e] /\ awaited[e] # r
    BY <1>1, <2>2 DEF DeliveryInv, TypeOK
  <2>4. \A e \in Events : awaited'[e] # NoRequest =>
            request'[awaited'[e]].at # "free" /\ request'[awaited'[e]].event = e
    BY <1>2, <2>3 DEF DeliveryInv, TypeOK
  <2>5. AttemptLeft'
    BY <1>1, <2>2, SignedDeliveryAssumption DEF AttemptLeft, DeliveryInv, TypeOK
  <2> QED
    BY <1>1, <1>2, <2>2, <2>4, <2>5 DEF DeliveryInv, TypeOK, SeenIsHandled, Excused, ExcusedNext
<1>4. CASE awaited[x] # r
  <2>1. UNCHANGED <<awaited, outcome>>
    BY <1>4 DEF Answer
  <2>2. \A e \in Events : awaited[e] # r
    BY <1>4, SignedDeliveryAssumption DEF DeliveryInv, TypeOK
  <2>3. \A e \in Events : awaited'[e] # NoRequest =>
            request'[awaited'[e]].at # "free" /\ request'[awaited'[e]].event = e
    BY <1>2, <2>1, <2>2 DEF DeliveryInv, TypeOK
  <2> QED
    BY <1>2, <2>1, <2>3 DEF DeliveryInv, TypeOK, SeenIsHandled, AttemptLeft, Excused,
           ExcusedNext
<1> QED
  BY <1>3, <1>4

-----------------------------------------------------------------------------
\* Rotation gives out fresh kids and never unpublishes what it adds.
LEMMA RotateInv == DeliveryInv /\ RotateKeys /\ mode' = mode => DeliveryInv'
<1> SUFFICES ASSUME DeliveryInv, RotateKeys, mode' = mode PROVE DeliveryInv'
  OBVIOUS
<1>1. UNCHANGED <<eventVars, request, rcvVars, clock>>
  BY DEF RotateKeys, AddKey, ActivateKey, RetireKey
<1>2. /\ AttemptLeft' /\ SeenIsHandled'
      /\ created' \in [Events -> -1 .. MaxTime]
      /\ attempt' \in [Events -> 0 .. MaxAttempts]
      /\ outcome' \in [Events -> {"open", "delivered", "dead"}]
      /\ awaited' \in [Events -> Requests \cup {NoRequest}]
      /\ request' \in [Requests -> InFlight \cup {Free}]
      /\ seen' \subseteq Events
      /\ handled' \in [Events -> Nat]
      /\ unverified' \in [Events -> SUBSET Kids]
      /\ belied' \subseteq Events
      /\ clock' \in 0 .. MaxTime
      /\ \A e \in Events : awaited'[e] # NoRequest =>
             request'[awaited'[e]].at # "free" /\ request'[awaited'[e]].event = e
  BY <1>1 DEF DeliveryInv, TypeOK, AttemptLeft, SeenIsHandled, Excused, eventVars, rcvVars
<1> DEFINE Fresh == /\ added' \in Kids /\ added <= added'
                    /\ published' \subseteq 1 .. added'
                    /\ active' \in published'
                    /\ cache' \subseteq 1 .. added'
                    /\ \A k \in published' : k \in published \/ k > added
<1>3. Fresh
  <2>1. ASSUME NEW activate \in BOOLEAN, AddKey(activate) PROVE Fresh
    <3>1. cache' = cache
      BY <1>1 DEF rcvVars
    <3>2. added \in Nat /\ added' = added + 1 /\ added' \in Kids
      BY <2>1, SignedDeliveryAssumption DEF AddKey, DeliveryInv, TypeOK, Kids
    <3>3. \A k \in 1 .. added : k \in 1 .. added'
      BY <3>2
    <3>4. added' \in 1 .. added' /\ added' > added
      BY <3>2
    <3>5. published' = published \cup {added'} /\ active' \in {active, added'}
      BY <2>1, <3>2 DEF AddKey
    <3> QED
      BY <3>1, <3>2, <3>3, <3>4, <3>5 DEF DeliveryInv, TypeOK
  <2>2. ASSUME NEW k \in Kids, ActivateKey(k) \/ RetireKey(k) PROVE Fresh
    <3>1. cache' = cache /\ added' = added
      BY <1>1, <2>2 DEF ActivateKey, RetireKey, rcvVars
    <3>2. published' \subseteq published /\ active' \in published'
      BY <2>2 DEF ActivateKey, RetireKey, DeliveryInv, TypeOK
    <3>3. added \in Kids /\ added <= added
      BY SignedDeliveryAssumption DEF DeliveryInv, TypeOK, Kids
    <3> QED
      BY <3>1, <3>2, <3>3 DEF DeliveryInv, TypeOK
  <2> QED
    BY <2>1, <2>2 DEF RotateKeys
<1> QED
  BY <1>1, <1>2, <1>3
     DEF DeliveryInv, TypeOK, KidsOK, UnknownKeyWasRetired, rcvVars, Kids

\* A step of the publisher alone: nothing the receiver or the keys keep moves.
LEMMA PublisherInv ==
    ASSUME DeliveryInv, mode' = mode,
           NEW e \in Events,
           \/ PublishEvent(e) \/ GiveUp(e)
           \/ \E r \in Requests : Send(e, r) \/ Lose(r)
    PROVE  DeliveryInv'
<1>1. CASE PublishEvent(e)
  BY <1>1 DEF PublishEvent, DeliveryInv, TypeOK, KidsOK, AttemptLeft,
     SeenIsHandled, Excused, UnknownKeyWasRetired, keyVars, rcvVars
<1>2. CASE GiveUp(e)
  <2>1. /\ awaited' = [awaited EXCEPT ![e] = NoRequest]
        /\ outcome' \in [Events -> {"open", "delivered", "dead"}]
        /\ \A x \in Events \ {e} : outcome'[x] = outcome[x]
        /\ outcome'[e] # "delivered"
        /\ outcome'[e] = "open" => attempt[e] # MaxAttempts
    BY <1>2 DEF GiveUp, Result, DeliveryInv, TypeOK
  <2>2. AttemptLeft'
    BY <1>2, <2>1, SignedDeliveryAssumption
       DEF GiveUp, AttemptLeft, DeliveryInv, TypeOK
  <2>3. SeenIsHandled'
    BY <1>2, <2>1 DEF GiveUp, SeenIsHandled, Excused, DeliveryInv, rcvVars
  <2>4. TypeOK'
    BY <1>2, <2>1 DEF GiveUp, DeliveryInv, TypeOK, keyVars, rcvVars
  <2> QED
    BY <1>2, <2>2, <2>3, <2>4
       DEF GiveUp, DeliveryInv, KidsOK, UnknownKeyWasRetired, keyVars, rcvVars
<1>3. ASSUME NEW r \in Requests, Send(e, r) PROVE DeliveryInv'
  <2>1. active \in 1 .. added /\ added \in Kids
    BY DEF DeliveryInv, TypeOK
  <2>2. active \in Kids
    BY <2>1, SignedDeliveryAssumption DEF Kids
  <2>3. [at |-> "arrived", event |-> e, kid |-> active] \in InFlight
    BY <2>2 DEF InFlight
  <2>4. /\ request' \in [Requests -> InFlight \cup {Free}]
        /\ request'[r] = [at |-> "arrived", event |-> e, kid |-> active]
        /\ \A q \in Requests \ {r} : request'[q] = request[q]
    BY <1>3, <2>3 DEF Send, DeliveryInv, TypeOK
  <2>5. attempt[e] < MaxAttempts
    BY <1>3 DEF Send, DeliveryInv, AttemptLeft
  <2>6. /\ attempt' \in [Events -> 0 .. MaxAttempts]
        /\ awaited' \in [Events -> Requests \cup {NoRequest}]
        /\ \A x \in Events \ {e} : awaited'[x] = awaited[x] /\ attempt'[x] = attempt[x]
        /\ awaited'[e] = r
    BY <1>3, <2>5, SignedDeliveryAssumption DEF Send, DeliveryInv, TypeOK
  <2>7. \A x \in Events : awaited[x] # r
    BY <1>3, SignedDeliveryAssumption DEF Send, DeliveryInv, TypeOK
  <2>8. \A x \in Events : awaited'[x] # NoRequest =>
            request'[awaited'[x]].at # "free" /\ request'[awaited'[x]].event = x
    BY <2>4, <2>6, <2>7 DEF DeliveryInv, TypeOK
  <2>9. TypeOK'
    BY <1>3, <2>4, <2>6, <2>8 DEF Send, DeliveryInv, TypeOK, keyVars, rcvVars
  <2>10. AttemptLeft'
    BY <1>3, <2>6, SignedDeliveryAssumption DEF Send, DeliveryInv, AttemptLeft
  <2>11. KidsOK'
    BY <1>3, <2>1, <2>4 DEF Send, DeliveryInv, KidsOK, keyVars, rcvVars
  <2> QED
    BY <1>3, <2>9, <2>10, <2>11
       DEF Send, DeliveryInv, SeenIsHandled, Excused, UnknownKeyWasRetired, keyVars,
           rcvVars
<1>4. ASSUME NEW r \in Requests, Lose(r) PROVE DeliveryInv'
  <2>1. /\ request' \in [Requests -> InFlight \cup {Free}]
        /\ \A q \in Requests : request'[q].at # "free" => request'[q] = request[q]
        /\ \A q \in Requests \ {r} : request'[q] = request[q]
    BY <1>4 DEF Lose, DeliveryInv, TypeOK, Free
  <2>2. \A x \in Events : awaited[x] # r
    BY <1>4, SignedDeliveryAssumption DEF Lose, DeliveryInv, TypeOK
  <2>3. TypeOK'
    BY <1>4, <2>1, <2>2
       DEF Lose, DeliveryInv, TypeOK, keyVars, eventVars, rcvVars
  <2>4. KidsOK'
    BY <1>4, <2>1 DEF Lose, DeliveryInv, KidsOK, keyVars, rcvVars
  <2> QED
    BY <1>4, <2>3, <2>4
       DEF Lose, DeliveryInv, AttemptLeft, SeenIsHandled, Excused,
           UnknownKeyWasRetired, keyVars, eventVars, rcvVars
<1> QED
  BY <1>1, <1>2, <1>3, <1>4

\* A step of the receiver.
LEMMA ReceiverInv ==
    ASSUME DeliveryInv, mode' = mode, NEW r \in Requests, Receive(r)
    PROVE  DeliveryInv'
<1> DEFINE x == request[r].event
           Moved == [request EXCEPT ![r].at = "judging"]
<1>1. /\ request[r].at # "free"
      /\ request[r] \in InFlight
      /\ x \in Events
      /\ request[r].kid \in 1 .. added
      /\ request[r].kid \in Kids
  <2>1. request[r].at # "free"
    BY DEF Receive, ResolveKey, FetchKeys, FetchFails, Judge
  <2> QED
    BY <2>1, UnderWay DEF DeliveryInv, KidsOK
<1>2. ASSUME NEW label \in {"fetching", "judging"},
             request' = [request EXCEPT ![r].at = label],
             UNCHANGED <<awaited, outcome, attempt, added>>
      PROVE  /\ request' \in [Requests -> InFlight \cup {Free}]
             /\ \A q \in Requests : request'[q].at # "free" =>
                    request'[q].kid \in 1 .. added'
             /\ \A e \in Events : awaited'[e] # NoRequest =>
                    /\ request'[awaited'[e]].at # "free"
                    /\ request'[awaited'[e]].event = e
  <2>1. /\ request'[r] \in InFlight
        /\ request'[r].event = x
        /\ request'[r].kid = request[r].kid
        /\ request'[r].at # "free"
    BY <1>1, <1>2 DEF DeliveryInv, TypeOK, InFlight
  <2>2. \A q \in Requests \ {r} : request'[q] = request[q]
    BY <1>2 DEF DeliveryInv, TypeOK
  <2>3. request' \in [Requests -> InFlight \cup {Free}]
    BY <1>2, <2>1, <2>2 DEF DeliveryInv, TypeOK
  <2> QED
    BY <1>1, <1>2, <2>1, <2>2, <2>3 DEF DeliveryInv, TypeOK, KidsOK
<1>3. CASE ResolveKey(r)
  <2>1. UNCHANGED <<awaited, outcome, attempt, added>>
    BY <1>3 DEF ResolveKey, keyVars, eventVars
  <2>2. \E label \in {"fetching", "judging"} :
            request' = [request EXCEPT ![r].at = label]
    BY <1>3 DEF ResolveKey
  <2> QED
    BY <1>2, <1>3, <2>1, <2>2
       DEF ResolveKey, DeliveryInv, TypeOK, KidsOK, AttemptLeft, SeenIsHandled,
           Excused, UnknownKeyWasRetired, keyVars, eventVars, rcvVars
<1>4. CASE FetchKeys(r)
  <2>1. cache' \subseteq 1 .. added
    BY <1>4 DEF FetchKeys, DeliveryInv, TypeOK
  <2>2. CASE request[r].kid \in cache'
    <3>1. /\ request' = [request EXCEPT ![r].at = "judging"]
          /\ UNCHANGED <<awaited, outcome, unverified>>
          /\ UNCHANGED <<keyVars, created, attempt, seen, handled, belied, clock>>
      BY <1>4, <2>2 DEF FetchKeys
    <3>2. UNCHANGED <<awaited, outcome, attempt, added>>
      BY <3>1 DEF keyVars
    <3> QED
      BY <1>2, <2>1, <3>1, <3>2
         DEF DeliveryInv, TypeOK, KidsOK, AttemptLeft, SeenIsHandled,
             Excused, UnknownKeyWasRetired, keyVars
  <2>3. CASE request[r].kid \notin cache'
    <3>1. /\ Answer(r, "permanent")
          /\ unverified' = [unverified EXCEPT ![x] = @ \cup {request[r].kid}]
          /\ UNCHANGED <<keyVars, created, attempt, seen, handled, belied, clock>>
      BY <1>4, <2>3, RefusalsAreHeard DEF FetchKeys
    <3>2. request[r].kid \notin published
      BY <1>4, <2>3 DEF FetchKeys
    <3>3. /\ unverified' \in [Events -> SUBSET Kids]
          /\ \A e \in Events : unverified'[e] \subseteq 1 .. added
          /\ \A e \in Events : unverified'[e] \cap published = {}
      BY <1>1, <3>1, <3>2 DEF DeliveryInv, TypeOK, KidsOK, UnknownKeyWasRetired
    <3> QED
      BY <1>1, <2>1, <3>1, <3>3, AnswerInv
         DEF DeliveryInv, TypeOK, KidsOK, SeenIsHandled, Excused, ExcusedNext,
             UnknownKeyWasRetired, keyVars
  <2> QED
    BY <2>2, <2>3
<1>5. CASE FetchFails(r)
  <2>1. /\ Answer(r, "retry")
        /\ UNCHANGED <<keyVars, created, attempt, rcvVars, clock>>
    BY <1>5, RefusalsAreHeard DEF FetchFails
  <2> QED
    BY <1>1, <2>1, AnswerInv
       DEF DeliveryInv, TypeOK, KidsOK, SeenIsHandled, Excused, ExcusedNext,
           UnknownKeyWasRetired, keyVars, rcvVars
<1>6. CASE Judge(r)
  <2> DEFINE Told ==
        /\ \E answer \in {"ack", "retry", "permanent"} :
               Answer(r, answer) /\ (answer = "ack" => ExcusedNext(x))
        /\ \/ UNCHANGED <<seen, handled>>
           \/ /\ x \notin seen
              /\ seen' = seen \cup {x}
              /\ handled' = [handled EXCEPT ![x] = @ + 1]
        /\ belied \subseteq belied' /\ belied' \subseteq Events
  <2>a. belied \subseteq Events /\ TypeOK
    BY DEF DeliveryInv, TypeOK
  <2>b. ASSUME x \notin seen, Handle(r) PROVE Told
    <3>1. ASSUME NEW res \in DeliveryResults \cup {Accepted(204)},
                 Answer(r, Heard(res)),
                 \/ /\ res.ack
                    /\ seen' = seen \cup {x}
                    /\ handled' = [handled EXCEPT ![x] = @ + 1]
                 \/ ~res.ack /\ UNCHANGED <<seen, handled>>,
                 belied' = belied \cup {y \in {x} : Contradicts(res)}
          PROVE  Told
      <4>1. /\ Heard(res) \in {"ack", "retry", "permanent"}
            /\ Heard(res) = "ack" /\ ~res.ack => mode = "webhook" /\ Contradicts(res)
        BY <2>a, <3>1, HeardFacts
      <4>2. Heard(res) = "ack" => ExcusedNext(x)
        <5>1. CASE res.ack
          BY <3>1, <5>1 DEF ExcusedNext
        <5>2. CASE ~res.ack
          BY <3>1, <4>1, <5>2 DEF ExcusedNext
        <5> QED
          BY <5>1, <5>2
      <4>3. belied \subseteq belied' /\ belied' \subseteq Events
        BY <1>1, <2>a, <3>1
      <4> QED
        BY <2>b, <3>1, <4>1, <4>2, <4>3
    <3>2. ASSUME Answer(r, ServerError), UNCHANGED <<seen, handled, belied>>
          PROVE  Told
      BY <2>a, <3>2, RefusalsAreHeard
    <3> QED
      BY <2>b, <3>1, <3>2 DEF Handle
  <2>c. ASSUME Answer(r, Heard(Refused(403))), UNCHANGED <<seen, handled, belied>>
        PROVE  Told
    BY <2>a, <2>c, RefusalsAreHeard
  <2>d. ASSUME x \in seen, Answer(r, Heard(Accepted(200))),
               UNCHANGED <<seen, handled, belied>>
        PROVE  Told
    <3>1. Heard(Accepted(200)) \in {"ack", "retry", "permanent"}
      BY <2>a, HeardFacts
    <3>2. ExcusedNext(x)
      BY <2>d DEF ExcusedNext
    <3> QED
      BY <2>a, <2>d, <3>1, <3>2
  <2>1. /\ UNCHANGED <<keyVars, created, attempt, cache, unverified, clock>>
        /\ Told
    BY <1>6, <2>b, <2>c, <2>d DEF Judge
  <2>2. /\ seen' \subseteq Events /\ seen \subseteq seen'
        /\ handled' \in [Events -> Nat]
        /\ \A e \in Events : handled'[e] = IF e \in seen' THEN 1 ELSE 0
    BY <1>1, <2>1 DEF DeliveryInv, TypeOK, SeenIsHandled
  <2> QED
    BY <1>1, <2>1, <2>2, AnswerInv
       DEF DeliveryInv, TypeOK, KidsOK, SeenIsHandled, Excused, ExcusedNext,
           UnknownKeyWasRetired, keyVars
<1> QED
  BY <1>3, <1>4, <1>5, <1>6 DEF Receive

LEMMA NextInv == DeliveryInv /\ [Next]_vars => DeliveryInv'
<1> SUFFICES ASSUME DeliveryInv, [Next]_vars PROVE DeliveryInv'
  OBVIOUS
<1>0. mode' = mode
  BY DEF Next, vars
<1>1. CASE Tick
  BY <1>0, <1>1, SignedDeliveryAssumption
     DEF Tick, DeliveryInv, TypeOK, KidsOK, AttemptLeft, SeenIsHandled,
         Excused, UnknownKeyWasRetired, keyVars, eventVars, rcvVars
<1>2. CASE RotateKeys
  BY <1>0, <1>2, RotateInv
<1>3. ASSUME NEW e \in Events,
             PublishEvent(e) \/ GiveUp(e) \/ \E r \in Requests : Send(e, r)
      PROVE  DeliveryInv'
  BY <1>0, <1>3, PublisherInv
<1>4. ASSUME NEW r \in Requests, Lose(r) PROVE DeliveryInv'
  <2>1. request[r].event \in Events
    BY <1>4, UnderWay DEF Lose, DeliveryInv
  <2> QED
    BY <1>0, <1>4, <2>1, PublisherInv
<1>5. ASSUME NEW r \in Requests, Receive(r) PROVE DeliveryInv'
  BY <1>0, <1>5, ReceiverInv
<1>6. CASE UNCHANGED vars
  BY <1>6
     DEF vars, DeliveryInv, TypeOK, KidsOK, AttemptLeft, SeenIsHandled,
         Excused, UnknownKeyWasRetired, keyVars, eventVars, rcvVars
<1> QED
  BY <1>1, <1>2, <1>3, <1>4, <1>5, <1>6 DEF Next

LEMMA Invariant == Spec => []DeliveryInv
BY InitInv, NextInv, PTL DEF Spec

-----------------------------------------------------------------------------
\* Attempts never exceed max_attempts, the active key is always published, and
\* the publisher awaits only a request that is under way with its own event.
THEOREM DeliveryTypes == Spec => []TypeOK
<1>1. DeliveryInv => TypeOK
  BY DEF DeliveryInv
<1> QED
  BY <1>1, Invariant, PTL

\* EventReceiver.accept hands an event to the application once at most, however
\* many requests for it arrive, overlap, or are answered too late.
THEOREM EventsHandledOnce == Spec => []HandledOnce
<1>1. DeliveryInv => HandledOnce
  <2> SUFFICES ASSUME DeliveryInv, NEW e \in Events PROVE handled[e] <= 1
    BY DEF HandledOnce
  <2>1. handled[e] = 0 \/ handled[e] = 1
    BY DEF DeliveryInv, SeenIsHandled
  <2> QED
    BY <2>1
<1> QED
  BY <1>1, Invariant, PTL

\* An event recorded as delivered was accepted by the application, through both
\* framings and whatever results its handler returns, unless a webhook handler
\* refused it under a 2xx status.
THEOREM DeliveriesAreReal == Spec => []DeliveredWasHandled
<1>1. DeliveryInv => DeliveredWasHandled
  BY DEF DeliveryInv, SeenIsHandled, Excused, DeliveredWasHandled
<1> QED
  BY <1>1, Invariant, PTL

\* A receiver refuses an event for its key only when the publisher has retired
\* that key, whatever else was rotated while the request was under way.
THEOREM RotationIsSafe == Spec => []UnknownKeyWasRetired
<1>1. DeliveryInv => UnknownKeyWasRetired
  BY DEF DeliveryInv
<1> QED
  BY <1>1, Invariant, PTL
=============================================================================
