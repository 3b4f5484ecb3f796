--------------------------- MODULE SignedDelivery ---------------------------
(***************************************************************************)
(* One event's way through publisher._attempt_send, the HTTP transport and  *)
(* the subscriber's EventReceiver (receiver.py, server.py), while signing   *)
(* keys rotate, answers get lost and requests of earlier attempts are still *)
(* under way.                                                               *)
(*                                                                         *)
(* A key is its kid.  Signatures are those of the publisher, so what can go *)
(* wrong with one is that the receiver has no key for the kid.  Tokens and   *)
(* canonical JSON are left out; of the two framings the model keeps how they *)
(* carry the receiver's result back.                                        *)
(***************************************************************************)
EXTENDS Integers

CONSTANTS
    Events,         \* events of one subscription
    Requests,       \* requests the network and the receiver hold at a time
    MaxKid,         \* bound: keys ever added, numbered from 1
    MaxAttempts,    \* PublisherConfig.max_attempts
    MaxSkew,        \* EventReceiver max_skew_seconds
    MaxTime,        \* bound: the clock stops here
    Statuses        \* status codes an on_event handler puts into its results

NoRequest == "none"
NoStatus == 0       \* status_code=None

ASSUME SignedDeliveryAssumption ==
    /\ NoRequest \notin Requests
    /\ MaxKid \in Nat \ {0}
    /\ MaxAttempts \in Nat \ {0}
    /\ MaxSkew \in Nat
    /\ MaxTime \in Nat
    /\ Statuses \subseteq Nat

Kids == 1 .. MaxKid

VARIABLES
    mode,           \* the subscription's delivery mode
    published, active, added,   \* SigningKeySet; added: kids ever added
    created,        \* created_at, -1 before the event is published
    attempt,        \* attempts made for the event
    outcome,        \* "open", then "delivered" or "dead"
    awaited,        \* the request whose answer the publisher waits for
    request,        \* what is under way to, or at, the receiver
    cache,          \* JwksKeyResolver._cache
    seen,           \* EventReceiver._seen
    handled,        \* how often an event was accepted (EventReceiver.received)
    unverified,     \* kids an event was refused for
    belied,         \* history: events refused by a result with a 2xx status
    clock

keyVars   == <<published, active, added>>
eventVars == <<created, attempt, outcome, awaited>>
rcvVars   == <<cache, seen, handled, unverified, belied>>
vars == <<mode, keyVars, eventVars, request, rcvVars, clock>>

Free == [at |-> "free"]
InFlight == [at : {"arrived", "fetching", "judging"}, event : Events, kid : Kids]

\* Types; an awaited request carries the event it is awaited for.
TypeOK ==
    /\ mode \in {"webhook", "a2a"}
    /\ added \in Kids
    /\ published \subseteq 1 .. added
    /\ active \in published
    /\ created \in [Events -> -1 .. MaxTime]
    /\ attempt \in [Events -> 0 .. MaxAttempts]
    /\ outcome \in [Events -> {"open", "delivered", "dead"}]
    /\ awaited \in [Events -> Requests \cup {NoRequest}]
    /\ request \in [Requests -> InFlight \cup {Free}]
    /\ cache \subseteq 1 .. added
    /\ seen \subseteq Events
    /\ handled \in [Events -> Nat]
    /\ unverified \in [Events -> SUBSET Kids]
    /\ belied \subseteq Events
    /\ clock \in 0 .. MaxTime
    /\ \A e \in Events : awaited[e] # NoRequest =>
           request[awaited[e]].at # "free" /\ request[awaited[e]].event = e

Init ==
    /\ mode \in {"webhook", "a2a"}
    /\ published = {1}
    /\ active = 1
    /\ added = 1
    /\ created = [e \in Events |-> -1]
    /\ attempt = [e \in Events |-> 0]
    /\ outcome = [e \in Events |-> "open"]
    /\ awaited = [e \in Events |-> NoRequest]
    /\ request = [r \in Requests |-> Free]
    /\ cache = {}
    /\ seen = {}
    /\ handled = [e \in Events |-> 0]
    /\ unverified = [e \in Events |-> {}]
    /\ belied = {}
    /\ clock = 0

-----------------------------------------------------------------------------
(* Key rotation *)

\* add_signing_key(key, activate=...).
AddKey(activate) ==
    /\ added < MaxKid
    /\ added' = added + 1
    /\ published' = published \cup {added + 1}
    /\ active' = IF activate THEN added + 1 ELSE active
    /\ UNCHANGED <<eventVars, request, rcvVars, clock>>

\* rotate_signing_key: KeyError unless the key is in the set.
ActivateKey(k) ==
    /\ k \in published
    /\ active' = k
    /\ UNCHANGED <<published, added, eventVars, request, rcvVars, clock>>

\* Mutant: the active key may be retired.
RetireAnyKey(k) ==
    /\ k \in published
    /\ published' = published \ {k}
    /\ UNCHANGED <<active, added, eventVars, request, rcvVars, clock>>

\* retire_signing_key: ValueError for the active key.
RetireKey(k) ==
    /\ k \in published
    /\ k # active
    /\ published' = published \ {k}
    /\ UNCHANGED <<active, added, eventVars, request, rcvVars, clock>>

-----------------------------------------------------------------------------
(* The publisher's side of an attempt *)

PublishEvent(e) ==
    /\ created[e] = -1
    /\ created' = [created EXCEPT ![e] = clock]
    /\ UNCHANGED <<keyVars, attempt, outcome, awaited, request, rcvVars, clock>>

\* _attempt_send: sign with the active key and post, without an await between.
Send(e, r) ==
    /\ created[e] # -1
    /\ outcome[e] = "open"
    /\ awaited[e] = NoRequest
    /\ request[r].at = "free"
    /\ attempt' = [attempt EXCEPT ![e] = @ + 1]
    /\ awaited' = [awaited EXCEPT ![e] = r]
    /\ request' = [request EXCEPT ![r] =
                      [at |-> "arrived", event |-> e, kid |-> active]]
    /\ UNCHANGED <<keyVars, created, outcome, rcvVars, clock>>

\* _deliver_one on the result of the attempt: delivered, dead-lettered when the
\* failure is permanent or the last attempt is used up, else open again.
Result(e, answer) ==
    /\ awaited' = [awaited EXCEPT ![e] = NoRequest]
    /\ outcome' = [outcome EXCEPT ![e] =
                      CASE answer = "ack" -> "delivered"
                        [] answer = "permanent" -> "dead"
                        [] answer = "retry" ->
                               IF attempt[e] = MaxAttempts THEN "dead" ELSE "open"]

\* The post times out or breaks; the receiver may still work on the request.
GiveUp(e) ==
    /\ awaited[e] # NoRequest
    /\ Result(e, "retry")
    /\ UNCHANGED <<keyVars, created, attempt, request, rcvVars, clock>>

\* A request whose sender gave up never arrived.
Lose(r) ==
    /\ request[r].at = "arrived"
    /\ awaited[request[r].event] # r
    /\ request' = [request EXCEPT ![r] = Free]
    /\ UNCHANGED <<keyVars, eventVars, rcvVars, clock>>

\* The receiver's answer reaches the sender; one that gave up does not see it.
Answer(r, answer) ==
    /\ request' = [request EXCEPT ![r] = Free]
    /\ LET e == request[r].event
       IN  IF awaited[e] = r THEN Result(e, answer)
           ELSE UNCHANGED <<awaited, outcome>>

-----------------------------------------------------------------------------
(* The receiver's result on its way back *)

\* DeliveryResult, as an on_event handler may return it.
DeliveryResults == [ack : BOOLEAN, retry : BOOLEAN, status : Statuses]

\* The results accept() makes itself: each names its status.
Accepted(status) == [ack |-> TRUE, retry |-> TRUE, status |-> status]
Refused(status) == [ack |-> FALSE, retry |-> FALSE, status |-> status]

\* _receive_status: the status the result names goes before its verdict.
ReceiveStatus(res) ==
    CASE res.status # NoStatus -> res.status
      [] res.status = NoStatus /\ res.ack -> 204
      [] res.status = NoStatus /\ ~res.ack -> IF res.retry THEN 503 ELSE 422

\* _result_from_status: what the transport makes of a status.
ResultFromStatus(status) ==
    CASE status \in 200 .. 299 -> "ack"
      [] status \in {408, 429} \/ status >= 500 -> "retry"
      [] OTHER -> "permanent"

\* The JSON-RPC result of an A2A message carries ack and retry, no status.
ResultFromMessage(res) ==
    CASE res.ack -> "ack"
      [] ~res.ack /\ res.retry -> "retry"
      [] ~res.ack /\ ~res.retry -> "permanent"

\* What the publisher hears of a result, in the mode of the subscription.
Heard(res) ==
    IF mode = "webhook" THEN ResultFromStatus(ReceiveStatus(res))
    ELSE ResultFromMessage(res)

\* An exception in the subscriber's app is a 500 in either mode.
ServerError == ResultFromStatus(500)

-----------------------------------------------------------------------------
(* The receiver *)

\* Mutant: a cache miss is final.
ResolveKeyFromCache(r) ==
    /\ request[r].at = "arrived"
    /\ \/ /\ request[r].kid \in cache
          /\ request' = [request EXCEPT ![r].at = "judging"]
          /\ UNCHANGED <<awaited, outcome, unverified>>
       \/ /\ request[r].kid \notin cache
          /\ unverified' = [unverified EXCEPT ![request[r].event] =
                               @ \cup {request[r].kid}]
          /\ Answer(r, Heard(Refused(401)))
    /\ UNCHANGED <<keyVars, created, attempt, cache, seen, handled, belied, clock>>

\* JwksKeyResolver: a cached key at once, an unknown kid after a fetch.
ResolveKey(r) ==
    /\ request[r].at = "arrived"
    /\ request' = [request EXCEPT ![r].at =
                      IF request[r].kid \in cache THEN "judging" ELSE "fetching"]
    /\ UNCHANGED <<keyVars, eventVars, rcvVars, clock>>

\* _refresh: the keys served now are added to the cache; a kid still missing is
\* a KeyError, which accept() answers with a permanent 401.
FetchKeys(r) ==
    /\ request[r].at = "fetching"
    /\ cache' = cache \cup published
    /\ \/ /\ request[r].kid \in cache'
          /\ request' = [request EXCEPT ![r].at = "judging"]
          /\ UNCHANGED <<awaited, outcome, unverified>>
       \/ /\ request[r].kid \notin cache'
          /\ unverified' = [unverified EXCEPT ![request[r].event] =
                               @ \cup {request[r].kid}]
          /\ Answer(r, Heard(Refused(401)))
    /\ UNCHANGED <<keyVars, created, attempt, seen, handled, belied, clock>>

\* Mutant: the exception ends the request and the sender hears nothing.
FetchFailsSilently(r) ==
    /\ request[r].at = "fetching"
    /\ request' = [request EXCEPT ![r] = Free]
    /\ UNCHANGED <<keyVars, eventVars, rcvVars, clock>>

\* The fetch raises anything else: a 500, worth retrying.
FetchFails(r) ==
    /\ request[r].at = "fetching"
    /\ Answer(r, ServerError)
    /\ UNCHANGED <<keyVars, created, attempt, rcvVars, clock>>

OutOfSkew(e) == clock - created[e] > MaxSkew

\* The result refuses the event, its status says that it was accepted.
Contradicts(res) == ~res.ack /\ ResultFromStatus(ReceiveStatus(res)) = "ack"

\* on_event: no handler or no override accepts with a 204; an override is
\* passed on as it is, and marks the event as seen only if it acknowledges.
Handle(r) ==
    LET e == request[r].event
    IN  \/ \E res \in DeliveryResults \cup {Accepted(204)} :
              /\ Answer(r, Heard(res))
              /\ \/ /\ res.ack
                    /\ seen' = seen \cup {e}
                    /\ handled' = [handled EXCEPT ![e] = @ + 1]
                 \/ /\ ~res.ack
                    /\ UNCHANGED <<seen, handled>>
              /\ belied' = belied \cup {x \in {e} : Contradicts(res)}
        \/ /\ Answer(r, ServerError)   \* the handler raises
           /\ UNCHANGED <<seen, handled, belied>>

\* Mutant: no deduplication by event id.
JudgeEveryTime(r) ==
    LET e == request[r].event
    IN  /\ request[r].at = "judging"
        /\ \/ /\ OutOfSkew(e)
              /\ Answer(r, Heard(Refused(403)))
              /\ UNCHANGED <<seen, handled, belied>>
           \/ /\ ~OutOfSkew(e)
              /\ Handle(r)
        /\ UNCHANGED <<keyVars, created, attempt, cache, unverified, clock>>

\* Mutant: the event counts as seen although the handler raised.
JudgeSeenFirst(r) ==
    LET e == request[r].event
    IN  /\ request[r].at = "judging"
        /\ seen' = seen \cup {e}
        /\ \/ /\ e \in seen
              /\ Answer(r, Heard(Accepted(200)))
              /\ UNCHANGED <<handled, belied>>
           \/ /\ e \notin seen
              /\ Answer(r, ServerError)
              /\ UNCHANGED <<handled, belied>>
        /\ UNCHANGED <<keyVars, created, attempt, cache, unverified, clock>>

\* The rest of accept(), which never awaits: skew, duplicates, the handler.
Judge(r) ==
    LET e == request[r].event
    IN  /\ request[r].at = "judging"
        /\ \/ /\ OutOfSkew(e)
              /\ Answer(r, Heard(Refused(403)))
              /\ UNCHANGED <<seen, handled, belied>>
           \/ /\ ~OutOfSkew(e)
              /\ e \in seen
              /\ Answer(r, Heard(Accepted(200)))
              /\ UNCHANGED <<seen, handled, belied>>
           \/ /\ ~OutOfSkew(e)
              /\ e \notin seen
              /\ Handle(r)
        /\ UNCHANGED <<keyVars, created, attempt, cache, unverified, clock>>

Tick ==
    /\ clock < MaxTime
    /\ clock' = clock + 1
    /\ UNCHANGED <<keyVars, eventVars, request, rcvVars>>

RotateKeys ==
    \/ \E activate \in BOOLEAN : AddKey(activate)
    \/ \E k \in Kids : ActivateKey(k) \/ RetireKey(k)

Receive(r) == ResolveKey(r) \/ FetchKeys(r) \/ FetchFails(r) \/ Judge(r)

Next ==
    /\ \/ Tick
       \/ RotateKeys
       \/ \E e \in Events : PublishEvent(e) \/ GiveUp(e)
       \/ \E e \in Events, r \in Requests : Send(e, r)
       \/ \E r \in Requests : Lose(r) \/ Receive(r)
    /\ UNCHANGED mode

\* The dispatcher keeps attempting what is open (Dispatch.tla), a request is
\* answered or times out.  Publishing, rotating and losing owe nothing.
Fairness ==
    /\ \A e \in Events : SF_vars(\E r \in Requests : Send(e, r) /\ UNCHANGED mode)
    /\ \A r \in Requests : WF_vars(Receive(r) /\ UNCHANGED mode)

Spec == Init /\ [][Next]_vars /\ Fairness
-----------------------------------------------------------------------------
(* Properties *)

\* The application accepts an event at most once, although attempts overlap: a
\* request of an attempt the publisher gave up may arrive, or still wait for its
\* key, while a later one is handled.
HandledOnce == \A e \in Events : handled[e] <= 1

\* What the publisher records as delivered was accepted by the application,
\* whatever results its handler returns; only a webhook handler that refuses the
\* event under a 2xx status is taken at its status.
DeliveredWasHandled ==
    \A e \in Events : outcome[e] = "delivered" =>
        handled[e] > 0 \/ (mode = "webhook" /\ e \in belied)

\* Rotation alone refuses no event: a kid the receiver could not resolve is one
\* the publisher had stopped serving.
UnknownKeyWasRetired ==
    \A e \in Events : unverified[e] \cap published = {}

\* Every published event ends delivered or in the dead letters.
EveryEventEnds ==
    \A e \in Events : (created[e] # -1) ~> (outcome[e] # "open")
=============================================================================
