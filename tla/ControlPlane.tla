---------------------------- MODULE ControlPlane ----------------------------
(***************************************************************************)
(* publisher.subscribe with everything that may refuse a request - lease,   *)
(* rate limit, selector limits, authorizer, quota, card, endpoint, topics - *)
(* beside a client that walks through ListSubscriptions page by page.       *)
(*                                                                         *)
(* A request is the subscription it makes: its number is the order of the   *)
(* random ids.  How many steps of subscribe run without another request in  *)
(* between depends on the deployment:                                       *)
(*   "inline"   one event loop and a store that is called in place, so that *)
(*              nothing awaits between the quota and the store;             *)
(*   "offload"  one event loop, every store call awaits a thread;           *)
(*   "threads"  several loops on one limiter and one store.                 *)
(***************************************************************************)
EXTENDS TokenBucket, Pagination, AgentCard, Selectors

CONSTANTS
    Owner,          \* the subscriber card a request is for, also its principal
    Quota,          \* max_subscriptions_per_subscriber
    ListSize,       \* page size of the listing
    Cards,          \* the cards subscribers may serve
    Requested,      \* the selectors they may ask for
    MaxSelector,    \* SelectorLimits
    Topic           \* the topic they may ask for

Requests == Callers

ASSUME ControlAssumption ==
    /\ Requests \subseteq Nat \ {0}
    /\ Owner \in [Requests -> Keys]
    /\ Quota \in Nat
    /\ ListSize \in Nat \ {0}
    /\ \A card \in Cards :
          /\ card.receiveUrl \in Urls
          /\ card.url \in Urls
          /\ card.interfaces \in Seq([url : Urls, jsonrpc : BOOLEAN])

VARIABLES
    deploy,
    byCreation,     \* list_all orders by created_at, subscription_id (Postgres)
                    \* instead of insertion (memory)
    turn,           \* the request that runs without having awaited, or Free
    pc,
    target,         \* delivery endpoint resolved for a request
    created,        \* createdAt of a request's subscription
    added,          \* subscriptions in the order of subs.add
    status,
    overtaken,      \* history: requests whose count was stale when they were added
    due,            \* undeleted subscriptions whose lease_until has passed
    walk,           \* the listing client: "off", "open", "done"
    token,          \* the page token it holds
    shown,          \* what its pages showed
    since,          \* what was listed when it began
    cut             \* the item of its token was gone

requestVars == <<turn, pc, target, created>>
storeVars == <<added, status, due>>
walkVars == <<walk, token, shown, since, cut>>
vars == <<bucketVars, deploy, byCreation, requestVars, storeVars, overtaken, walkVars>>

Free == 0

AddedSet == {added[i] : i \in DOMAIN added}
Present == {r \in AddedSet : status[r] # "deleted"}

\* Types, and what a stored subscription owes to its request: it has a creation
\* time and an endpoint, and it is stored once.
TypeOK ==
    /\ BucketTypeOK
    /\ turn \in Requests \cup {Free}
    /\ pc \in [Requests -> {"idle", "called", "limited", "counted", "stamped",
                            "added", "refused"}]
    /\ \A r \in Requests : (r \in AddedSet) = (pc[r] = "added")
    /\ \A i, j \in DOMAIN added : added[i] = added[j] => i = j
    /\ \A r \in AddedSet : created[r] \in Times /\ target[r] \in Urls \ {NoUrl}
    /\ status \in [Requests -> {"none", "active", "expired", "deleted"}]
    /\ \A r \in Requests : (status[r] = "none") = (r \notin AddedSet)
    /\ due \subseteq Present
    /\ token \in Requests \cup {NoToken}

Init ==
    /\ BucketInit
    /\ deploy \in {"inline", "offload", "threads"}
    /\ byCreation \in BOOLEAN
    /\ turn = Free
    /\ pc = [r \in Requests |-> "idle"]
    /\ target = [r \in Requests |-> NoUrl]
    /\ created = [r \in Requests |-> NoTime]
    /\ added = <<>>
    /\ status = [r \in Requests |-> "none"]
    /\ due = {}
    /\ overtaken = {}
    /\ walk = "off" /\ token = NoToken /\ shown = <<>> /\ since = {} /\ cut = FALSE

-----------------------------------------------------------------------------
(* subscribe() *)

\* Request r has reached step "at" and may go on: the loop runs no other one.
Runs(r, at) ==
    /\ turn \in {Free, r}
    /\ pc[r] = at

\* r goes on to step "to"; keep tells whether no await lies in between.
Goto(r, to, keep) ==
    /\ pc' = [pc EXCEPT ![r] = to]
    /\ turn' = IF keep THEN r ELSE Free

Refuse(r) ==
    /\ Goto(r, "refused", FALSE)
    /\ UNCHANGED <<target, created, storeVars>>

\* _check_lease may refuse the request first; then the rate limiter reads the clock.
Call(r) ==
    /\ Runs(r, "idle")
    /\ \/ /\ Goto(r, "called", deploy # "threads")
          /\ ReadClock(r)
          /\ UNCHANGED <<target, created, storeVars>>
       \/ Refuse(r) /\ UNCHANGED bucketVars
    /\ UNCHANGED <<deploy, byCreation, walkVars>>

\* What a request asks for is chosen where it is looked at: the selectors that
\* selector_limits lets through, those that also fit the topic, and the endpoints
\* that cards and delivery modes come to.
Allowed == {sel \in Requested : WithinLimits(sel, MaxSelector)}
Valid == {sel \in Allowed : ValidateSelector(sel, Topic)}
Targets == {IF mode \in Topic.deliveryModes THEN ResolveDelivery(mode, card)
            ELSE Refused : mode \in Modes, card \in Cards}

\* The limiter's verdict; a call that was let through may still be refused by
\* selector_limits or authorize_subscribe, and has used its token up then.
Limit(r) ==
    /\ Runs(r, "called")
    /\ \/ /\ TakeToken(r, Owner[r])
          /\ \/ /\ \E sel \in Requested : sel \in Allowed
                /\ Goto(r, "limited", deploy = "inline")
                /\ UNCHANGED <<target, created, storeVars>>
             \/ Refuse(r)
       \/ RateLimited(r, Owner[r]) /\ Refuse(r)
    /\ UNCHANGED <<deploy, byCreation, walkVars>>

\* list_subscriptions() expires the lapsed leases it meets.
Swept == [r \in Requests |-> IF status[r] = "active" /\ r \in due THEN "expired"
                             ELSE status[r]]

\* Mutant: a subscription whose lease has lapsed is not counted.
BelowQuotaActive(o) ==
    Cardinality({r \in AddedSet : Swept[r] = "active" /\ Owner[r] = o}) < Quota

\* Expired subscriptions count: they can be renewed.
BelowQuota(o) == Cardinality({r \in Present : Owner[r] = o}) < Quota

CountQuota(r) ==
    /\ Runs(r, "limited")
    /\ Goto(r, IF BelowQuota(Owner[r]) THEN "counted" ELSE "refused",
            BelowQuota(Owner[r]) /\ deploy = "inline")
    /\ status' = Swept
    /\ UNCHANGED <<target, created, added, due, bucketVars, deploy, byCreation, walkVars>>

\* Mutant: createdAt is left out.
StampNothing(r) ==
    /\ Runs(r, "counted")
    /\ \E url \in Targets \ {Refused} :
          /\ target' = [target EXCEPT ![r] = url]
          /\ Goto(r, "stamped", deploy = "inline")
          /\ UNCHANGED <<created, storeVars>>
    /\ UNCHANGED <<bucketVars, deploy, byCreation, walkVars>>

\* Card, delivery mode and endpoint, then each topic's selector, mode and replay
\* rules; a request that passes has its createdAt stamped.
Stamp(r) ==
    /\ Runs(r, "counted")
    /\ \E url \in Targets :
          \/ /\ url # Refused
             /\ \E sel \in Allowed : sel \in Valid
             /\ target' = [target EXCEPT ![r] = url]
             /\ created' = [created EXCEPT ![r] = clock]
             /\ Goto(r, "stamped", deploy = "inline")
             /\ UNCHANGED storeVars
          \/ Refuse(r)
    /\ UNCHANGED <<bucketVars, deploy, byCreation, walkVars>>

\* subs.add; the first catch-up that follows awaits.
Add(r) ==
    /\ Runs(r, "stamped")
    /\ added' = Append(added, r)
    /\ status' = [status EXCEPT ![r] = "active"]
    /\ Goto(r, "added", FALSE)
    /\ UNCHANGED <<target, created, due, bucketVars, deploy, byCreation, walkVars>>

-----------------------------------------------------------------------------
(* The other operations; each is a turn of its own. *)

Idle == deploy # "threads" => turn = Free

Lapse(r) ==
    /\ status[r] = "active"
    /\ due' = due \cup {r}
    /\ UNCHANGED <<bucketVars, deploy, byCreation, requestVars, added, status, walkVars>>

Renew(r) ==
    /\ Idle
    /\ r \in Present
    /\ status' = [status EXCEPT ![r] = "active"]
    /\ due' = due \ {r}
    /\ UNCHANGED <<bucketVars, deploy, byCreation, requestVars, added, walkVars>>

Delete(r) ==
    /\ Idle
    /\ r \in Present
    /\ status' = [status EXCEPT ![r] = "deleted"]
    /\ due' = due \ {r}
    /\ UNCHANGED <<bucketVars, deploy, byCreation, requestVars, added, walkVars>>

\* list_all: q comes ahead of r.
Before(q, r) ==
    IF byCreation
    THEN created[q] < created[r] \/ (created[q] = created[r] /\ q < r)
    ELSE \E i, j \in DOMAIN added : i < j /\ added[i] = q /\ added[j] = r

Listed ==
    [n \in 1 .. Cardinality(Present) |->
        CHOOSE r \in Present : Cardinality({q \in Present : Before(q, r)}) = n - 1]

\* The client asks for its next page, the first one without a token.
ListPage ==
    LET start == StartAfter(Listed, token)
    IN  /\ Idle
        /\ walk # "done"
        /\ shown' = shown \o PageAfter(Listed, start, ListSize)
        /\ token' = NextToken(Listed, start, ListSize)
        /\ walk' = IF token' = NoToken THEN "done" ELSE "open"
        /\ since' = IF walk = "off" THEN Present ELSE since
        /\ cut' = (token # NoToken /\ token \notin Present)
        /\ status' = Swept
        /\ UNCHANGED <<bucketVars, deploy, byCreation, requestVars, added, due>>

PassTime == Tick /\ UNCHANGED <<deploy, byCreation, requestVars, storeVars, walkVars>>

Subscribe(r) == Call(r) \/ Limit(r) \/ CountQuota(r) \/ Stamp(r) \/ Add(r)

\* Requests whose count a step of subs.add has made stale.
Passed == {q \in Requests : /\ pc[q] \in {"counted", "stamped"}
                            /\ \E r \in AddedSet' \ AddedSet :
                                  r # q /\ Owner[r] = Owner[q]}

Next ==
    /\ \/ \E r \in Requests : Subscribe(r)
       \/ \E r \in Requests : Lapse(r) \/ Renew(r) \/ Delete(r)
       \/ ListPage
       \/ PassTime
    /\ overtaken' = overtaken \cup Passed

Spec == Init /\ [][Next]_vars

-----------------------------------------------------------------------------
(* Properties *)

\* A subscriber goes over max_subscriptions_per_subscriber by no more than the
\* requests that another one of the same subscriber overtook between their count
\* and subs.add, whatever lapses, is renewed or deleted meanwhile; where nothing
\* awaits in between there are none, and the quota is kept.
QuotaHeld ==
    /\ \A o \in Keys :
          Cardinality({r \in Present : Owner[r] = o} \ overtaken) <= Quota
    /\ deploy = "inline" => overtaken = {}

\* Every endpoint events are sent to passed the policy of the card resolver and
\* the policy of the publisher, whichever of the card's endpoints the mode takes.
TargetsAreTrusted ==
    \A r \in AddedSet :
        /\ CardPolicy.requireHttps \/ EndpointPolicy.requireHttps => target[r].https
        /\ CardPolicy.requireSameOrigin => target[r].sameOrigin
        /\ target[r].host \notin EndpointPolicy.blocked \ EndpointPolicy.allowHosts

\* A walk through the pages shows no subscription twice, whatever is created,
\* renewed and deleted between two pages, and one that ends without having lost
\* its place has shown every subscription that was there all along; with
\* insertion order also those made meanwhile.
PagesAreFaithful ==
    [][ LET seen == {shown'[i] : i \in DOMAIN shown'}
        IN  /\ Cardinality(seen) = Len(shown')
            /\ walk # "done" /\ walk' = "done" /\ ~cut' =>
                  /\ since' \cap Present \subseteq seen
                  /\ ~byCreation => Present \subseteq seen ]_vars
=============================================================================
