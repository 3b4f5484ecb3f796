---------------------------- MODULE DispatchLoop ----------------------------
(***************************************************************************)
(* The dispatch core driven by a DispatchWorker, as with                    *)
(* PublisherConfig(deferred_dispatch=True): publish only appends, and every *)
(* catch-up is started by a round of the worker's loop.  Dispatch assumes   *)
(* that somebody comes back to every active subscription; here the loop     *)
(* itself has to, and one exception in one catch-up ends it.                *)
(***************************************************************************)
EXTENDS Dispatch, WorkerLoop

VARIABLES
    listed,     \* the round has its subscriptions (list_all has returned)
    todo,       \* subscriptions whose coroutine has not taken its first step
    awaited     \* dispatchers that run a coroutine of the current gather()

roundVars == <<listed, todo, awaited>>
serviceVars == <<vars, loopVars, roundVars>>

ServiceInit ==
    /\ Init
    /\ LoopInit
    /\ listed = FALSE
    /\ todo = {}
    /\ awaited = {}

-----------------------------------------------------------------------------
\* A task is created only when the coroutines of an earlier gather() have all
\* begun, as they do before an exception of one reaches run_forever.
Start ==
    /\ todo = {}
    /\ StartLoop
    /\ UNCHANGED <<vars, roundVars>>

Enter == EnterLoop /\ UNCHANGED <<vars, roundVars>>
Stop == StopLoop /\ UNCHANGED <<vars, roundVars>>
PollAgain == Wake /\ UNCHANGED <<vars, roundVars>>

\* dispatch_pending: list_all, and gather() over every subscription there is.
ListPending ==
    /\ loop = "round"
    /\ ~listed
    /\ listed' = TRUE
    /\ todo' = {s \in Subs : Registered(s)}
    /\ awaited' = {}
    /\ UNCHANGED <<vars, loopVars>>

\* _dispatch_subscription of s begins, in a free slot (slots differ in name
\* only, so one of them stands for all) ...
BeginCatchUp(s) ==
    /\ s \in todo
    /\ todo' = todo \ {s}
    /\ \E d \in Dispatchers : pc[d] = "idle"
    /\ LET d == CHOOSE d \in Dispatchers : pc[d] = "idle"
       IN  Begin(d, s) /\ awaited' = awaited \cup {d}
    /\ UNCHANGED <<loopVars, listed>>

\* ... or returns 0 at once: s is not active, its lapsed lease is expired on the
\* spot, or its grant is gone.
SkipSubscription(s) ==
    /\ s \in todo
    /\ todo' = todo \ {s}
    /\ \/ Expire(s)
       \/ status[s] \in {"expired", "deleted"} /\ UNCHANGED vars
       \/ status[s] = "active" /\ ~granted[s] /\ UNCHANGED vars
    /\ UNCHANGED <<loopVars, listed, awaited>>

\* Mutant: the coroutines are started and not awaited.
ReturnPendingEarly ==
    /\ listed /\ todo = {}
    /\ EndRound
    /\ listed' = FALSE
    /\ awaited' = {}
    /\ UNCHANGED <<vars, todo>>

\* gather() returns when every coroutine has.
ReturnPending ==
    /\ listed /\ todo = {}
    /\ \A d \in awaited : pc[d] = "idle"
    /\ EndRound
    /\ listed' = FALSE
    /\ awaited' = {}
    /\ UNCHANGED <<vars, todo>>

\* An exception leaves the coroutine of d.  gather() passes the first one on and
\* run_forever ends with it; the other coroutines run on, awaited by nobody.
RaiseFrom(d) ==
    \/ /\ d \in awaited
       /\ RaiseLoop
       /\ listed' = FALSE
       /\ awaited' = {}
       /\ UNCHANGED todo
    \/ /\ d \notin awaited
       /\ UNCHANGED <<loopVars, roundVars>>

PoisonNext(d) == pc[d] = "scan" /\ \E o \in poison[tgt[d]] : IsNext(d, o)

Poisoned(d) == SelectorRaises(d) /\ RaiseFrom(d)

\* The exception is the selector's, or one of a store or of the transport.
Interrupted(d) ==
    /\ SelectorRaises(d) \/ Fail(d)
    /\ RaiseFrom(d)

Proceed(p) ==
    /\ \/ p \in Dispatchers /\ ~PoisonNext(p) /\ CatchUpStep(p)
       \/ DeliveryStep(p)
    /\ UNCHANGED <<loopVars, roundVars>>

LoopStep ==
    \/ Enter \/ PollAgain \/ ListPending \/ ReturnPending
    \/ \E s \in Subs : BeginCatchUp(s) \/ SkipSubscription(s)

Elsewhere ==
    \/ \E verdict \in [Subs -> Verdicts] : Publish(verdict)
    \/ AgeOrCompact
    \/ \E s \in Subs : Lifecycle(s)
    \/ \E r \in RetryIds : FallDue(r)
    \/ \E w \in Workers : Claim(w) \/ WorkerStep(w)
    \/ \E a \in Ackers, s \in Subs, o \in Offsets : Ack(a, s, o)
    \/ \E p \in Workers \cup Ackers : Fail(p)

ServiceNext ==
    \/ Start \/ Stop \/ LoopStep
    \/ \E p \in Procs : Proceed(p)
    \/ \E d \in Dispatchers : Interrupted(d)
    \/ Elsewhere /\ UNCHANGED <<loopVars, roundVars>>

\* The event loop runs every coroutine that can run and the poll interval ends.
\* Nobody owes a start, a restart or a stop.
ServiceFairness ==
    /\ WF_serviceVars(LoopStep)
    /\ \A p \in Procs : WF_serviceVars(Proceed(p))
    /\ \A d \in Dispatchers : WF_serviceVars(Poisoned(d))

ServiceSpec == ServiceInit /\ [][ServiceNext]_serviceVars /\ ServiceFairness
-----------------------------------------------------------------------------
(* Properties *)

\* While run_forever runs, every event owed to a subscription that stays active
\* and authorized is settled: the loop comes back to each subscription by
\* itself, after failed sends and acks that race it, until it is stopped or an
\* exception ends it.
ServedWhileRunning ==
    \A s \in Subs, o \in Offsets :
        (Running /\ status[s] = "active" /\ granted[s] /\ o \in live
         /\ start[s] < o)
            ~> \/ o \in Settled(s) \/ o <= ackedTo[s] \/ o \notin live
               \/ status[s] # "active" \/ ~granted[s] \/ ~Running

\* stop() ends the loop: the round under way is finished and no other follows.
\* Only a stop() ahead of the task's first step is lost (EnterLoop clears it).
StopEnds == stopped /\ Running ~> ~Running \/ ~stopped

\* When run_forever has returned after stop(), no delivery of its rounds is left
\* under way - unless an exception of an earlier round left coroutines behind.
StopIsClean ==
    loop = "ended" /\ failures = 0 /\ (\A s \in Subs : poison[s] = {}) =>
        todo = {} /\ \A d \in Dispatchers : pc[d] = "idle"
=============================================================================
