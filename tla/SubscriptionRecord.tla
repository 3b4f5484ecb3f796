------------------------- MODULE SubscriptionRecord -------------------------
(***************************************************************************)
(* The record of one subscription (status, lease, acked cursor of a topic)  *)
(* under the publisher's handlers: each takes a Subscription object from    *)
(* the store, changes fields of it, and hands the whole object back to      *)
(* subs.update.                                                             *)
(*                                                                         *)
(* The backends differ: memory/subscription_store.py gives out the stored   *)
(* object itself; postgres/subscription_store.py gives out a copy of the    *)
(* row, and its update writes all three fields of the copy.                 *)
(*                                                                         *)
(* A handler runs on the event loop until it awaits: a send always does, a  *)
(* store call only with offload (PublisherConfig.offload_store).  `turn` is *)
(* the handler that has not yet awaited.                                    *)
(***************************************************************************)
EXTENDS Integers

CONSTANTS
    Handlers,   \* handlers that may be under way at a time
    Stores,     \* backends a deployment may use
    Offloads,   \* its possible values of offload_store
    Lease,      \* lease_seconds of a renewal
    MaxTime,    \* bound: the clock stops here
    MaxCursor   \* bound: highest offset acked or delivered

NoOne == "none"

ASSUME RecordAssumption ==
    /\ NoOne \notin Handlers
    /\ Stores \subseteq {"memory", "postgres"}
    /\ Offloads \subseteq BOOLEAN
    /\ Lease \in Nat \ {0}
    /\ MaxTime \in Nat
    /\ MaxCursor \in Nat

Ops == {"get", "renew", "delete", "ack", "dispatch", "retry"}
Cursors == 0 .. MaxCursor

VARIABLES
    row,        \* the stored record
    obj,        \* the copy a handler holds (unused with live references)
    op, pc,     \* what each handler does, and where it is
    turn,
    clock,
    store, offload,     \* the deployment
    promised,   \* history: the lease the last answered subscribe or renew granted
    overtaken   \* history: the handlers holding an object that was read before
                \* another handler changed the record

vars == <<row, obj, op, pc, turn, clock, store, offload, promised, overtaken>>

\* The store hands out live references.
LiveRefs == store = "memory"

Record == [status : {"active", "expired", "deleted"},
           lease  : 0 .. MaxTime + Lease,
           cursor : Cursors \cup {-1}]

\* Types; and at most one handler is between two awaits.
TypeOK ==
    /\ row \in Record
    /\ obj \in [Handlers -> Record]
    /\ op \in [Handlers -> Ops]
    /\ pc \in [Handlers -> {"idle", "load", "check", "expire", "act", "send",
                            "write"}]
    /\ turn \in Handlers \cup {NoOne}
    /\ clock \in 0 .. MaxTime
    /\ store \in Stores
    /\ offload \in Offloads
    /\ promised \in 0 .. MaxTime + Lease
    /\ overtaken \subseteq Handlers
    /\ ~offload => \A h \in Handlers : pc[h] \notin {"idle", "send"} => turn = h

Init ==
    /\ row = [status |-> "active", lease |-> Lease, cursor |-> -1]
    /\ obj = [h \in Handlers |-> row]
    /\ op = [h \in Handlers |-> "get"]
    /\ pc = [h \in Handlers |-> "idle"]
    /\ turn = NoOne
    /\ clock = 0
    /\ store \in Stores
    /\ offload \in Offloads
    /\ promised = Lease
    /\ overtaken = {}

-----------------------------------------------------------------------------
\* The Subscription object in the handler's hands.
Held(h) == IF LiveRefs THEN row ELSE obj[h]

\* The handler assigns fields of that object.
Mutate(h, new) ==
    /\ row' = IF LiveRefs THEN new ELSE row
    /\ obj' = IF LiveRefs THEN obj ELSE [obj EXCEPT ![h] = new]

\* The handler may run, and goes on to label without awaiting ...
GoOn(h, label) ==
    /\ turn \in {h, NoOne}
    /\ pc' = [pc EXCEPT ![h] = label]
    /\ turn' = h

\* ... after a store call, which is awaited if offloaded ...
GoOnAfterStore(h, label) ==
    /\ turn \in {h, NoOne}
    /\ pc' = [pc EXCEPT ![h] = label]
    /\ turn' = IF offload THEN NoOne ELSE h

\* ... or stops running: it awaits a send, or it is done.
Stop(h, label) ==
    /\ turn \in {h, NoOne}
    /\ pc' = [pc EXCEPT ![h] = label]
    /\ turn' = NoOne

\* A request arrives, or a worker comes round.
Call(h, what) ==
    /\ pc[h] = "idle"
    /\ turn = NoOne
    /\ op' = [op EXCEPT ![h] = what]
    /\ pc' = [pc EXCEPT ![h] = "load"]
    /\ turn' = IF offload THEN NoOne ELSE h
    /\ UNCHANGED <<row, obj, clock, promised>>

\* subs.get, or this subscription's entry in subs.list_all.
Load(h) ==
    /\ pc[h] = "load"
    /\ obj' = IF LiveRefs THEN obj ELSE [obj EXCEPT ![h] = row]
    /\ GoOnAfterStore(h, "check")
    /\ UNCHANGED <<row, op, clock, promised>>

\* Mutant: a lease expires one tick early.
DueEarly(h) ==
    /\ Held(h).status = "active"
    /\ Held(h).lease <= clock + 1

\* _expire_if_due's test.
Due(h) ==
    /\ Held(h).status = "active"
    /\ Held(h).lease <= clock

\* Mutant: get_subscription does not ask whether the subscription is deleted.
NotFoundNever(h) == FALSE

\* get_subscription's SUBSCRIPTION_NOT_FOUND.
NotFound(h) ==
    /\ op[h] \in {"get", "renew", "ack"}
    /\ Held(h).status = "deleted"

\* get_subscription and _is_active expire a lapsed lease; retry_delivery looks
\* at the status alone, and delete at nothing.
Check(h) ==
    /\ pc[h] = "check"
    /\ \/ /\ NotFound(h)
          /\ Stop(h, "idle")
          /\ UNCHANGED <<row, obj>>
       \/ /\ ~NotFound(h)
          /\ op[h] \notin {"delete", "retry"}
          /\ Due(h)
          /\ Mutate(h, [Held(h) EXCEPT !.status = "expired"])
          /\ GoOnAfterStore(h, "expire")
       \/ /\ ~NotFound(h)
          /\ op[h] \in {"delete", "retry"} \/ ~Due(h)
          /\ GoOn(h, "act")
          /\ UNCHANGED <<row, obj>>
    /\ UNCHANGED <<op, clock, promised>>

\* subs.update of the expired status.
ExpireWrite(h) ==
    /\ pc[h] = "expire"
    /\ row' = Held(h)
    /\ GoOnAfterStore(h, "act")
    /\ UNCHANGED <<obj, op, clock, promised>>

ActGet(h) ==
    /\ pc[h] = "act"
    /\ op[h] = "get"
    /\ Stop(h, "idle")
    /\ UNCHANGED <<row, obj, op, clock, promised>>

\* renew: a fresh lease and ACTIVE.
ActRenew(h) ==
    /\ pc[h] = "act"
    /\ op[h] = "renew"
    /\ Mutate(h, [Held(h) EXCEPT !.lease = clock + Lease, !.status = "active"])
    /\ GoOnAfterStore(h, "write")
    /\ UNCHANGED <<op, clock, promised>>

\* delete: DELETED; the row stays.
ActDelete(h) ==
    /\ pc[h] = "act"
    /\ op[h] = "delete"
    /\ Mutate(h, [Held(h) EXCEPT !.status = "deleted"])
    /\ GoOnAfterStore(h, "write")
    /\ UNCHANGED <<op, clock, promised>>

\* A dispatcher goes on to its next event with the object it has.
AfterAdvance(h) == IF op[h] = "dispatch" THEN "send" ELSE "idle"

\* _advance: a cursor above the object's own is set and written; another one
\* writes nothing.
Advance(h, c) ==
    \/ /\ c > Held(h).cursor
       /\ Mutate(h, [Held(h) EXCEPT !.cursor = c])
       /\ GoOnAfterStore(h, "write")
    \/ /\ c <= Held(h).cursor
       /\ Stop(h, AfterAdvance(h))
       /\ UNCHANGED <<row, obj>>

\* ack of cursor c: SUBSCRIPTION_EXPIRED unless active.
ActAck(h, c) ==
    /\ pc[h] = "act"
    /\ op[h] = "ack"
    /\ \/ /\ Held(h).status = "active"
          /\ Advance(h, c)
       \/ /\ Held(h).status # "active"
          /\ Stop(h, "idle")
          /\ UNCHANGED <<row, obj>>
    /\ UNCHANGED <<op, clock, promised>>

\* _dispatch_subscription and retry_delivery send only when active.
ActSend(h) ==
    /\ pc[h] = "act"
    /\ op[h] \in {"dispatch", "retry"}
    /\ Stop(h, IF Held(h).status = "active" THEN "send" ELSE "idle")
    /\ UNCHANGED <<row, obj, op, clock, promised>>

\* _on_delivered: the send of the event at c was acknowledged.
Delivered(h, c) ==
    /\ pc[h] = "send"
    /\ Advance(h, c)
    /\ UNCHANGED <<op, clock, promised>>

\* The catch-up reaches the head, or the send fails.
EndSend(h) ==
    /\ pc[h] = "send"
    /\ Stop(h, "idle")
    /\ UNCHANGED <<row, obj, op, clock, promised>>

\* subs.update: the whole record.
Write(h) ==
    /\ pc[h] = "write"
    /\ row' = Held(h)
    /\ promised' = IF op[h] = "renew" THEN Held(h).lease ELSE promised
    /\ Stop(h, AfterAdvance(h))
    /\ UNCHANGED <<obj, op, clock>>

\* Time passes.
Tick ==
    /\ clock < MaxTime
    /\ clock' = clock + 1
    /\ UNCHANGED <<row, obj, op, pc, turn, promised>>

Step(h) ==
    \/ \E what \in Ops : Call(h, what)
    \/ Load(h) \/ Check(h) \/ ExpireWrite(h)
    \/ ActGet(h) \/ ActRenew(h) \/ ActDelete(h) \/ ActSend(h)
    \/ \E c \in Cursors : ActAck(h, c) \/ Delivered(h, c)
    \/ EndSend(h) \/ Write(h)

\* The handlers that have read the record and are not done with it.
Holding == {h \in Handlers : pc[h] \notin {"idle", "load"}}

\* A change of the record overtakes every other handler that holds it.
Overtake(h) ==
    overtaken' = Holding' \cap (overtaken \cup IF row' = row THEN {} ELSE Holding \ {h})

Next ==
    /\ \/ Tick /\ UNCHANGED overtaken
       \/ \E h \in Handlers : Step(h) /\ Overtake(h)
    /\ UNCHANGED <<store, offload>>

Spec == Init /\ [][Next]_vars
-----------------------------------------------------------------------------
(* Properties *)

\* A deleted subscription stays deleted: no handler that was under way when
\* delete() answered brings it back.
DeletedIsFinal ==
    [][row.status = "deleted" => row'.status = "deleted"]_vars

\* An overtaken handler takes this step.
LateStep == \E h \in overtaken : pc'[h] # pc[h]

\* Only a handler that read the record before somebody else changed it can bring a
\* deleted subscription back, and with live references and store calls that do not
\* await not even such a one.
RevivedByLateOnly ==
    [][row.status = "deleted" /\ row'.status # "deleted" =>
           LateStep /\ (~LiveRefs \/ offload)]_vars

\* The record keeps the lease the last answered renewal promised, and says expired
\* only when the lease is over.
LeaseStands ==
    /\ promised <= row.lease
    /\ row.status = "expired" => row.lease <= clock

\* A promised lease is never cut short, wherever the handlers await between reading
\* the record, checking the lease and writing it; only the late write of a copy,
\* which the in-memory store does not have, takes it away.
LeaseHonoured ==
    [][LeaseStands => LeaseStands' \/ (LateStep /\ ~LiveRefs)]_vars
=============================================================================
