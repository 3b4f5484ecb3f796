---------------------- MODULE SubscriptionRecordProofs ----------------------
(***************************************************************************)
(* What the handlers keep of a subscription's record, for any number of     *)
(* them, any lease and any cursors, over both stores and with or without    *)
(* store calls that await.  The argument compares what a handler holds with  *)
(* what is stored: they agree as long as nobody has overtaken the handler.   *)
(***************************************************************************)
EXTENDS SubscriptionRecord, TLAPS

-----------------------------------------------------------------------------
(* Types *)

CoreOK ==
    /\ row \in Record
    /\ obj \in [Handlers -> Record]
    /\ op \in [Handlers -> Ops]
    /\ pc \in [Handlers -> {"idle", "load", "check", "expire", "act", "send",
                            "write"}]
    /\ turn \in Handlers \cup {NoOne}
    /\ clock \in 0 .. MaxTime
    /\ promised \in 0 .. MaxTime + Lease
    /\ ~offload => \A h \in Handlers : pc[h] \notin {"idle", "send"} => turn = h

LEMMA InitType == Init => TypeOK
<1> SUFFICES ASSUME Init PROVE TypeOK
  OBVIOUS
<1>1. row \in Record
  BY RecordAssumption DEF Init, Record, Cursors
<1> QED
  BY <1>1, RecordAssumption DEF Init, TypeOK, Ops

\* The turn passes as the event loop passes it.
LEMMA TurnType ==
    ASSUME CoreOK, NEW h \in Handlers,
           NEW label \in {"idle", "load", "check", "expire", "act", "send", "write"},
           \/ GoOn(h, label)
           \/ GoOnAfterStore(h, label)
           \/ Stop(h, label) /\ label \in {"idle", "send"}
    PROVE  /\ pc' \in [Handlers -> {"idle", "load", "check", "expire", "act", "send",
                                    "write"}]
           /\ turn' \in Handlers \cup {NoOne}
           /\ ~offload => \A g \in Handlers : pc'[g] \notin {"idle", "send"} => turn' = g
BY RecordAssumption DEF CoreOK, GoOn, GoOnAfterStore, Stop

LEMMA MutateType ==
    ASSUME CoreOK, NEW h \in Handlers, NEW new \in Record, Mutate(h, new)
    PROVE  row' \in Record /\ obj' \in [Handlers -> Record]
BY RecordAssumption DEF CoreOK, Mutate

LEMMA HeldType ==
    ASSUME CoreOK, NEW h \in Handlers
    PROVE  Held(h) \in Record
BY RecordAssumption DEF CoreOK, Held

LEMMA StepType ==
    ASSUME CoreOK, NEW h \in Handlers, Step(h), offload' = offload
    PROVE  CoreOK'
<1>0. Held(h) \in Record
  BY HeldType
<1>1. ASSUME NEW what \in Ops, Call(h, what) PROVE CoreOK'
  BY <1>1, RecordAssumption DEF Call, CoreOK
<1>2. CASE Load(h)
  <2>1. obj' \in [Handlers -> Record]
    BY <1>2 DEF Load, CoreOK
  <2> QED
    BY <1>2, <2>1, TurnType DEF Load, CoreOK
<1>3. CASE Check(h)
  <2>1. [Held(h) EXCEPT !.status = "expired"] \in Record
    BY <1>0 DEF Record
  <2>2. row' \in Record /\ obj' \in [Handlers -> Record]
    BY <1>3, <2>1, MutateType DEF Check, CoreOK
  <2>3. \/ Stop(h, "idle") \/ GoOnAfterStore(h, "expire") \/ GoOn(h, "act")
    BY <1>3 DEF Check
  <2> QED
    BY <1>3, <2>2, <2>3, TurnType DEF Check, CoreOK
<1>4. CASE ExpireWrite(h)
  BY <1>0, <1>4, TurnType DEF ExpireWrite, CoreOK
<1>5. CASE ActGet(h) \/ EndSend(h)
  BY <1>5, TurnType DEF ActGet, EndSend, CoreOK
<1>6. CASE ActRenew(h)
  <2>1. clock + Lease \in 0 .. MaxTime + Lease
    BY RecordAssumption DEF CoreOK
  <2>2. [Held(h) EXCEPT !.lease = clock + Lease, !.status = "active"] \in Record
    BY <1>0, <2>1 DEF Record
  <2> QED
    BY <1>6, <2>2, MutateType, TurnType DEF ActRenew, CoreOK
<1>7. CASE ActDelete(h)
  <2>1. [Held(h) EXCEPT !.status = "deleted"] \in Record
    BY <1>0 DEF Record
  <2> QED
    BY <1>7, <2>1, MutateType, TurnType DEF ActDelete, CoreOK
<1>8. CASE ActSend(h)
  BY <1>8, TurnType DEF ActSend, CoreOK
<1>9. ASSUME NEW c \in Cursors, Advance(h, c), UNCHANGED <<op, clock, promised>>
      PROVE  CoreOK'
  <2>1. [Held(h) EXCEPT !.cursor = c] \in Record
    BY <1>0, <1>9 DEF Record
  <2>2. row' \in Record /\ obj' \in [Handlers -> Record]
    BY <1>9, <2>1, MutateType DEF Advance, CoreOK
  <2>3. GoOnAfterStore(h, "write") \/ Stop(h, AfterAdvance(h))
    BY <1>9 DEF Advance
  <2> QED
    BY <1>9, <2>2, <2>3, TurnType DEF AfterAdvance, CoreOK
<1>10. ASSUME NEW c \in Cursors, ActAck(h, c) PROVE CoreOK'
  <2>1. CASE Advance(h, c)
    BY <1>9, <1>10, <2>1 DEF ActAck
  <2>2. CASE Stop(h, "idle") /\ UNCHANGED <<row, obj>>
    BY <1>10, <2>2, TurnType DEF ActAck, CoreOK
  <2> QED
    BY <1>10, <2>1, <2>2 DEF ActAck
<1>11. ASSUME NEW c \in Cursors, Delivered(h, c) PROVE CoreOK'
  BY <1>9, <1>11 DEF Delivered
<1>12. CASE Write(h)
  <2>1. promised' \in 0 .. MaxTime + Lease
    BY <1>0, <1>12 DEF Write, CoreOK, Record
  <2>2. AfterAdvance(h) \in {"idle", "send"}
    BY DEF AfterAdvance
  <2> QED
    BY <1>0, <1>12, <2>1, <2>2, TurnType DEF Write, CoreOK
<1> QED
  BY <1>1, <1>2, <1>3, <1>4, <1>5, <1>6, <1>7, <1>8, <1>10, <1>11, <1>12 DEF Step

LEMMA NextType == TypeOK /\ [Next]_vars => TypeOK'
<1> SUFFICES ASSUME TypeOK, [Next]_vars PROVE TypeOK'
  OBVIOUS
<1>0. CoreOK
  BY DEF TypeOK, CoreOK
<1>1. UNCHANGED <<store, offload>>
  BY DEF Next, vars
<1>2. CoreOK' /\ overtaken' \subseteq Handlers
  <2>1. CASE Tick /\ UNCHANGED overtaken
    BY <1>0, <1>1, <2>1, RecordAssumption DEF Tick, CoreOK, TypeOK
  <2>2. ASSUME NEW h \in Handlers, Step(h), Overtake(h)
        PROVE  CoreOK' /\ overtaken' \subseteq Handlers
    BY <1>0, <1>1, <2>2, StepType DEF Overtake, Holding
  <2>3. CASE UNCHANGED vars
    BY <1>0, <2>3 DEF vars, CoreOK, TypeOK
  <2> QED
    BY <2>1, <2>2, <2>3 DEF Next
<1> QED
  BY <1>1, <1>2 DEF TypeOK, CoreOK

LEMMA Types == Spec => []TypeOK
BY InitType, NextType, PTL DEF Spec

-----------------------------------------------------------------------------
(* What a handler holds and what is stored *)

\* No lease, stored or held, is longer than one granted now.
LeaseBound ==
    /\ row.lease <= clock + Lease
    /\ \A h \in Handlers : obj[h].lease <= clock + Lease

\* The copy of a handler nobody has overtaken is the stored record, or the record
\* with the change the handler is about to write.
FreshCopy(h) ==
    /\ pc[h] \in {"check", "act", "send"} => obj[h] = row
    /\ pc[h] = "send" => op[h] \in {"dispatch", "retry"}
    /\ pc[h] = "expire" =>
           /\ row.status = "active" /\ row.lease <= clock
           /\ obj[h] = [row EXCEPT !.status = "expired"]
    /\ pc[h] = "write" =>
           \/ /\ op[h] = "renew" /\ row.status # "deleted"
              /\ obj[h] = [row EXCEPT !.lease = obj[h].lease, !.status = "active"]
           \/ op[h] = "delete" /\ obj[h] = [row EXCEPT !.status = "deleted"]
           \/ /\ op[h] \notin {"renew", "delete"}
              /\ obj[h] = [row EXCEPT !.cursor = obj[h].cursor]

CopyInv == ~LiveRefs => \A h \in Holding \ overtaken : FreshCopy(h)

\* A handler that went past get_subscription's test still finds what it found there.
PastTheTest(h) ==
    pc[h] = "expire" \/ (pc[h] = "act" /\ op[h] \notin {"delete", "retry", "dispatch"})

CheckedInv ==
    \A h \in Handlers :
        (h \notin overtaken \/ (LiveRefs /\ ~offload)) /\ PastTheTest(h)
            => row.status # "deleted"

RecordInv == TypeOK /\ LeaseBound /\ CopyInv /\ CheckedInv

\* Handlers that do not step.
LEMMA Others ==
    ASSUME CoreOK, NEW h \in Handlers, Step(h)
    PROVE  /\ turn \in {h, NoOne} /\ clock' = clock
           /\ \A g \in Handlers \ {h} :
                  pc'[g] = pc[g] /\ op'[g] = op[g] /\ obj'[g] = obj[g]
<1>1. turn \in {h, NoOne} /\ clock' = clock
  BY DEF Step, Call, Load, Check, ExpireWrite, ActGet, ActRenew, ActDelete,
     ActSend, ActAck, Delivered, Advance, EndSend, Write, GoOn, GoOnAfterStore, Stop
<1>2. \A g \in Handlers \ {h} : pc'[g] = pc[g] /\ op'[g] = op[g]
  BY DEF Step, Call, Load, Check, ExpireWrite, ActGet, ActRenew, ActDelete,
     ActSend, ActAck, Delivered, Advance, EndSend, Write, GoOn, GoOnAfterStore,
     Stop, CoreOK
<1>3. \A g \in Handlers \ {h} : obj'[g] = obj[g]
  BY DEF Step, Call, Load, Check, ExpireWrite, ActGet, ActRenew, ActDelete,
     ActSend, ActAck, Delivered, Advance, EndSend, Write, Mutate, CoreOK
<1> QED BY <1>1, <1>2, <1>3

-----------------------------------------------------------------------------
(* With live references every handler works on the stored record itself. *)

\* The ways a step may change the record.
Changed(h) ==
    \/ row' = row
    \/ /\ row.status = "active" /\ row.lease <= clock
       /\ row' = [row EXCEPT !.status = "expired"]
    \/ /\ pc[h] = "act" /\ op[h] = "renew"
       /\ row' = [row EXCEPT !.lease = clock + Lease, !.status = "active"]
    \/ row' = [row EXCEPT !.status = "deleted"]
    \/ \E c \in Cursors : c > row.cursor /\ row' = [row EXCEPT !.cursor = c]

LEMMA LiveStep ==
    ASSUME LiveRefs, CoreOK, NEW h \in Handlers, Step(h)
    PROVE  /\ Changed(h)
           /\ clock' = clock
           /\ promised' \in {promised, row'.lease}
<1>1. Held(h) = row
  BY DEF Held
<1>2. ASSUME NEW new, Mutate(h, new) PROVE row' = new
  BY <1>2 DEF Mutate
<1>3. ASSUME NEW what \in Ops, Call(h, what) PROVE UNCHANGED <<row, clock, promised>>
  BY <1>3 DEF Call
<1>4. CASE Load(h) \/ ActGet(h) \/ ActSend(h) \/ EndSend(h)
  BY <1>4 DEF Load, ActGet, ActSend, EndSend, Changed
<1>5. CASE Check(h)
  <2>1. CASE UNCHANGED <<row, obj>>
    BY <1>5, <2>1 DEF Check, Changed
  <2>2. CASE Due(h) /\ Mutate(h, [Held(h) EXCEPT !.status = "expired"])
    BY <1>1, <1>2, <1>5, <2>2 DEF Check, Due, Changed
  <2> QED
    BY <1>5, <2>1, <2>2 DEF Check
<1>6. CASE ExpireWrite(h)
  BY <1>1, <1>6 DEF ExpireWrite, Changed
<1>7. CASE ActRenew(h)
  BY <1>1, <1>2, <1>7 DEF ActRenew, Changed
<1>8. CASE ActDelete(h)
  BY <1>1, <1>2, <1>8 DEF ActDelete, Changed
<1>9. ASSUME NEW c \in Cursors, ActAck(h, c) \/ Delivered(h, c)
      PROVE  Changed(h) /\ UNCHANGED <<clock, promised>>
  <2>1. CASE row' = row
    BY <1>9, <2>1 DEF ActAck, Delivered, Changed
  <2>2. CASE c > Held(h).cursor /\ Mutate(h, [Held(h) EXCEPT !.cursor = c])
    BY <1>1, <1>2, <1>9, <2>2 DEF ActAck, Delivered, Changed
  <2> QED
    BY <1>9, <2>1, <2>2 DEF ActAck, Delivered, Advance
<1>10. CASE Write(h)
  BY <1>1, <1>10 DEF Write, Changed
<1> QED
  BY <1>3, <1>4, <1>5, <1>6, <1>7, <1>8, <1>9, <1>10 DEF Step, Changed

-----------------------------------------------------------------------------
(* With copies the record changes only where one is written back. *)

LEMMA CopyStep ==
    ASSUME ~LiveRefs, CoreOK, NEW h \in Handlers, Step(h)
    PROVE  /\ \/ row' = row
              \/ /\ pc[h] \in {"expire", "write"} /\ row' = obj[h]
                 /\ pc'[h] # pc[h]
           /\ promised' = IF pc[h] = "write" /\ op[h] = "renew" THEN row'.lease ELSE promised
<1>1. Held(h) = obj[h]
  BY DEF Held
<1>2. \A new : Mutate(h, new) => row' = row
  BY DEF Mutate
<1>3. CASE ExpireWrite(h)
  BY <1>1, <1>3 DEF ExpireWrite, GoOnAfterStore, CoreOK
<1>4. CASE Write(h)
  <2>1. pc[h] = "write" /\ row' = obj[h] /\ pc'[h] = AfterAdvance(h)
        /\ promised' = IF op[h] = "renew" THEN obj[h].lease ELSE promised
    BY <1>1, <1>4 DEF Write, Stop, CoreOK
  <2> QED BY <2>1 DEF AfterAdvance
<1>5. CASE Check(h)
  BY <1>2, <1>5 DEF Check
<1>6. CASE ~ExpireWrite(h) /\ ~Write(h) /\ ~Check(h)
  <2>1. row' = row /\ promised' = promised /\ pc[h] # "write"
    BY <1>2, <1>6 DEF Step, Call, Load, ActGet, ActRenew, ActDelete,
       ActSend, ActAck, Delivered, Advance, EndSend
  <2> QED BY <2>1
<1> QED BY <1>3, <1>4, <1>5, <1>6

\* The copy of a handler that was not overtaken stays in step with its own steps.
LEMMA OwnCopy ==
    ASSUME ~LiveRefs, CoreOK, CheckedInv, NEW h \in Handlers, Step(h), h \notin overtaken,
           h \in Holding => FreshCopy(h), h \in Holding'
    PROVE  FreshCopy(h)'
<1>0. /\ Held(h) = obj[h] /\ obj \in [Handlers -> Record] /\ row \in Record
      /\ pc \in [Handlers -> {"idle", "load", "check", "expire", "act", "send", "write"}]
  BY DEF Held, CoreOK
<1>1. \A new : Mutate(h, new) => row' = row /\ obj'[h] = new
  BY <1>0 DEF Mutate
<1>2. ASSUME NEW what \in Ops, Call(h, what) PROVE FreshCopy(h)'
  BY <1>0, <1>2 DEF Call, Holding
<1>3. CASE Load(h)
  BY <1>0, <1>3 DEF Load, GoOnAfterStore, FreshCopy
<1>4. CASE Check(h)
  <2>0. obj[h] = row /\ op' = op /\ clock' = clock
    BY <1>4 DEF Check, FreshCopy, Holding
  <2>1. CASE NotFound(h) /\ Stop(h, "idle")
    BY <1>0, <2>1 DEF Stop, Holding
  <2>2. CASE Due(h) /\ Mutate(h, [Held(h) EXCEPT !.status = "expired"])
             /\ GoOnAfterStore(h, "expire")
    <3>1. /\ row' = row /\ obj'[h] = [row EXCEPT !.status = "expired"]
          /\ row.status = "active" /\ row.lease <= clock /\ pc'[h] = "expire"
      BY <1>0, <1>1, <2>0, <2>2 DEF Due, GoOnAfterStore
    <3> QED BY <2>0, <3>1 DEF FreshCopy
  <2>3. CASE GoOn(h, "act") /\ UNCHANGED <<row, obj>>
    <3>1. pc'[h] = "act" /\ obj'[h] = row'
      BY <1>0, <2>0, <2>3 DEF GoOn
    <3> QED BY <3>1 DEF FreshCopy
  <2> QED BY <1>4, <2>1, <2>2, <2>3 DEF Check
<1>5. CASE ExpireWrite(h)
  <2>1. row' = obj[h] /\ obj' = obj /\ pc'[h] = "act"
    BY <1>0, <1>5 DEF ExpireWrite, GoOnAfterStore
  <2> QED BY <2>1 DEF FreshCopy
<1>6. CASE ActGet(h) \/ EndSend(h)
  BY <1>0, <1>6 DEF ActGet, EndSend, Stop, Holding
<1>7. CASE ActSend(h)
  <2>1. /\ obj[h] = row /\ UNCHANGED <<row, obj, op>> /\ pc'[h] \in {"send", "idle"}
        /\ op[h] \in {"dispatch", "retry"}
    BY <1>0, <1>7 DEF ActSend, Stop, FreshCopy, Holding
  <2> QED BY <2>1 DEF FreshCopy, Holding
<1>8. CASE ActRenew(h)
  <2>1. /\ obj[h] = row /\ pc[h] = "act" /\ op[h] = "renew"
        /\ row' = row /\ pc'[h] = "write" /\ op'[h] = "renew"
        /\ obj'[h] = [row EXCEPT !.lease = clock + Lease, !.status = "active"]
    BY <1>0, <1>1, <1>8 DEF ActRenew, GoOnAfterStore, FreshCopy, Holding
  <2>2. row.status # "deleted"
    BY <2>1 DEF CheckedInv, PastTheTest
  <2>3. obj'[h].lease = clock + Lease
    BY <1>0, <2>1 DEF Record
  <2>4. obj'[h] = [row' EXCEPT !.lease = obj'[h].lease, !.status = "active"]
    BY <2>1, <2>3
  <2> QED BY <2>1, <2>2, <2>4 DEF FreshCopy
<1>9. CASE ActDelete(h)
  <2>1. /\ obj[h] = row /\ row' = row /\ pc'[h] = "write" /\ op'[h] = "delete"
        /\ obj'[h] = [row EXCEPT !.status = "deleted"]
    BY <1>0, <1>1, <1>9 DEF ActDelete, GoOnAfterStore, FreshCopy, Holding
  <2> QED BY <2>1 DEF FreshCopy
<1>10. ASSUME NEW c \in Cursors, Advance(h, c), op' = op, pc[h] \in {"act", "send"},
              op[h] \notin {"renew", "delete"}
       PROVE  FreshCopy(h)'
  <2>0. obj[h] = row
    BY <1>10 DEF FreshCopy, Holding
  <2>1. CASE Mutate(h, [Held(h) EXCEPT !.cursor = c]) /\ GoOnAfterStore(h, "write")
    <3>1. row' = row /\ pc'[h] = "write" /\ obj'[h] = [row EXCEPT !.cursor = c]
      BY <1>0, <1>1, <2>0, <2>1 DEF GoOnAfterStore
    <3>2. obj'[h].cursor = c
      BY <1>0, <3>1 DEF Record
    <3>3. obj'[h] = [row' EXCEPT !.cursor = obj'[h].cursor]
      BY <3>1, <3>2
    <3> QED BY <1>10, <3>1, <3>3 DEF FreshCopy
  <2>2. CASE Stop(h, AfterAdvance(h)) /\ UNCHANGED <<row, obj>>
    <3>1. /\ pc'[h] \in {"send", "idle"} /\ obj'[h] = row'
          /\ pc'[h] = "send" => op[h] = "dispatch"
      BY <1>0, <2>0, <2>2 DEF Stop, AfterAdvance
    <3> QED BY <1>10, <3>1 DEF FreshCopy, Holding
  <2> QED BY <1>10, <2>1, <2>2 DEF Advance
<1>11. ASSUME NEW c \in Cursors, ActAck(h, c) PROVE FreshCopy(h)'
  <2>1. CASE Advance(h, c)
    BY <1>10, <1>11, <2>1 DEF ActAck
  <2>2. CASE Stop(h, "idle")
    BY <1>0, <2>2 DEF Stop, Holding
  <2> QED BY <1>11, <2>1, <2>2 DEF ActAck
<1>12. ASSUME NEW c \in Cursors, Delivered(h, c) PROVE FreshCopy(h)'
  <2>1. pc[h] = "send" /\ Advance(h, c) /\ op' = op
    BY <1>12 DEF Delivered
  <2>2. op[h] \in {"dispatch", "retry"}
    BY <2>1 DEF FreshCopy, Holding
  <2> QED BY <1>10, <2>1, <2>2
<1>13. CASE Write(h)
  <2>1. /\ row' = obj[h] /\ obj' = obj /\ op' = op /\ pc'[h] \in {"send", "idle"}
        /\ pc'[h] = "send" => op[h] = "dispatch"
    BY <1>0, <1>13 DEF Write, Stop, AfterAdvance
  <2> QED BY <2>1 DEF FreshCopy, Holding
<1> QED
  BY <1>2, <1>3, <1>4, <1>5, <1>6, <1>7, <1>8, <1>9, <1>11, <1>12, <1>13 DEF Step

-----------------------------------------------------------------------------
(* The invariant *)

LEMMA InitRecord == Init => RecordInv /\ LeaseStands
<1> SUFFICES ASSUME Init PROVE RecordInv /\ LeaseStands
  OBVIOUS
<1>1. TypeOK
  BY InitType
<1>2. LeaseBound /\ LeaseStands
  BY RecordAssumption DEF Init, LeaseBound, LeaseStands
<1>3. CopyInv /\ CheckedInv
  BY DEF Init, CopyInv, CheckedInv, PastTheTest, Holding
<1> QED BY <1>1, <1>2, <1>3 DEF RecordInv

\* A handler that is not overtaken after its step was not before it.
LEMMA NotYetOvertaken ==
    ASSUME NEW h \in Handlers, Overtake(h), NEW g \in Handlers, g \in Holding', g \notin overtaken'
    PROVE  /\ g \notin overtaken
           /\ g # h /\ g \in Holding => row' = row
BY DEF Overtake

LEMMA BoundStep ==
    ASSUME CoreOK, LeaseBound, NEW h \in Handlers, Step(h)
    PROVE  LeaseBound'
<1>0. /\ row \in Record /\ obj \in [Handlers -> Record] /\ clock \in Nat /\ Lease \in Nat
      /\ clock' = clock /\ clock + Lease <= clock + Lease
  BY RecordAssumption, Others DEF CoreOK
<1>1. Held(h).lease <= clock + Lease /\ Held(h) \in Record
  BY <1>0 DEF Held, LeaseBound
<1>2. ASSUME NEW new \in Record, Mutate(h, new), new.lease <= clock + Lease
      PROVE  LeaseBound'
  BY <1>0, <1>2 DEF Mutate, LeaseBound
<1>3. ASSUME row' = Held(h), obj' = obj PROVE LeaseBound'
  BY <1>0, <1>1, <1>3 DEF LeaseBound
<1>4. ASSUME row' = row, obj' = obj PROVE LeaseBound'
  BY <1>0, <1>4 DEF LeaseBound
<1>5. CASE Load(h)
  BY <1>0, <1>5 DEF Load, LeaseBound
<1>6. CASE Check(h)
  <2>1. [Held(h) EXCEPT !.status = "expired"] \in Record
        /\ [Held(h) EXCEPT !.status = "expired"].lease <= clock + Lease
    BY <1>1 DEF Record
  <2> QED BY <1>2, <1>4, <1>6, <2>1 DEF Check
<1>7. CASE ActRenew(h)
  <2> DEFINE new == [Held(h) EXCEPT !.lease = clock + Lease, !.status = "active"]
  <2>1. clock + Lease \in 0 .. MaxTime + Lease
    BY RecordAssumption DEF CoreOK
  <2>2. new \in Record /\ new.lease <= clock + Lease
    BY <1>0, <1>1, <2>1 DEF Record
  <2> HIDE DEF new
  <2>3. Mutate(h, new)
    BY <1>7 DEF ActRenew, new
  <2> QED BY <1>2, <2>2, <2>3
<1>8. CASE ActDelete(h)
  <2>1. [Held(h) EXCEPT !.status = "deleted"] \in Record
        /\ [Held(h) EXCEPT !.status = "deleted"].lease <= clock + Lease
    BY <1>1 DEF Record
  <2> QED BY <1>2, <1>8, <2>1 DEF ActDelete
<1>9. ASSUME NEW c \in Cursors, ActAck(h, c) \/ Delivered(h, c) PROVE LeaseBound'
  <2>1. [Held(h) EXCEPT !.cursor = c] \in Record
        /\ [Held(h) EXCEPT !.cursor = c].lease <= clock + Lease
    BY <1>1 DEF Record
  <2> QED BY <1>2, <1>4, <1>9, <2>1 DEF ActAck, Delivered, Advance
<1>10. CASE ExpireWrite(h) \/ Write(h)
  BY <1>3, <1>10 DEF ExpireWrite, Write
<1>11. CASE ActGet(h) \/ ActSend(h) \/ EndSend(h) \/ \E what \in Ops : Call(h, what)
  BY <1>4, <1>11 DEF ActGet, ActSend, EndSend, Call
<1> QED BY <1>5, <1>6, <1>7, <1>8, <1>9, <1>10, <1>11 DEF Step

\* The handler's own step past the test.
LEMMA OwnCheck ==
    ASSUME CoreOK, CheckedInv, CopyInv, NEW h \in Handlers, Step(h),
           h \notin overtaken \/ (LiveRefs /\ ~offload), PastTheTest(h)'
    PROVE  row'.status # "deleted"
<1>0. /\ row \in Record /\ obj \in [Handlers -> Record] /\ op \in [Handlers -> Ops]
      /\ pc \in [Handlers -> {"idle", "load", "check", "expire", "act", "send", "write"}]
  BY DEF CoreOK
<1>1. CASE Check(h)
  <2>1. Held(h) = row /\ op' = op
    BY <1>1 DEF Held, Check, CopyInv, FreshCopy, Holding
  <2>2. CASE Due(h) /\ Mutate(h, [Held(h) EXCEPT !.status = "expired"])
    BY <1>0, <2>1, <2>2 DEF Due, Mutate, Record
  <2>3. CASE NotFound(h) /\ Stop(h, "idle")
    BY <1>0, <2>3 DEF Stop, PastTheTest
  <2>4. CASE ~NotFound(h) /\ GoOn(h, "act") /\ UNCHANGED <<row, obj>>
    <3>1. op[h] \in {"get", "renew", "ack"}
      BY <1>0, <2>1, <2>4 DEF GoOn, PastTheTest, Ops
    <3> QED BY <2>1, <2>4, <3>1 DEF NotFound
  <2> QED BY <1>1, <2>2, <2>3, <2>4 DEF Check
<1>2. CASE ExpireWrite(h)
  <2>1. row.status # "deleted"
    BY <1>2 DEF ExpireWrite, CheckedInv, PastTheTest
  <2>2. CASE LiveRefs
    BY <1>2, <2>1, <2>2 DEF ExpireWrite, Held
  <2>3. CASE ~LiveRefs
    <3>1. row' = obj[h] /\ obj[h] = [row EXCEPT !.status = "expired"]
      BY <1>2, <2>3 DEF ExpireWrite, Held, CopyInv, FreshCopy, Holding
    <3> QED BY <1>0, <3>1 DEF Record
  <2> QED BY <2>2, <2>3
<1>3. CASE ~Check(h) /\ ~ExpireWrite(h)
  <2>1. pc'[h] \notin {"expire", "act"}
    BY <1>0, <1>3 DEF Step, Call, Load, ActGet, ActRenew, ActDelete,
       ActSend, ActAck, Delivered, Advance, AfterAdvance, EndSend, Write, GoOn,
       GoOnAfterStore, Stop
  <2> QED BY <2>1 DEF PastTheTest
<1> QED BY <1>1, <1>2, <1>3

LEMMA NextRecord == RecordInv /\ [Next]_vars => RecordInv'
<1> SUFFICES ASSUME RecordInv, [Next]_vars PROVE RecordInv'
  OBVIOUS
<1>0. TypeOK' /\ CoreOK /\ UNCHANGED <<store, offload>>
  BY NextType DEF RecordInv, TypeOK, CoreOK, Next, vars
<1>1. CASE Tick /\ UNCHANGED overtaken
  <2>1. /\ UNCHANGED <<row, obj, op, pc, overtaken>> /\ clock' = clock + 1 /\ clock \in Nat
        /\ row.lease \in Int /\ \A h \in Handlers : obj[h].lease \in Int
    BY <1>0, <1>1, RecordAssumption DEF Tick, CoreOK, Record
  <2>2. LeaseBound'
    BY <2>1, RecordAssumption DEF RecordInv, LeaseBound
  <2>3. \A h \in Handlers : FreshCopy(h) => FreshCopy(h)'
    BY <2>1 DEF FreshCopy
  <2>4. CopyInv' /\ CheckedInv'
    BY <1>0, <2>1, <2>3 DEF RecordInv, CopyInv, CheckedInv, PastTheTest, LiveRefs, Holding
  <2> QED BY <1>0, <2>2, <2>4 DEF RecordInv
<1>2. ASSUME NEW h \in Handlers, Step(h), Overtake(h) PROVE RecordInv'
  <2>1. /\ turn \in {h, NoOne} /\ clock' = clock
        /\ \A g \in Handlers \ {h} :
               pc'[g] = pc[g] /\ op'[g] = op[g] /\ obj'[g] = obj[g]
    BY <1>0, <1>2, Others
  <2>2. LeaseBound'
    BY <1>0, <1>2, BoundStep DEF RecordInv
  <2>3. CopyInv'
    <3> SUFFICES ASSUME ~LiveRefs, NEW g \in Handlers, g \in Holding', g \notin overtaken'
                 PROVE  FreshCopy(g)'
      BY <1>0 DEF CopyInv, LiveRefs, Holding
    <3>1. g \notin overtaken
      BY <1>2, NotYetOvertaken
    <3>2. CASE g = h
      BY <1>0, <1>2, <3>1, <3>2, OwnCopy DEF RecordInv, CopyInv
    <3>3. CASE g # h
      <4>1. g \in Holding /\ row' = row
        BY <1>2, <2>1, <3>3, NotYetOvertaken DEF Holding
      <4> QED BY <2>1, <3>1, <3>3, <4>1 DEF RecordInv, CopyInv, FreshCopy
    <3> QED BY <3>2, <3>3
  <2>4. CheckedInv'
    <3> SUFFICES ASSUME NEW g \in Handlers, PastTheTest(g)',
                        g \notin overtaken' \/ (LiveRefs /\ ~offload)
                 PROVE  row'.status # "deleted"
      BY <1>0 DEF CheckedInv, LiveRefs
    <3>0. g \in Holding'
      BY DEF PastTheTest, Holding
    <3>1. g \notin overtaken \/ (LiveRefs /\ ~offload)
      BY <1>2, <3>0, NotYetOvertaken
    <3>2. CASE g = h
      BY <1>0, <1>2, <3>1, <3>2, OwnCheck DEF RecordInv
    <3>3. CASE g # h
      <4>1. PastTheTest(g) /\ g \in Holding
        BY <2>1, <3>0, <3>3 DEF PastTheTest, Holding
      <4>2. row.status # "deleted"
        BY <3>1, <4>1 DEF RecordInv, CheckedInv
      <4>3. ~(LiveRefs /\ ~offload)
        BY <1>0, <2>1, <3>3, <4>1, RecordAssumption DEF PastTheTest, CoreOK
      <4>4. row' = row
        BY <1>2, <3>0, <3>3, <4>1, <4>3, NotYetOvertaken
      <4> QED BY <4>2, <4>4
    <3> QED BY <3>2, <3>3
  <2> QED BY <1>0, <2>2, <2>3, <2>4 DEF RecordInv
<1>3. CASE UNCHANGED vars
  <2>1. UNCHANGED <<row, obj, op, pc, clock, store, offload, overtaken>>
    BY <1>3 DEF vars
  <2>2. LeaseBound' /\ CheckedInv'
    BY <2>1 DEF RecordInv, LeaseBound, CheckedInv, PastTheTest, LiveRefs
  <2>3. \A h \in Handlers : FreshCopy(h) => FreshCopy(h)'
    BY <2>1 DEF FreshCopy
  <2>4. CopyInv'
    BY <2>1, <2>3 DEF RecordInv, CopyInv, LiveRefs, Holding
  <2> QED BY <1>0, <2>2, <2>4 DEF RecordInv
<1> QED BY <1>1, <1>2, <1>3 DEF Next

LEMMA RecordHolds == Spec => []RecordInv
BY InitRecord, NextRecord, PTL DEF Spec

-----------------------------------------------------------------------------
(* Leases *)

LEMMA LeaseStep ==
    ASSUME RecordInv, LeaseStands, [Next]_vars
    PROVE  LeaseStands' \/ (LateStep /\ ~LiveRefs)
<1>0. /\ row \in Record /\ row.lease \in Nat /\ clock \in Nat /\ promised \in Nat
      /\ obj \in [Handlers -> Record] /\ CoreOK /\ Lease \in Nat
  BY RecordAssumption DEF RecordInv, TypeOK, CoreOK, Record
<1>1. CASE Tick \/ UNCHANGED vars
  BY <1>0, <1>1 DEF Tick, vars, LeaseStands
<1>2. ASSUME NEW h \in Handlers, Step(h) PROVE LeaseStands' \/ (LateStep /\ ~LiveRefs)
  <2>0. clock' = clock
    BY <1>0, <1>2, Others
  <2>1. CASE LiveRefs
    <3>1. Changed(h) /\ promised' \in {promised, row'.lease}
      BY <1>0, <1>2, <2>1, LiveStep
    <3>2. /\ row'.lease \in {row.lease, clock + Lease}
          /\ row'.status = "expired" => row'.lease = row.lease /\ row.lease <= clock
      BY <1>0, <3>1 DEF Changed, LeaseStands, Record
    <3>3. row.lease <= clock + Lease
      BY DEF RecordInv, LeaseBound
    <3> QED BY <1>0, <2>0, <3>1, <3>2, <3>3 DEF LeaseStands
  <2>2. CASE ~LiveRefs /\ h \in overtaken
    <3>1. \/ row' = row
          \/ pc'[h] # pc[h]
      BY <1>0, <1>2, <2>2, CopyStep
    <3>2. CASE pc'[h] # pc[h]
      BY <2>2, <3>2 DEF LateStep
    <3>3. CASE row' = row
      <4>1. promised' \in {promised, row'.lease}
        BY <1>0, <1>2, <2>2, CopyStep
      <4> QED BY <1>0, <2>0, <3>3, <4>1 DEF LeaseStands
    <3> QED BY <3>1, <3>2, <3>3
  <2>3. CASE ~LiveRefs /\ h \notin overtaken
    <3>1. /\ row' = row \/ (pc[h] \in {"expire", "write"} /\ row' = obj[h])
          /\ promised' = IF pc[h] = "write" /\ op[h] = "renew" THEN row'.lease ELSE promised
      BY <1>0, <1>2, <2>3, CopyStep
    <3>2. CASE row' = row
      BY <1>0, <2>0, <3>1, <3>2 DEF LeaseStands
    <3>3. CASE pc[h] \in {"expire", "write"} /\ row' = obj[h]
      <4>1. FreshCopy(h)
        BY <2>3, <3>3 DEF RecordInv, CopyInv, Holding
      <4>2. CASE pc[h] = "expire"
        <5>1. row'.lease = row.lease /\ row.lease <= clock /\ promised' = promised
          BY <1>0, <3>1, <3>3, <4>1, <4>2 DEF FreshCopy, Record
        <5> QED BY <1>0, <2>0, <5>1 DEF LeaseStands
      <4>3. CASE pc[h] = "write"
        <5>1. CASE op[h] = "renew"
          <6>1. row'.status = "active" /\ promised' = row'.lease /\ row'.lease \in Nat
            <7>1. row' = [row EXCEPT !.lease = obj[h].lease, !.status = "active"]
              BY <3>3, <4>1, <4>3, <5>1 DEF FreshCopy
            <7>2. row'.status = "active"
              BY <1>0, <7>1 DEF Record
            <7>3. promised' = row'.lease
              BY <3>1, <4>3, <5>1
            <7>4. row'.lease \in Nat
              BY <1>0, <3>3, RecordAssumption DEF Record
            <7> QED BY <7>2, <7>3, <7>4
          <6> QED BY <6>1 DEF LeaseStands
        <5>2. CASE op[h] # "renew"
          <6>1. /\ row'.lease = row.lease /\ promised' = promised
                /\ row'.status = "expired" => row.status = "expired"
            BY <1>0, <3>1, <3>3, <4>1, <4>3, <5>2 DEF FreshCopy, Record
          <6> QED BY <1>0, <2>0, <6>1 DEF LeaseStands
        <5> QED BY <5>1, <5>2
      <4> QED BY <3>3, <4>2, <4>3
    <3> QED BY <3>1, <3>2, <3>3
  <2> QED BY <2>1, <2>2, <2>3
<1> QED BY <1>1, <1>2 DEF Next

\* Over either store, and wherever the handlers await, a promised lease is cut short
\* only by the late write of a copy; with the in-memory store it never is.
THEOREM LeasesAreHonoured == Spec => LeaseHonoured /\ [](LiveRefs => LeaseStands)
<1>1. RecordInv /\ [Next]_vars => [LeaseStands => LeaseStands' \/ (LateStep /\ ~LiveRefs)]_vars
  BY LeaseStep
<1>2. RecordInv /\ (LiveRefs => LeaseStands) /\ [Next]_vars => (LiveRefs => LeaseStands)'
  <2>1. [Next]_vars => LiveRefs' = LiveRefs
    BY DEF Next, vars, LiveRefs
  <2> QED BY <2>1, LeaseStep
<1>3. Init => (LiveRefs => LeaseStands)
  BY InitRecord
<1>4. Spec => LeaseHonoured
  BY <1>1, RecordHolds, PTL DEF Spec, LeaseHonoured
<1>5. Spec => [](LiveRefs => LeaseStands)
  BY <1>2, <1>3, RecordHolds, PTL DEF Spec
<1> QED BY <1>4, <1>5

-----------------------------------------------------------------------------
(* Deletion *)

LEMMA ReviveStep ==
    ASSUME RecordInv, [Next]_vars, row.status = "deleted", row'.status # "deleted"
    PROVE  LateStep /\ (~LiveRefs \/ offload)
<1>0. row \in Record /\ obj \in [Handlers -> Record] /\ CoreOK
  BY DEF RecordInv, TypeOK, CoreOK
<1>1. PICK h \in Handlers : Step(h)
  BY DEF Next, Tick, vars
<1>2. CASE LiveRefs
  <2>1. Changed(h)
    BY <1>0, <1>1, <1>2, LiveStep
  <2>2. pc[h] = "act" /\ op[h] = "renew"
    BY <1>0, <2>1 DEF Changed, Record
  <2>3. h \in overtaken /\ offload
    BY <1>2, <2>2 DEF RecordInv, CheckedInv, PastTheTest
  <2>4. pc'[h] # pc[h]
    BY <1>0, <1>1, <2>2 DEF CoreOK, Step, Call, Load, Check, ExpireWrite, ActGet, ActRenew,
       ActDelete, ActSend, ActAck, Delivered, EndSend, Write, GoOnAfterStore
  <2> QED BY <2>3, <2>4 DEF LateStep
<1>3. CASE ~LiveRefs
  <2>1. pc[h] \in {"expire", "write"} /\ row' = obj[h] /\ pc'[h] # pc[h]
    BY <1>0, <1>1, <1>3, CopyStep
  <2>2. h \in overtaken
    <3> SUFFICES ASSUME h \notin overtaken PROVE FALSE
      OBVIOUS
    <3>1. FreshCopy(h)
      BY <1>3, <2>1 DEF RecordInv, CopyInv, Holding
    <3> QED BY <1>0, <2>1, <3>1 DEF FreshCopy, Record
  <2> QED BY <1>3, <2>1, <2>2 DEF LateStep
<1> QED BY <1>2, <1>3

\* Over either store, only a handler that was overtaken brings a deleted
\* subscription back.
THEOREM OnlyLateHandlersRevive == Spec => RevivedByLateOnly
<1>1. RecordInv /\ [Next]_vars =>
          [row.status = "deleted" /\ row'.status # "deleted" =>
               LateStep /\ (~LiveRefs \/ offload)]_vars
  BY ReviveStep
<1> QED BY <1>1, RecordHolds, PTL DEF Spec, RevivedByLateOnly

\* With the in-memory store called in place, delete() is final: neither a renewal
\* nor a delivery that is under way brings a deleted subscription back.
THEOREM DeletionIsFinal ==
    ASSUME Stores = {"memory"}, Offloads = {FALSE}
    PROVE  Spec => DeletedIsFinal
<1>1. RecordInv /\ [Next]_vars => [row.status = "deleted" => row'.status = "deleted"]_vars
  <2> SUFFICES ASSUME RecordInv, [Next]_vars, row.status = "deleted"
               PROVE  row'.status = "deleted"
    OBVIOUS
  <2>1. LiveRefs /\ ~offload
    BY DEF RecordInv, TypeOK, LiveRefs
  <2> QED BY <2>1, ReviveStep
<1> QED BY <1>1, RecordHolds, PTL DEF Spec, DeletedIsFinal
=============================================================================
