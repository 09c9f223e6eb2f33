-------------------------- MODULE OpsWorkerProofs --------------------------
(***************************************************************************)
(* Safety of the background operations, for any number of operations,      *)
(* clients, starts and faults.                                             *)
(***************************************************************************)
EXTENDS OpsWorker, IdsProofs, FiniteSetTheorems

Working   == {"register", "exec", "finish"}
Effective == {"bulk_tag", "extract_audio"}

(* What holds of a lane at any time: it knows its operation, which is of   *)
(* its class and on record as running unless it was removed; and what it   *)
(* reports as done has had its effect.                                     *)
LaneInOrder(l, me, tbl, un) ==
    /\ me \in LaneState
    /\ me.pc \notin {"asleep", "drain"} => me.op \in Ops \ un
    /\ me.pc = "finish" => me.outcome \in OpEnded
    /\ me.pc \in Working =>
         /\ me.kind \in Kinds
         /\ Class[me.kind] = l
         /\ tbl[me.op].status \in {"running", "absent"}
         /\ tbl[me.op].status = "running" => tbl[me.op].kind = me.kind
    /\ me.pc = "register" => ~me.ok
    /\ me.pc = "exec" /\ me.ok => tbl[me.op].status = "absent" \/ tbl[me.op].applied
    /\ me.pc = "finish" /\ me.outcome = "done" /\ me.kind \in Effective
         => tbl[me.op].status = "absent" \/ tbl[me.op].applied

Orderly ==
    /\ OpsTypeOK
    /\ \A o \in unborn : ops[o].status = "absent"
    /\ \A l \in Lanes : LaneInOrder(l, lane[l], ops, unborn)
    /\ \A c \in Clients : request[c].pc \in {"cancel", "look", "remove"}
                             => request[c].op \in Ops \ unborn
    /\ phase \in {"down", "boot"} => lane = [l \in Lanes |-> Asleep]
    /\ CancelHitsItsOperation
    /\ DoneHasEffect

(* A lane that does not take part in a step stays in order: the row it     *)
(* works on is left alone, removed, or found to have had an effect.        *)
LEMMA OtherLane ==
  ASSUME Orderly, NEW k \in Lanes, unborn' \subseteq unborn,
         lane[k].pc \in Working =>
           \/ ops'[lane[k].op] = ops[lane[k].op]
           \/ ops'[lane[k].op].status = "absent"
           \/ ops'[lane[k].op] = [ops[lane[k].op] EXCEPT !.applied = TRUE]
  PROVE  LaneInOrder(k, lane[k], ops', unborn')
<1>1. LaneInOrder(k, lane[k], ops, unborn)
  BY DEF Orderly
<1>2. lane[k].pc \in Working =>
        ops[lane[k].op] \in [status : OpStatus, kind : Kinds \cup {"none"}, applied : BOOLEAN]
  BY <1>1 DEF Orderly, OpsTypeOK, LaneInOrder, Working
<1> QED
  BY <1>1, <1>2 DEF LaneInOrder, Working

(* Two lanes never work on one row: the classes of their kinds differ.     *)
LEMMA OneLanePerRow ==
  ASSUME Orderly, NEW k \in Lanes, NEW l \in Lanes, k # l,
         lane[k].pc \in Working, lane[l].pc \in Working, lane[k].op = lane[l].op
  PROVE  ops[lane[k].op].status = "absent"
BY DEF Orderly, LaneInOrder

(* A lane moves on by itself.                                              *)
LEMMA LaneMoves ==
  ASSUME Orderly, NEW l \in Lanes, NEW me,
         LaneInOrder(l, me, ops', unborn'),
         lane' = [lane EXCEPT ![l] = me],
         unborn' = unborn,
         ops' \in [Ops -> [status : OpStatus, kind : Kinds \cup {"none"}, applied : BOOLEAN]],
         \A o \in Ops : ops'[o].status # "absent" => ops'[o].kind \in Kinds,
         \A o \in unborn : ops'[o] = ops[o],
         \A k \in Lanes \ {l} : lane[k].pc \in Working =>
           \/ ops'[lane[k].op] = ops[lane[k].op]
           \/ ops'[lane[k].op].status = "absent"
           \/ ops'[lane[k].op] = [ops[lane[k].op] EXCEPT !.applied = TRUE],
         \A o \in Ops : ops'[o].status = "done" /\ ops'[o].kind \in Effective => ops'[o].applied,
         bell' \in [Lanes -> BOOLEAN],
         cancels' \in [Ops -> Lanes \cup {None}],
         \A o \in Ops : cancels'[o] # None => /\ lane'[cancels'[o]].op = o
                                              /\ lane'[cancels'[o]].pc
                                                   \notin {"asleep", "drain", "register"},
         phase \notin {"down", "boot"},
         faults' \in Nat,
         UNCHANGED <<phase, request, boots>>
  PROVE  Orderly'
<1>1. me \in LaneState
  BY DEF LaneInOrder
<1>2. OpsTypeOK'
  BY <1>1 DEF Orderly, OpsTypeOK
<1>3. \A k \in Lanes : LaneInOrder(k, lane[k], ops, unborn)'
  <2> TAKE k \in Lanes
  <2>1. CASE k = l
    BY <2>1 DEF Orderly, OpsTypeOK
  <2>2. CASE k # l
    <3>1. LaneInOrder(k, lane[k], ops', unborn')
      BY <2>2, OtherLane
    <3>2. lane'[k] = lane[k]
      BY <2>2 DEF Orderly, OpsTypeOK
    <3> QED
      BY <3>1, <3>2
  <2> QED
    BY <2>1, <2>2
<1>4. CancelHitsItsOperation' /\ DoneHasEffect'
  BY DEF CancelHitsItsOperation, DoneHasEffect, Row, Effective
<1> QED
  BY <1>2, <1>3, <1>4 DEF Orderly

(* The program starts in order.                                            *)
LEMMA OrderlyInit == Init => Orderly
<1> SUFFICES ASSUME Init PROVE Orderly
  OBVIOUS
<1>1. Asleep \in LaneState
  BY DEF Asleep, LaneState, LanePC
<1>2. OpsTypeOK
  BY <1>1 DEF Init, OpsTypeOK, NoRow, OpStatus, NoRequest, RequestPC
<1>3. \A l \in Lanes : LaneInOrder(l, lane[l], ops, unborn)
  BY <1>1 DEF Init, LaneInOrder, Asleep, Working
<1> QED
  BY <1>2, <1>3 DEF Init, Orderly, CancelHitsItsOperation, DoneHasEffect, Row, NoRow, NoRequest

(* What a lane at work is known to hold.                                   *)
LEMMA LaneFacts ==
  ASSUME Orderly, NEW l \in Lanes
  PROVE  /\ lane[l] \in LaneState
         /\ lane[l].pc \notin {"asleep", "drain"} => lane[l].op \in Ops \ unborn
         /\ lane[l].pc # "asleep" => phase \notin {"down", "boot"}
         /\ ops \in [Ops -> [status : OpStatus, kind : Kinds \cup {"none"}, applied : BOOLEAN]]
         /\ \A o \in Ops : ops[o].status # "absent" => ops[o].kind \in Kinds
         /\ \A o \in Ops : ops[o].status = "done" /\ ops[o].kind \in Effective => ops[o].applied
         /\ bell \in [Lanes -> BOOLEAN]
         /\ cancels \in [Ops -> Lanes \cup {None}]
         /\ \A o \in Ops : cancels[o] # None => /\ lane[cancels[o]].op = o
                                               /\ lane[cancels[o]].pc
                                                    \notin {"asleep", "drain", "register"}
         /\ \A o \in unborn : ops[o].status = "absent"
         /\ faults \in Nat /\ lane \in [Lanes -> LaneState]
<1>1. lane[l] \in LaneState /\ (lane[l].pc \notin {"asleep", "drain"} => lane[l].op \in Ops \ unborn)
  BY DEF Orderly, LaneInOrder
<1>2. lane[l].pc # "asleep" => phase \notin {"down", "boot"}
  BY DEF Orderly, Asleep
<1>3. \A o \in Ops : ops[o].status = "done" /\ ops[o].kind \in Effective => ops[o].applied
  BY DEF Orderly, DoneHasEffect, Row, Effective
<1> QED
  BY <1>1, <1>2, <1>3 DEF Orderly, OpsTypeOK, CancelHitsItsOperation

(* A lane that moves without touching table or registry.                   *)
LEMMA LaneMovesAlone ==
  ASSUME Orderly, NEW l \in Lanes, NEW me,
         LaneInOrder(l, me, ops, unborn),
         lane' = [lane EXCEPT ![l] = me],
         \A o \in Ops : cancels[o] = l => /\ me.op = o
                                         /\ me.pc \notin {"asleep", "drain", "register"},
         phase \notin {"down", "boot"},
         bell' \in [Lanes -> BOOLEAN],
         faults' \in Nat,
         UNCHANGED <<ops, unborn, cancels, phase, request, boots>>
  PROVE  Orderly'
<1>1. \A o \in Ops : cancels'[o] # None => /\ lane'[cancels'[o]].op = o
                                          /\ lane'[cancels'[o]].pc
                                               \notin {"asleep", "drain", "register"}
  BY LaneFacts
<1>2. LaneInOrder(l, me, ops', unborn')
  OBVIOUS
<1>3. \A k \in Lanes \ {l} : ops'[lane[k].op] = ops[lane[k].op]
  OBVIOUS
<1> QED
  BY <1>1, <1>2, <1>3, LaneFacts, LaneMoves

(* A lane that forgets its operation takes its entry out of the registry.  *)
LEMMA LaneGivesUp ==
  ASSUME Orderly, NEW l \in Lanes, NEW me,
         LaneInOrder(l, me, ops', unborn'),
         lane[l].pc # "asleep",
         lane' = [lane EXCEPT ![l] = me],
         cancels' = [cancels EXCEPT ![lane[l].op] = None],
         bell' \in [Lanes -> BOOLEAN],
         faults' \in Nat,
         UNCHANGED <<ops, unborn, phase, request, boots>>
  PROVE  Orderly'
<1>1. cancels' \in [Ops -> Lanes \cup {None}]
  BY LaneFacts
<1>2. \A o \in Ops : cancels'[o] # l
  BY LaneFacts, NoneIsNoLane
<1>3. \A o \in Ops : cancels'[o] # None => /\ lane'[cancels'[o]].op = o
                                          /\ lane'[cancels'[o]].pc
                                               \notin {"asleep", "drain", "register"}
  BY <1>1, <1>2, LaneFacts
<1>4. phase \notin {"down", "boot"} /\ \A k \in Lanes \ {l} : ops'[lane[k].op] = ops[lane[k].op]
  BY LaneFacts
<1> QED
  BY <1>1, <1>3, <1>4, LaneFacts, LaneMoves

(* What runLane, drainPending and runOne do leaves everything in order.    *)
LEMMA LaneStepOrderly ==
  ASSUME Orderly, NEW l \in Lanes, LaneStep(l)
  PROVE  Orderly'
<1>0. LaneInOrder(l, lane[l], ops, unborn)
  BY DEF Orderly
<1> DEFINE Rows == [status : OpStatus, kind : Kinds \cup {"none"}, applied : BOOLEAN]
<1>1. CASE Wake(l)
  <2> DEFINE me == [lane[l] EXCEPT !.pc = "drain"]
  <2>1. LaneInOrder(l, me, ops, unborn)
    BY <1>0, <1>1, LaneFacts DEF Wake, LaneInOrder, LaneState, LanePC, Working
  <2>2. lane' = [lane EXCEPT ![l] = me] /\ bell' \in [Lanes -> BOOLEAN] /\ faults' \in Nat
    BY <1>1, LaneFacts DEF Wake
  <2>3. \A o \in Ops : cancels[o] # l
    BY <1>1, LaneFacts, NoneIsNoLane DEF Wake
  <2>4. phase \notin {"down", "boot"} /\ UNCHANGED <<ops, unborn, cancels, phase, request, boots>>
    BY <1>1 DEF Wake
  <2> HIDE DEF me
  <2> QED
    BY <2>1, <2>2, <2>3, <2>4, LaneMovesAlone
<1>2. CASE ClaimOp(l)
  <2> DEFINE o  == Oldest(Waiting(l))
             me == [Asleep EXCEPT !.pc = "register", !.op = o, !.kind = ops[o].kind]
  <2>1. o \in Waiting(l)
    BY <1>2, LeastIdExists, OpsAreNumbered DEF ClaimOp, Waiting, Row
  <2>2. /\ o \in Ops \ unborn /\ ops[o].status = "pending"
        /\ Class[ops[o].kind] = l /\ ops[o].kind \in Kinds
    BY <2>1, LaneFacts DEF Waiting, Row
  <2>3. /\ ops' = [ops EXCEPT ![o].status = "running"]
        /\ lane' = [lane EXCEPT ![l] = me]
        /\ UNCHANGED <<unborn, phase, bell, cancels, request, boots, faults>>
        /\ phase \notin {"down", "boot"} /\ lane[l].pc = "drain"
    BY <1>2 DEF ClaimOp, SetStatus
  <2> HIDE DEF o
  <2>4. \A p \in Ops : ops'[p] = IF p = o THEN [ops[o] EXCEPT !.status = "running"] ELSE ops[p]
    BY <2>2, <2>3, LaneFacts
  <2>5. ops' \in [Ops -> Rows] /\ \A p \in Ops : ops'[p].status # "absent" => ops'[p].kind \in Kinds
    BY <2>2, <2>3, <2>4, LaneFacts DEF OpStatus, OpActive
  <2>6. LaneInOrder(l, me, ops', unborn')
    <3>1. /\ me \in LaneState /\ me.pc = "register" /\ me.op = o /\ me.kind = ops[o].kind
          /\ me.ok = FALSE
      BY <2>2 DEF Asleep, LaneState, LanePC
    <3>2. ops'[o].status = "running" /\ ops'[o].kind = ops[o].kind
      BY <2>2, <2>4, LaneFacts
    <3> HIDE DEF me
    <3> QED
      BY <2>2, <2>3, <3>1, <3>2 DEF LaneInOrder, Working
  <2>7. \A k \in Lanes \ {l} : lane[k].pc \in Working =>
          ops'[lane[k].op] = ops[lane[k].op]
    BY <2>2, <2>3, <2>4 DEF Orderly, LaneInOrder, Working
  <2>8. /\ \A p \in Ops : ops'[p].status = "done" /\ ops'[p].kind \in Effective => ops'[p].applied
        /\ \A p \in unborn : ops'[p] = ops[p]
    BY <2>2, <2>4, LaneFacts DEF Orderly, OpsTypeOK
  <2>9. \A p \in Ops : cancels[p] # l
    BY <2>3, LaneFacts, NoneIsNoLane
  <2>10. /\ \A p \in Ops : cancels'[p] # None => /\ lane'[cancels'[p]].op = p
                                              /\ lane'[cancels'[p]].pc
                                                   \notin {"asleep", "drain", "register"}
         /\ bell' \in [Lanes -> BOOLEAN] /\ faults' \in Nat
         /\ cancels' \in [Ops -> Lanes \cup {None}]
    BY <2>3, <2>9, LaneFacts
  <2> HIDE DEF me
  <2> QED
    BY <2>3, <2>5, <2>6, <2>7, <2>8, <2>10, LaneMoves
<1>3. CASE LaneRests(l)
  <2>1. LaneInOrder(l, Asleep, ops, unborn)
    BY DEF LaneInOrder, Asleep, LaneState, LanePC, Working
  <2>2. \A o \in Ops : cancels[o] # l
    BY <1>3, LaneFacts, NoneIsNoLane DEF LaneRests
  <2>3. /\ phase \notin {"down", "boot"} /\ bell' \in [Lanes -> BOOLEAN] /\ faults' \in Nat
        /\ UNCHANGED <<ops, unborn, cancels, phase, request, boots>>
        /\ lane' = [lane EXCEPT ![l] = Asleep]
    BY <1>3, LaneFacts DEF LaneRests
  <2> QED
    BY <2>1, <2>2, <2>3, LaneMovesAlone
<1>4. CASE RegisterOp(l)
  <2> DEFINE e  == IF phase = "stopping" THEN "stop" ELSE "no"
             me == [lane[l] EXCEPT !.pc = "exec", !.ended = e]
  <2>1. /\ lane' = [lane EXCEPT ![l] = me] /\ lane[l].pc = "register"
        /\ cancels' = [cancels EXCEPT ![lane[l].op] = l]
        /\ UNCHANGED <<ops, unborn, phase, bell, request, boots, faults>>
    BY <1>4 DEF RegisterOp
  <2>2. lane[l] \in LaneState /\ lane[l].ok = FALSE /\ lane[l].op \in Ops \ unborn
    BY <1>0, <2>1 DEF LaneInOrder, LaneState
  <2>3. /\ me \in LaneState /\ me.pc = "exec" /\ me.op = lane[l].op
        /\ me.kind = lane[l].kind /\ me.ok = FALSE
    BY <2>2 DEF LaneState, LanePC
  <2> HIDE DEF me
  <2>4. LaneInOrder(l, me, ops', unborn')
    BY <1>0, <2>1, <2>2, <2>3 DEF LaneInOrder, Working
  <2>5. \A o \in Ops : cancels[o] # l
    BY <2>1, LaneFacts, NoneIsNoLane
  <2>6. \A o \in Ops : cancels'[o] # None => /\ lane'[cancels'[o]].op = o
                                            /\ lane'[cancels'[o]].pc
                                                 \notin {"asleep", "drain", "register"}
    BY <2>1, <2>2, <2>3, <2>5, LaneFacts
  <2>7. cancels' \in [Ops -> Lanes \cup {None}]
    BY <2>1, <2>2, LaneFacts
  <2>8. phase \notin {"down", "boot"} /\ bell' \in [Lanes -> BOOLEAN] /\ faults' \in Nat
    BY <2>1, LaneFacts
  <2> QED
    BY <2>1, <2>4, <2>6, <2>7, <2>8, LaneFacts, LaneMoves
<1>5. CASE ExecUnit(l)
  <2> DEFINE o  == lane[l].op
             me == [lane[l] EXCEPT !.ok = TRUE]
  <2>1. /\ lane' = [lane EXCEPT ![l] = me] /\ lane[l].pc = "exec"
        /\ IF ops[o].status = "absent"
           THEN ops' = ops ELSE ops' = [ops EXCEPT ![o].applied = TRUE]
        /\ UNCHANGED <<unborn, phase, cancels, bell, request, boots, faults>>
    BY <1>5 DEF ExecUnit
  <2>2. lane[l] \in LaneState /\ o \in Ops \ unborn
    BY <1>0, <2>1 DEF LaneInOrder
  <2>3. /\ me \in LaneState /\ me.pc = "exec" /\ me.op = o
        /\ me.kind = lane[l].kind
    BY <2>1, <2>2 DEF LaneState
  <2>4. /\ \A p \in Ops : p # o => ops'[p] = ops[p]
        /\ ops'[o].status = ops[o].status /\ ops'[o].kind = ops[o].kind
        /\ ops'[o].status = "absent" \/ ops'[o].applied
        /\ ops'[o] = ops[o] \/ ops'[o] = [ops[o] EXCEPT !.applied = TRUE]
        /\ ops' \in [Ops -> Rows]
    <3>1. ops[o] \in Rows
      BY <2>2, LaneFacts
    <3>2. CASE ops[o].status = "absent"
      BY <3>2, <2>1, LaneFacts
    <3>3. CASE ops[o].status # "absent"
      <4>1. ops' = [ops EXCEPT ![o].applied = TRUE]
        BY <3>3, <2>1
      <4>2. \A p \in Ops : ops'[p] = IF p = o THEN [ops[o] EXCEPT !.applied = TRUE] ELSE ops[p]
        BY <4>1, <2>2, LaneFacts
      <4>3. ops'[o] = [ops[o] EXCEPT !.applied = TRUE] /\ ops'[o] \in Rows
        BY <3>1, <4>2, <2>2
      <4>4. ops' \in [Ops -> Rows]
        BY <4>1, <4>2, <4>3, LaneFacts
      <4> QED
        BY <3>1, <4>2, <4>3, <4>4, <2>2, LaneFacts
    <3> QED
      BY <3>2, <3>3
  <2> HIDE DEF me
  <2>5. LaneInOrder(l, me, ops', unborn')
    BY <1>0, <2>1, <2>3, <2>4, <2>2 DEF LaneInOrder, Working
  <2>6. \A k \in Lanes \ {l} : lane[k].pc \in Working =>
          \/ ops'[lane[k].op] = ops[lane[k].op]
          \/ ops'[lane[k].op] = [ops[lane[k].op] EXCEPT !.applied = TRUE]
    BY <2>4, <2>2 DEF Orderly, LaneInOrder, Working
  <2>7. /\ \A p \in Ops : ops'[p].status # "absent" => ops'[p].kind \in Kinds
        /\ \A p \in unborn : ops'[p] = ops[p]
        /\ \A p \in Ops : ops'[p].status = "done" /\ ops'[p].kind \in Effective => ops'[p].applied
    BY <2>4, <2>2, LaneFacts DEF Orderly, OpsTypeOK
  <2>8. \A p \in Ops : cancels'[p] # None => /\ lane'[cancels'[p]].op = p
                                            /\ lane'[cancels'[p]].pc
                                                 \notin {"asleep", "drain", "register"}
    BY <2>1, <2>2, <2>3, LaneFacts
  <2>9. /\ phase \notin {"down", "boot"} /\ bell' \in [Lanes -> BOOLEAN] /\ faults' \in Nat
        /\ cancels' \in [Ops -> Lanes \cup {None}]
    BY <2>1, LaneFacts
  <2> QED
    BY <2>1, <2>4, <2>5, <2>6, <2>7, <2>8, <2>9, LaneMoves
<1>6. CASE EndExec(l)
  <2>1. PICK s \in Outcomes(lane[l]) :
          lane' = [lane EXCEPT ![l] = [lane[l] EXCEPT !.pc = "finish", !.outcome = s]]
    BY <1>6 DEF EndExec
  <2> DEFINE me == [lane[l] EXCEPT !.pc = "finish", !.outcome = s]
  <2>2. /\ lane[l].pc = "exec" /\ UNCHANGED <<ops, unborn, phase, cancels, bell, request, boots, faults>>
        /\ lane' = [lane EXCEPT ![l] = me]
    BY <1>6, <2>1 DEF EndExec
  <2>3. lane[l] \in LaneState /\ s \in OpEnded
    BY <1>0, <2>1 DEF LaneInOrder, Outcomes
  <2>4. s = "done" /\ lane[l].kind \in Effective => lane[l].ok
    BY <2>1 DEF Outcomes, Effective, OpEnded
  <2>5. /\ me \in LaneState /\ me.pc = "finish" /\ me.op = lane[l].op
        /\ me.kind = lane[l].kind /\ me.ok = lane[l].ok /\ me.outcome = s
    BY <2>2, <2>3 DEF LaneState, LanePC
  <2> HIDE DEF me
  <2>6. LaneInOrder(l, me, ops, unborn)
    BY <1>0, <2>2, <2>3, <2>4, <2>5 DEF LaneInOrder, Working
  <2>7. \A o \in Ops : cancels[o] = l => me.op = o
    BY <2>2, <2>5, LaneFacts, NoneIsNoLane
  <2>8. phase \notin {"down", "boot"} /\ bell' \in [Lanes -> BOOLEAN] /\ faults' \in Nat
    BY <2>2, LaneFacts
  <2> QED
    BY <2>2, <2>5, <2>6, <2>7, <2>8, LaneMovesAlone
<1>7. CASE FinishOp(l)
  <2> DEFINE o  == lane[l].op
             pc == IF lane[l].kind \in Hidden THEN "drop" ELSE "unregister"
             me == [Asleep EXCEPT !.op = o, !.pc = pc]
  <2>1. /\ lane' = [lane EXCEPT ![l] = me] /\ lane[l].pc = "finish"
        /\ IF ops[o].status = "absent"
           THEN ops' = ops ELSE ops' = [ops EXCEPT ![o].status = lane[l].outcome]
        /\ UNCHANGED <<unborn, phase, cancels, bell, request, boots, faults>>
    BY <1>7, Zenon DEF FinishOp, AfterFinish, SetStatus
  <2>2. lane[l].outcome \in OpEnded /\ o \in Ops \ unborn
    BY <1>0, <2>1 DEF LaneInOrder
  <2>3. me \in LaneState /\ me.pc \in {"drop", "unregister"} /\ me.op = o
    BY <2>2 DEF Asleep, LaneState, LanePC
  <2> HIDE DEF me
  <2>4. /\ \A p \in Ops : p # o => ops'[p] = ops[p]
        /\ ops'[o].kind = ops[o].kind
        /\ ops'[o].applied = ops[o].applied
        /\ ops[o].status = "absent" => ops'[o] = ops[o]
        /\ ops[o].status # "absent" => ops'[o].status = lane[l].outcome
        /\ ops' \in [Ops -> Rows]
    <3>1. ops[o] \in Rows
      BY <2>2, LaneFacts
    <3>2. CASE ops[o].status = "absent"
      BY <3>2, <2>1, LaneFacts
    <3>3. CASE ops[o].status # "absent"
      <4>1. ops' = [ops EXCEPT ![o].status = lane[l].outcome]
        BY <3>3, <2>1
      <4>2. \A p \in Ops : ops'[p] = IF p = o THEN [ops[o] EXCEPT !.status = lane[l].outcome]
                                    ELSE ops[p]
        BY <4>1, <2>2, LaneFacts
      <4>3. /\ ops'[o] = [ops[o] EXCEPT !.status = lane[l].outcome] /\ ops'[o] \in Rows
            /\ ops'[o].status = lane[l].outcome /\ ops'[o].kind = ops[o].kind
            /\ ops'[o].applied = ops[o].applied
        BY <3>1, <4>2, <2>2 DEF OpStatus
      <4>4. ops' \in [Ops -> Rows]
        BY <4>1, <4>2, <4>3, LaneFacts
      <4> QED
        BY <3>3, <4>2, <4>3, <4>4
    <3> QED
      BY <3>2, <3>3
  <2>5. LaneInOrder(l, me, ops', unborn')
    BY <2>1, <2>2, <2>3 DEF LaneInOrder, Working
  <2>6. \A k \in Lanes \ {l} : lane[k].pc \in Working => ops'[lane[k].op] = ops[lane[k].op]
    <3> TAKE k \in Lanes \ {l}
    <3>1. CASE lane[k].op = o
      BY <3>1, <2>1, <2>4, OneLanePerRow DEF Working
    <3>2. CASE lane[k].op # o
      BY <3>2, <2>4 DEF Orderly, LaneInOrder, Working
    <3> QED
      BY <3>1, <3>2
  <2>7. /\ \A p \in Ops : ops'[p].status # "absent" => ops'[p].kind \in Kinds
        /\ \A p \in unborn : ops'[p] = ops[p]
    BY <2>4, <2>2, LaneFacts DEF Orderly, OpsTypeOK
  <2>8. \A p \in Ops : ops'[p].status = "done" /\ ops'[p].kind \in Effective => ops'[p].applied
    <3> TAKE p \in Ops
    <3>1. CASE p = o /\ ops[o].status # "absent"
      BY <1>0, <3>1, <2>1, <2>4 DEF LaneInOrder, Working, OpEnded
    <3>2. CASE p # o \/ ops[o].status = "absent"
      BY <3>2, <2>4, LaneFacts
    <3> QED
      BY <3>1, <3>2
  <2>9. \A p \in Ops : cancels'[p] # None => /\ lane'[cancels'[p]].op = p
                                            /\ lane'[cancels'[p]].pc
                                                 \notin {"asleep", "drain", "register"}
    BY <2>1, <2>2, <2>3, LaneFacts
  <2>10. /\ phase \notin {"down", "boot"} /\ bell' \in [Lanes -> BOOLEAN] /\ faults' \in Nat
         /\ cancels' \in [Ops -> Lanes \cup {None}]
    BY <2>1, LaneFacts
  <2> QED
    BY <2>1, <2>4, <2>5, <2>6, <2>7, <2>8, <2>9, <2>10, LaneMoves
<1>8. CASE DropHidden(l)
  <2> DEFINE o  == lane[l].op
             me == [lane[l] EXCEPT !.pc = "unregister"]
  <2>1. /\ lane' = [lane EXCEPT ![l] = me] /\ lane[l].pc = "drop"
        /\ ops' = [ops EXCEPT ![o] = NoRow]
        /\ UNCHANGED <<unborn, phase, cancels, bell, request, boots, faults>>
    BY <1>8 DEF DropHidden
  <2>2. lane[l] \in LaneState /\ o \in Ops \ unborn
    BY <1>0, <2>1 DEF LaneInOrder
  <2>3. me \in LaneState /\ me.pc = "unregister" /\ me.op = o
    BY <2>2 DEF LaneState, LanePC
  <2> HIDE DEF me
  <2>4. /\ \A p \in Ops : ops'[p] = IF p = o THEN NoRow ELSE ops[p]
        /\ NoRow \in Rows /\ NoRow.status = "absent"
    BY <2>1, LaneFacts DEF NoRow, OpStatus
  <2>5. LaneInOrder(l, me, ops', unborn')
    BY <2>1, <2>2, <2>3 DEF LaneInOrder, Working
  <2>6. \A k \in Lanes \ {l} : lane[k].pc \in Working =>
          ops'[lane[k].op] = ops[lane[k].op] \/ ops'[lane[k].op].status = "absent"
    BY <2>4 DEF Orderly, LaneInOrder, Working
  <2>7. ops' \in [Ops -> Rows]
    BY <2>1, <2>4, LaneFacts
  <2>8. /\ \A p \in Ops : ops'[p].status # "absent" => ops'[p].kind \in Kinds
        /\ \A p \in unborn : ops'[p] = ops[p]
        /\ \A p \in Ops : ops'[p].status = "done" /\ ops'[p].kind \in Effective => ops'[p].applied
    BY <2>4, <2>2, LaneFacts DEF Orderly, OpsTypeOK
  <2>9. \A p \in Ops : cancels'[p] # None => /\ lane'[cancels'[p]].op = p
                                            /\ lane'[cancels'[p]].pc
                                                 \notin {"asleep", "drain", "register"}
    BY <2>1, <2>2, <2>3, LaneFacts
  <2>10. /\ phase \notin {"down", "boot"} /\ bell' \in [Lanes -> BOOLEAN] /\ faults' \in Nat
         /\ cancels' \in [Ops -> Lanes \cup {None}]
    BY <2>1, LaneFacts
  <2> QED
    BY <2>1, <2>5, <2>6, <2>7, <2>8, <2>9, <2>10, LaneMoves
<1>9. CASE Unregister(l)
  <2> DEFINE me == [Asleep EXCEPT !.pc = "drain"]
  <2>1. /\ lane' = [lane EXCEPT ![l] = me] /\ lane[l].pc = "unregister"
        /\ cancels' = [cancels EXCEPT ![lane[l].op] = None]
        /\ UNCHANGED <<ops, unborn, phase, bell, request, boots, faults>>
    BY <1>9 DEF Unregister
  <2>2. me \in LaneState /\ me.pc = "drain"
    BY DEF Asleep, LaneState, LanePC
  <2> HIDE DEF me
  <2>3. LaneInOrder(l, me, ops', unborn')
    BY <2>2 DEF LaneInOrder, Working
  <2>4. bell' \in [Lanes -> BOOLEAN] /\ faults' \in Nat
    BY <2>1, LaneFacts
  <2> QED
    BY <2>1, <2>3, <2>4, LaneGivesUp
<1> QED
  BY <1>1, <1>2, <1>3, <1>4, <1>5, <1>6, <1>7, <1>8, <1>9 DEF LaneStep

(* A failed claim, a failed verdict or a panic, and a deadline.            *)
LEMMA FaultOrderly ==
  ASSUME Orderly, NEW l \in Lanes, Fault(l) \/ TimeOut(l)
  PROVE  Orderly'
<1>0. LaneInOrder(l, lane[l], ops, unborn)
  BY DEF Orderly
<1>1. CASE Fault(l)
  <2>1. faults' \in Nat /\ UNCHANGED <<ops, unborn, phase, bell, request, boots>>
        /\ bell' \in [Lanes -> BOOLEAN]
    BY <1>1, LaneFacts DEF Fault
  <2>2. LaneInOrder(l, Asleep, ops, unborn)
    BY DEF LaneInOrder, Asleep, LaneState, LanePC, Working
  <2>3. CASE lane[l].pc = "drain" /\ lane' = [lane EXCEPT ![l] = Asleep] /\ UNCHANGED cancels
    <3>1. \A o \in Ops : cancels[o] # l
      BY <2>3, LaneFacts, NoneIsNoLane
    <3>2. phase \notin {"down", "boot"}
      BY <2>3, LaneFacts
    <3> QED
      BY <2>1, <2>2, <2>3, <3>1, <3>2, LaneMovesAlone
  <2>4. CASE lane[l].pc = "finish" /\ AfterFinish(l) /\ UNCHANGED cancels
    <3> DEFINE pc == IF lane[l].kind \in Hidden THEN "drop" ELSE "unregister"
               me == [Asleep EXCEPT !.op = lane[l].op, !.pc = pc]
    <3>1. lane' = [lane EXCEPT ![l] = me] /\ lane[l].pc = "finish" /\ UNCHANGED cancels
      BY <2>4, Zenon DEF AfterFinish
    <3>2. lane[l].op \in Ops \ unborn
      BY <1>0, <3>1 DEF LaneInOrder
    <3>3. me \in LaneState /\ me.pc \in {"drop", "unregister"} /\ me.op = lane[l].op
      BY <3>2 DEF Asleep, LaneState, LanePC
    <3> HIDE DEF me
    <3>4. LaneInOrder(l, me, ops, unborn)
      BY <3>2, <3>3 DEF LaneInOrder, Working
    <3>5. \A o \in Ops : cancels[o] = l => me.op = o /\ me.pc \notin {"asleep", "drain", "register"}
      BY <3>1, <3>3, LaneFacts, NoneIsNoLane
    <3>6. phase \notin {"down", "boot"}
      BY <3>1, LaneFacts
    <3> QED
      BY <2>1, <3>1, <3>4, <3>5, <3>6, LaneMovesAlone
  <2>5. CASE /\ lane[l].pc = "exec" /\ lane' = [lane EXCEPT ![l] = Asleep]
             /\ cancels' = [cancels EXCEPT ![lane[l].op] = None]
    BY <2>1, <2>2, <2>5, LaneGivesUp
  <2> QED
    BY <1>1, <2>3, <2>4, <2>5 DEF Fault
<1>2. CASE TimeOut(l)
  <2> DEFINE me == [lane[l] EXCEPT !.ended = "early"]
  <2>1. /\ lane' = [lane EXCEPT ![l] = me] /\ lane[l].pc = "exec"
        /\ UNCHANGED <<ops, unborn, phase, bell, cancels, request, boots, faults>>
    BY <1>2 DEF TimeOut
  <2>2. lane[l] \in LaneState
    BY <1>0 DEF LaneInOrder
  <2>3. /\ me \in LaneState /\ me.pc = "exec" /\ me.op = lane[l].op
        /\ me.kind = lane[l].kind /\ me.ok = lane[l].ok /\ me.outcome = lane[l].outcome
    BY <2>1, <2>2 DEF LaneState
  <2> HIDE DEF me
  <2>4. LaneInOrder(l, me, ops, unborn)
    BY <1>0, <2>1, <2>3 DEF LaneInOrder
  <2>5. \A o \in Ops : cancels[o] = l => me.op = o /\ me.pc \notin {"asleep", "drain", "register"}
    BY <2>1, <2>3, LaneFacts, NoneIsNoLane
  <2>6. phase \notin {"down", "boot"} /\ bell' \in [Lanes -> BOOLEAN] /\ faults' \in Nat
    BY <2>1, LaneFacts
  <2> QED
    BY <2>1, <2>4, <2>5, <2>6, LaneMovesAlone
<1> QED
  BY <1>1, <1>2

(* Requests, retention, a start and a stop change no lane but for the end  *)
(* of its operation's context.                                             *)
Ends(l, e) == [lane[l] EXCEPT !.ended = e]

LEMMA EndsKeepOrder ==
  ASSUME NEW l \in Lanes, NEW tbl, NEW un, LaneInOrder(l, lane[l], tbl, un),
         NEW e \in {"early", "stop"}
  PROVE  LaneInOrder(l, Ends(l, e), tbl, un)
<1>1. /\ Ends(l, e) \in LaneState /\ Ends(l, e).pc = lane[l].pc
      /\ Ends(l, e).op = lane[l].op /\ Ends(l, e).kind = lane[l].kind
      /\ Ends(l, e).ok = lane[l].ok /\ Ends(l, e).outcome = lane[l].outcome
  BY DEF LaneInOrder, LaneState, Ends
<1> QED
  BY <1>1 DEF LaneInOrder

LEMMA OthersMove ==
  ASSUME Orderly,
         ops' \in [Ops -> [status : OpStatus, kind : Kinds \cup {"none"}, applied : BOOLEAN]],
         \A o \in Ops : ops'[o].status # "absent" => ops'[o].kind \in Kinds,
         \A o \in Ops : ops'[o].status = "done" /\ ops'[o].kind \in Effective => ops'[o].applied,
         unborn' \subseteq unborn,
         \A o \in unborn' : ops'[o].status = "absent",
         \A k \in Lanes : lane[k].pc \in Working =>
           ops'[lane[k].op] = ops[lane[k].op] \/ ops'[lane[k].op].status = "absent",
         lane' \in [Lanes -> LaneState],
         \A k \in Lanes : lane'[k] \in {lane[k], Ends(k, "early"), Ends(k, "stop")},
         phase' \in {"down", "boot", "on", "stopping"},
         phase' \in {"down", "boot"} => lane' = [l \in Lanes |-> Asleep],
         bell' \in [Lanes -> BOOLEAN],
         request' \in [Clients -> [pc : RequestPC, op : Ops \cup {NoOp}]],
         \A c \in Clients : request'[c].pc \in {"cancel", "look", "remove"}
                              => request'[c].op \in Ops \ unborn',
         boots' \in Nat, UNCHANGED <<cancels, faults>>
  PROVE  Orderly'
<1>0. OpsTypeOK
  BY DEF Orderly
<1>1. OpsTypeOK'
  <2>1. unborn' \subseteq Ops /\ cancels' \in [Ops -> Lanes \cup {None}] /\ faults' \in Nat
    BY <1>0 DEF OpsTypeOK
  <2> QED
    BY <2>1, Zenon DEF OpsTypeOK
<1>2. \A k \in Lanes : LaneInOrder(k, lane'[k], ops', unborn')
  <2> TAKE k \in Lanes
  <2>1. LaneInOrder(k, lane[k], ops', unborn')
    BY OtherLane
  <2>2. /\ LaneInOrder(k, Ends(k, "early"), ops', unborn')
        /\ LaneInOrder(k, Ends(k, "stop"), ops', unborn')
    BY <2>1, EndsKeepOrder
  <2> QED
    BY <2>1, <2>2
<1>3. \A k \in Lanes : lane'[k].op = lane[k].op /\ lane'[k].pc = lane[k].pc
  BY DEF Ends, Orderly, LaneInOrder, LaneState
<1>4. CancelHitsItsOperation'
  BY <1>3 DEF Orderly, OpsTypeOK, CancelHitsItsOperation
<1>5. DoneHasEffect'
  BY DEF DoneHasEffect, Row, Effective
<1> QED
  BY <1>1, <1>2, <1>4, <1>5 DEF Orderly

(* What the steps outside the lanes are known to start from.               *)
LEMMA RequestFacts ==
  ASSUME Orderly
  PROVE  /\ ops \in [Ops -> [status : OpStatus, kind : Kinds \cup {"none"}, applied : BOOLEAN]]
         /\ \A o \in Ops : ops[o].status # "absent" => ops[o].kind \in Kinds
         /\ \A o \in Ops : ops[o].status = "done" /\ ops[o].kind \in Effective => ops[o].applied
         /\ \A o \in unborn : ops[o].status = "absent"
         /\ unborn \subseteq Ops
         /\ lane \in [Lanes -> LaneState]
         /\ \A k \in Lanes : lane[k].pc \in Working => lane[k].op \in Ops \ unborn
         /\ phase \in {"down", "boot"} => lane = [l \in Lanes |-> Asleep]
         /\ phase \in {"down", "boot", "on", "stopping"}
         /\ bell \in [Lanes -> BOOLEAN]
         /\ request \in [Clients -> [pc : RequestPC, op : Ops \cup {NoOp}]]
         /\ \A c \in Clients : request[c].pc \in {"cancel", "look", "remove"}
                                 => request[c].op \in Ops \ unborn
         /\ boots \in Nat /\ faults \in Nat
<1>1. \A k \in Lanes : lane[k].pc \in Working => lane[k].op \in Ops \ unborn
  BY DEF Orderly, LaneInOrder, Working
<1>2. \A o \in Ops : ops[o].status = "done" /\ ops[o].kind \in Effective => ops[o].applied
  BY DEF Orderly, DoneHasEffect, Row, Effective
<1>3. OpsTypeOK
  BY DEF Orderly
<1>4. \A c \in Clients : request[c].pc \in {"cancel", "look", "remove"}
                            => request[c].op \in Ops \ unborn
  BY DEF Orderly
<1>5. phase \in {"down", "boot"} => lane = [l \in Lanes |-> Asleep]
  BY DEF Orderly
<1>6. \A o \in unborn : ops[o].status = "absent"
  BY DEF Orderly
<1> QED
  BY <1>1, <1>2, <1>3, <1>4, <1>5, <1>6, Zenon DEF OpsTypeOK

(* A row removed from the table takes nothing else out of order.           *)
LEMMA RowGone ==
  ASSUME Orderly, NEW gone \in SUBSET Ops,
         \A o \in Ops : ops'[o] = IF o \in gone THEN NoRow ELSE ops[o],
         ops' \in [Ops -> [status : OpStatus, kind : Kinds \cup {"none"}, applied : BOOLEAN]],
         request' \in [Clients -> [pc : RequestPC, op : Ops \cup {NoOp}]],
         \A c \in Clients : request'[c].pc \in {"cancel", "look", "remove"}
                              => request'[c].op \in Ops \ unborn,
         UNCHANGED <<unborn, phase, lane, bell, cancels, boots, faults>>
  PROVE  Orderly'
<1>1. /\ \A o \in Ops : ops'[o].status # "absent" => ops'[o].kind \in Kinds
      /\ \A o \in Ops : ops'[o].status = "done" /\ ops'[o].kind \in Effective => ops'[o].applied
      /\ \A o \in unborn' : ops'[o].status = "absent"
      /\ \A k \in Lanes : lane[k].pc \in Working =>
           ops'[lane[k].op] = ops[lane[k].op] \/ ops'[lane[k].op].status = "absent"
  BY RequestFacts DEF NoRow
<1> QED
  BY <1>1, RequestFacts, OthersMove

(* A handler that replies leaves nothing behind.                           *)
LEMMA ReplyKeeps ==
  ASSUME Orderly, NEW c \in Clients, Reply(c)
  PROVE  /\ request' \in [Clients -> [pc : RequestPC, op : Ops \cup {NoOp}]]
         /\ \A d \in Clients : request'[d].pc \in {"cancel", "look", "remove"}
                                 => request'[d].op \in Ops \ unborn
<1>1. NoRequest \in [pc : RequestPC, op : Ops \cup {NoOp}] /\ NoRequest.pc = "idle"
  BY DEF NoRequest, RequestPC
<1> QED
  BY <1>1, RequestFacts DEF Reply

(* One that goes on goes on about the same operation.                      *)
LEMMA GotoKeeps ==
  ASSUME Orderly, NEW c \in Clients, NEW pc \in {"look", "remove"},
         request[c].pc \in {"cancel", "look"}, Goto(c, pc)
  PROVE  /\ request' \in [Clients -> [pc : RequestPC, op : Ops \cup {NoOp}]]
         /\ \A d \in Clients : request'[d].pc \in {"cancel", "look", "remove"}
                                 => request'[d].op \in Ops \ unborn
<1> DEFINE me == [request[c] EXCEPT !.pc = pc]
<1>1. me \in [pc : RequestPC, op : Ops \cup {NoOp}] /\ me.op \in Ops \ unborn
  BY RequestFacts DEF RequestPC
<1>2. request' = [request EXCEPT ![c] = me]
  BY DEF Goto
<1> HIDE DEF me
<1> QED
  BY <1>1, <1>2, RequestFacts

(* Queueing an operation takes the least id never used.                    *)
LEMMA EnqueueOrderly ==
  ASSUME Orderly, NEW c \in Clients, Enqueue(c)
  PROVE  Orderly'
<1> DEFINE n == Oldest(unborn)
<1>1. PICK k \in Kinds :
        ops' = [ops EXCEPT ![n] = [NoRow EXCEPT !.status = "pending", !.kind = k]]
  BY DEF Enqueue
<1> DEFINE row == [NoRow EXCEPT !.status = "pending", !.kind = k]
<1>2. /\ ops' = [ops EXCEPT ![n] = row] /\ unborn' = unborn \ {n} /\ unborn # {}
      /\ phase \in {"boot", "on"}
      /\ request' = [request EXCEPT ![c] = [pc |-> "ring", op |-> NoOp]]
      /\ UNCHANGED <<phase, lane, bell, cancels, boots, faults>>
  BY <1>1 DEF Enqueue, Begin, Serving
<1>3. n \in unborn
  BY <1>2, LeastIdExists, OpsAreNumbered, RequestFacts
<1>4. /\ row \in [status : OpStatus, kind : Kinds \cup {"none"}, applied : BOOLEAN]
      /\ row.status = "pending" /\ row.kind \in Kinds
  BY DEF NoRow, OpStatus, OpActive
<1> HIDE DEF n, row
<1>5. \A o \in Ops : ops'[o] = IF o = n THEN row ELSE ops[o]
  BY <1>2, RequestFacts
<1>6. ops' \in [Ops -> [status : OpStatus, kind : Kinds \cup {"none"}, applied : BOOLEAN]]
  BY <1>2, <1>4, RequestFacts
<1>7. /\ \A o \in Ops : ops'[o].status # "absent" => ops'[o].kind \in Kinds
      /\ \A o \in Ops : ops'[o].status = "done" /\ ops'[o].kind \in Effective => ops'[o].applied
      /\ \A o \in unborn' : ops'[o].status = "absent"
      /\ \A k2 \in Lanes : lane[k2].pc \in Working => ops'[lane[k2].op] = ops[lane[k2].op]
  BY <1>2, <1>3, <1>4, <1>5, RequestFacts
<1>8. /\ request' \in [Clients -> [pc : RequestPC, op : Ops \cup {NoOp}]]
      /\ \A d \in Clients : request'[d].pc \in {"cancel", "look", "remove"}
                              => request'[d].op \in Ops \ unborn'
  BY <1>2, RequestFacts DEF RequestPC
<1> QED
  BY <1>2, <1>6, <1>7, <1>8, RequestFacts, OthersMove

(* Handlers, at every one of their steps.                                  *)
LEMMA RequestOrderly ==
  ASSUME Orderly, NEW c \in Clients, BeginCancel(c) \/ RequestStep(c)
  PROVE  Orderly'
<1>1. CASE BeginCancel(c)
  <2>1. PICK o \in Ops \ unborn : request' = [request EXCEPT ![c] = [pc |-> "cancel", op |-> o]]
    BY <1>1 DEF BeginCancel, Begin
  <2>2. UNCHANGED <<ops, unborn, phase, lane, bell, cancels, boots, faults>>
    BY <1>1 DEF BeginCancel
  <2>3. /\ request' \in [Clients -> [pc : RequestPC, op : Ops \cup {NoOp}]]
        /\ \A d \in Clients : request'[d].pc \in {"cancel", "look", "remove"}
                                => request'[d].op \in Ops \ unborn
    BY <2>1, RequestFacts DEF RequestPC
  <2> QED
    BY <2>2, <2>3, RequestFacts, OthersMove
<1>2. CASE Ring(c)
  <2>1. bell' \in [Lanes -> BOOLEAN] /\ Reply(c)
        /\ UNCHANGED <<ops, unborn, phase, lane, cancels, boots, faults>>
    BY <1>2 DEF Ring, RingAll
  <2> QED
    BY <2>1, ReplyKeeps, RequestFacts, OthersMove
<1>3. CASE Cancel(c)
  <2> DEFINE l == cancels[request[c].op]
  <2>1. request[c].pc = "cancel" /\ UNCHANGED <<ops, unborn, phase, bell, cancels, boots, faults>>
    BY <1>3 DEF Cancel
  <2>2. CASE l = None
    <3>1. Goto(c, "look") /\ UNCHANGED lane
      BY <1>3, <2>2 DEF Cancel
    <3> QED
      BY <2>1, <3>1, GotoKeeps, RequestFacts, OthersMove
  <2>3. CASE l # None
    <3>1. Reply(c) /\ lane' = IF lane[l].ended = "no"
                              THEN [lane EXCEPT ![l].ended = "early"] ELSE lane
      BY <1>3, <2>3 DEF Cancel
    <3>2. request[c].op \in Ops /\ l \in Lanes /\ lane[l].pc # "asleep"
      <4>1. request[c].op \in Ops
        BY <2>1, RequestFacts
      <4>2. l \in Lanes
        BY <4>1, <2>3 DEF Orderly, OpsTypeOK
      <4>3. lane[l].pc # "asleep"
        BY <4>1, <2>3 DEF Orderly, CancelHitsItsOperation
      <4> QED
        BY <4>1, <4>2, <4>3
    <3> HIDE DEF l
    <3>3. phase \notin {"down", "boot"}
      BY <3>2, LaneFacts
    <3>4. Ends(l, "early") \in LaneState
      <4>1. lane[l] \in LaneState
        BY <3>2, LaneFacts
      <4> QED
        BY <4>1 DEF Ends, LaneState
    <3>5. lane' = lane \/ lane' = [lane EXCEPT ![l] = Ends(l, "early")]
      BY <3>1 DEF Ends
    <3>6. /\ lane' \in [Lanes -> LaneState]
          /\ \A k \in Lanes : lane'[k] \in {lane[k], Ends(k, "early"), Ends(k, "stop")}
      BY <3>2, <3>4, <3>5, RequestFacts
    <3> QED
      BY <2>1, <3>1, <3>3, <3>6, ReplyKeeps, RequestFacts, OthersMove
  <2> QED
    BY <2>2, <2>3
<1>4. CASE LookBeforeRemoving(c)
  <2>1. request[c].pc = "look" /\ UNCHANGED <<ops, unborn, phase, lane, bell, cancels, boots, faults>>
    BY <1>4 DEF LookBeforeRemoving
  <2>2. Goto(c, "remove") \/ Reply(c)
    BY <1>4 DEF LookBeforeRemoving
  <2>3. /\ request' \in [Clients -> [pc : RequestPC, op : Ops \cup {NoOp}]]
        /\ \A d \in Clients : request'[d].pc \in {"cancel", "look", "remove"}
                                => request'[d].op \in Ops \ unborn
    BY <2>1, <2>2, GotoKeeps, ReplyKeeps
  <2> QED
    BY <2>1, <2>3, RequestFacts, OthersMove
<1>5. CASE Remove(c)
  <2>1. /\ ops' = [ops EXCEPT ![request[c].op] = NoRow] /\ Reply(c) /\ request[c].pc = "remove"
        /\ UNCHANGED <<unborn, phase, lane, bell, cancels, boots, faults>>
    BY <1>5 DEF Remove
  <2>2. {request[c].op} \in SUBSET Ops
    BY <2>1, RequestFacts
  <2>3. /\ \A o \in Ops : ops'[o] = IF o \in {request[c].op} THEN NoRow ELSE ops[o]
        /\ ops' \in [Ops -> [status : OpStatus, kind : Kinds \cup {"none"}, applied : BOOLEAN]]
    BY <2>1, <2>2, RequestFacts DEF NoRow, OpStatus
  <2> QED
    BY <2>1, <2>2, <2>3, ReplyKeeps, RowGone
<1> QED
  BY <1>1, <1>2, <1>3, <1>4, <1>5 DEF RequestStep

(* A start, a stop, a crash, retention and a dismissal.                    *)
LEMMA ProcessOrderly ==
  ASSUME Orderly, DismissOperation \/ DeleteFinishedBefore \/ Boot \/ Start \/ Stop \/ Crash
  PROVE  Orderly'
<1> DEFINE Rows == [status : OpStatus, kind : Kinds \cup {"none"}, applied : BOOLEAN]
<1>1. CASE DismissOperation
  <2>1. PICK o \in Row("done") \cup Row("failed") : ops' = [ops EXCEPT ![o] = NoRow]
    BY <1>1 DEF DismissOperation
  <2>2. /\ phase # "down" /\ {o} \in SUBSET Ops
        /\ UNCHANGED <<unborn, phase, lane, bell, cancels, request, boots, faults>>
    BY <1>1 DEF DismissOperation, Serving, Row
  <2>3. /\ \A p \in Ops : ops'[p] = IF p \in {o} THEN NoRow ELSE ops[p]
        /\ ops' \in [Ops -> Rows]
    BY <2>1, <2>2, RequestFacts DEF NoRow, OpStatus
  <2> QED
    BY <2>2, <2>3, RequestFacts, RowGone
<1>2. CASE DeleteFinishedBefore
  <2>1. PICK old \in (SUBSET Prunable) \ {{}} : ops' = [o \in Ops |-> IF o \in old THEN NoRow ELSE ops[o]]
    BY <1>2 DEF DeleteFinishedBefore
  <2>2. /\ phase # "down" /\ old \in SUBSET Ops
        /\ UNCHANGED <<unborn, phase, lane, bell, cancels, request, boots, faults>>
    BY <1>2 DEF DeleteFinishedBefore, Prunable
  <2>3. /\ \A p \in Ops : ops'[p] = IF p \in old THEN NoRow ELSE ops[p]
        /\ ops' \in [Ops -> Rows]
    BY <2>1, <2>2, RequestFacts DEF NoRow, OpStatus
  <2> QED
    BY <2>2, <2>3, RequestFacts, RowGone
<1>3. CASE Boot
  <2>1. /\ phase = "down" /\ phase' = "boot" /\ boots' = boots + 1
        /\ UNCHANGED <<ops, unborn, lane, bell, cancels, request, faults>>
    BY <1>3 DEF Boot
  <2> QED
    BY <2>1, RequestFacts, OthersMove
<1>4. CASE Start
  <2>1. /\ phase = "boot" /\ phase' = "on" /\ ops' = ResetStale /\ bell' \in [Lanes -> BOOLEAN]
        /\ UNCHANGED <<unborn, lane, cancels, request, boots, faults>>
    BY <1>4 DEF Start, RingAll
  <2>2. \A o \in Ops :
          /\ ops'[o] \in Rows
          /\ ops'[o] = ops[o] \/ /\ ops[o].status = "running" /\ ops'[o].status = "pending"
                                 /\ ops'[o].kind = ops[o].kind
    <3> TAKE o \in Ops
    <3>1. ops[o] \in Rows
      BY RequestFacts
    <3>2. ops'[o] = IF ops[o].status = "running"
                    THEN [ops[o] EXCEPT !.status = "pending"] ELSE ops[o]
      BY <2>1 DEF ResetStale
    <3> QED
      BY <3>1, <3>2 DEF OpStatus, OpActive
  <2>3. ops' \in [Ops -> Rows]
    BY <2>1, <2>2 DEF ResetStale
  <2>4. /\ \A o \in Ops : ops'[o].status # "absent" => ops'[o].kind \in Kinds
        /\ \A o \in Ops : ops'[o].status = "done" /\ ops'[o].kind \in Effective => ops'[o].applied
        /\ \A o \in unborn : ops'[o].status = "absent"
    BY <2>2, RequestFacts
  <2>5. \A k \in Lanes : lane[k].pc \notin Working
    BY <2>1, RequestFacts DEF Asleep, Working
  <2> QED
    BY <2>1, <2>3, <2>4, <2>5, RequestFacts, OthersMove
<1>5. CASE Stop
  <2>1. /\ phase' = "stopping"
        /\ lane' = [l \in Lanes |-> IF lane[l].pc = "exec" /\ lane[l].ended = "no"
                                    THEN Ends(l, "stop") ELSE lane[l]]
        /\ UNCHANGED <<ops, unborn, bell, cancels, request, boots, faults>>
    BY <1>5 DEF Stop, Ends
  <2>2. \A k \in Lanes : Ends(k, "stop") \in LaneState
    BY RequestFacts DEF Ends, LaneState
  <2>3. /\ lane' \in [Lanes -> LaneState]
        /\ \A k \in Lanes : lane'[k] \in {lane[k], Ends(k, "early"), Ends(k, "stop")}
    BY <2>1, <2>2, RequestFacts
  <2> QED
    BY <2>1, <2>3, RequestFacts, OthersMove
<1>6. CASE Crash
  <2>1. /\ phase' = "down" /\ faults' = 0
        /\ lane' = [l \in Lanes |-> Asleep] /\ bell' = [l \in Lanes |-> FALSE]
        /\ cancels' = [o \in Ops |-> None] /\ request' = [c \in Clients |-> NoRequest]
        /\ UNCHANGED <<ops, unborn, boots>>
    BY <1>6 DEF Crash
  <2>2. Asleep \in LaneState /\ NoRequest \in [pc : RequestPC, op : Ops \cup {NoOp}]
        /\ NoRequest.pc = "idle"
    BY DEF Asleep, LaneState, LanePC, NoRequest, RequestPC
  <2>3. OpsTypeOK'
    BY <2>1, <2>2 DEF Orderly, OpsTypeOK
  <2>4. \A l \in Lanes : LaneInOrder(l, lane'[l], ops', unborn')
    BY <2>1, <2>2 DEF LaneInOrder, Asleep, Working
  <2>5. CancelHitsItsOperation' /\ DoneHasEffect'
    BY <2>1 DEF Orderly, CancelHitsItsOperation, DoneHasEffect, Row
  <2> QED
    BY <2>1, <2>2, <2>3, <2>4, <2>5 DEF Orderly
<1> QED
  BY <1>1, <1>2, <1>3, <1>4, <1>5, <1>6

(* Every step leaves the operations in order.                              *)
LEMMA OrderlyStep == Orderly /\ [Next]_vars => Orderly'
<1> SUFFICES ASSUME Orderly, [Next]_vars PROVE Orderly'
  OBVIOUS
<1>1. CASE Next
  <2>1. CASE \E l \in Lanes : LaneStep(l) \/ Fault(l) \/ TimeOut(l)
    BY <2>1, LaneStepOrderly, FaultOrderly
  <2>2. CASE \E c \in Clients : Enqueue(c) \/ BeginCancel(c) \/ RequestStep(c)
    BY <2>2, EnqueueOrderly, RequestOrderly
  <2>3. CASE DismissOperation \/ DeleteFinishedBefore \/ Boot \/ Start \/ Stop \/ Crash
    BY <2>3, ProcessOrderly
  <2> QED
    BY <1>1, <2>1, <2>2, <2>3 DEF Next
<1>2. CASE UNCHANGED vars
  BY <1>2 DEF vars, Orderly, OpsTypeOK, CancelHitsItsOperation, DoneHasEffect, Row
<1> QED
  BY <1>1, <1>2

LEMMA AlwaysOrderly == Spec => []Orderly
BY OrderlyInit, OrderlyStep, PTL DEF Spec

(* Every variable keeps its type through requests, operations, faults and  *)
(* restarts.                                                               *)
THEOREM OpsTypeCorrect == Spec => []OpsTypeOK
<1>1. Orderly => OpsTypeOK
  BY DEF Orderly
<1> QED
  BY <1>1, AlwaysOrderly, PTL

(* A cancellation that finds an entry stops the operation it was meant     *)
(* for, never the next one of the lane (Worker.Cancel, runOne).            *)
THEOREM CancellationsHit == Spec => []CancelHitsItsOperation
<1>1. Orderly => CancelHitsItsOperation
  BY DEF Orderly
<1> QED
  BY <1>1, AlwaysOrderly, PTL

(* Tagging and extraction reported as done did something, across restarts  *)
(* (execBulkTag, execExtractAudio, SetDone).                               *)
THEOREM DoneIsEffective == Spec => []DoneHasEffect
<1>1. Orderly => DoneHasEffect
  BY DEF Orderly
<1> QED
  BY <1>1, AlwaysOrderly, PTL

-----------------------------------------------------------------------------
(* Rows change only so: one is queued, claimed, ended, removed, or put     *)
(* back when the worker starts.                                            *)
RowMoves(o) ==
    \/ ops'[o].status = ops[o].status /\ ops'[o].kind = ops[o].kind
    \/ ops'[o].status = "pending" /\ (\E c \in Clients : Enqueue(c)) /\ ops[o].status = "absent"
    \/ ops'[o].status = "pending" /\ Start
    \/ ops'[o].status = "running" /\ \E l \in Lanes : ClaimOp(l) /\ lane'[l].op = o /\ lane'[l].pc = "register"
    \/ ops'[o].status \in OpEnded /\ \E l \in Lanes : FinishOp(l)
    \/ ops'[o].status = "absent"

LEMMA LaneRowMoves ==
  ASSUME Orderly, NEW l \in Lanes, LaneStep(l), NEW o \in Ops
  PROVE  RowMoves(o)
<1>0. LaneInOrder(l, lane[l], ops, unborn)
  BY DEF Orderly
<1>1. CASE ops' = ops
  BY <1>1 DEF RowMoves
<1>2. CASE ClaimOp(l)
  <2> DEFINE p == Oldest(Waiting(l))
  <2>1. /\ ops' = [ops EXCEPT ![p].status = "running"]
        /\ lane' = [lane EXCEPT ![l] = [Asleep EXCEPT !.pc = "register", !.op = p,
                                                      !.kind = ops[p].kind]]
    BY <1>2 DEF ClaimOp, SetStatus
  <2> HIDE DEF p
  <2>2. lane'[l].op = p /\ lane'[l].pc = "register"
    BY <2>1, LaneFacts DEF Asleep
  <2>3. p # o => ops'[o] = ops[o]
    BY <2>1, LaneFacts
  <2>4. p = o => ops'[o].status = "running"
    BY <2>1, LaneFacts
  <2> QED
    BY <1>2, <2>2, <2>3, <2>4 DEF RowMoves
<1>3. CASE ExecUnit(l)
  BY <1>0, <1>3, LaneFacts DEF ExecUnit, RowMoves, LaneInOrder
<1>4. CASE FinishOp(l)
  <2>1. lane[l].outcome \in OpEnded
    BY <1>0, <1>4 DEF LaneInOrder, FinishOp
  <2>2. ops' = ops \/ ops' = [ops EXCEPT ![lane[l].op].status = lane[l].outcome]
    BY <1>4 DEF FinishOp, SetStatus
  <2> QED
    BY <1>4, <2>1, <2>2, LaneFacts DEF RowMoves
<1>5. CASE DropHidden(l)
  BY <1>5, LaneFacts DEF DropHidden, NoRow, RowMoves
<1> QED
  BY <1>1, <1>2, <1>3, <1>4, <1>5
     DEF LaneStep, Wake, LaneRests, RegisterOp, EndExec, Unregister

LEMMA RowsMove ==
  ASSUME Orderly, Next, NEW o \in Ops
  PROVE  RowMoves(o)
<1>1. CASE ops' = ops
  BY <1>1 DEF RowMoves
<1>2. CASE \E l \in Lanes : LaneStep(l)
  BY <1>2, LaneRowMoves
<1>3. CASE \E c \in Clients : Enqueue(c)
  <2>1. PICK c \in Clients : Enqueue(c)
    BY <1>3
  <2>2. PICK k \in Kinds :
          ops' = [ops EXCEPT ![Oldest(unborn)] = [NoRow EXCEPT !.status = "pending", !.kind = k]]
    BY <2>1 DEF Enqueue
  <2>3. Oldest(unborn) \in unborn
    BY <2>1, LeastIdExists, OpsAreNumbered, RequestFacts DEF Enqueue
  <2>4. ops[Oldest(unborn)].status = "absent"
    BY <2>3, RequestFacts
  <2>5. o # Oldest(unborn) => ops'[o] = ops[o]
    BY <2>2, RequestFacts
  <2>6. o = Oldest(unborn) => ops'[o].status = "pending"
    BY <2>2, RequestFacts DEF NoRow
  <2> QED
    BY <2>1, <2>4, <2>5, <2>6 DEF RowMoves
<1>4. CASE \E c \in Clients : Remove(c)
  BY <1>4, RequestFacts DEF Remove, NoRow, RowMoves
<1>5. CASE DismissOperation
  BY <1>5, RequestFacts DEF DismissOperation, NoRow, RowMoves
<1>6. CASE DeleteFinishedBefore
  BY <1>6 DEF DeleteFinishedBefore, NoRow, RowMoves
<1>7. CASE Start
  <2>1. ops'[o] = ops[o] \/ ops'[o] = [ops[o] EXCEPT !.status = "pending"]
    BY <1>7 DEF Start, ResetStale
  <2> QED
    BY <1>7, <2>1, RequestFacts DEF RowMoves
<1>8. \/ ops' = ops
      \/ \E l \in Lanes : LaneStep(l)
      \/ \E c \in Clients : Enqueue(c) \/ Remove(c)
      \/ DismissOperation \/ DeleteFinishedBefore \/ Start
  BY DEF Next, Fault, TimeOut, BeginCancel, RequestStep, Ring, Cancel,
         LookBeforeRemoving, Boot, Stop, Crash
<1> QED
  BY <1>1, <1>2, <1>3, <1>4, <1>5, <1>6, <1>7, <1>8

-----------------------------------------------------------------------------
(* No operation waits for a bell nobody rings.                             *)
LEMMA WakeupStep == Orderly /\ NoLostWakeup /\ [Next]_vars => NoLostWakeup'
<1> SUFFICES ASSUME Orderly, NoLostWakeup, [Next]_vars,
                    NEW l \in Lanes,
                    phase' = "on", faults' = 0, lane'[l].pc = "asleep", Waiting(l)' # {}
             PROVE  bell'[l] \/ \E c \in Clients : request'[c].pc = "ring"
  BY DEF NoLostWakeup
<1>f. faults \in Nat /\ bell \in [Lanes -> BOOLEAN] /\ lane \in [Lanes -> LaneState]
  BY RequestFacts
<1>1. CASE UNCHANGED vars
  BY <1>1 DEF NoLostWakeup, Waiting, Row, vars
<1>2. CASE Start
  BY <1>2 DEF Start, RingAll
<1>3. CASE \E c \in Clients : Enqueue(c)
  BY <1>3, RequestFacts DEF Enqueue, Begin
<1>4. CASE \E c \in Clients : Ring(c)
  BY <1>4 DEF Ring, RingAll
<1>5. CASE Next /\ ~Start /\ ~(\E c \in Clients : Enqueue(c) \/ Ring(c))
  <2>1. faults = 0
    <3>1. ~Crash
      BY DEF Crash
    <3>2. \A k \in Lanes : ~Fault(k)
      BY <1>f DEF Fault
    <3> QED
      BY <1>5, <3>1, <3>2 DEF Next, LaneStep, Wake, ClaimOp, LaneRests, RegisterOp, ExecUnit,
               EndExec, FinishOp, DropHidden, Unregister, TimeOut, DeleteFinishedBefore,
               BeginCancel, RequestStep, Cancel, LookBeforeRemoving, Remove,
               DismissOperation, Boot, Stop
  <2>2. phase = "on"
    BY <1>5 DEF Next, LaneStep, Wake, ClaimOp, LaneRests, RegisterOp, ExecUnit, EndExec,
             FinishOp, DropHidden, Unregister, Fault, TimeOut, DeleteFinishedBefore,
             BeginCancel, RequestStep, Cancel, LookBeforeRemoving, Remove,
             DismissOperation, Boot, Stop, Crash
  <2>3. Waiting(l)' \subseteq Waiting(l)
    BY <1>5, RowsMove DEF RowMoves, Waiting, Row, OpEnded
  <2>4. lane[l].pc = "asleep" /\ bell'[l] = bell[l]
    <3>1. CASE \E k \in Lanes : LaneStep(k)
      <4>1. PICK k \in Lanes : LaneStep(k)
        BY <3>1
      <4>2. LaneInOrder(k, lane[k], ops, unborn) /\ lane[k] \in LaneState
        BY LaneFacts DEF Orderly
      <4>3. CASE k # l
        BY <4>1, <4>3, <1>f DEF LaneStep, Wake, ClaimOp, LaneRests, RegisterOp, ExecUnit, EndExec,
                  FinishOp, AfterFinish, DropHidden, Unregister
      <4>4. CASE k = l /\ LaneRests(l)
        BY <2>2, <2>3, <4>4 DEF LaneRests
      <4>5. CASE k = l /\ ~LaneRests(l)
        <5>1. CASE Wake(l) \/ DropHidden(l)
          BY <4>2, <5>1, <1>f DEF Wake, DropHidden, LaneState
        <5>6. CASE EndExec(l)
          BY <4>2, <5>6, <1>f DEF EndExec, LaneState
        <5>7. CASE RegisterOp(l)
          <6> DEFINE e == IF phase = "stopping" THEN "stop" ELSE "no"
          <6>1. lane' = [lane EXCEPT ![l] = [lane[l] EXCEPT !.pc = "exec", !.ended = e]]
            BY <5>7 DEF RegisterOp
          <6> HIDE DEF e
          <6>2. lane'[l].pc = "exec"
            BY <6>1, <4>2, <1>f DEF LaneState
          <6> QED
            BY <6>2
        <5>5. CASE ExecUnit(l)
          BY <4>2, <5>5, <1>f DEF ExecUnit, LaneState
        <5>2. CASE ClaimOp(l)
          BY <5>2, <1>f DEF ClaimOp, Asleep
        <5>3. CASE FinishOp(l)
          <6> DEFINE pc == IF lane[l].kind \in Hidden THEN "drop" ELSE "unregister"
          <6>1. lane' = [lane EXCEPT ![l] = [Asleep EXCEPT !.op = lane[l].op, !.pc = pc]]
            BY <5>3, Zenon DEF FinishOp, AfterFinish
          <6>2. lane'[l].pc = pc
            BY <6>1, <1>f DEF Asleep
          <6> QED
            BY <6>2
        <5>4. CASE Unregister(l)
          BY <5>4, <1>f DEF Unregister, Asleep
        <5> QED
          BY <4>1, <4>5, <5>1, <5>2, <5>3, <5>4, <5>5, <5>6, <5>7 DEF LaneStep
      <4> QED
        BY <4>3, <4>4, <4>5
    <3>2. CASE \E k \in Lanes : Fault(k)
      BY <3>2, <1>f DEF Fault
    <3>3. CASE \E k \in Lanes : TimeOut(k)
      BY <3>3, <1>f DEF TimeOut, LaneState
    <3>4. CASE Stop \/ Crash \/ Boot
      BY <3>4 DEF Stop, Crash, Boot
    <3>5. CASE \E c \in Clients : Cancel(c)
      <4>1. lane'[l].pc = lane[l].pc /\ bell' = bell
        BY <3>5, <1>f DEF Cancel, LaneState
      <4> QED
        BY <4>1
    <3>6. CASE UNCHANGED <<lane, bell>>
      BY <3>6
    <3> QED
      BY <1>5, <3>1, <3>2, <3>3, <3>4, <3>5, <3>6
         DEF Next, DeleteFinishedBefore, BeginCancel, RequestStep, LookBeforeRemoving,
             Remove, DismissOperation
  <2>5. Waiting(l) # {}
    BY <2>3
  <2>6. bell[l] \/ \E c \in Clients : request[c].pc = "ring"
    BY <2>1, <2>2, <2>4, <2>5 DEF NoLostWakeup
  <2>7. \A c \in Clients : request[c].pc = "ring" => request'[c].pc = "ring"
    BY <1>5, RequestFacts DEF Next, LaneStep, Wake, ClaimOp, LaneRests, RegisterOp, ExecUnit, EndExec,
             FinishOp, DropHidden, Unregister, Fault, TimeOut, DeleteFinishedBefore,
             BeginCancel, Begin, RequestStep, Cancel, Goto, Reply, LookBeforeRemoving, Remove,
             DismissOperation, Boot, Stop, Crash
  <2> QED
    BY <2>4, <2>6, <2>7
<1> QED
  BY <1>1, <1>2, <1>3, <1>4, <1>5

(* A lane that sleeps while an operation waits for it has a signal in its  *)
(* channel, or a handler on its way to send one (enqueue, notify).         *)
THEOREM WakeupsReachLanes == Spec => []NoLostWakeup
<1>1. Init => NoLostWakeup
  BY DEF Init, NoLostWakeup
<1> QED
  BY <1>1, WakeupStep, AlwaysOrderly, PTL DEF Spec

(* Rows that wait or run leave the table by a cancellation or by the end   *)
(* of a hidden operation only (DeleteFinishedBefore, DismissOperation).    *)
THEOREM ActiveRowsAreKept == Spec => ActiveLeavesByCancel
<1> DEFINE A == \A o \in Ops : ops[o].status \in OpActive /\ ops'[o].status = "absent"
                  => \/ \E c \in Clients : request[c].pc = "remove" /\ request[c].op = o
                     \/ \E l \in Lanes : lane[l].pc = "drop" /\ lane[l].op = o
<1>1. Orderly /\ [Next]_vars => [A]_vars
  <2> SUFFICES ASSUME Orderly, Next, NEW o \in Ops,
                      ops[o].status \in OpActive, ops'[o].status = "absent"
               PROVE  \/ \E c \in Clients : request[c].pc = "remove" /\ request[c].op = o
                      \/ \E l \in Lanes : lane[l].pc = "drop" /\ lane[l].op = o
    OBVIOUS
  <2>1. ops' # ops
    BY DEF OpActive
  <2>2. CASE \E l \in Lanes : LaneStep(l)
    <3>1. PICK l \in Lanes : LaneStep(l)
      BY <2>2
    <3>2. LaneInOrder(l, lane[l], ops, unborn) /\ lane[l] \in LaneState
      BY LaneFacts DEF Orderly
    <3>3. CASE DropHidden(l)
      BY <3>3, RequestFacts DEF DropHidden, OpActive
    <3>4. CASE ClaimOp(l)
      BY <3>4, RequestFacts DEF ClaimOp, SetStatus, OpActive
    <3>5. CASE ExecUnit(l)
      BY <3>5, RequestFacts DEF ExecUnit, OpActive
    <3>6. CASE FinishOp(l)
      BY <3>2, <3>6, RequestFacts DEF FinishOp, SetStatus, LaneInOrder, OpActive, OpEnded
    <3> QED
      BY <2>1, <3>1, <3>3, <3>4, <3>5, <3>6
         DEF LaneStep, Wake, LaneRests, RegisterOp, EndExec, Unregister
  <2>3. CASE \E c \in Clients : Enqueue(c)
    BY <2>3, RequestFacts DEF Enqueue, OpActive, NoRow
  <2>4. CASE \E c \in Clients : Remove(c)
    BY <2>4, RequestFacts DEF Remove, OpActive
  <2>5. CASE DismissOperation
    BY <2>5, RequestFacts DEF DismissOperation, OpActive, Row
  <2>6. CASE DeleteFinishedBefore
    BY <2>6, RequestFacts DEF DeleteFinishedBefore, OpActive, OpEnded, Prunable
  <2>7. CASE Start
    BY <2>7, RequestFacts DEF Start, ResetStale, OpActive
  <2> QED
    BY <2>1, <2>2, <2>3, <2>4, <2>5, <2>6, <2>7
       DEF Next, Fault, TimeOut, BeginCancel, RequestStep, Ring, Cancel,
           LookBeforeRemoving, Boot, Stop, Crash
<1> QED
  BY <1>1, AlwaysOrderly, PTL DEF Spec, ActiveLeavesByCancel

-----------------------------------------------------------------------------
(* The rows that run without a lane: one more per fault, no more than that.*)
Orphans == {o \in Row("running") : \A l \in Lanes : ~AtWork(l, o)}
OrphansAreCounted == phase = "on" => IsFiniteSet(Orphans) /\ Cardinality(Orphans) <= faults

(* A smaller set with at most one element added.                           *)
LEMMA AtMostOneMore ==
  ASSUME NEW S, NEW T, NEW x, IsFiniteSet(S), T \subseteq S \cup {x}
  PROVE  IsFiniteSet(T) /\ Cardinality(T) <= Cardinality(S) + 1
<1>1. IsFiniteSet(S \cup {x}) /\ Cardinality(S \cup {x}) <= Cardinality(S) + 1
  <2>1. Cardinality(S) \in Nat
    BY FS_CardinalityType
  <2> QED
    BY <2>1, FS_AddElement
<1>2. IsFiniteSet(T) /\ Cardinality(T) <= Cardinality(S \cup {x})
  BY <1>1, FS_Subset
<1>3. Cardinality(T) \in Nat /\ Cardinality(S) \in Nat /\ Cardinality(S \cup {x}) \in Nat
  BY <1>1, <1>2, FS_CardinalityType
<1> QED
  BY <1>1, <1>2, <1>3

(* Without a fault a lane lets go of a row only when its status is final.  *)
LEMMA LanesLeaveNoOrphan ==
  ASSUME Orderly, NEW k \in Lanes, LaneStep(k)
  PROVE  Orphans' \subseteq Orphans
<1> SUFFICES ASSUME NEW o \in Orphans' PROVE o \in Orphans
  OBVIOUS
<1>1. o \in Ops /\ ops'[o].status = "running" /\ \A l \in Lanes : ~AtWork(l, o)'
  BY DEF Orphans, Row
<1>2. /\ LaneInOrder(k, lane[k], ops, unborn) /\ lane[k] \in LaneState
      /\ lane \in [Lanes -> LaneState]
  BY LaneFacts DEF Orderly
<1>3. \A l \in Lanes \ {k} : lane'[l] = lane[l]
  BY <1>2 DEF LaneStep, Wake, ClaimOp, LaneRests, RegisterOp, ExecUnit, EndExec,
              FinishOp, AfterFinish, DropHidden, Unregister
<1>4. ops[o].status = "running"
  <2>1. ~ClaimOp(k) => ops[o].status = "running"
    <3>1. CASE ExecUnit(k)
      BY <1>1, <3>1, RequestFacts DEF ExecUnit
    <3>2. CASE FinishOp(k)
      BY <1>1, <1>2, <3>2, RequestFacts DEF FinishOp, SetStatus, LaneInOrder, OpEnded
    <3>3. CASE DropHidden(k)
      BY <1>1, <3>3, RequestFacts DEF DropHidden, NoRow
    <3>4. CASE ops' = ops
      BY <1>1, <3>4
    <3> QED
      BY <3>1, <3>2, <3>3, <3>4 DEF LaneStep, Wake, LaneRests, RegisterOp, EndExec, Unregister
  <2>2. ClaimOp(k) => ops[o].status = "running"
    <3> SUFFICES ASSUME ClaimOp(k) PROVE ops[o].status = "running"
      OBVIOUS
    <3> DEFINE p == Oldest(Waiting(k))
    <3>1. /\ ops' = [ops EXCEPT ![p].status = "running"]
          /\ lane' = [lane EXCEPT ![k] = [Asleep EXCEPT !.pc = "register", !.op = p,
                                                        !.kind = ops[p].kind]]
      BY DEF ClaimOp, SetStatus
    <3> HIDE DEF p
    <3>2. lane'[k].op = p /\ lane'[k].pc = "register"
      BY <3>1, <1>2 DEF Asleep
    <3>3. p # o
      BY <1>1, <3>2 DEF AtWork
    <3>4. ops'[o] = ops[o]
      BY <1>1, <3>1, <3>3, RequestFacts
    <3> QED
      BY <1>1, <3>4
  <2> QED
    BY <2>1, <2>2
<1>5. ~AtWork(k, o)
  <2> SUFFICES ASSUME AtWork(k, o) PROVE FALSE
    OBVIOUS
  <2>1. RegisterOp(k) \/ ExecUnit(k) \/ EndExec(k) \/ FinishOp(k)
    BY DEF AtWork, LaneStep, Wake, ClaimOp, LaneRests, DropHidden, Unregister
  <2>2. CASE RegisterOp(k)
    <3> DEFINE e == IF phase = "stopping" THEN "stop" ELSE "no"
    <3>1. lane' = [lane EXCEPT ![k] = [lane[k] EXCEPT !.pc = "exec", !.ended = e]]
      BY <2>2 DEF RegisterOp
    <3> HIDE DEF e
    <3>2. lane'[k].pc = "exec" /\ lane'[k].op = lane[k].op
      BY <3>1, <1>2 DEF LaneState
    <3> QED
      BY <3>2, <1>1 DEF AtWork
  <2>3. CASE ExecUnit(k)
    BY <2>3, <1>1, <1>2 DEF ExecUnit, AtWork, LaneState
  <2>4. CASE EndExec(k)
    BY <2>4, <1>1, <1>2 DEF EndExec, AtWork, LaneState
  <2>5. CASE FinishOp(k)
    <3>1. ops' = [ops EXCEPT ![o].status = lane[k].outcome] /\ lane[k].outcome \in OpEnded
      BY <2>5, <1>2, <1>4 DEF FinishOp, SetStatus, AtWork, LaneInOrder
    <3> QED
      BY <3>1, <1>1, RequestFacts DEF OpEnded
  <2> QED
    BY <2>1, <2>2, <2>3, <2>4, <2>5
<1>6. \A l \in Lanes \ {k} : ~AtWork(l, o)
  BY <1>1, <1>3 DEF AtWork
<1> QED
  BY <1>1, <1>4, <1>5, <1>6 DEF Orphans, Row

(* Nor do the steps outside the lanes, once the worker runs.               *)
LEMMA OthersLeaveNoOrphan ==
  ASSUME Orderly, Next, phase = "on", phase' = "on",
         ~(\E l \in Lanes : LaneStep(l) \/ Fault(l))
  PROVE  Orphans' \subseteq Orphans /\ faults' = faults
<1>1. \A l \in Lanes : lane'[l].pc = lane[l].pc /\ lane'[l].op = lane[l].op
  <2>1. CASE \E l \in Lanes : TimeOut(l)
    BY <2>1, RequestFacts DEF TimeOut, LaneState
  <2>2. CASE \E c \in Clients : Cancel(c)
    BY <2>2, RequestFacts DEF Cancel, LaneState
  <2> QED
    BY <2>1, <2>2 DEF Next, Enqueue, BeginCancel, RequestStep, Ring, LookBeforeRemoving, Remove,
       DismissOperation, DeleteFinishedBefore, Boot, Start, Stop, Crash
<1>2. faults' = faults
  BY DEF Next, TimeOut, Enqueue, BeginCancel, RequestStep, Ring, Cancel, LookBeforeRemoving,
         Remove, DismissOperation, DeleteFinishedBefore, Boot, Start, Stop, Crash
<1>3. \A o \in Ops : ops'[o].status = "running" => ops[o].status = "running"
  BY RowsMove DEF RowMoves, OpEnded, ClaimOp, LaneStep
<1> QED
  BY <1>1, <1>2, <1>3 DEF Orphans, Row, AtWork

LEMMA OrphansStep == Orderly /\ OrphansAreCounted /\ [Next]_vars => OrphansAreCounted'
<1> SUFFICES ASSUME Orderly, OrphansAreCounted, [Next]_vars, phase' = "on"
             PROVE  IsFiniteSet(Orphans') /\ Cardinality(Orphans') <= faults'
  BY DEF OrphansAreCounted
<1>f. faults \in Nat
  BY RequestFacts
<1>1. CASE UNCHANGED vars
  BY <1>1 DEF OrphansAreCounted, Orphans, Row, AtWork, vars
<1>2. CASE Start
  <2>1. ops' = ResetStale /\ faults' = faults
    BY <1>2 DEF Start
  <2>2. Row("running")' = {}
    BY <2>1, RequestFacts DEF Row, ResetStale
  <2>3. Orphans' = {}
    BY <2>2 DEF Orphans
  <2> QED
    BY <1>f, <2>1, <2>3, FS_EmptySet
<1>3. CASE Next /\ ~Start
  <2>1. phase = "on"
    BY <1>3 DEF Next, LaneStep, Wake, ClaimOp, LaneRests, RegisterOp, ExecUnit, EndExec,
             FinishOp, DropHidden, Unregister, Fault, TimeOut, DeleteFinishedBefore, Enqueue,
             BeginCancel, RequestStep, Ring, Cancel, LookBeforeRemoving, Remove,
             DismissOperation, Boot, Stop, Crash
  <2>2. IsFiniteSet(Orphans) /\ Cardinality(Orphans) <= faults /\ Cardinality(Orphans) \in Nat
    BY <2>1, FS_CardinalityType DEF OrphansAreCounted
  <2>3. CASE Orphans' \subseteq Orphans /\ faults' = faults
    <3>1. IsFiniteSet(Orphans') /\ Cardinality(Orphans') <= Cardinality(Orphans)
      BY <2>2, <2>3, FS_Subset
    <3>2. Cardinality(Orphans') \in Nat
      BY <3>1, FS_CardinalityType
    <3> QED
      BY <1>f, <2>2, <2>3, <3>1, <3>2
  <2>4. CASE \E k \in Lanes : LaneStep(k)
    <3>1. faults' = faults
      BY <2>4 DEF LaneStep, Wake, ClaimOp, LaneRests, RegisterOp, ExecUnit, EndExec,
             FinishOp, DropHidden, Unregister
    <3> QED
      BY <2>3, <2>4, <3>1, LanesLeaveNoOrphan
  <2>5. CASE \E k \in Lanes : Fault(k)
    <3>1. PICK k \in Lanes : Fault(k)
      BY <2>5
    <3>2. Orphans' \subseteq Orphans \cup {lane[k].op}
      <4>1. ops' = ops /\ \A l \in Lanes \ {k} : lane'[l] = lane[l]
        BY <3>1, RequestFacts DEF Fault, AfterFinish
      <4> QED
        BY <4>1 DEF Orphans, Row, AtWork
    <3>3. faults' = faults + 1
      BY <3>1 DEF Fault
    <3>4. IsFiniteSet(Orphans') /\ Cardinality(Orphans') <= Cardinality(Orphans) + 1
      BY <2>2, <3>2, AtMostOneMore
    <3>5. Cardinality(Orphans') \in Nat
      BY <3>4, FS_CardinalityType
    <3> QED
      BY <1>f, <2>2, <3>3, <3>4, <3>5
  <2>6. CASE ~(\E l \in Lanes : LaneStep(l) \/ Fault(l))
    BY <1>3, <2>1, <2>3, <2>6, OthersLeaveNoOrphan
  <2> QED
    BY <2>4, <2>5, <2>6
<1> QED
  BY <1>1, <1>2, <1>3 DEF Next

(* While the worker runs, every row shown as running has a lane behind it, *)
(* save one per panic or failed verdict (Start, drainPending, runOne).     *)
THEOREM RunningRowsHaveLanes == Spec => []RunningHasLane
<1>1. Init => OrphansAreCounted
  BY DEF Init, OrphansAreCounted
<1>2. OrphansAreCounted => RunningHasLane
  BY DEF OrphansAreCounted, Orphans, RunningHasLane
<1> QED
  BY <1>1, <1>2, OrphansStep, AlwaysOrderly, PTL DEF Spec

=============================================================================
