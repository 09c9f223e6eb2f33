----------------------------- MODULE OpsWorker -----------------------------
(***************************************************************************)
(* Background operations (internal/ops, internal/repo/operation.go, and    *)
(* the part of internal/library that queues, cancels and dismisses them).  *)
(* Two lanes, light and heavy, each one goroutine asleep on a channel of   *)
(* capacity one, drain the table of operations; requests add to the table  *)
(* and ring both bells.                                                    *)
(*                                                                         *)
(* A step is one SQL statement, one critical section or one channel        *)
(* operation.                                                              *)
(***************************************************************************)
EXTENDS Ids, FiniteSets

CONSTANTS Ops,          \* the ids that can be generated
          Kinds,        \* the kinds of operation clients ask for
          Clients,      \* concurrent requests (bound)
          MaxBoots,     \* bound on the starts of the process
          MaxFaults,    \* bound on database errors and panics in one life
          None          \* no entry in the registry

ASSUME OpsAreNumbered == Ops \subseteq Nat \ {0}
ASSUME OpsBoundsAreNaturals == MaxBoots \in Nat /\ MaxFaults \in Nat

Lanes == {"light", "heavy"}

ASSUME NoneIsNoLane == None \notin Lanes

(* ops.Class and the kinds whose ShowInQueue is false.                     *)
Class == [bulk_tag |-> "light", bulk_hide |-> "light", bulk_meta |-> "heavy",
          extract_audio |-> "heavy", update_meta |-> "heavy", reindex |-> "heavy",
          cleanup |-> "heavy"]
Hidden == {"reindex", "cleanup"}

ASSUME KindsAreKnown == Kinds \subseteq DOMAIN Class

VARIABLES
    ops,       \* the operations table; applied: whether anything came of the row's
               \* operation so far (no column of the table, but what it is for)
    unborn,    \* ids not handed out yet
    phase,     \* "down"; "boot" before Start; "on"; "stopping" after a signal
    lane,      \* runLane, drainPending and runOne, per lane
    bell,      \* lane.ch: whether the channel holds a signal
    cancels,   \* Worker.cancels: the lane whose opCtx the entry cancels
    request,   \* a handler in progress, per client
    boots,     \* starts of the process, for the bound
    faults     \* errors and panics in this life of the process

vars == <<ops, unborn, phase, lane, bell, cancels, request, boots, faults>>

OpActive  == {"pending", "running"}
OpEnded   == {"done", "failed"}
OpStatus  == {"absent"} \cup OpActive \cup OpEnded
NoOp      == 0
NoRow     == [status |-> "absent", kind |-> "none", applied |-> FALSE]

(* ended: whether the operation's own context is over, "early" when it was *)
(* cancelled or timed out, "stop" with the process.  ok: whether a part of *)
(* the payload was carried out in this run.                                *)
LanePC    == {"asleep", "drain", "register", "exec", "finish", "drop", "unregister"}
LaneState == [pc : LanePC, op : Ops \cup {NoOp}, kind : Kinds \cup {"none"},
              ended : {"no", "early", "stop"}, ok : BOOLEAN, outcome : OpEnded \cup {"none"}]
Asleep    == [pc |-> "asleep", op |-> NoOp, kind |-> "none", ended |-> "no",
              ok |-> FALSE, outcome |-> "none"]

RequestPC == {"idle", "ring", "cancel", "look", "remove"}
NoRequest == [pc |-> "idle", op |-> NoOp]

OpsTypeOK ==
    /\ ops \in [Ops -> [status : OpStatus, kind : Kinds \cup {"none"}, applied : BOOLEAN]]
    /\ \A o \in Ops : ops[o].status # "absent" => ops[o].kind \in Kinds
    /\ unborn \subseteq Ops
    /\ phase \in {"down", "boot", "on", "stopping"}
    /\ lane \in [Lanes -> LaneState]
    /\ bell \in [Lanes -> BOOLEAN]
    /\ cancels \in [Ops -> Lanes \cup {None}]
    /\ request \in [Clients -> [pc : RequestPC, op : Ops \cup {NoOp}]]
    /\ boots \in Nat
    /\ faults \in Nat

Init ==
    /\ ops = [o \in Ops |-> NoRow]
    /\ unborn = Ops
    /\ phase = "down"
    /\ lane = [l \in Lanes |-> Asleep]
    /\ bell = [l \in Lanes |-> FALSE]
    /\ cancels = [o \in Ops |-> None]
    /\ request = [c \in Clients |-> NoRequest]
    /\ boots = 0
    /\ faults = 0

SetStatus(o, s) == ops' = [ops EXCEPT ![o].status = s]
Row(s) == {o \in Ops : ops[o].status = s}

-----------------------------------------------------------------------------
(* The lanes.                                                              *)

(* The channel is emptied before the table is read.                        *)
Wake(l) ==
    /\ phase = "on"
    /\ lane[l].pc = "asleep"
    /\ bell[l]
    /\ bell' = [bell EXCEPT ![l] = FALSE]
    /\ lane' = [lane EXCEPT ![l].pc = "drain"]
    /\ UNCHANGED <<ops, unborn, phase, cancels, request, boots, faults>>

WaitingInOneLine(l) ==
    {o \in Row("pending") : /\ Class[ops[o].kind] = l
                            /\ \A p \in Row("pending") \cup Row("running") : o <= p}
Waiting(l) == {o \in Row("pending") : Class[ops[o].kind] = l}

ClaimOp(l) ==
    /\ phase = "on"
    /\ lane[l].pc = "drain"
    /\ Waiting(l) # {}
    /\ LET o == Oldest(Waiting(l))
       IN  /\ SetStatus(o, "running")
           /\ lane' = [lane EXCEPT ![l] = [Asleep EXCEPT !.pc = "register", !.op = o,
                                                         !.kind = ops[o].kind]]
    /\ UNCHANGED <<unborn, phase, bell, cancels, request, boots, faults>>

LaneRests(l) ==
    /\ lane[l].pc = "drain"
    /\ phase = "stopping" \/ Waiting(l) = {}
    /\ lane' = [lane EXCEPT ![l] = Asleep]
    /\ UNCHANGED <<ops, unborn, phase, bell, cancels, request, boots, faults>>

(* runOne: a context with a timeout, known to Cancel from here on.         *)
RegisterOp(l) ==
    /\ lane[l].pc = "register"
    /\ cancels' = [cancels EXCEPT ![lane[l].op] = l]
    /\ lane' = [lane EXCEPT ![l] =
                  [@ EXCEPT !.pc = "exec",
                            !.ended = IF phase = "stopping" THEN "stop" ELSE "no"]]
    /\ UNCHANGED <<ops, unborn, phase, bell, request, boots, faults>>

(* One file, one job or the one statement of the payload succeeds; those   *)
(* that fail change nothing.                                               *)
ExecUnit(l) ==
    /\ lane[l].pc = "exec"
    /\ lane[l].ended = "no"
    /\ lane' = [lane EXCEPT ![l].ok = TRUE]
    /\ IF ops[lane[l].op].status = "absent"
       THEN UNCHANGED ops ELSE ops' = [ops EXCEPT ![lane[l].op].applied = TRUE]
    /\ UNCHANGED <<unborn, phase, bell, cancels, request, boots, faults>>

(* What exec returns after any number of units.  Tagging and reindexing    *)
(* stand or fall with their statements; extraction needs one good file;    *)
(* hiding and cleaning only log their failures; writing tags fails or not, *)
(* depending on where.  The loops also fail when they see that their       *)
(* context has ended.                                                      *)
OutcomesLenient(me) == {"done"}
Outcomes(me) ==
    {s \in OpEnded :
       \/ s = "done"   /\ (me.ok \/ me.kind \in {"bulk_hide", "cleanup", "bulk_meta", "update_meta"})
       \/ s = "failed" /\ me.kind \in {"bulk_tag", "reindex", "extract_audio"} /\ ~me.ok
       \/ s = "failed" /\ me.kind \in {"bulk_hide", "cleanup", "extract_audio"} /\ me.ended # "no"
       \/ s = "failed" /\ me.kind \in {"bulk_meta", "update_meta"}}

EndExec(l) ==
    /\ lane[l].pc = "exec"
    /\ \E s \in Outcomes(lane[l]) :
         lane' = [lane EXCEPT ![l] = [@ EXCEPT !.pc = "finish", !.outcome = s]]
    /\ UNCHANGED <<ops, unborn, phase, bell, cancels, request, boots, faults>>

AfterFinish(l) ==
    lane' = [lane EXCEPT ![l] =
               [Asleep EXCEPT !.op = lane[l].op,
                              !.pc = IF lane[l].kind \in Hidden THEN "drop" ELSE "unregister"]]

(* SetDone and SetFailed run under a context nothing cancels, and change   *)
(* the row whatever it says by now; a row that is gone stays gone.         *)
FinishOp(l) ==
    /\ lane[l].pc = "finish"
    /\ IF ops[lane[l].op].status = "absent"
       THEN UNCHANGED ops ELSE SetStatus(lane[l].op, lane[l].outcome)
    /\ AfterFinish(l)
    /\ UNCHANGED <<unborn, phase, bell, cancels, request, boots, faults>>

DropHidden(l) ==
    /\ lane[l].pc = "drop"
    /\ ops' = [ops EXCEPT ![lane[l].op] = NoRow]
    /\ lane' = [lane EXCEPT ![l].pc = "unregister"]
    /\ UNCHANGED <<unborn, phase, bell, cancels, request, boots, faults>>

UnregisterForgotten(l) ==
    /\ lane[l].pc = "unregister"
    /\ lane' = [lane EXCEPT ![l] = [Asleep EXCEPT !.pc = "drain"]]
    /\ UNCHANGED <<ops, unborn, phase, bell, cancels, request, boots, faults>>
Unregister(l) ==
    /\ lane[l].pc = "unregister"
    /\ cancels' = [cancels EXCEPT ![lane[l].op] = None]
    /\ lane' = [lane EXCEPT ![l] = [Asleep EXCEPT !.pc = "drain"]]
    /\ UNCHANGED <<ops, unborn, phase, bell, request, boots, faults>>

LaneStep(l) ==
    \/ Wake(l)
    \/ ClaimOp(l)
    \/ LaneRests(l)
    \/ RegisterOp(l)
    \/ ExecUnit(l)
    \/ EndExec(l)
    \/ FinishOp(l)
    \/ DropHidden(l)
    \/ Unregister(l)

(* A claim that fails ends the drain; a verdict that fails is only logged; *)
(* a panic of an operation is recovered in drainPending, after the         *)
(* deferred calls of runOne.                                               *)
Fault(l) ==
    /\ faults < MaxFaults
    /\ faults' = faults + 1
    /\ \/ /\ lane[l].pc = "drain"
          /\ phase = "on"
          /\ lane' = [lane EXCEPT ![l] = Asleep]
          /\ UNCHANGED cancels
       \/ /\ lane[l].pc = "finish"
          /\ AfterFinish(l)
          /\ UNCHANGED cancels
       \/ /\ lane[l].pc = "exec"
          /\ lane' = [lane EXCEPT ![l] = Asleep]
          /\ cancels' = [cancels EXCEPT ![lane[l].op] = None]
    /\ UNCHANGED <<ops, unborn, phase, bell, request, boots>>

(* The operation's own deadline.                                           *)
TimeOut(l) ==
    /\ lane[l].pc = "exec"
    /\ lane[l].ended = "no"
    /\ lane' = [lane EXCEPT ![l].ended = "early"]
    /\ UNCHANGED <<ops, unborn, phase, bell, cancels, request, boots, faults>>

(* runRetention: any of the finished rows may be old enough.               *)
PrunableAll == {o \in Ops : ops[o].status # "absent"}
Prunable == {o \in Ops : ops[o].status \in OpEnded}

DeleteFinishedBefore ==
    /\ phase = "on"
    /\ \E old \in (SUBSET Prunable) \ {{}} :
         ops' = [o \in Ops |-> IF o \in old THEN NoRow ELSE ops[o]]
    /\ UNCHANGED <<unborn, phase, lane, bell, cancels, request, boots, faults>>

-----------------------------------------------------------------------------
(* Requests (library.Service).                                             *)

Serving == phase \in {"boot", "on"}
Goto(c, pc) == request' = [request EXCEPT ![c].pc = pc]
Reply(c) == request' = [request EXCEPT ![c] = NoRequest]
Begin(c, pc, o) ==
    /\ Serving
    /\ request[c].pc = "idle"
    /\ request' = [request EXCEPT ![c] = [pc |-> pc, op |-> o]]

(* enqueue: the row, then the bells of both lanes.                         *)
Enqueue(c) ==
    /\ Begin(c, "ring", NoOp)
    /\ unborn # {}
    /\ \E k \in Kinds :
         ops' = [ops EXCEPT ![Oldest(unborn)] = [NoRow EXCEPT !.status = "pending", !.kind = k]]
    /\ unborn' = unborn \ {Oldest(unborn)}
    /\ UNCHANGED <<phase, lane, bell, cancels, boots, faults>>

RingLight == [bell EXCEPT !["light"] = TRUE]
RingAll   == [l \in Lanes |-> TRUE]
Ring(c) ==
    /\ request[c].pc = "ring"
    /\ bell' = RingAll
    /\ Reply(c)
    /\ UNCHANGED <<ops, unborn, phase, lane, cancels, boots, faults>>

(* CancelOperation: whoever asks for an operation that exists, at any      *)
(* time.  Worker.Cancel leaves the entry where it is.                      *)
BeginCancel(c) ==
    /\ \E o \in Ops \ unborn : Begin(c, "cancel", o)
    /\ UNCHANGED <<ops, unborn, phase, lane, bell, cancels, boots, faults>>

Cancel(c) ==
    /\ request[c].pc = "cancel"
    /\ LET l == cancels[request[c].op]
       IN  IF l = None
           THEN Goto(c, "look") /\ UNCHANGED lane
           ELSE /\ lane' = IF lane[l].ended = "no"
                           THEN [lane EXCEPT ![l].ended = "early"] ELSE lane
                /\ Reply(c)
    /\ UNCHANGED <<ops, unborn, phase, bell, cancels, boots, faults>>

(* What is not pending is refused as finished.                             *)
LookBeforeRemoving(c) ==
    /\ request[c].pc = "look"
    /\ IF ops[request[c].op].status = "pending" THEN Goto(c, "remove") ELSE Reply(c)
    /\ UNCHANGED <<ops, unborn, phase, lane, bell, cancels, boots, faults>>

Remove(c) ==
    /\ request[c].pc = "remove"
    /\ ops' = [ops EXCEPT ![request[c].op] = NoRow]
    /\ Reply(c)
    /\ UNCHANGED <<unborn, phase, lane, bell, cancels, boots, faults>>

(* The page offers to dismiss what has finished; finished rows do not come *)
(* back to life, so looking and deleting are one step here.                *)
DismissOperation ==
    /\ Serving
    /\ \E o \in Row("done") \cup Row("failed") : ops' = [ops EXCEPT ![o] = NoRow]
    /\ UNCHANGED <<unborn, phase, lane, bell, cancels, request, boots, faults>>

RequestStep(c) ==
    \/ Ring(c)
    \/ Cancel(c)
    \/ LookBeforeRemoving(c)
    \/ Remove(c)

-----------------------------------------------------------------------------
(* The process (cmd/talmor/main.go, Worker.Start).                         *)

Boot ==
    /\ phase = "down"
    /\ boots < MaxBoots
    /\ boots' = boots + 1
    /\ phase' = "boot"
    /\ UNCHANGED <<ops, unborn, lane, bell, cancels, request, faults>>

(* HTTP serves already.  No lane runs before the table is reset, and every *)
(* bell is rung once they do.                                              *)
ResetStaleEverything == [o \in Ops |-> [ops[o] EXCEPT !.status = "pending"]]
ResetStale == [o \in Ops |-> IF ops[o].status = "running"
                             THEN [ops[o] EXCEPT !.status = "pending"] ELSE ops[o]]
StartForgets ==
    /\ phase = "boot"
    /\ phase' = "on"
    /\ bell' = RingAll
    /\ UNCHANGED <<ops, unborn, lane, cancels, request, boots, faults>>
Start ==
    /\ phase = "boot"
    /\ phase' = "on"
    /\ ops' = ResetStale
    /\ bell' = RingAll
    /\ UNCHANGED <<unborn, lane, cancels, request, boots, faults>>

(* SIGTERM ends the context every operation's context descends from; the   *)
(* process lives on until HTTP has shut down.                              *)
Stop ==
    /\ Serving
    /\ boots < MaxBoots
    /\ phase' = "stopping"
    /\ lane' = [l \in Lanes |-> IF lane[l].pc = "exec" /\ lane[l].ended = "no"
                                THEN [lane[l] EXCEPT !.ended = "stop"] ELSE lane[l]]
    /\ UNCHANGED <<ops, unborn, bell, cancels, request, boots, faults>>

(* The end of a stop, or a crash: memory is gone.                          *)
Crash ==
    /\ phase # "down"
    /\ boots < MaxBoots
    /\ phase' = "down"
    /\ lane' = [l \in Lanes |-> Asleep]
    /\ bell' = [l \in Lanes |-> FALSE]
    /\ cancels' = [o \in Ops |-> None]
    /\ request' = [c \in Clients |-> NoRequest]
    /\ faults' = 0
    /\ UNCHANGED <<ops, unborn, boots>>

Next ==
    \/ \E l \in Lanes : LaneStep(l) \/ Fault(l) \/ TimeOut(l)
    \/ \E c \in Clients : Enqueue(c) \/ BeginCancel(c) \/ RequestStep(c)
    \/ DismissOperation
    \/ DeleteFinishedBefore
    \/ Boot
    \/ Start
    \/ Stop
    \/ Crash

Spec == Init /\ [][Next]_vars

(* Handlers run to their end, a stopped process exits and is started       *)
(* again.  What lanes do is left to the property.                          *)
Fairness ==
    /\ \A c \in Clients : WF_vars(RequestStep(c))
    /\ WF_vars(Boot)
    /\ WF_vars(Start)
    /\ WF_vars(phase = "stopping" /\ Crash)

FairSpec == Spec /\ Fairness

-----------------------------------------------------------------------------
(* Properties.                                                             *)

AtWork(l, o) == lane[l].op = o /\ lane[l].pc \in {"register", "exec", "finish"}

(* Once the worker runs, a row says "running" only while a lane is at it,  *)
(* but for one row per panic or failed verdict: nothing spins in the page  *)
(* with nobody behind it (Start, drainPending, runOne).                    *)
RunningHasLane ==
    phase = "on" =>
        Cardinality({o \in Row("running") : \A l \in Lanes : ~AtWork(l, o)}) <= faults

(* A lane sleeps only if nothing waits for it, or its bell is rung, or     *)
(* whoever queued the operation is about to ring it: a signal dropped at a *)
(* full channel never leaves an operation waiting (Enqueue, runLane).      *)
(* Only a failed claim or a panic, which end a drain early, do.            *)
NoLostWakeup ==
    \A l \in Lanes :
        phase = "on" /\ faults = 0 /\ lane[l].pc = "asleep" /\ Waiting(l) # {}
            => bell[l] \/ \E c \in Clients : request[c].pc = "ring"

(* An entry of the registry belongs to a lane that still holds that very   *)
(* operation: a late cancellation never stops the next one (Cancel).       *)
CancelHitsItsOperation ==
    \A o \in Ops : cancels[o] # None => /\ lane[cancels[o]].op = o
                                        /\ lane[cancels[o]].pc \notin {"asleep", "drain", "register"}

(* What waits or runs leaves the table only by a cancellation, or by its   *)
(* lane at the end of an operation the page does not show: retention,      *)
(* dismissal and restarts never lose an operation nobody gave up           *)
(* (DeleteFinishedBefore, DismissOperation, ResetStale).                   *)
ActiveLeavesByCancel ==
    [][\A o \in Ops : ops[o].status \in OpActive /\ ops'[o].status = "absent"
          => \/ \E c \in Clients : request[c].pc = "remove" /\ request[c].op = o
             \/ \E l \in Lanes : lane[l].pc = "drop" /\ lane[l].op = o]_vars

(* Tagging and extracting are reported done only if something was tagged   *)
(* or extracted, however the operation was interrupted and run again       *)
(* (execBulkTag, execExtractAudio, runOne).                                *)
DoneHasEffect ==
    \A o \in Row("done") : ops[o].kind \in {"bulk_tag", "extract_audio"} => ops[o].applied

(* The lanes do not wait for each other: each of them drains under its own *)
(* fairness alone, even if the other hangs in ffmpeg for ever, across      *)
(* crashes and stops, unless a fault ends its drain early.                 *)
LaneFair(l) == WF_vars(LaneStep(l))
LaneDrains(l) == <>[](\A o \in Ops : ops[o].status \in OpActive => Class[ops[o].kind] # l)
LanesAreIndependent ==
    \A l \in Lanes : LaneFair(l) /\ <>[](faults = 0) => LaneDrains(l)
=============================================================================
