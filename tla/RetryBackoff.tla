---------------------------- MODULE RetryBackoff ----------------------------
(***************************************************************************)
(* When a failed attempt is repeated (Pool.handleFailure, and what the     *)
(* statements of internal/repo/job.go do to the three columns it needs).   *)
(*                                                                         *)
(* One row, and the workers that hold a copy of it: more than one, when a  *)
(* job is downloaded again while an earlier attempt goes on.  An instant   *)
(* is kept as its distance from now, so that time passes by changing       *)
(* distances; they stop where no comparison depends on them any more.      *)
(***************************************************************************)
EXTENDS Naturals

CONSTANTS Workers,
          Base,         \* RetryBackoffBase
          Window,       \* RetryMaxDuration
          ShiftCap,     \* 15 in the code
          MaxAttempts,  \* of RetryWindow
          Never         \* NULL

VARIABLES
    row,        \* first_failed_at is age ago, next_retry_at is in wait
    worker      \* the copy each worker has; its status says if it has one

vars == <<row, worker>>

Statuses == {"pending", "running", "retrying", "failed", "done", "cancelled"}
Ages == 0 .. (Window + 1)
New  == [status |-> "pending", count |-> 0, age |-> Never, wait |-> Never]
Idle == [New EXCEPT !.status = "done"]

RowState == [status : Statuses, count : Nat, age : Ages \cup {Never}, wait : Nat \cup {Never}]
RetryTypeOK == row \in RowState /\ worker \in [Workers -> RowState]

Init == row = New /\ worker = [w \in Workers |-> Idle]

-----------------------------------------------------------------------------
Smaller(a, b) == IF a < b THEN a ELSE b

(* The wait after a failure that n others came before.                     *)
Backoff(n) == Base * 2^Smaller(n, ShiftCap)

(* All the waits before the attempt that n failures came before: powers of *)
(* two as far as the cap, and equal ones from there.                       *)
Units(n) ==
    IF n <= ShiftCap + 1 THEN 2^n - 1
    ELSE 2^(ShiftCap + 1) - 1 + (n - ShiftCap - 1) * 2^ShiftCap
Spent(n) == Base * Units(n)

RetryConstants ==
    /\ Base \in Nat /\ Window \in Nat /\ ShiftCap \in Nat /\ Never \notin Nat
    /\ MaxAttempts \in Nat \ {0}
    /\ Spent(MaxAttempts - 1) <= Window /\ Window < Spent(MaxAttempts)

-----------------------------------------------------------------------------
Older(r) ==
    [r EXCEPT !.age  = IF @ = Never THEN @ ELSE Smaller(@ + 1, Window + 1),
              !.wait = IF @ \in {Never, 0} THEN @ ELSE @ - 1]
Tick == row' = Older(row) /\ worker' = [w \in Workers |-> Older(worker[w])]

Claim(w) ==
    /\ worker[w].status # "running"
    /\ row.status = "pending" \/ (row.status = "retrying" /\ row.wait = 0)
    /\ row' = [row EXCEPT !.status = "running"]
    /\ worker' = [worker EXCEPT ![w] = row']

(* The row is written from the copy, whatever has become of it meanwhile.  *)
Update(w, r) == row' = r /\ worker' = [worker EXCEPT ![w] = Idle]

FirstFailedNow(r) == 0
FirstFailed(r) == IF r.age = Never THEN 0 ELSE r.age

HandleFailure(w) ==
    LET me   == worker[w]
        age  == FirstFailed(me)
        wait == Backoff(me.count)
    IN  /\ me.status = "running"
        /\ Update(w, IF age + wait > Window
                     THEN [status |-> "failed", count |-> me.count + 1,
                           age |-> age, wait |-> Never]
                     ELSE [status |-> "retrying", count |-> me.count + 1,
                           age |-> age, wait |-> wait])

(* The other ends of process.                                              *)
End(w) ==
    /\ worker[w].status = "running"
    /\ \E s \in {"done", "cancelled"} : Update(w, [worker[w] EXCEPT !.status = s])

(* The last statement fails, which is only logged.                         *)
UpdateFails(w) ==
    /\ worker[w].status = "running"
    /\ worker' = [worker EXCEPT ![w] = Idle]
    /\ UNCHANGED row

(* Cancel and CancelAll.                                                   *)
Cancel ==
    /\ row.status \in {"pending", "running", "retrying"}
    /\ row' = [row EXCEPT !.status = "cancelled", !.wait = Never]
    /\ UNCHANGED worker

(* ResetFailed, for failed and retrying rows, and Redownload, for all; the *)
(* check that comes before "pending" touches none of the columns.          *)
Reset == row' = New /\ UNCHANGED worker

(* The process dies; ResetStale.                                           *)
Restart ==
    /\ row' = IF row.status = "running" THEN [row EXCEPT !.status = "pending"] ELSE row
    /\ worker' = [w \in Workers |-> Idle]

Next ==
    \/ \E w \in Workers : Claim(w) \/ HandleFailure(w) \/ End(w) \/ UpdateFails(w)
    \/ Tick \/ Cancel \/ Reset \/ Restart

Spec == Init /\ [][Next]_vars

-----------------------------------------------------------------------------
(* Properties.                                                             *)

Q == INSTANCE RetryWindow

(* handleFailure: its arithmetic decides as DownloadQueue has it decide:   *)
(* however long attempts last and whoever resets, restarts or cancels the  *)
(* row, the first failure is followed by a retry if one fits at all, and   *)
(* no failure is once the backoffs have outgrown the window.               *)
VerdictsFollowWindow ==
    [][\A w \in Workers :
          HandleFailure(w) => row'.status \in Q!AfterFailure(worker[w].count)]_vars

(* README.md:20: the backoffs that a row which is still to be downloaded   *)
(* has behind it fit in the window.                                        *)
BackoffsFitWindow ==
    row.status \in {"pending", "running", "retrying"} => Spent(row.count) <= Window
=============================================================================
