------------------------------ MODULE JobTable ------------------------------
(***************************************************************************)
(* The SQLite table "jobs" and the statements of internal/repo/job.go that *)
(* change it.  Every statement runs alone on the single writer connection, *)
(* so each is one function from a table to the table that replaces it; the *)
(* WHERE clause is the condition under which a row is touched at all.      *)
(*                                                                         *)
(* A row keeps what decides its fate: status, retry_count, whether         *)
(* next_retry_at has passed ("due", meaningful while retrying) and hidden. *)
(* Ids are numbers in the order of created_at.                             *)
(*                                                                         *)
(* A definition named after another with a suffix (ClaimableTwice beside   *)
(* Claimable) is that one with a slip a programmer could make; PROJECT.json *)
(* pairs each with the property that catches it.  None is part of a        *)
(* specification.                                                          *)
(***************************************************************************)
EXTENDS Ids

CONSTANT Jobs   \* the ids that can be generated

ASSUME JobsAreNumbered == Jobs \subseteq Nat \ {0}

(* Statuses of model.JobStatus; "absent" is an id with no row.  "imported" *)
(* rows belong to the directory scanner and never enter the queue.         *)
Active   == {"checking", "pending", "running", "retrying"}
Finished == {"done", "failed", "cancelled"}
Status   == {"absent"} \cup Active \cup Finished

Row   == [status : Status, retries : Nat, due : BOOLEAN, hidden : BOOLEAN]
Table == [Jobs -> Row]

NewRow(s) == [status |-> s, retries |-> 0, due |-> FALSE, hidden |-> FALSE]
NoRow     == NewRow("absent")

Present(tbl, j) == tbl[j].status # "absent"

(* UPDATE jobs SET status = s WHERE id IN ids AND status IN from.  Leaving *)
(* "retrying" makes the row's deadline meaningless.                        *)
Move(tbl, ids, from, s) ==
    [j \in Jobs |-> IF j \in ids /\ tbl[j].status \in from
                    THEN [tbl[j] EXCEPT !.status = s, !.due = FALSE]
                    ELSE tbl[j]]

(* DELETE FROM jobs WHERE id IN ids.                                       *)
Drop(tbl, ids) == [j \in Jobs |-> IF j \in ids THEN NoRow ELSE tbl[j]]

Create(tbl, j, s) == [tbl EXCEPT ![j] = NewRow(s)]

-----------------------------------------------------------------------------
(* ClaimNext: the oldest row that is pending, or retrying and due.         *)

ClaimableTwice(tbl) == {j \in Jobs : tbl[j].status \in {"pending", "running"}}
ClaimablePending(tbl) == {j \in Jobs : tbl[j].status = "pending"}
Claimable(tbl) == {j \in Jobs : \/ tbl[j].status = "pending"
                                \/ tbl[j].status = "retrying" /\ tbl[j].due}

ClaimNext(tbl, j) == Move(tbl, {j}, {"pending", "retrying"}, "running")

(* Update writes the worker's copy of the row back, whatever the row says  *)
(* by now; only a row that is gone stays gone.                             *)
UpdateUpsert(tbl, j, s, n) ==
    [tbl EXCEPT ![j] = [@ EXCEPT !.status = s, !.retries = n, !.due = FALSE]]
Update(tbl, j, s, n) ==
    IF Present(tbl, j)
    THEN [tbl EXCEPT ![j] = [@ EXCEPT !.status = s, !.retries = n, !.due = FALSE]]
    ELSE tbl

-----------------------------------------------------------------------------
(* Statements issued for a user or a resolver.                             *)

CancellableActive == Active
Cancellable == {"checking", "pending", "retrying"}
Cancel(tbl, j) == Move(tbl, {j}, Cancellable, "cancelled")

CancelAll(tbl) == Move(tbl, Jobs, Active, "cancelled")

ConfirmSingleUnguarded(tbl, j) == Move(tbl, {j}, Status, "pending")
ConfirmSingle(tbl, j) == Move(tbl, {j}, {"checking"}, "pending")

CanDeleteCheckingAlways(tbl, j) == TRUE
CanDeleteChecking(tbl, j) == tbl[j].status = "checking"
DeleteChecking(tbl, j) == Drop(tbl, {j})

CanResetFailed(tbl, j) == tbl[j].status \in {"failed", "retrying"}
ResetFailed(tbl, j) ==
    [tbl EXCEPT ![j] = [@ EXCEPT !.status = "pending", !.retries = 0, !.due = FALSE]]

(* Redownload has no guard on status: any row that exists starts over.     *)
Redownload(tbl, j) ==
    IF Present(tbl, j) THEN [tbl EXCEPT ![j] = NewRow("checking")] ELSE tbl

SetHidden(tbl, j, h) ==
    IF Present(tbl, j) THEN [tbl EXCEPT ![j].hidden = h] ELSE tbl

ResetStaleForgets(tbl) == tbl
ResetStale(tbl) == Move(tbl, Jobs, {"running"}, "pending")

Purge(tbl, j) == Drop(tbl, {k \in {j} : tbl[k].hidden})

CleanupDead(tbl) == Drop(tbl, {j \in Jobs : tbl[j].hidden \/ tbl[j].status = "failed"})
=============================================================================
