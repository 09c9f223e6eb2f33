---------------------------- MODULE JobLifecycle ----------------------------
(***************************************************************************)
(* What the queue promises about a job, seen from outside: the statuses a  *)
(* job goes through and the only ways from one to the next.  A finished    *)
(* job starts again on a user's wish alone, and an id whose row is gone    *)
(* never comes back.                                                       *)
(***************************************************************************)
CONSTANT Jobs
VARIABLE status

(* Any number of jobs move at once: a restart requeues every running one.  *)
Moves ==
    [new       |-> {"checking", "pending"},
     checking  |-> {"pending", "cancelled", "gone"},
     pending   |-> {"running", "cancelled", "gone"},
     running   |-> {"done", "failed", "retrying", "cancelled", "pending", "gone"},
     retrying  |-> {"running", "pending", "cancelled", "gone"},
     failed    |-> {"pending", "checking", "gone"},
     done      |-> {"checking", "gone"},
     cancelled |-> {"checking", "gone"},
     gone      |-> {}]

Init == status \in [Jobs -> {"new", "pending"}]

Next ==
    /\ status' \in [Jobs -> DOMAIN Moves]
    /\ \A j \in Jobs : status'[j] = status[j] \/ status'[j] \in Moves[status[j]]

Spec == Init /\ [][Next]_status
=============================================================================
