---------------------------- MODULE DownloadQueue ----------------------------
(***************************************************************************)
(* The download queue: the requests of queue.Service (web, bot), the       *)
(* goroutines that resolve a link into one job or a playlist of jobs, and  *)
(* the workers of worker.Pool, all meeting at the table of jobs and at two *)
(* in-memory registries of cancel functions.                               *)
(*                                                                         *)
(* A step is what runs without another goroutine seeing the middle of it:  *)
(* one SQL statement, or one critical section of a mutex.                  *)
(***************************************************************************)
EXTENDS JobTable, RetryWindow, FiniteSets

CONSTANTS Workers,      \* goroutines of the pool
          Resolvers,    \* concurrent playlist checks (bound)
          Clients,      \* concurrent requests (bound)
          Requests,     \* the kinds of request clients make
          MaxRequests,  \* bound on the requests of a behaviour
          Backlog,      \* jobs an earlier life of the process left pending
          MaxBoots,     \* bound on the starts of the process
          None          \* no entry in a registry

ASSUME BoundsAreNaturals == /\ MaxRequests \in Nat
                            /\ MaxBoots \in Nat
                            /\ MaxAttempts \in Nat \ {0}
ASSUME BacklogIsOld == /\ Backlog \subseteq Jobs
                       /\ \A j \in Backlog, k \in Jobs \ Backlog : j < k
ASSUME NoneIsNoProcess == None \notin Workers \cup Resolvers

VARIABLES
    table,        \* the jobs table
    unused,       \* ids not handed out yet
    stored,       \* jobs that have a row in items, but for what the library takes
    staging,      \* staging[j]: workers whose files lie in StagingDir/<j>
    phase,        \* "down"; "boot" before pool.Start reset the table; "on"
    recovery,     \* RecoverChecking: whether it is to list, and jobs left to resume
    worker,       \* Pool.process, per goroutine
    cancelFuncs,  \* Pool.cancelFuncs: whose jobCtx the entry of a job cancels
    resolver,     \* Service.Resolve, per goroutine
    resolving,    \* Service.resolving: whose ctx the entry of a job cancels
    request,      \* a handler in progress, per client
    sent, boots   \* requests made and starts of the process, for the bounds

disk     == <<table, unused, stored>>
pool     == <<worker, cancelFuncs, staging>>
checks   == <<resolver, resolving>>
counters == <<sent, boots>>
vars == <<disk, pool, checks, phase, recovery, request, counters>>

NoJob == 0

Verdict  == {"none", "cancelled", "done", "failed", "retrying"}
WorkerPC == {"idle", "claimed", "download", "save", "update", "release"}
WorkerState == [pc : WorkerPC, job : Jobs \cup {NoJob}, retries : Nat, live : BOOLEAN,
                got : BOOLEAN, dir : BOOLEAN, verdict : Verdict]
Idle == [pc |-> "idle", job |-> NoJob, retries |-> 0, live |-> FALSE,
         got |-> FALSE, dir |-> FALSE, verdict |-> "none"]

ResolverPC == {"free", "probe", "confirm", "expand", "create", "finish"}
ResolverState == [pc : ResolverPC, job : Jobs \cup {NoJob}, live : BOOLEAN,
                  entries : SUBSET Jobs]
Free == [pc |-> "free", job |-> NoJob, live |-> FALSE, entries |-> {}]

(* The first step of each kind of request.                                 *)
FirstStep == [add |-> "prepare", cancel |-> "cancelPool", cancelall |-> "listRunning",
              retry |-> "resetFailed", redownload |-> "dropItems", hide |-> "hide",
              unhide |-> "unhide", purge |-> "purge", cleanup |-> "cleanup"]
RequestPC == {FirstStep[op] : op \in DOMAIN FirstStep} \cup
             {"idle", "resolve", "cancelRow", "cancelCheck", "stopRunning",
              "redownloadRow"}
RequestState == [pc : RequestPC, job : Jobs \cup {NoJob}, ids : SUBSET Jobs]
NoRequest == [pc |-> "idle", job |-> NoJob, ids |-> {}]

ASSUME RequestsAreKnown == Requests \subseteq DOMAIN FirstStep

TypeOK ==
    /\ table \in Table
    /\ unused \subseteq Jobs
    /\ stored \subseteq Jobs
    /\ staging \in [Jobs -> SUBSET Workers]
    /\ phase \in {"down", "boot", "on"}
    /\ recovery \in [todo : BOOLEAN, left : SUBSET Jobs]
    /\ worker \in [Workers -> WorkerState]
    /\ cancelFuncs \in [Jobs -> Workers \cup {None}]
    /\ resolver \in [Resolvers -> ResolverState]
    /\ resolving \in [Jobs -> Resolvers \cup {None}]
    /\ request \in [Clients -> RequestState]
    /\ sent \in Nat
    /\ boots \in Nat

Init ==
    /\ table = [j \in Jobs |-> IF j \in Backlog THEN NewRow("pending") ELSE NoRow]
    /\ unused = Jobs \ Backlog
    /\ stored = {}
    /\ staging = [j \in Jobs |-> {}]
    /\ phase = "down"
    /\ recovery = [todo |-> FALSE, left |-> {}]
    /\ worker = [w \in Workers |-> Idle]
    /\ cancelFuncs = [j \in Jobs |-> None]
    /\ resolver = [r \in Resolvers |-> Free]
    /\ resolving = [j \in Jobs |-> None]
    /\ request = [c \in Clients |-> NoRequest]
    /\ sent = 0
    /\ boots = 0

-----------------------------------------------------------------------------
(* Workers (internal/worker/pool.go).                                      *)

(* A worker polls on a signal, on a ten second timer and after each job;   *)
(* a poll that finds nothing changes nothing.                              *)
Claim(w) ==
    /\ phase = "on"
    /\ worker[w].pc = "idle"
    /\ Claimable(table) # {}
    /\ LET j == Oldest(Claimable(table))
       IN  /\ table' = ClaimNext(table, j)
           /\ worker' = [worker EXCEPT ![w] = [Idle EXCEPT !.pc = "claimed", !.job = j,
                                                           !.retries = table[j].retries]]
    /\ UNCHANGED <<unused, stored, staging, cancelFuncs, checks, phase, recovery, request,
                   counters>>

(* process registers the job's cancel function, some time after the claim, *)
(* and makes the staging directory; without one the attempt fails there    *)
(* and then, cancelled or not.                                             *)
Conclude(w, v, dir) ==
    worker' = [worker EXCEPT ![w] =
                 [Idle EXCEPT !.pc = "update", !.job = worker[w].job, !.dir = dir,
                              !.live = worker[w].live, !.verdict = v,
                              !.retries = IF v \in {"failed", "retrying"}
                                          THEN worker[w].retries + 1 ELSE worker[w].retries]]

Register(w) ==
    /\ worker[w].pc = "claimed"
    /\ cancelFuncs' = [cancelFuncs EXCEPT ![worker[w].job] = w]
    /\ \/ /\ worker' = [worker EXCEPT ![w] =
                           [@ EXCEPT !.pc = "download", !.live = TRUE, !.dir = TRUE]]
          /\ staging' = [staging EXCEPT ![worker[w].job] = @ \cup {w}]
       \/ /\ \E v \in AfterFailure(worker[w].retries) : Conclude(w, v, FALSE)
          /\ UNCHANGED staging
    /\ UNCHANGED <<disk, checks, phase, recovery, request, counters>>

(* A finished file of a download nobody cancelled leaves the staging       *)
(* directory, if it is still there.                                        *)
TakeFile(w) ==
    /\ worker[w].pc = "download"
    /\ worker[w].live
    /\ w \in staging[worker[w].job]
    /\ worker' = [worker EXCEPT ![w].pc = "save"]
    /\ UNCHANGED <<disk, staging, cancelFuncs, checks, phase, recovery, request, counters>>

(* It gets its items row, cancelled by now or not.  The row that has the   *)
(* path already is taken over, from whatever job it was, and may have been *)
(* that job's only one (ON CONFLICT(path)).  The foreign key refuses the   *)
(* row when that of the job is gone; any other failure has the same result.*)
Recorded(j) == {stored \cup {j}} \cup {(stored \ {k}) \cup {j} : k \in stored}

SaveFileUnchecked(w) ==
    /\ worker[w].pc = "save"
    /\ \/ /\ worker' = [worker EXCEPT ![w] = [@ EXCEPT !.pc = "download", !.got = TRUE]]
          /\ stored' \in Recorded(worker[w].job)
       \/ /\ worker' = [worker EXCEPT ![w].pc = "download"]
          /\ UNCHANGED stored
    /\ UNCHANGED <<table, unused, staging, cancelFuncs, checks, phase, recovery, request,
                   counters>>
SaveFile(w) ==
    /\ worker[w].pc = "save"
    /\ \/ /\ Present(table, worker[w].job)
          /\ worker' = [worker EXCEPT ![w] = [@ EXCEPT !.pc = "download", !.got = TRUE]]
          /\ stored' \in Recorded(worker[w].job)
       \/ /\ worker' = [worker EXCEPT ![w].pc = "download"]
          /\ UNCHANGED stored
    /\ UNCHANGED <<table, unused, staging, cancelFuncs, checks, phase, recovery, request,
                   counters>>

(* The event channel is closed: the download is judged here, and the       *)
(* verdict is written down in a later step.                                *)
VerdictsForgetFailure(me) ==
    IF ~me.live THEN {"cancelled"} ELSE IF me.got THEN {"done"} ELSE {"none"}
Verdicts(me) ==
    IF ~me.live THEN {"cancelled"}
    ELSE IF me.got THEN {"done"} ELSE AfterFailure(me.retries)

EndDownload(w) ==
    /\ worker[w].pc = "download"
    /\ \E v \in Verdicts(worker[w]) : Conclude(w, v, TRUE)
    /\ UNCHANGED <<disk, staging, cancelFuncs, checks, phase, recovery, request, counters>>

WriteVerdict(w) ==
    /\ worker[w].pc = "update"
    /\ table' = Update(table, worker[w].job, worker[w].verdict, worker[w].retries)
    /\ worker' = [worker EXCEPT ![w] = [Idle EXCEPT !.pc = "release", !.job = worker[w].job,
                                                    !.dir = worker[w].dir]]
    /\ UNCHANGED <<unused, stored, staging, cancelFuncs, checks, phase, recovery, request,
                   counters>>

(* The deferred calls: the directory goes by the job's id, and so does the *)
(* registry entry, whoever they belong to by now.                          *)
ReleaseLeavesEntry(w) ==
    /\ worker[w].pc = "release"
    /\ staging' = IF worker[w].dir THEN [staging EXCEPT ![worker[w].job] = {}] ELSE staging
    /\ worker' = [worker EXCEPT ![w] = Idle]
    /\ UNCHANGED <<disk, cancelFuncs, checks, phase, recovery, request, counters>>
Release(w) ==
    /\ worker[w].pc = "release"
    /\ staging' = IF worker[w].dir THEN [staging EXCEPT ![worker[w].job] = {}] ELSE staging
    /\ cancelFuncs' = [cancelFuncs EXCEPT ![worker[w].job] = None]
    /\ worker' = [worker EXCEPT ![w] = Idle]
    /\ UNCHANGED <<disk, checks, phase, recovery, request, counters>>

(* The moment next_retry_at of a row passes.                               *)
Elapse(j) ==
    /\ table[j].status = "retrying"
    /\ ~table[j].due
    /\ table' = [table EXCEPT ![j].due = TRUE]
    /\ UNCHANGED <<unused, stored, pool, checks, phase, recovery, request, counters>>

WorkerStep(w) ==
    \/ Claim(w)
    \/ Register(w)
    \/ TakeFile(w)
    \/ SaveFile(w)
    \/ EndDownload(w)
    \/ WriteVerdict(w)
    \/ Release(w)

-----------------------------------------------------------------------------
(* Resolvers (queue.Service.Resolve, playlist.ResolvePlaceholder).         *)

StartResolver(r, j) ==
    /\ resolver[r].pc = "free"
    /\ resolver' = [resolver EXCEPT ![r] = [pc |-> "probe", job |-> j, live |-> TRUE,
                                            entries |-> {}]]
    /\ resolving' = [resolving EXCEPT ![j] = r]

(* FetchPlaylist: a single video, an error, a timeout and a cancelled      *)
(* context all give nil.                                                   *)
ProbeSingle(r) ==
    /\ resolver[r].pc = "probe"
    /\ resolver' = [resolver EXCEPT ![r].pc = "confirm"]
    /\ UNCHANGED <<disk, pool, resolving, phase, recovery, request, counters>>

ProbePlaylist(r) ==
    /\ resolver[r].pc = "probe"
    /\ resolver[r].live
    /\ \E ids \in SUBSET unused :
         /\ Cardinality(ids) >= 2
         /\ \A e \in ids, k \in unused \ ids : e < k
         /\ unused' = unused \ ids
         /\ resolver' = [resolver EXCEPT ![r] = [@ EXCEPT !.pc = "expand", !.entries = ids]]
    /\ UNCHANGED <<table, stored, pool, resolving, phase, recovery, request, counters>>

(* A statement under a cancelled context fails and is only logged.         *)
Confirm(r) ==
    /\ resolver[r].pc = "confirm"
    /\ table' = IF resolver[r].live THEN ConfirmSingle(table, resolver[r].job) ELSE table
    /\ resolver' = [resolver EXCEPT ![r].pc = "finish"]
    /\ UNCHANGED <<unused, stored, pool, resolving, phase, recovery, request, counters>>

Expand(r) ==
    /\ resolver[r].pc = "expand"
    /\ resolver[r].live
    /\ CanDeleteChecking(table, resolver[r].job)
    /\ table' = DeleteChecking(table, resolver[r].job)
    /\ stored' = stored \ {resolver[r].job}
    /\ resolver' = [resolver EXCEPT ![r].pc = "create"]
    /\ UNCHANGED <<unused, pool, resolving, phase, recovery, request, counters>>

ExpandRefused(r) ==
    /\ resolver[r].pc = "expand"
    /\ ~resolver[r].live \/ ~CanDeleteChecking(table, resolver[r].job)
    /\ unused' = unused \cup resolver[r].entries
    /\ resolver' = [resolver EXCEPT ![r] = [@ EXCEPT !.pc = "finish", !.entries = {}]]
    /\ UNCHANGED <<table, stored, pool, resolving, phase, recovery, request, counters>>

(* CreateJobs, one entry at a time; under a cancelled context every Create *)
(* fails and the loop goes on to the next entry.                           *)
CreateEntry(r) ==
    /\ resolver[r].pc = "create"
    /\ LET e    == Oldest(resolver[r].entries)
           left == resolver[r].entries \ {e}
       IN  /\ resolver' = [resolver EXCEPT ![r] =
                [@ EXCEPT !.entries = left, !.pc = IF left = {} THEN "finish" ELSE "create"]]
           /\ IF resolver[r].live
              THEN table' = Create(table, e, "pending") /\ UNCHANGED unused
              ELSE unused' = unused \cup {e} /\ UNCHANGED table
    /\ UNCHANGED <<stored, pool, resolving, phase, recovery, request, counters>>

(* untrackResolve removes the entry of the job, whoever set it last.       *)
FinishResolve(r) ==
    /\ resolver[r].pc = "finish"
    /\ resolving' = [resolving EXCEPT ![resolver[r].job] = None]
    /\ resolver' = [resolver EXCEPT ![r] = Free]
    /\ UNCHANGED <<disk, pool, phase, recovery, request, counters>>

ResolverStep(r) ==
    \/ ProbeSingle(r)
    \/ ProbePlaylist(r)
    \/ Confirm(r)
    \/ Expand(r)
    \/ ExpandRefused(r)
    \/ CreateEntry(r)
    \/ FinishResolve(r)

-----------------------------------------------------------------------------
(* Requests (internal/queue/service.go and the row actions of library).    *)

(* What the interface offers on a row, when it draws it.                   *)
Offered(op, row) ==
    CASE op = "add"        -> FALSE
      [] op = "cancelall"  -> FALSE
      [] op = "cleanup"    -> FALSE
      [] op = "cancel"     -> row.status \in Active
      [] op = "retry"      -> row.status \in {"retrying", "failed"}
      [] op = "redownload" -> row.status \in Finished
      [] op = "hide"       -> row.status # "absent" /\ ~row.hidden
      [] op = "unhide"     -> row.hidden
      [] op = "purge"      -> row.hidden

Begin(c, op, j) ==
    /\ phase # "down"
    /\ request[c].pc = "idle"
    /\ sent < MaxRequests
    /\ sent' = sent + 1
    /\ request' = [request EXCEPT ![c] = [NoRequest EXCEPT !.pc = FirstStep[op], !.job = j]]
    /\ UNCHANGED <<disk, pool, checks, phase, recovery, boots>>

BeginOnRow(c) == \E op \in Requests, j \in Jobs : Offered(op, table[j]) /\ Begin(c, op, j)
BeginGlobal(c) == \E op \in Requests \cap {"add", "cancelall", "cleanup"} : Begin(c, op, NoJob)

Goto(c, pc) == request' = [request EXCEPT ![c].pc = pc]
Reply(c) == request' = [request EXCEPT ![c] = NoRequest]

(* Prepare: the row is checking until the resolver decides.                *)
Prepare(c) ==
    /\ request[c].pc = "prepare"
    /\ unused # {}
    /\ table' = Create(table, Oldest(unused), "checking")
    /\ unused' = unused \ {Oldest(unused)}
    /\ request' = [request EXCEPT ![c] = [@ EXCEPT !.pc = "resolve", !.job = Oldest(unused)]]
    /\ UNCHANGED <<stored, pool, checks, phase, recovery, counters>>

PrepareRefused(c) ==
    /\ request[c].pc = "prepare"
    /\ unused = {}
    /\ Reply(c)
    /\ UNCHANGED <<disk, pool, checks, phase, recovery, counters>>

Resolve(c) ==
    /\ request[c].pc = "resolve"
    /\ \E r \in Resolvers : StartResolver(r, request[c].job)
    /\ Reply(c)
    /\ UNCHANGED <<disk, pool, phase, recovery, counters>>

(* Pool.CancelJob: takes the entry of the job and calls it.                *)
StopWorker(j) ==
    IF cancelFuncs[j] = None
    THEN UNCHANGED <<worker, cancelFuncs>>
    ELSE /\ cancelFuncs' = [cancelFuncs EXCEPT ![j] = None]
         /\ worker' = [worker EXCEPT ![cancelFuncs[j]].live = FALSE]

CancelPool(c) ==
    /\ request[c].pc = "cancelPool"
    /\ StopWorker(request[c].job)
    /\ IF cancelFuncs[request[c].job] = None THEN Goto(c, "cancelRow") ELSE Reply(c)
    /\ UNCHANGED <<disk, staging, checks, phase, recovery, counters>>

CancelRow(c) ==
    /\ request[c].pc = "cancelRow"
    /\ table' = Cancel(table, request[c].job)
    /\ Goto(c, "cancelCheck")
    /\ UNCHANGED <<unused, stored, pool, checks, phase, recovery, counters>>

(* cancelResolve, whatever Jobs.Cancel answered.                           *)
CancelCheck(c) ==
    /\ request[c].pc = "cancelCheck"
    /\ LET r == resolving[request[c].job]
       IN  IF r = None
           THEN UNCHANGED checks
           ELSE /\ resolver' = [resolver EXCEPT ![r].live = FALSE]
                /\ resolving' = [resolving EXCEPT ![request[c].job] = None]
    /\ Reply(c)
    /\ UNCHANGED <<disk, pool, phase, recovery, counters>>

(* CancelAll: the running ids, their workers one by one, then the rows.    *)
ListRunning(c) ==
    /\ request[c].pc = "listRunning"
    /\ request' = [request EXCEPT ![c] =
                     [@ EXCEPT !.pc = "stopRunning",
                               !.ids = {j \in Jobs : table[j].status = "running"}]]
    /\ UNCHANGED <<disk, pool, checks, phase, recovery, counters>>

StopRunning(c) ==
    /\ request[c].pc = "stopRunning"
    /\ \E j \in request[c].ids :
         /\ StopWorker(j)
         /\ request' = [request EXCEPT ![c].ids = @ \ {j}]
    /\ UNCHANGED <<disk, staging, checks, phase, recovery, counters>>

CancelRows(c) ==
    /\ request[c].pc = "stopRunning"
    /\ request[c].ids = {}
    /\ table' = CancelAll(table)
    /\ Reply(c)
    /\ UNCHANGED <<unused, stored, pool, checks, phase, recovery, counters>>

Retry(c) ==
    /\ request[c].pc = "resetFailed"
    /\ table' = IF CanResetFailed(table, request[c].job)
                THEN ResetFailed(table, request[c].job) ELSE table
    /\ Reply(c)
    /\ UNCHANGED <<unused, stored, pool, checks, phase, recovery, counters>>

(* Redownload: the job is read and its files and items go, then its row    *)
(* starts over, then it is resolved again.                                 *)
DropItems(c) ==
    /\ request[c].pc = "dropItems"
    /\ IF Present(table, request[c].job) THEN Goto(c, "redownloadRow") ELSE Reply(c)
    /\ stored' = stored \ {request[c].job}
    /\ UNCHANGED <<table, unused, pool, checks, phase, recovery, counters>>

RedownloadRow(c) ==
    /\ request[c].pc = "redownloadRow"
    /\ table' = Redownload(table, request[c].job)
    /\ Goto(c, "resolve")
    /\ UNCHANGED <<unused, stored, pool, checks, phase, recovery, counters>>

(* Hide, Unhide, PurgeJob and the cleanup operation, reduced to what they  *)
(* do to rows; items go with their job.                                    *)
RowAction(c, pc, tbl) ==
    /\ request[c].pc = pc
    /\ table' = tbl
    /\ stored' = {j \in stored : Present(tbl, j)}
    /\ Reply(c)
    /\ UNCHANGED <<unused, pool, checks, phase, recovery, counters>>

HideRow(c)    == RowAction(c, "hide", SetHidden(table, request[c].job, TRUE))
UnhideRow(c)  == RowAction(c, "unhide", SetHidden(table, request[c].job, FALSE))
PurgeRow(c)   == RowAction(c, "purge", Purge(table, request[c].job))
CleanupRows(c) == RowAction(c, "cleanup", CleanupDead(table))

RequestStep(c) ==
    \/ Prepare(c)
    \/ PrepareRefused(c)
    \/ Resolve(c)
    \/ CancelPool(c)
    \/ CancelRow(c)
    \/ CancelCheck(c)
    \/ ListRunning(c)
    \/ StopRunning(c)
    \/ CancelRows(c)
    \/ Retry(c)
    \/ DropItems(c)
    \/ RedownloadRow(c)
    \/ HideRow(c)
    \/ UnhideRow(c)
    \/ PurgeRow(c)
    \/ CleanupRows(c)

-----------------------------------------------------------------------------
(* The process (cmd/talmor/main.go).                                       *)

(* main starts HTTP, then pool.Start and RecoverChecking side by side.     *)
Boot ==
    /\ phase = "down"
    /\ boots < MaxBoots
    /\ boots' = boots + 1
    /\ phase' = "boot"
    /\ recovery' = [todo |-> TRUE, left |-> {}]
    /\ UNCHANGED <<disk, pool, checks, request, sent>>

(* pool.Start: no worker runs before the table and the staging tree are    *)
(* reset.                                                                  *)
StartPoolUnswept ==
    /\ phase = "boot"
    /\ phase' = "on"
    /\ table' = ResetStale(table)
    /\ UNCHANGED <<unused, stored, staging, worker, cancelFuncs, checks, recovery, request,
                   counters>>
StartPool ==
    /\ phase = "boot"
    /\ phase' = "on"
    /\ table' = ResetStale(table)
    /\ staging' = [j \in Jobs |-> {}]
    /\ UNCHANGED <<unused, stored, worker, cancelFuncs, checks, recovery, request, counters>>

RecoverCheckingForgets ==
    /\ recovery.todo
    /\ recovery' = [todo |-> FALSE, left |-> {}]
    /\ UNCHANGED <<disk, pool, checks, phase, request, counters>>
RecoverChecking ==
    /\ recovery.todo
    /\ recovery' = [todo |-> FALSE, left |-> {j \in Jobs : table[j].status = "checking"}]
    /\ UNCHANGED <<disk, pool, checks, phase, request, counters>>

ResumeCheck ==
    /\ \E j \in recovery.left, r \in Resolvers :
         /\ StartResolver(r, j)
         /\ recovery' = [recovery EXCEPT !.left = @ \ {j}]
    /\ UNCHANGED <<disk, pool, phase, request, counters>>

(* A crash or a stop: what is in memory is gone, and a worker or resolver  *)
(* writes nothing any more (the pool's context is cancelled, so its last   *)
(* Update fails).  Ids of unborn entries return to the supply.             *)
Crash ==
    /\ phase # "down"
    /\ boots < MaxBoots
    /\ phase' = "down"
    /\ unused' = unused \cup UNION {resolver[r].entries : r \in Resolvers}
    /\ recovery' = [todo |-> FALSE, left |-> {}]
    /\ worker' = [w \in Workers |-> Idle]
    /\ cancelFuncs' = [j \in Jobs |-> None]
    /\ resolver' = [r \in Resolvers |-> Free]
    /\ resolving' = [j \in Jobs |-> None]
    /\ request' = [c \in Clients |-> NoRequest]
    /\ UNCHANGED <<table, stored, staging, counters>>

Next ==
    \/ \E w \in Workers : WorkerStep(w)
    \/ \E r \in Resolvers : ResolverStep(r)
    \/ \E c \in Clients : BeginOnRow(c) \/ BeginGlobal(c) \/ RequestStep(c)
    \/ \E j \in Jobs : Elapse(j)
    \/ Boot
    \/ StartPool
    \/ RecoverChecking
    \/ ResumeCheck
    \/ Crash

Spec == Init /\ [][Next]_vars

(* Downloads and playlist checks run under timeouts, workers poll on a     *)
(* timer, handlers run to their end, time passes and a stopped process is  *)
(* started again.  A download ends even if it always finds one more file   *)
(* to hand over: its process is killed at the timeout.  Nothing is asked   *)
(* of clients, files or crashes.                                           *)
Fairness ==
    /\ \A w \in Workers : /\ WF_vars(Claim(w))
                          /\ WF_vars(Register(w))
                          /\ WF_vars(SaveFile(w))
                          /\ SF_vars(EndDownload(w))
                          /\ WF_vars(WriteVerdict(w))
                          /\ WF_vars(Release(w))
    /\ \A r \in Resolvers : WF_vars(ResolverStep(r))
    /\ \A c \in Clients : WF_vars(RequestStep(c))
    /\ \A j \in Jobs : WF_vars(Elapse(j))
    /\ WF_vars(Boot) /\ WF_vars(StartPool) /\ WF_vars(RecoverChecking) /\ WF_vars(ResumeCheck)

FairSpec == Spec /\ Fairness

-----------------------------------------------------------------------------
(* Properties.                                                             *)

(* A worker that owes the row of j a verdict.                              *)
Busy(w, j) == worker[w].job = j /\ worker[w].pc \in {"claimed", "download", "save", "update"}

(* No two workers of the pool download one job at a time, however claims,  *)
(* cancellations, retries and restarts interleave (ClaimNext and the       *)
(* unconditional Update of process).                                       *)
ExclusiveDownload ==
    \A j \in Jobs, v, w \in Workers : Busy(v, j) /\ Busy(w, j) => v = w

(* Once the pool runs, a row says "running" only while a worker is bound   *)
(* to change that: no job hangs in a status nobody will ever leave.        *)
RunningIsOwned ==
    \A j \in Jobs : phase = "on" /\ table[j].status = "running"
                       => \E w \in Workers : Busy(w, j)

(* The entry a cancellation finds in either registry belongs to a process  *)
(* that works on that very job: cancelling one job never stops another.    *)
CancelHitsItsJob ==
    \A j \in Jobs :
        /\ cancelFuncs[j] # None => /\ worker[cancelFuncs[j]].job = j
                                    /\ worker[cancelFuncs[j]].pc # "claimed"
        /\ resolving[j] # None => /\ resolver[resolving[j]].job = j
                                  /\ resolver[resolving[j]].pc # "free"

(* A link is expanded by one resolver at most, although main may resume a  *)
(* check that a request has just started: whoever creates entries has      *)
(* itself removed the placeholder, and nobody brings it back (the guard of *)
(* DeleteChecking).                                                        *)
ExpandedOnce ==
    \A q, r \in Resolvers :
        /\ resolver[r].pc = "create" => ~Present(table, resolver[r].job)
        /\ resolver[q].pc = "create" /\ resolver[r].pc = "create"
             /\ resolver[q].job = resolver[r].job => q = r

(* A job in "checking" has somebody who will decide it: a resolver whose   *)
(* context is alive, a request about to start one, or the recovery after a *)
(* restart.                                                                *)
CheckingIsAttended ==
    \A j \in Jobs : table[j].status = "checking" =>
        \/ \E r \in Resolvers : /\ resolver[r].job = j
                                /\ resolver[r].pc \in {"probe", "confirm", "expand"}
                                /\ resolver[r].live
        \/ \E c \in Clients : request[c].pc = "resolve" /\ request[c].job = j
        \/ phase = "down" \/ recovery.todo \/ j \in recovery.left

(* A job with attempts to make has attempts left: without a user's reset   *)
(* no chain of failures, restarts and late writes exceeds the retry window *)
(* (handleFailure).                                                        *)
RetriesStayInWindow ==
    \A j \in Jobs : table[j].status \in Active => table[j].retries < MaxAttempts

(* Files do not pile up in the staging directory: once the pool runs, what *)
(* lies there belongs to attempts that are under way and will remove it,   *)
(* although a crash leaves the files of its attempts behind, for jobs that *)
(* are cancelled or purged before anybody attempts them again, and the     *)
(* directory goes by the id of a job that others may have claimed (the     *)
(* RemoveAll of Start and the deferred one of process).                    *)
StagingIsSwept ==
    \A j \in Jobs, w \in Workers : phase = "on" /\ w \in staging[j] =>
        worker[w].job = j /\ worker[w].dir /\ worker[w].pc # "claimed"

(* Items belong to jobs that exist, although a worker may go on saving     *)
(* files of a job that a purge, a cleanup or an expansion has deleted (the *)
(* foreign key of items.job_id and its cascade).                           *)
ItemsHaveJob == \A j \in stored : Present(table, j)

(* A deleted job is not brought back by whoever still works on it, nor are *)
(* its files: the last Update of its worker and the Redownload of a stale  *)
(* page find no row to write to, and the insert of a file is refused.      *)
Deleted(j) == /\ ~Present(table, j)
              /\ j \notin unused
              /\ \A r \in Resolvers : j \notin resolver[r].entries
DeletedStaysDeleted ==
    [][\A j \in Jobs : Deleted(j) => Deleted(j)' /\ j \notin stored']_vars

(* A cancelled row means a stopped download: no worker goes on fetching    *)
(* what the user sees as cancelled (CancelAll and CancelJob).              *)
CancelledMeansStopped ==
    \A w \in Workers, j \in Jobs :
        Busy(w, j) /\ table[j].status = "cancelled" => worker[w].pc # "claimed" /\ ~worker[w].live

(* Every entry of a playlist whose placeholder is gone becomes a job       *)
(* (ResolvePlaceholder, CreateJobs).                                       *)
ExpansionIsComplete ==
    [][\A r \in Resolvers : resolver[r].pc = "create" =>
          \A e \in resolver[r].entries \ resolver'[r].entries : Present(table', e)]_vars

(* The queue keeps the promises of JobLifecycle: a finished job does not   *)
(* stir, a deleted one does not come back, nothing skips its check.        *)
Seen(j) == IF Present(table, j) THEN table[j].status
           ELSE IF Deleted(j) THEN "gone" ELSE "new"
Lifecycle == INSTANCE JobLifecycle WITH status <- [j \in Jobs |-> Seen(j)]
FollowsLifecycle == Lifecycle!Spec

(* With finitely many requests and crashes the queue comes to rest: every  *)
(* job ends done, failed, cancelled or deleted, none stays in a check, in  *)
(* line, in a download or in a backoff for ever.                           *)
QueueDrains == <>[](\A j \in Jobs : table[j].status \notin Active)
=============================================================================
