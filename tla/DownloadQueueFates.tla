------------------------- MODULE DownloadQueueFates -------------------------
(***************************************************************************)
(* What becomes of a job: the queue implements JobLifecycle, a cancelled   *)
(* one has no download, its staged files have an attempt that removes      *)
(* them and a check always has somebody to decide it, for any number of    *)
(* jobs, workers, resolvers and clients.                                   *)
(*                                                                         *)
(* Redownload resets a row and takes its items whatever its status is by   *)
(* then, and CancelAll marks the rows of workers it has not stopped.  Each *)
(* theorem is about an interface without those of the two that break it;   *)
(* its hypothesis names them.                                              *)
(***************************************************************************)
EXTENDS DownloadQueueProofs

-----------------------------------------------------------------------------
(* CancelledMeansStopped: without CancelAll a row with a worker at work is *)
(* cancelled by that worker's own verdict, which is the end of its work.   *)
NoCancelAll == \A c \in Clients : request[c].pc \notin {"listRunning", "stopRunning"}
RunningWork == \A w \in Workers, j \in Jobs : Busy(w, j) => table[j].status # "cancelled"

(* Without the operation no request ever reaches the steps of CancelAll.   *)
LEMMA NoCancelAllStep ==
  ASSUME Assigned, NoCancelAll, "cancelall" \notin Requests,
         NEW c \in Clients, BeginOnRow(c) \/ BeginGlobal(c) \/ RequestStep(c)
  PROVE  NoCancelAll'
<1> SUFFICES ASSUME NEW d \in Clients
             PROVE  request'[d].pc \notin {"listRunning", "stopRunning"}
  BY DEF NoCancelAll
<1>1. request[d].pc \notin {"listRunning", "stopRunning"}
  BY DEF NoCancelAll
<1>2. \A op \in Requests : FirstStep[op] \notin {"listRunning", "stopRunning"}
  <2> TAKE op \in Requests
  <2>1. op \in DOMAIN FirstStep /\ op # "cancelall"
    BY RequestsAreKnown
  <2> QED
    BY <2>1 DEF FirstStep
<1> QED
  BY <1>1, <1>2, RequestPath DEF Follows, NoRequest

(* The two are inductive together, given one worker per job.               *)
LEMMA RunningWorkStep ==
  ASSUME Assigned, OneWorkerPerJob, NoCancelAll /\ RunningWork,
         "cancelall" \notin Requests, Next
  PROVE  (NoCancelAll /\ RunningWork)'
<1> USE DEF RowKept, RowStartsOver
<1>0. /\ table \in Table /\ worker \in [Workers -> WorkerState]
      /\ \A j \in Jobs, v, w \in Workers : Busy(v, j) /\ Busy(w, j) => v = w
      /\ \A w \in Workers, j \in Jobs :
           Busy(w, j) => table[j].status \in {"running", "absent"}
  BY DEF Assigned, TypeOK, OneWorkerPerJob, ExclusiveDownload, BusyRows, RunningWork
<1>1. ASSUME NEW w \in Workers, WorkerStep(w)
      PROVE  (NoCancelAll /\ RunningWork)'
  <2>1. NoCancelAll' /\ \A v \in Workers \ {w} : worker'[v] = worker[v]
    BY <1>1, OthersKept DEF NoCancelAll
  <2>2. \A v \in Workers \ {w}, j \in Jobs : Busy(v, j)' <=> Busy(v, j)
    BY <2>1 DEF Busy
  <2>3. CASE Claim(w)
    BY <1>0, <2>1, <2>2, <2>3, ClaimEffect DEF RunningWork, Busy
  <2>4. CASE Register(w) \/ TakeFile(w) \/ SaveFile(w) \/ EndDownload(w)
    <3>1. UNCHANGED table /\ \A j \in Jobs : Busy(w, j)' => Busy(w, j)
      BY <2>4, WorkingEffect DEF Busy
    <3> QED
      BY <1>0, <2>1, <2>2, <3>1 DEF RunningWork
  <2>5. CASE WriteVerdict(w)
    <3>1. /\ \A j \in Jobs : ~Busy(w, j)'
          /\ \A j \in Jobs : Busy(w, j) \/ RowKept(j)
      BY <2>5, VerdictEffect DEF Busy
    <3> QED
      BY <1>0, <2>1, <2>2, <3>1 DEF RunningWork
  <2>6. CASE Release(w)
    <3>1. UNCHANGED table /\ \A j \in Jobs : ~Busy(w, j)'
      BY <2>6, ReleaseEffect DEF Busy, Idle
    <3> QED
      BY <1>0, <2>1, <2>2, <3>1 DEF RunningWork
  <2> QED
    BY <1>1, <2>3, <2>4, <2>5, <2>6 DEF WorkerStep
<1>2. ASSUME NEW r \in Resolvers, ResolverStep(r)
      PROVE  (NoCancelAll /\ RunningWork)'
  <2>1. UNCHANGED <<worker, request>>
    BY <1>2, ResolverWork
  <2>2. \A j \in Jobs : table'[j].status = "cancelled" => table[j].status = "cancelled"
    BY <1>2, ResolverTable DEF ResolverRow, NoRow, NewRow
  <2> QED
    BY <2>1, <2>2 DEF NoCancelAll, RunningWork, Busy
<1>3. ASSUME NEW c \in Clients, BeginOnRow(c) \/ BeginGlobal(c) \/ RequestStep(c)
      PROVE  (NoCancelAll /\ RunningWork)'
  <2>1. NoCancelAll'
    BY <1>3, NoCancelAllStep
  <2>2. \A w \in Workers, j \in Jobs : Busy(w, j)' <=> Busy(w, j)
    BY <1>3, RequestWork DEF Busy, WorkersKept
  <2>3. \A w \in Workers, j \in Jobs : Busy(w, j) => table'[j].status # "cancelled"
    <3> SUFFICES ASSUME NEW w \in Workers, NEW j \in Jobs, Busy(w, j)
                 PROVE  table'[j].status # "cancelled"
      OBVIOUS
    <3>1. request[c].pc # "stopRunning" /\ table[j].status \in {"running", "absent"}
      BY <1>0 DEF NoCancelAll
    <3> QED
      BY <1>3, <3>1, RequestTable DEF RequestRow, NoRow, NewRow, Active
  <2> QED
    BY <2>1, <2>2, <2>3 DEF RunningWork
<1>4. ASSUME NEW k \in Jobs, Elapse(k)
      PROVE  (NoCancelAll /\ RunningWork)'
  <2>1. \A j \in Jobs : table'[j].status = table[j].status
    BY <1>0, <1>4 DEF Elapse, Table, Row
  <2> QED
    BY <1>4, <2>1 DEF Elapse, pool, NoCancelAll, RunningWork, Busy
<1>5. CASE StartPool
  <2>1. \A j \in Jobs : table'[j].status = "cancelled" => table[j].status = "cancelled"
    BY <1>0, <1>5, MoveEffect DEF StartPool, ResetStale, Status, Active
  <2> QED
    BY <1>5, <2>1 DEF StartPool, NoCancelAll, RunningWork, Busy
<1>6. CASE Boot \/ RecoverChecking \/ ResumeCheck
  BY <1>6 DEF Boot, RecoverChecking, ResumeCheck, disk, pool, NoCancelAll, RunningWork, Busy
<1>7. CASE Crash
  BY <1>7 DEF Crash, Idle, NoRequest, NoCancelAll, RunningWork, Busy
<1> QED
  BY <1>1, <1>2, <1>3, <1>4, <1>5, <1>6, <1>7 DEF Next

LEMMA AlwaysRunningWork ==
  ASSUME Requests \cap {"redownload", "cancelall"} = {}
  PROVE  Spec => [](NoCancelAll /\ RunningWork)
<1>1. Init => NoCancelAll /\ RunningWork
  BY DEF Init, NoCancelAll, RunningWork, Busy, Idle, NoRequest
<1>2. Assigned /\ OneWorkerPerJob /\ (NoCancelAll /\ RunningWork) /\ [Next]_vars
        => (NoCancelAll /\ RunningWork)'
  <2>1. ASSUME NoCancelAll /\ RunningWork, UNCHANGED vars PROVE (NoCancelAll /\ RunningWork)'
    BY <2>1 DEF NoCancelAll, RunningWork, Busy, vars, disk, pool
  <2> QED
    BY <2>1, RunningWorkStep
<1>3. Spec => []OneWorkerPerJob
  BY AlwaysOneWorker
<1> QED
  BY <1>1, <1>2, <1>3, AlwaysAssigned, PTL DEF Spec

(* No worker goes on fetching what the user sees as cancelled: the         *)
(* cancellation of one job (CancelJob, then Cancel for the statuses that   *)
(* have no worker) leaves no row cancelled under a download, whatever      *)
(* claims, registers, finishes or restarts in between.  CancelAll does.    *)
THEOREM CancelledAlwaysStopped ==
  ASSUME Requests \cap {"redownload", "cancelall"} = {}
  PROVE  Spec => []CancelledMeansStopped
<1>1. RunningWork => CancelledMeansStopped
  BY DEF RunningWork, CancelledMeansStopped
<1> QED
  BY <1>1, AlwaysRunningWork, PTL

-----------------------------------------------------------------------------
(* StagingIsSwept: no worker runs before the tree is swept, and a worker   *)
(* puts files in the directory of its own job only, which it removes with  *)
(* its last step.                                                          *)
LEMMA SweptStep ==
  ASSUME Assigned, StagingIsSwept, Next
  PROVE  StagingIsSwept'
<1>0. /\ worker \in [Workers -> WorkerState] /\ staging \in [Jobs -> SUBSET Workers]
      /\ \A w \in Workers : /\ worker[w].pc = "idle" <=> worker[w].job = NoJob
                            /\ worker[w].pc # "idle" => worker[w].job \in Jobs
  BY DEF Assigned, TypeOK, JobsAssigned, WorkerState
<1>1. ASSUME UNCHANGED <<staging, phase>>, WorkersKept
      PROVE  StagingIsSwept'
  BY <1>1 DEF StagingIsSwept, WorkersKept
<1>2. ASSUME NEW w \in Workers, WorkerStep(w)
      PROVE  StagingIsSwept'
  <2>0. phase' = phase /\ \A v \in Workers \ {w} : worker'[v] = worker[v]
    BY <1>2, OthersKept
  <2>1. ASSUME UNCHANGED staging, worker'[w].job = worker[w].job,
               worker'[w].dir = worker[w].dir, worker'[w].pc # "claimed"
        PROVE  StagingIsSwept'
    BY <2>0, <2>1 DEF StagingIsSwept
  <2>2. CASE Claim(w)
    BY <1>0, <2>0, <2>2, NoJobIsNoJob DEF Claim, StagingIsSwept
  <2>3. CASE Register(w)
    <3>1. CASE UNCHANGED staging
      <4>1. worker[w].pc = "claimed"
        BY <2>3 DEF Register
      <4>2. \A j \in Jobs : phase = "on" => w \notin staging'[j]
        BY <3>1, <4>1 DEF StagingIsSwept
      <4> QED
        BY <2>0, <3>1, <4>2 DEF StagingIsSwept
    <3>2. CASE /\ worker' = [worker EXCEPT ![w] =
                                [@ EXCEPT !.pc = "download", !.live = TRUE, !.dir = TRUE]]
               /\ staging' = [staging EXCEPT ![worker[w].job] = @ \cup {w}]
      <4>1. /\ worker'[w].job = worker[w].job /\ worker'[w].dir
            /\ worker'[w].pc = "download"
        BY <1>0, <3>2 DEF WorkerState
      <4>2. \A j \in Jobs : /\ staging'[j] \subseteq staging[j] \cup {w}
                            /\ j # worker[w].job => staging'[j] = staging[j]
        BY <1>0, <3>2
      <4>3. phase = "on" => \A j \in Jobs : w \notin staging[j]
        BY <2>3 DEF Register, StagingIsSwept
      <4> QED
        BY <2>0, <4>1, <4>2, <4>3 DEF StagingIsSwept
    <3> QED
      BY <2>3, <3>1, <3>2 DEF Register
  <2>4. CASE TakeFile(w) \/ SaveFile(w)
    <3> DEFINE me == [worker[w] EXCEPT !.pc = "download", !.got = TRUE]
               it(pc) == [worker[w] EXCEPT !.pc = pc]
    <3>1. /\ me.job = worker[w].job /\ me.dir = worker[w].dir /\ me.pc = "download"
          /\ \A pc : it(pc).job = worker[w].job /\ it(pc).dir = worker[w].dir /\ it(pc).pc = pc
      BY <1>0 DEF WorkerState
    <3>2. worker'[w] \in {me, it("download"), it("save")}
      BY <1>0, <2>4 DEF TakeFile, SaveFile
    <3> HIDE DEF me, it
    <3>3. /\ worker'[w].job = worker[w].job /\ worker'[w].dir = worker[w].dir
          /\ worker'[w].pc # "claimed"
      BY <3>1, <3>2
    <3> QED
      BY <2>1, <2>4, <3>3 DEF TakeFile, SaveFile
  <2>5. CASE EndDownload(w)
    <3>1. PICK v : Conclude(w, v, TRUE)
      BY <2>5 DEF EndDownload
    <3>2. worker'[w].job = worker[w].job /\ worker'[w].dir /\ worker'[w].pc = "update"
      BY <1>0, <3>1 DEF Conclude, Idle
    <3> QED
      BY <2>0, <2>5, <3>2 DEF EndDownload, StagingIsSwept
  <2>6. CASE WriteVerdict(w)
    <3>1. /\ worker'[w].job = worker[w].job /\ worker'[w].dir = worker[w].dir
          /\ worker'[w].pc = "release"
      BY <1>0, <2>6 DEF WriteVerdict, Idle
    <3> QED
      BY <2>1, <2>6, <3>1 DEF WriteVerdict
  <2>7. CASE Release(w)
    <3>0. staging' = IF worker[w].dir THEN [staging EXCEPT ![worker[w].job] = {}] ELSE staging
      BY <2>7 DEF Release
    <3>1. \A j \in Jobs : staging'[j] \subseteq staging[j]
      BY <1>0, <3>0
    <3>2. phase = "on" => \A j \in Jobs : w \notin staging'[j]
      <4>1. phase = "on" => \A j \in Jobs : w \in staging[j] => worker[w].job = j /\ worker[w].dir
        BY DEF StagingIsSwept
      <4> QED
        BY <1>0, <3>0, <4>1
    <3> QED
      BY <2>0, <3>1, <3>2 DEF StagingIsSwept
  <2> QED
    BY <1>2, <2>2, <2>3, <2>4, <2>5, <2>6, <2>7 DEF WorkerStep
<1>3. ASSUME NEW r \in Resolvers, ResolverStep(r)
      PROVE  StagingIsSwept'
  <2>1. UNCHANGED staging
    BY <1>3 DEF ResolverStep, ProbeSingle, ProbePlaylist, Confirm, Expand, ExpandRefused,
                CreateEntry, FinishResolve, pool
  <2> QED
    BY <1>1, <1>3, <2>1, ResolverWork DEF WorkersKept
<1>4. ASSUME NEW c \in Clients, BeginOnRow(c) \/ BeginGlobal(c) \/ RequestStep(c)
      PROVE  StagingIsSwept'
  BY <1>1, <1>4, RequestWork
<1>5. CASE \E k \in Jobs : Elapse(k)
  BY <1>1, <1>5 DEF Elapse, pool, WorkersKept
<1>6. CASE StartPool
  BY <1>6 DEF StartPool, StagingIsSwept
<1>7. CASE Boot \/ Crash
  BY <1>7 DEF Boot, Crash, StagingIsSwept
<1>8. CASE RecoverChecking \/ ResumeCheck
  BY <1>1, <1>8 DEF RecoverChecking, ResumeCheck, pool, WorkersKept
<1> QED
  BY <1>2, <1>3, <1>4, <1>5, <1>6, <1>7, <1>8 DEF Next

(* Files do not pile up in the staging directory: once the pool runs, each *)
(* that lies there has an attempt that will remove it (the RemoveAll of    *)
(* Start and the deferred one of process), whatever became of the jobs     *)
(* whose attempts a crash has ended.                                       *)
THEOREM StagingAlwaysSwept == Spec => []StagingIsSwept
<1>1. Init => StagingIsSwept
  BY DEF Init, StagingIsSwept
<1>2. Assigned /\ StagingIsSwept /\ [Next]_vars => StagingIsSwept'
  <2>1. ASSUME StagingIsSwept, UNCHANGED vars PROVE StagingIsSwept'
    BY <2>1 DEF StagingIsSwept, vars, pool
  <2> QED
    BY <2>1, SweptStep
<1> QED
  BY <1>1, <1>2, AlwaysAssigned, PTL DEF Spec

-----------------------------------------------------------------------------
(* CheckingIsAttended: a check is called off only after its row has left   *)
(* "checking", and Prepare alone, for an id nobody knows yet, brings a row *)
(* there.                                                                  *)
CalledOffLast ==
    \A c \in Clients : request[c].pc = "cancelCheck" => table[request[c].job].status # "checking"

LEMMA CheckStarts ==
  ASSUME Assigned, NoRedownload, Next, NEW j \in Jobs,
         table'[j].status = "checking", table[j].status # "checking"
  PROVE  /\ Fresh(j)
         /\ \E c \in Clients : request'[c].pc = "resolve" /\ request'[c].job = j
<1> USE DEF RowKept, RowStartsOver
<1>0. /\ table \in Table /\ unused \subseteq Jobs
      /\ request \in [Clients -> RequestState] /\ \A c \in Clients : request[c] \in RequestState
  BY DEF Assigned, TypeOK
<1>1. ~\E w \in Workers : WorkerStep(w)
  BY ClaimEffect, WorkingEffect, VerdictEffect, ReleaseEffect DEF WorkerStep
<1>2. ~\E r \in Resolvers : ResolverStep(r)
  BY ResolverTable DEF ResolverRow, NoRow, NewRow
<1>3. ~\E k \in Jobs : Elapse(k)
  BY <1>0 DEF Elapse, Table, Row
<1>4. ~StartPool
  BY <1>0, MoveEffect DEF StartPool, ResetStale, Status, Active
<1>5. ~(Boot \/ RecoverChecking \/ ResumeCheck \/ Crash)
  BY DEF Boot, RecoverChecking, ResumeCheck, Crash, disk
<1>6. PICK c \in Clients : BeginOnRow(c) \/ BeginGlobal(c) \/ RequestStep(c)
  BY <1>1, <1>2, <1>3, <1>4, <1>5 DEF Next
<1>7. j \in unused /\ unused' = unused \ {j}
  BY <1>6, RequestTable DEF RequestRow, NoRow, NewRow, NoRedownload
<1>8. Prepare(c)
  BY <1>0, <1>6, <1>7
     DEF BeginOnRow, BeginGlobal, Begin, RequestStep, PrepareRefused, Resolve, CancelPool,
         CancelRow, CancelCheck, ListRunning, StopRunning, CancelRows, Retry, DropItems,
         RedownloadRow, HideRow, UnhideRow, PurgeRow, CleanupRows, RowAction, disk
<1>9. request'[c].pc = "resolve" /\ request'[c].job = Oldest(unused)
  <2> DEFINE i == Oldest(unused)
             me == [request[c] EXCEPT !.pc = "resolve", !.job = i]
  <2>1. request' = [request EXCEPT ![c] = me]
    BY <1>0, <1>8 DEF Prepare
  <2> HIDE DEF i
  <2>2. me.pc = "resolve" /\ me.job = i
    BY <1>0 DEF RequestState
  <2> HIDE DEF me
  <2> QED
    BY <1>0, <2>1, <2>2 DEF i
<1>10. j = Oldest(unused)
  <2>1. unused' = unused \ {Oldest(unused)}
    BY <1>8 DEF Prepare
  <2> QED
    BY <1>7, <2>1
<1> QED
  BY <1>7, <1>9, <1>10 DEF Fresh

LEMMA CalledOffStep ==
  ASSUME Assigned, FreshIds, NoRedownload, CalledOffLast, Next
  PROVE  CalledOffLast'
<1> SUFFICES ASSUME NEW d \in Clients, request'[d].pc = "cancelCheck"
             PROVE  table'[request'[d].job].status # "checking"
  BY DEF CalledOffLast
<1>1. CASE request'[d] = request[d]
  <2>1. request[d].job \in Jobs /\ table[request[d].job].status # "checking"
    BY <1>1 DEF CalledOffLast, Assigned, JobsAssigned, NeedsJob, RequestPC
  <2>2. ~Fresh(request[d].job)
    BY <2>1 DEF FreshIds, Untouched
  <2> QED
    BY <1>1, <2>1, <2>2, CheckStarts
<1>2. ASSUME NEW c \in Clients, BeginOnRow(c) \/ BeginGlobal(c) \/ RequestStep(c),
             request'[d] # request[d]
      PROVE  table'[request'[d].job].status # "checking"
  <2>1. \A op \in Requests : FirstStep[op] # "cancelCheck"
    BY RequestsAreKnown DEF FirstStep
  <2>2. d = c /\ request[c].pc = "cancelRow" /\ request'[d].job = request[c].job
    BY <1>2, <2>1, RequestPath DEF Follows, NoRequest
  <2>3. CancelRow(c)
    BY <1>2, <2>2
       DEF BeginOnRow, BeginGlobal, Begin, RequestStep, Prepare, PrepareRefused, Resolve,
           CancelPool, CancelCheck, ListRunning, StopRunning, CancelRows, Retry, DropItems,
           RedownloadRow, HideRow, UnhideRow, PurgeRow, CleanupRows, RowAction
  <2>4. request[c].job \in Jobs /\ table \in Table
    BY <2>2 DEF Assigned, TypeOK, JobsAssigned, NeedsJob, RequestPC
  <2>5. table'[request[c].job].status # "checking"
    <3> DEFINE k == request[c].job
    <3>1. table' = Move(table, {k}, Cancellable, "cancelled")
      BY <2>3 DEF CancelRow, Cancel
    <3>2. "cancelled" \in Status /\ k \in Jobs
      BY <2>4 DEF Status, Finished
    <3> HIDE DEF k
    <3>3. table'[k].status = IF table[k].status \in Cancellable THEN "cancelled"
                             ELSE table[k].status
      BY <2>4, <3>1, <3>2, MoveEffect
    <3>4. table'[k].status # "checking"
      BY <3>3 DEF Cancellable
    <3> QED
      BY <3>4 DEF k
  <2> QED
    BY <2>2, <2>5
<1>3. CASE Crash
  BY <1>3 DEF Crash, NoRequest
<1>4. ASSUME ~\E c \in Clients : BeginOnRow(c) \/ BeginGlobal(c) \/ RequestStep(c), ~Crash
      PROVE  request'[d] = request[d]
  BY <1>4, OthersKept, ResolverWork
     DEF Next, Elapse, Boot, StartPool, RecoverChecking, ResumeCheck
<1> QED
  BY <1>1, <1>2, <1>3, <1>4

(* CheckingIsAttended is preserved: whoever attends to a check goes on     *)
(* with it, hands it over, or settles it.                                  *)
Attends(r, j) == /\ resolver[r].job = j
                 /\ resolver[r].pc \in {"probe", "confirm", "expand"}
                 /\ resolver[r].live
Attended(j) == \/ \E r \in Resolvers : Attends(r, j)
               \/ \E c \in Clients : request[c].pc = "resolve" /\ request[c].job = j
               \/ phase = "down" \/ recovery.todo \/ j \in recovery.left

(* Starting another resolver disturbs nobody.                              *)
LEMMA StartAttends ==
  ASSUME Assigned, NEW q \in Resolvers, NEW k \in Jobs, StartResolver(q, k)
  PROVE  Attends(q, k)' /\ \A r \in Resolvers, j \in Jobs : Attends(r, j) => Attends(r, j)'
<1> DEFINE it == [pc |-> "probe", job |-> k, live |-> TRUE, entries |-> {}]
<1>1. resolver \in [Resolvers -> ResolverState] /\ resolver[q].pc = "free"
  BY DEF Assigned, TypeOK, StartResolver
<1>2. resolver' = [resolver EXCEPT ![q] = it]
  BY DEF StartResolver
<1>3. it.pc = "probe" /\ it.job = k /\ it.live
  OBVIOUS
<1> HIDE DEF it
<1> QED
  BY <1>1, <1>2, <1>3 DEF Attends

(* A resolver leaves the check of its job only when the job is decided.    *)
LEMMA ResolverAttends ==
  ASSUME Assigned, NEW r \in Resolvers, ResolverStep(r), NEW j \in Jobs,
         Attends(r, j), table[j].status = "checking", table'[j].status = "checking"
  PROVE  Attends(r, j)'
<1>0. /\ resolver \in [Resolvers -> ResolverState] /\ resolver[r] \in ResolverState
      /\ table \in Table
      /\ resolver[r].job = j /\ resolver[r].pc \in {"probe", "confirm", "expand"}
      /\ resolver[r].live
  BY DEF Assigned, TypeOK, Attends
<1>1. CASE ProbeSingle(r)
  BY <1>0, <1>1 DEF ProbeSingle, ResolverState, Attends
<1>2. CASE ProbePlaylist(r)
  <2>1. PICK ids : resolver' = [resolver EXCEPT ![r] =
                                  [@ EXCEPT !.pc = "expand", !.entries = ids]]
    BY <1>2 DEF ProbePlaylist
  <2> QED
    BY <1>0, <2>1 DEF ResolverState, Attends
<1>3. ~Confirm(r)
  BY <1>0, MoveEffect DEF Confirm, ConfirmSingle, Status, Active
<1>4. ~Expand(r)
  BY <1>0, DropEffect DEF Expand, DeleteChecking, NoRow, NewRow
<1>5. ~ExpandRefused(r) /\ ~CreateEntry(r) /\ ~FinishResolve(r)
  BY <1>0 DEF ExpandRefused, CanDeleteChecking, CreateEntry, FinishResolve
<1> QED
  BY <1>1, <1>2, <1>3, <1>4, <1>5 DEF ResolverStep

LEMMA AttendedStep ==
  ASSUME Assigned, CancelHitsItsJob, NoRedownload, CalledOffLast, CheckingIsAttended, Next
  PROVE  CheckingIsAttended'
<1> SUFFICES ASSUME NEW j \in Jobs, table'[j].status = "checking"
             PROVE  Attended(j)'
  BY DEF CheckingIsAttended, Attended, Attends
<1>0. /\ resolver \in [Resolvers -> ResolverState]
      /\ resolving \in [Jobs -> Resolvers \cup {None}]
      /\ recovery \in [todo : BOOLEAN, left : SUBSET Jobs]
  BY DEF Assigned, TypeOK
<1>1. CASE table[j].status # "checking"
  BY <1>1, CheckStarts DEF Attended
<1>2. CASE table[j].status = "checking"
  <2>1. Attended(j)
    BY <1>2 DEF CheckingIsAttended, Attended, Attends
  <2>2. ASSUME UNCHANGED <<resolver, request, recovery, phase>>
        PROVE  Attended(j)'
    BY <2>1, <2>2 DEF Attended, Attends
  <2>3. ASSUME NEW w \in Workers, WorkerStep(w)
        PROVE  Attended(j)'
    BY <2>2, <2>3, OthersKept
  <2>4. ASSUME NEW r \in Resolvers, ResolverStep(r)
        PROVE  Attended(j)'
    <3>1. /\ \A q \in Resolvers \ {r} : resolver'[q] = resolver[q]
          /\ UNCHANGED <<request, recovery, phase>>
      BY <2>4, ResolverWork
    <3>2. \A q \in Resolvers : Attends(q, j) => Attends(q, j)'
      BY <1>2, <2>4, <3>1, ResolverAttends DEF Attends
    <3> QED
      BY <2>1, <3>1, <3>2 DEF Attended
  <2>5. ASSUME NEW c \in Clients, BeginOnRow(c) \/ BeginGlobal(c) \/ RequestStep(c)
        PROVE  Attended(j)'
    <3>1. UNCHANGED <<recovery, phase>>
      BY <2>5, RequestWork
    <3>2. CASE Resolve(c)
      <4>1. PICK q \in Resolvers : StartResolver(q, request[c].job)
        BY <3>2 DEF Resolve
      <4>2. request[c].job \in Jobs
        BY <3>2 DEF Resolve, Assigned, JobsAssigned, NeedsJob, RequestPC
      <4>3. \A d \in Clients \ {c} : request'[d] = request[d]
        BY <3>2 DEF Resolve, Reply, Assigned, TypeOK
      <4> QED
        BY <2>1, <3>1, <4>1, <4>2, <4>3, StartAttends DEF Attended
    <3>3. CASE ~Resolve(c)
      <4>1. \A d \in Clients : request[d].pc = "resolve" => request'[d] = request[d]
        <5> SUFFICES ASSUME NEW d \in Clients, request[d].pc = "resolve"
                     PROVE  request'[d] = request[d]
          OBVIOUS
        <5>1. d # c
          BY <2>5, <3>3
             DEF BeginOnRow, BeginGlobal, Begin, RequestStep, Prepare, PrepareRefused,
                 CancelPool, CancelRow, CancelCheck, ListRunning, StopRunning, CancelRows,
                 Retry, DropItems, RedownloadRow, HideRow, UnhideRow, PurgeRow, CleanupRows,
                 RowAction
        <5> QED
          BY <2>5, <5>1, RequestOthers
      <4>2. \A r \in Resolvers : Attends(r, j) => Attends(r, j)'
        <5>1. CASE CancelCheck(c)
          <6> DEFINE q == resolving[request[c].job]
          <6>1. request[c].pc = "cancelCheck" /\ request[c].job \in Jobs
            BY <5>1 DEF CancelCheck, Assigned, JobsAssigned, NeedsJob, RequestPC
          <6>2. \/ UNCHANGED resolver
                \/ /\ q # None /\ resolver' = [resolver EXCEPT ![q].live = FALSE]
            BY <5>1 DEF CancelCheck, checks
          <6>3. request[c].job # j
            BY <1>2, <6>1 DEF CalledOffLast
          <6>4. q # None => resolver[q].job # j
            BY <6>1, <6>3 DEF CancelHitsItsJob
          <6> HIDE DEF q
          <6>5. \A r \in Resolvers : resolver[r].job = j => resolver'[r] = resolver[r]
            BY <1>0, <6>2, <6>4
          <6> QED
            BY <6>5 DEF Attends
        <5>2. CASE ~CancelCheck(c)
          <6>1. UNCHANGED resolver
            BY <2>5, <3>3, <5>2
               DEF BeginOnRow, BeginGlobal, Begin, RequestStep, Prepare, PrepareRefused,
                   CancelPool, CancelRow, ListRunning, StopRunning, CancelRows, Retry,
                   DropItems, RedownloadRow, HideRow, UnhideRow, PurgeRow, CleanupRows,
                   RowAction, checks
          <6> QED
            BY <6>1 DEF Attends
        <5> QED
          BY <5>1, <5>2
      <4> QED
        BY <2>1, <3>1, <4>1, <4>2 DEF Attended
    <3> QED
      BY <3>2, <3>3
  <2>6. CASE StartPool \/ \E k \in Jobs : Elapse(k)
    <3>1. (phase # "down" /\ phase' # "down") \/ UNCHANGED phase
      BY <2>6 DEF StartPool, Elapse
    <3>2. UNCHANGED <<resolver, request, recovery>>
      BY <2>6 DEF StartPool, Elapse, checks
    <3> QED
      BY <2>1, <2>6, <3>1, <3>2 DEF StartPool, Elapse, Attended, Attends
  <2>7. CASE Boot \/ Crash
    BY <2>7 DEF Boot, Crash, Attended
  <2>8. CASE RecoverChecking
    BY <1>2, <2>8 DEF RecoverChecking, Attended
  <2>9. CASE ResumeCheck
    <3>1. PICK k \in recovery.left, q \in Resolvers :
            /\ StartResolver(q, k)
            /\ recovery' = [recovery EXCEPT !.left = @ \ {k}]
      BY <2>9 DEF ResumeCheck
    <3>2. /\ recovery'.todo = recovery.todo /\ recovery'.left = recovery.left \ {k}
          /\ k \in Jobs
      BY <1>0, <3>1
    <3>3. UNCHANGED <<request, phase>>
      BY <2>9 DEF ResumeCheck
    <3> QED
      BY <2>1, <3>1, <3>2, <3>3, StartAttends DEF Attended
  <2> QED
    BY <2>3, <2>4, <2>5, <2>6, <2>7, <2>8, <2>9 DEF Next
<1> QED
  BY <1>1, <1>2

(* A job in "checking" always has somebody who will decide it: a resolver  *)
(* whose context is alive, a request about to start one, or the recovery   *)
(* after a restart, however resolutions, recoveries, cancellations and     *)
(* crashes interleave (Resolve, cancelResolve, RecoverChecking).  A        *)
(* cancellation that has marked the row may end the context of a resolver  *)
(* that Redownload starts meanwhile; the hypothesis excludes that.         *)
THEOREM ChecksAlwaysAttended ==
  ASSUME "redownload" \notin Requests
  PROVE  Spec => []CheckingIsAttended
<1>1. Init => CalledOffLast
  BY DEF Init, CalledOffLast, NoRequest
<1>2. Init => CheckingIsAttended
  BY DEF Init, CheckingIsAttended
<1>3. OneWorkerPerJob => NoRedownload
  BY DEF OneWorkerPerJob
<1>4. Spec => []OneWorkerPerJob
  BY AlwaysOneWorker
<1>5. NoRedownload /\ Assigned /\ FreshIds /\ CalledOffLast /\ [Next]_vars => CalledOffLast'
  <2>1. ASSUME CalledOffLast, UNCHANGED vars PROVE CalledOffLast'
    BY <2>1 DEF CalledOffLast, vars, disk
  <2> QED
    BY <2>1, CalledOffStep
<1>6. NoRedownload /\ Assigned /\ CancelHitsItsJob /\ CalledOffLast /\ CheckingIsAttended
        /\ [Next]_vars => CheckingIsAttended'
  <2>1. ASSUME CheckingIsAttended, UNCHANGED vars PROVE CheckingIsAttended'
    BY <2>1 DEF CheckingIsAttended, vars, disk, checks
  <2> QED
    BY <2>1, AttendedStep
<1> QED
  BY <1>1, <1>2, <1>3, <1>4, <1>5, <1>6, AlwaysAssigned, IdsAlwaysFresh,
     CancelAlwaysHitsItsJob, PTL DEF Spec

-----------------------------------------------------------------------------
(* FollowsLifecycle: the queue implements JobLifecycle.  An id counts as   *)
(* new until it has a row, so it must not get lost on the way to one.      *)
LEMMA IdsAreNotLost ==
  ASSUME Assigned, Next, NEW j \in Jobs, Fresh(j)
  PROVE  Fresh(j)' \/ Present(table, j)'
<1>0. /\ resolver \in [Resolvers -> ResolverState] /\ table \in Table /\ unused \subseteq Jobs
      /\ \A r \in Resolvers : resolver[r] \in ResolverState
      /\ \A r \in Resolvers :
           resolver[r].pc \in {"expand", "create"} <=> resolver[r].entries # {}
  BY DEF Assigned, TypeOK, JobsAssigned
<1>1. ASSUME UNCHANGED <<unused, resolver>> PROVE Fresh(j)'
  BY <1>1 DEF Fresh
<1>2. ASSUME NEW w \in Workers, WorkerStep(w) PROVE Fresh(j)'
  BY <1>1, <1>2, OthersKept
<1>3. ASSUME NEW r \in Resolvers, ResolverStep(r)
      PROVE  Fresh(j)' \/ Present(table, j)'
  <2>1. \A q \in Resolvers \ {r} : resolver'[q] = resolver[q]
    BY <1>3, ResolverWork
  <2>2. ASSUME unused \cup resolver[r].entries \subseteq unused' \cup resolver'[r].entries
        PROVE  Fresh(j)'
    BY <2>1, <2>2 DEF Fresh
  <2>3. CASE ProbeSingle(r)
    BY <1>0, <2>2, <2>3 DEF ProbeSingle, ResolverState, disk
  <2>4. CASE ProbePlaylist(r)
    <3>1. PICK ids \in SUBSET unused :
                 /\ unused' = unused \ ids
                 /\ resolver' = [resolver EXCEPT ![r] =
                                   [@ EXCEPT !.pc = "expand", !.entries = ids]]
      BY <2>4 DEF ProbePlaylist
    <3>2. resolver'[r].entries = ids
      BY <1>0, <3>1 DEF ResolverState
    <3>3. resolver[r].entries = {}
      BY <1>0, <2>4 DEF ProbePlaylist
    <3> QED
      BY <2>2, <3>1, <3>2, <3>3
  <2>5. CASE Confirm(r)
    BY <1>0, <2>2, <2>5 DEF Confirm, ResolverState
  <2>6. CASE Expand(r)
    BY <1>0, <2>2, <2>6 DEF Expand, ResolverState
  <2>7. CASE ExpandRefused(r)
    BY <1>0, <2>2, <2>7 DEF ExpandRefused
  <2>8. CASE CreateEntry(r)
    <3> DEFINE e == Oldest(resolver[r].entries)
               left == resolver[r].entries \ {e}
               pc == IF left = {} THEN "finish" ELSE "create"
               me == [resolver[r] EXCEPT !.entries = left, !.pc = pc]
    <3>1. resolver' = [resolver EXCEPT ![r] = [@ EXCEPT !.entries = left, !.pc = pc]]
      BY <2>8, Zenon DEF CreateEntry
    <3>2. \/ table' = Create(table, e, "pending") /\ UNCHANGED unused
          \/ unused' = unused \cup {e}
      BY <2>8 DEF CreateEntry
    <3>3. e \in Jobs
      BY <1>0, <2>8, OldestIsLeast DEF CreateEntry, ResolverState
    <3> HIDE DEF pc, e
    <3>4. me.entries = left /\ resolver'[r] = me
      BY <1>0, <3>1 DEF ResolverState
    <3> HIDE DEF me
    <3>5. CASE unused' = unused \cup {e}
      BY <2>2, <3>4, <3>5
    <3>6. CASE table' = Create(table, e, "pending") /\ UNCHANGED unused
      <4>1. table'[e] = NewRow("pending")
        BY <1>0, <3>3, <3>6, CreateEffect DEF Status, Active
      <4>2. CASE j = e
        BY <4>1, <4>2 DEF Present, NewRow
      <4>3. CASE j # e
        BY <2>1, <3>4, <3>6, <4>3 DEF Fresh
      <4> QED
        BY <4>2, <4>3
    <3> QED
      BY <3>2, <3>5, <3>6
  <2>9. CASE FinishResolve(r)
    BY <1>0, <2>2, <2>9 DEF FinishResolve, disk
  <2> QED
    BY <1>3, <2>3, <2>4, <2>5, <2>6, <2>7, <2>8, <2>9 DEF ResolverStep
<1>4. ASSUME NEW r \in Resolvers, NEW k, StartResolver(r, k), UNCHANGED unused
      PROVE  Fresh(j)'
  <2>1. resolver[r].entries = {} /\ \A q \in Resolvers \ {r} : resolver'[q] = resolver[q]
    BY <1>0, <1>4 DEF StartResolver
  <2> QED
    BY <1>4, <2>1 DEF Fresh
<1>5. ASSUME NEW c \in Clients, BeginOnRow(c) \/ BeginGlobal(c) \/ RequestStep(c)
      PROVE  Fresh(j)' \/ Present(table, j)'
  <2>1. CASE Prepare(c)
    <3> DEFINE e == Oldest(unused)
    <3>1. e \in unused
      BY <1>0, <2>1, OldestIsLeast DEF Prepare
    <3>2. /\ table' = Create(table, e, "checking") /\ unused' = unused \ {e}
          /\ UNCHANGED resolver
      BY <2>1 DEF Prepare, checks
    <3> HIDE DEF e
    <3>3. table'[e] = NewRow("checking")
      BY <1>0, <3>1, <3>2, CreateEffect DEF Status, Active
    <3> QED
      BY <3>2, <3>3 DEF Fresh, Present, NewRow
  <2>2. CASE ~Prepare(c)
    <3>1. UNCHANGED unused
      BY <1>5, <2>2
         DEF BeginOnRow, BeginGlobal, Begin, RequestStep, PrepareRefused, Resolve,
             CancelPool, CancelRow, CancelCheck, ListRunning, StopRunning, CancelRows, Retry,
             DropItems, RedownloadRow, HideRow, UnhideRow, PurgeRow, CleanupRows, RowAction,
             disk
    <3>2. CASE ResolversKept
      BY <3>1, <3>2 DEF ResolversKept, Fresh
    <3>3. CASE \E r \in Resolvers : StartResolver(r, request[c].job)
      BY <1>4, <3>1, <3>3
    <3> QED
      BY <1>5, <3>2, <3>3, RequestWork
  <2> QED
    BY <2>1, <2>2
<1>6. CASE Boot \/ StartPool \/ RecoverChecking \/ \E k \in Jobs : Elapse(k)
  BY <1>1, <1>6 DEF Boot, StartPool, RecoverChecking, Elapse, disk, checks
<1>7. CASE ResumeCheck
  BY <1>4, <1>7 DEF ResumeCheck, disk
<1>8. CASE Crash
  BY <1>8 DEF Crash, Fresh
<1> QED
  BY <1>2, <1>3, <1>5, <1>6, <1>7, <1>8 DEF Next

(* The ways of JobLifecycle, one by one.                                   *)
LEMMA LifecycleMoves ==
  /\ DOMAIN Lifecycle!Moves = (Status \ {"absent"}) \cup {"new", "gone"}
  /\ Lifecycle!Moves["new"] = {"checking", "pending"}
  /\ Lifecycle!Moves["checking"] = {"pending", "cancelled", "gone"}
  /\ Lifecycle!Moves["pending"] = {"running", "cancelled", "gone"}
  /\ Lifecycle!Moves["running"] =
       {"done", "failed", "retrying", "cancelled", "pending", "gone"}
  /\ Lifecycle!Moves["retrying"] = {"running", "pending", "cancelled", "gone"}
  /\ Lifecycle!Moves["failed"] = {"pending", "checking", "gone"}
  /\ \A s \in Status \ {"absent"} : "gone" \in Lifecycle!Moves[s]
BY DEF Lifecycle!Moves, Status, Active, Finished

(* A row that exists takes one of the ways of JobLifecycle, or goes.       *)
LEMMA RowMoves ==
  ASSUME Assigned, FreshIds, OneWorkerPerJob, NoCancelAll /\ RunningWork, Next,
         NEW j \in Jobs, Present(table, j)
  PROVE  \/ table'[j].status \in {table[j].status, "absent"}
         \/ table'[j].status \in Lifecycle!Moves[table[j].status]
<1> USE LifecycleMoves DEF RowKept, RowStartsOver
<1>0. /\ table \in Table /\ table[j].status \in Status \ {"absent"}
      /\ j \notin unused /\ \A r \in Resolvers : j \notin resolver[r].entries
  BY DEF Assigned, TypeOK, Table, Row, Present, FreshIds, Untouched, Fresh
<1>1. ASSUME table'[j].status \in {table[j].status, "absent"}
      PROVE  \/ table'[j].status \in {table[j].status, "absent"}
             \/ table'[j].status \in Lifecycle!Moves[table[j].status]
  BY <1>1
<1>2. ASSUME NEW w \in Workers, WorkerStep(w)
      PROVE  \/ table'[j].status \in {table[j].status, "absent"}
             \/ table'[j].status \in Lifecycle!Moves[table[j].status]
  <2>1. CASE Claim(w)
    BY <2>1, ClaimEffect
  <2>2. CASE Register(w) \/ TakeFile(w) \/ SaveFile(w) \/ EndDownload(w) \/ Release(w)
    BY <2>2, WorkingEffect, ReleaseEffect
  <2>3. CASE WriteVerdict(w)
    <3>1. CASE worker[w].job = j
      <4>1. table[j].status = "running"
        BY <1>0, <2>3, <3>1, VerdictEffect
           DEF OneWorkerPerJob, BusyRows, RunningWork, Busy
      <4> QED
        BY <2>3, <3>1, <4>1, VerdictEffect
    <3>2. CASE worker[w].job # j
      BY <2>3, <3>2, VerdictEffect
    <3> QED
      BY <3>1, <3>2
  <2> QED
    BY <1>2, <2>1, <2>2, <2>3 DEF WorkerStep
<1>3. ASSUME NEW r \in Resolvers, ResolverStep(r)
      PROVE  \/ table'[j].status \in {table[j].status, "absent"}
             \/ table'[j].status \in Lifecycle!Moves[table[j].status]
  BY <1>0, <1>3, ResolverTable DEF ResolverRow, NoRow, NewRow
<1>4. ASSUME NEW c \in Clients, BeginOnRow(c) \/ BeginGlobal(c) \/ RequestStep(c)
      PROVE  \/ table'[j].status \in {table[j].status, "absent"}
             \/ table'[j].status \in Lifecycle!Moves[table[j].status]
  <2>1. RequestRow(c, j) /\ request[c].pc # "redownloadRow"
    BY <1>4, RequestTable DEF OneWorkerPerJob, NoRedownload
  <2> QED
    BY <1>0, <2>1 DEF RequestRow, NoRow, NewRow, Active
<1>5. CASE \E k \in Jobs : Elapse(k)
  BY <1>0, <1>5 DEF Elapse, Table, Row
<1>6. CASE StartPool
  BY <1>0, <1>6, MoveEffect DEF StartPool, ResetStale, Status, Active
<1>7. CASE Boot \/ RecoverChecking \/ ResumeCheck \/ Crash
  BY <1>7 DEF Boot, RecoverChecking, ResumeCheck, Crash, disk
<1> QED
  BY <1>2, <1>3, <1>4, <1>5, <1>6, <1>7 DEF Next

(* A row is born in "checking", by a request, or in "pending", as an entry *)
(* of a playlist.                                                          *)
LEMMA BornRow ==
  ASSUME Assigned, NoRedownload, Next, NEW j \in Jobs, ~Present(table, j), Present(table, j)'
  PROVE  table'[j].status \in {"checking", "pending"}
<1> USE DEF RowKept, RowStartsOver, Present
<1>0. table \in Table
  BY DEF Assigned, TypeOK
<1>1. ~\E w \in Workers : WorkerStep(w)
  BY WorkerMakesNoRow
<1>2. ASSUME NEW r \in Resolvers, ResolverStep(r)
      PROVE  table'[j].status \in {"checking", "pending"}
  BY <1>2, ResolverTable DEF ResolverRow, NoRow, NewRow
<1>3. ASSUME NEW c \in Clients, BeginOnRow(c) \/ BeginGlobal(c) \/ RequestStep(c)
      PROVE  table'[j].status \in {"checking", "pending"}
  BY <1>3, RequestTable DEF RequestRow, NoRow, NewRow, Active
<1>4. ~\E k \in Jobs : Elapse(k)
  BY <1>0 DEF Elapse, Table, Row
<1>5. ~StartPool
  BY <1>0, MoveEffect DEF StartPool, ResetStale, Status, Active
<1>6. ~(Boot \/ RecoverChecking \/ ResumeCheck \/ Crash)
  BY DEF Boot, RecoverChecking, ResumeCheck, Crash, disk
<1> QED
  BY <1>1, <1>2, <1>3, <1>4, <1>5, <1>6 DEF Next

(* What is seen of one id takes one of the ways, or stays.                 *)
LEMMA SeenMoves ==
  ASSUME Assigned, FreshIds, OneWorkerPerJob, NoCancelAll /\ RunningWork, Next, NEW j \in Jobs
  PROVE  /\ Seen(j)' \in DOMAIN Lifecycle!Moves
         /\ Seen(j)' = Seen(j) \/ Seen(j)' \in Lifecycle!Moves[Seen(j)]
<1>0. table[j].status \in Status /\ table'[j].status \in Status
  <2>1. table' \in Table
    BY AssignedStep DEF Assigned, TypeOK
  <2> QED
    BY <2>1 DEF Assigned, TypeOK, Table, Row
<1>1. /\ Seen(j) = IF Present(table, j) THEN table[j].status
                   ELSE IF Fresh(j) THEN "new" ELSE "gone"
      /\ Seen(j)' = IF Present(table, j)' THEN table'[j].status
                    ELSE IF Fresh(j)' THEN "new" ELSE "gone"
  BY DEF Seen, Deleted, Fresh
<1>2. Seen(j)' \in DOMAIN Lifecycle!Moves
  BY <1>0, <1>1, LifecycleMoves DEF Present
<1>3. CASE Present(table, j)
  <2>1. ~Fresh(j)
    BY <1>3 DEF FreshIds, Untouched
  <2>2. ~Fresh(j)'
    BY <2>1, FreshStep
  <2>3. CASE Present(table, j)'
    BY <1>1, <1>2, <1>3, <2>3, RowMoves DEF Present
  <2>4. CASE ~Present(table, j)'
    BY <1>0, <1>1, <1>2, <1>3, <2>2, <2>4, LifecycleMoves DEF Present
  <2> QED
    BY <2>3, <2>4
<1>4. CASE ~Present(table, j) /\ Fresh(j)
  <2>1. CASE Present(table, j)'
    <3>1. Seen(j)' \in {"checking", "pending"}
      BY <1>1, <1>4, <2>1, BornRow DEF OneWorkerPerJob
    <3> QED
      BY <1>1, <1>2, <1>4, <3>1, LifecycleMoves
  <2>2. CASE ~Present(table, j)'
    BY <1>1, <1>2, <1>4, <2>2, IdsAreNotLost
  <2> QED
    BY <2>1, <2>2
<1>5. CASE ~Present(table, j) /\ ~Fresh(j)
  BY <1>1, <1>2, <1>5, FreshStep
<1> QED
  BY <1>3, <1>4, <1>5

(* The queue implements JobLifecycle: a finished job does not stir, a      *)
(* deleted one does not come back and no job is downloaded before its      *)
(* check is decided, whatever requests, workers, resolvers and restarts    *)
(* are in progress (the statements of repo/job.go and their callers).      *)
THEOREM LifecycleFollowed ==
  ASSUME Requests \cap {"redownload", "cancelall"} = {}
  PROVE  Spec => FollowsLifecycle
<1>1. Init => Lifecycle!Init
  <2> SUFFICES ASSUME Init, NEW j \in Jobs
               PROVE  Seen(j) \in {"new", "pending"}
    BY DEF Lifecycle!Init
  <2>1. /\ table[j] = IF j \in Backlog THEN NewRow("pending") ELSE NoRow
        /\ j \notin Backlog => j \in unused
    BY DEF Init
  <2> QED
    BY <2>1 DEF Seen, Deleted, Present, NewRow, NoRow
<1>2. Assigned /\ FreshIds /\ OneWorkerPerJob /\ (NoCancelAll /\ RunningWork) /\ [Next]_vars
        => [Lifecycle!Next]_([j \in Jobs |-> Seen(j)])
  <2>1. ASSUME Assigned, FreshIds, OneWorkerPerJob, NoCancelAll /\ RunningWork, Next
        PROVE  Lifecycle!Next
    BY <2>1, SeenMoves DEF Lifecycle!Next
  <2>2. ASSUME UNCHANGED vars PROVE UNCHANGED [j \in Jobs |-> Seen(j)]
    BY <2>2 DEF Seen, Deleted, Present, vars, disk, checks
  <2> QED
    BY <2>1, <2>2
<1>3. Spec => []OneWorkerPerJob
  BY AlwaysOneWorker
<1>4. Spec => [](NoCancelAll /\ RunningWork)
  BY AlwaysRunningWork
<1> QED
  BY <1>1, <1>2, <1>3, <1>4, AlwaysAssigned, IdsAlwaysFresh,
     PTL DEF Spec, FollowsLifecycle, Lifecycle!Spec
=============================================================================
