------------------------- MODULE DownloadQueueTypes -------------------------
(***************************************************************************)
(* What the statements of JobTable do to a table, and type correctness of  *)
(* DownloadQueue, for any number of jobs, workers, resolvers and clients:  *)
(* the facts every other proof about the queue starts from.                *)
(***************************************************************************)
EXTENDS DownloadQueue, IdsProofs

(* ClaimNext and the supply of ids take the least element of a set of ids. *)
LEMMA OldestIsLeast ==
  ASSUME NEW ids \in SUBSET Jobs, ids # {}
  PROVE  Oldest(ids) \in ids /\ \A k \in ids : Oldest(ids) <= k
BY LeastIdExists, JobsAreNumbered

-----------------------------------------------------------------------------
(* A new row is a row.                                                     *)
LEMMA NewRowType == \A s \in Status : NewRow(s) \in Row
BY DEF NewRow, Row

(* Move changes the status and the deadline of the rows it selects, and    *)
(* nothing else.                                                           *)
LEMMA MoveEffect ==
  ASSUME NEW tbl \in Table, NEW ids, NEW from, NEW s \in Status
  PROVE  /\ Move(tbl, ids, from, s) \in Table
         /\ \A j \in Jobs :
              /\ Move(tbl, ids, from, s)[j].status =
                   IF j \in ids /\ tbl[j].status \in from THEN s ELSE tbl[j].status
              /\ Move(tbl, ids, from, s)[j].retries = tbl[j].retries
              /\ Move(tbl, ids, from, s)[j].hidden = tbl[j].hidden
BY DEF Move, Table, Row

(* Drop empties the rows it selects.                                       *)
LEMMA DropEffect ==
  ASSUME NEW tbl \in Table, NEW ids
  PROVE  /\ Drop(tbl, ids) \in Table
         /\ \A j \in Jobs : Drop(tbl, ids)[j] = IF j \in ids THEN NoRow ELSE tbl[j]
BY DEF Drop, Table, Row, NoRow, NewRow, Status

(* Create writes one row.                                                  *)
LEMMA CreateEffect ==
  ASSUME NEW tbl \in Table, NEW i \in Jobs, NEW s \in Status
  PROVE  /\ Create(tbl, i, s) \in Table
         /\ \A j \in Jobs : Create(tbl, i, s)[j] = IF j = i THEN NewRow(s) ELSE tbl[j]
BY NewRowType DEF Create, Table

(* Update writes status and count of one row that exists.                  *)
LEMMA UpdateEffect ==
  ASSUME NEW tbl \in Table, NEW i \in Jobs, NEW s \in Status, NEW n \in Nat
  PROVE  /\ Update(tbl, i, s, n) \in Table
         /\ \A j \in Jobs :
              /\ j # i \/ ~Present(tbl, j) => Update(tbl, i, s, n)[j] = tbl[j]
              /\ j = i /\ Present(tbl, j) =>
                   /\ Update(tbl, i, s, n)[j].status = s
                   /\ Update(tbl, i, s, n)[j].retries = n
              /\ Update(tbl, i, s, n)[j].hidden = tbl[j].hidden
BY DEF Update, Table, Row

-----------------------------------------------------------------------------
(* Whoever is at work knows for which job, a worker that is about to write *)
(* a verdict has one, and a resolver holds ids while it expands a playlist *)
(* and at no other time.                                                   *)
NeedsJob == RequestPC \ {"idle", "prepare", "listRunning", "stopRunning", "cleanup"}

JobsAssigned ==
    /\ \A w \in Workers : worker[w].pc = "idle" <=> worker[w].job = NoJob
    /\ \A w \in Workers : worker[w].pc = "update" => worker[w].verdict # "none"
    /\ \A r \in Resolvers : resolver[r].pc = "free" <=> resolver[r].job = NoJob
    /\ \A r \in Resolvers : resolver[r].pc \in {"expand", "create"} <=> resolver[r].entries # {}
    /\ \A c \in Clients : request[c].pc \in NeedsJob => request[c].job \in Jobs

Assigned == TypeOK /\ JobsAssigned

(* The mark of having no job is not a job.                                 *)
LEMMA NoJobIsNoJob == NoJob \notin Jobs
BY JobsAreNumbered DEF NoJob

(* The program starts with nobody at work.                                 *)
LEMMA AssignedInit == Init => Assigned
<1> SUFFICES ASSUME Init PROVE Assigned
  OBVIOUS
<1>1. NewRow("pending") \in Row /\ NoRow \in Row
  BY NewRowType DEF NoRow, Status, Active
<1>2. Idle \in WorkerState /\ Free \in ResolverState /\ NoRequest \in RequestState
  BY DEF Idle, WorkerState, WorkerPC, Verdict, Free, ResolverState, ResolverPC,
         NoRequest, RequestState, RequestPC
<1>3. TypeOK
  BY <1>1, <1>2, BacklogIsOld DEF Init, TypeOK, Table
<1>4. JobsAssigned
  BY DEF Init, JobsAssigned, Idle, Free, NoRequest, NeedsJob
<1> QED
  BY <1>3, <1>4 DEF Assigned

(* A step that replaces the state of one worker by one that makes sense.   *)
LEMMA WorkerReplaced ==
  ASSUME Assigned, NEW w \in Workers, NEW me \in WorkerState,
         me.pc = "idle" <=> me.job = NoJob,
         me.pc = "update" => me.verdict # "none",
         worker' = [worker EXCEPT ![w] = me],
         table' \in Table, stored' \subseteq Jobs,
         staging' \in [Jobs -> SUBSET Workers],
         cancelFuncs' \in [Jobs -> Workers \cup {None}],
         UNCHANGED <<unused, checks, phase, recovery, request, counters>>
  PROVE  Assigned'
<1> USE DEF checks, counters
<1>1. worker' \in [Workers -> WorkerState]
  BY DEF Assigned, TypeOK
<1>2. TypeOK'
  BY <1>1 DEF Assigned, TypeOK
<1>3. \A v \in Workers : /\ worker'[v].pc = "idle" <=> worker'[v].job = NoJob
                         /\ worker'[v].pc = "update" => worker'[v].verdict # "none"
  BY DEF Assigned, TypeOK, JobsAssigned
<1>4. JobsAssigned'
  BY <1>3 DEF Assigned, JobsAssigned
<1> QED
  BY <1>2, <1>4 DEF Assigned

(* Every step of a worker (runWorker, process) leaves it with a job until  *)
(* it releases it, and the tables in order.                                *)
LEMMA WorkerAssigned ==
  ASSUME Assigned, NEW w \in Workers, WorkerStep(w)
  PROVE  Assigned'
<1> USE NoJobIsNoJob
<1>0. /\ worker[w] \in WorkerState
      /\ worker[w].pc = "idle" <=> worker[w].job = NoJob
      /\ worker[w].pc # "idle" => worker[w].job \in Jobs
      /\ worker[w].pc = "update" => worker[w].verdict # "none"
      /\ table \in Table /\ stored \subseteq Jobs
      /\ staging \in [Jobs -> SUBSET Workers]
      /\ cancelFuncs \in [Jobs -> Workers \cup {None}]
  BY DEF Assigned, TypeOK, JobsAssigned, WorkerState
<1>1. CASE Claim(w)
  <2> DEFINE j == Oldest(Claimable(table))
             me == [Idle EXCEPT !.pc = "claimed", !.job = j, !.retries = table[j].retries]
  <2>1. j \in Jobs
    BY <1>1, OldestIsLeast DEF Claim, Claimable
  <2>2. table[j].retries \in Nat /\ table' \in Table
    BY <1>0, <1>1, <2>1, MoveEffect DEF Claim, ClaimNext, Table, Row, Status, Active
  <2>3. me \in WorkerState /\ me.pc = "claimed" /\ me.job = j
    BY <2>1, <2>2 DEF Idle, WorkerState, WorkerPC, Verdict
  <2>4. worker' = [worker EXCEPT ![w] = me]
    BY <1>1 DEF Claim
  <2> HIDE DEF me, j
  <2> QED
    BY <1>0, <1>1, <2>1, <2>2, <2>3, <2>4, WorkerReplaced DEF Claim
<1>2. CASE Register(w)
  <2>1. worker[w].job \in Jobs
    BY <1>0, <1>2 DEF Register
  <2>2. cancelFuncs' \in [Jobs -> Workers \cup {None}]
    BY <1>0, <1>2, <2>1 DEF Register
  <2>3. CASE /\ worker' = [worker EXCEPT ![w] =
                             [@ EXCEPT !.pc = "download", !.live = TRUE, !.dir = TRUE]]
             /\ staging' = [staging EXCEPT ![worker[w].job] = @ \cup {w}]
    <3> DEFINE me == [worker[w] EXCEPT !.pc = "download", !.live = TRUE, !.dir = TRUE]
    <3>1. me \in WorkerState /\ me.pc = "download" /\ me.job = worker[w].job
      BY <1>0 DEF WorkerState, WorkerPC
    <3>2. worker' = [worker EXCEPT ![w] = me]
      BY <2>3 DEF Assigned, TypeOK
    <3> HIDE DEF me
    <3>3. staging' \in [Jobs -> SUBSET Workers]
      BY <1>0, <2>1, <2>3
    <3> QED
      BY <1>0, <1>2, <2>1, <2>2, <3>1, <3>2, <3>3, WorkerReplaced DEF Register, disk
  <2>4. CASE UNCHANGED staging /\ \E v \in AfterFailure(worker[w].retries) : Conclude(w, v, FALSE)
    <3>1. PICK v \in AfterFailure(worker[w].retries) : Conclude(w, v, FALSE)
      BY <2>4
    <3>2. v \in Verdict /\ v # "none"
      BY DEF AfterFailure, Verdict
    <3> DEFINE n == IF v \in {"failed", "retrying"}
                    THEN worker[w].retries + 1 ELSE worker[w].retries
               me == [Idle EXCEPT !.pc = "update", !.job = worker[w].job, !.dir = FALSE,
                                  !.live = worker[w].live, !.verdict = v, !.retries = n]
    <3>3. n \in Nat
      BY <1>0 DEF WorkerState
    <3>4. worker' = [worker EXCEPT ![w] = me]
      BY <3>1 DEF Conclude
    <3> HIDE DEF n
    <3>5. me \in WorkerState /\ me.pc = "update" /\ me.job = worker[w].job /\ me.verdict = v
      BY <1>0, <3>2, <3>3 DEF Idle, WorkerState, WorkerPC, Verdict
    <3> HIDE DEF me
    <3> QED
      BY <1>0, <1>2, <2>1, <2>2, <2>4, <3>2, <3>4, <3>5, WorkerReplaced DEF Register, disk
  <2> QED
    BY <1>2, <2>3, <2>4 DEF Register
<1>3. CASE TakeFile(w)
  <2> DEFINE me == [worker[w] EXCEPT !.pc = "save"]
  <2>1. me \in WorkerState /\ me.pc = "save" /\ me.job = worker[w].job
    BY <1>0 DEF WorkerState, WorkerPC
  <2>2. worker' = [worker EXCEPT ![w] = me]
    BY <1>3 DEF TakeFile, Assigned, TypeOK
  <2> HIDE DEF me
  <2> QED
    BY <1>0, <1>3, <2>1, <2>2, WorkerReplaced DEF TakeFile, disk
<1>4. CASE SaveFile(w)
  <2>1. worker[w].job \in Jobs
    BY <1>0, <1>4 DEF SaveFile
  <2>2. stored' \subseteq Jobs
    BY <1>0, <1>4, <2>1 DEF SaveFile, Recorded
  <2> DEFINE me == [worker[w] EXCEPT !.pc = "download", !.got = TRUE]
             it == [worker[w] EXCEPT !.pc = "download"]
  <2>3. /\ me \in WorkerState /\ me.pc = "download" /\ me.job = worker[w].job
        /\ it \in WorkerState /\ it.pc = "download" /\ it.job = worker[w].job
    BY <1>0 DEF WorkerState, WorkerPC
  <2>4. \/ worker' = [worker EXCEPT ![w] = me]
        \/ worker' = [worker EXCEPT ![w] = it]
    BY <1>4 DEF SaveFile, Assigned, TypeOK
  <2> HIDE DEF me, it
  <2> QED
    BY <1>0, <1>4, <2>1, <2>2, <2>3, <2>4, WorkerReplaced DEF SaveFile
<1>5. CASE EndDownload(w)
  <2>1. PICK v \in Verdicts(worker[w]) : Conclude(w, v, TRUE)
    BY <1>5 DEF EndDownload
  <2>2. v \in Verdict /\ v # "none"
    BY DEF Verdicts, AfterFailure, Verdict
  <2> DEFINE n == IF v \in {"failed", "retrying"}
                  THEN worker[w].retries + 1 ELSE worker[w].retries
             me == [Idle EXCEPT !.pc = "update", !.job = worker[w].job, !.dir = TRUE,
                                !.live = worker[w].live, !.verdict = v, !.retries = n]
  <2>3. n \in Nat
    BY <1>0 DEF WorkerState
  <2>4. worker' = [worker EXCEPT ![w] = me]
    BY <2>1 DEF Conclude
  <2> HIDE DEF n
  <2>5. me \in WorkerState /\ me.pc = "update" /\ me.job = worker[w].job /\ me.verdict = v
    BY <1>0, <2>2, <2>3 DEF Idle, WorkerState, WorkerPC, Verdict
  <2> HIDE DEF me
  <2> QED
    BY <1>0, <1>5, <2>2, <2>4, <2>5, WorkerReplaced DEF EndDownload, disk
<1>6. CASE WriteVerdict(w)
  <2> DEFINE me == [Idle EXCEPT !.pc = "release", !.job = worker[w].job,
                                !.dir = worker[w].dir]
  <2>1. me \in WorkerState /\ me.pc = "release" /\ me.job = worker[w].job
    BY <1>0 DEF Idle, WorkerState, WorkerPC, Verdict
  <2>2. worker' = [worker EXCEPT ![w] = me]
    BY <1>6 DEF WriteVerdict
  <2> HIDE DEF me
  <2>3. table' \in Table
    <3>1. worker[w].verdict \in Status /\ worker[w].retries \in Nat /\ worker[w].job \in Jobs
      BY <1>0, <1>6 DEF WriteVerdict, WorkerState, Verdict, Status, Active, Finished
    <3> QED
      BY <1>0, <1>6, <3>1, UpdateEffect DEF WriteVerdict
  <2> QED
    BY <1>0, <1>6, <2>1, <2>2, <2>3, WorkerReplaced DEF WriteVerdict
<1>7. CASE Release(w)
  <2>1. Idle \in WorkerState /\ Idle.pc = "idle" /\ Idle.job = NoJob
    BY DEF Idle, WorkerState, WorkerPC, Verdict
  <2>2. /\ staging' \in [Jobs -> SUBSET Workers]
        /\ cancelFuncs' \in [Jobs -> Workers \cup {None}]
    BY <1>0, <1>7 DEF Release
  <2> QED
    BY <1>0, <1>7, <2>1, <2>2, WorkerReplaced DEF Release, disk
<1> QED
  BY <1>1, <1>2, <1>3, <1>4, <1>5, <1>6, <1>7 DEF WorkerStep

(* The same for a resolver.                                                *)
LEMMA ResolverReplaced ==
  ASSUME Assigned, NEW r \in Resolvers, NEW me \in ResolverState,
         me.pc = "free" <=> me.job = NoJob,
         me.pc \in {"expand", "create"} <=> me.entries # {},
         resolver' = [resolver EXCEPT ![r] = me],
         table' \in Table, unused' \subseteq Jobs, stored' \subseteq Jobs,
         resolving' \in [Jobs -> Resolvers \cup {None}],
         UNCHANGED <<pool, phase, recovery, request, counters>>
  PROVE  Assigned'
<1> USE DEF pool, counters
<1>1. resolver' \in [Resolvers -> ResolverState]
  BY DEF Assigned, TypeOK
<1>2. TypeOK'
  BY <1>1 DEF Assigned, TypeOK
<1>3. \A q \in Resolvers : /\ resolver'[q].pc = "free" <=> resolver'[q].job = NoJob
                           /\ resolver'[q].pc \in {"expand", "create"} <=> resolver'[q].entries # {}
  BY DEF Assigned, TypeOK, JobsAssigned
<1>4. JobsAssigned'
  BY <1>3 DEF Assigned, JobsAssigned
<1> QED
  BY <1>2, <1>4 DEF Assigned

(* Every step of a resolver (Service.Resolve, ResolvePlaceholder)          *)
(* likewise; an expansion still has an entry to create.                    *)
LEMMA ResolverAssigned ==
  ASSUME Assigned, NEW r \in Resolvers, ResolverStep(r)
  PROVE  Assigned'
<1> USE NoJobIsNoJob DEF disk
<1>0. /\ resolver[r] \in ResolverState
      /\ resolver[r].pc = "free" <=> resolver[r].job = NoJob
      /\ resolver[r].pc # "free" => resolver[r].job \in Jobs
      /\ resolver[r].pc \in {"expand", "create"} <=> resolver[r].entries # {}
      /\ table \in Table /\ stored \subseteq Jobs /\ unused \subseteq Jobs
      /\ resolver \in [Resolvers -> ResolverState]
      /\ resolving \in [Jobs -> Resolvers \cup {None}]
  BY DEF Assigned, TypeOK, JobsAssigned, ResolverState
<1>1. CASE ProbeSingle(r)
  <2> DEFINE me == [resolver[r] EXCEPT !.pc = "confirm"]
  <2>1. me \in ResolverState /\ me.pc = "confirm" /\ me.job = resolver[r].job
                             /\ me.entries = resolver[r].entries
    BY <1>0 DEF ResolverState, ResolverPC
  <2>2. resolver' = [resolver EXCEPT ![r] = me]
    BY <1>0, <1>1 DEF ProbeSingle
  <2> HIDE DEF me
  <2> QED
    BY <1>0, <1>1, <2>1, <2>2, ResolverReplaced DEF ProbeSingle
<1>2. CASE ProbePlaylist(r)
  <2>1. PICK ids \in SUBSET unused :
               /\ Cardinality(ids) >= 2
               /\ unused' = unused \ ids
               /\ resolver' = [resolver EXCEPT ![r] =
                                 [@ EXCEPT !.pc = "expand", !.entries = ids]]
    BY <1>2 DEF ProbePlaylist
  <2> DEFINE me == [resolver[r] EXCEPT !.pc = "expand", !.entries = ids]
  <2>2. me \in ResolverState /\ me.pc = "expand" /\ me.job = resolver[r].job
                             /\ me.entries = ids
    BY <1>0 DEF ResolverState, ResolverPC
  <2>3. resolver' = [resolver EXCEPT ![r] = me]
    BY <1>0, <2>1
  <2>4. unused' \subseteq Jobs
    BY <1>0, <2>1
  <2>5. ids # {}
    BY <2>1, FS_EmptySet
  <2> HIDE DEF me
  <2> QED
    BY <1>0, <1>2, <2>2, <2>3, <2>4, <2>5, ResolverReplaced DEF ProbePlaylist
<1>3. CASE Confirm(r)
  <2> DEFINE me == [resolver[r] EXCEPT !.pc = "finish"]
  <2>1. me \in ResolverState /\ me.pc = "finish" /\ me.job = resolver[r].job
                             /\ me.entries = resolver[r].entries
    BY <1>0 DEF ResolverState, ResolverPC
  <2>2. resolver' = [resolver EXCEPT ![r] = me]
    BY <1>0, <1>3 DEF Confirm
  <2> HIDE DEF me
  <2>3. table' \in Table
    BY <1>0, <1>3, MoveEffect DEF Confirm, ConfirmSingle, Status, Active
  <2> QED
    BY <1>0, <1>3, <2>1, <2>2, <2>3, ResolverReplaced DEF Confirm
<1>4. CASE Expand(r)
  <2> DEFINE me == [resolver[r] EXCEPT !.pc = "create"]
  <2>1. me \in ResolverState /\ me.pc = "create" /\ me.job = resolver[r].job
                             /\ me.entries = resolver[r].entries
    BY <1>0 DEF ResolverState, ResolverPC
  <2>2. resolver' = [resolver EXCEPT ![r] = me]
    BY <1>0, <1>4 DEF Expand
  <2> HIDE DEF me
  <2>3. table' \in Table
    BY <1>0, <1>4, DropEffect DEF Expand, DeleteChecking
  <2>4. resolver[r].entries # {}
    BY <1>0, <1>4 DEF Expand
  <2> QED
    BY <1>0, <1>4, <2>1, <2>2, <2>3, <2>4, ResolverReplaced DEF Expand
<1>5. CASE ExpandRefused(r)
  <2> DEFINE me == [resolver[r] EXCEPT !.pc = "finish", !.entries = {}]
  <2>1. me \in ResolverState /\ me.pc = "finish" /\ me.job = resolver[r].job /\ me.entries = {}
    BY <1>0 DEF ResolverState, ResolverPC
  <2>2. resolver' = [resolver EXCEPT ![r] = me]
    BY <1>0, <1>5 DEF ExpandRefused
  <2> HIDE DEF me
  <2>3. unused' \subseteq Jobs
    BY <1>0, <1>5 DEF ExpandRefused, ResolverState
  <2> QED
    BY <1>0, <1>5, <2>1, <2>2, <2>3, ResolverReplaced DEF ExpandRefused
<1>6. CASE CreateEntry(r)
  <2> DEFINE e == Oldest(resolver[r].entries)
             left == resolver[r].entries \ {e}
             pc == IF left = {} THEN "finish" ELSE "create"
             me == [resolver[r] EXCEPT !.entries = left, !.pc = pc]
  <2>1. resolver[r].entries \in SUBSET Jobs /\ resolver[r].entries # {}
    BY <1>0, <1>6 DEF CreateEntry, ResolverState
  <2>2. e \in resolver[r].entries /\ e \in Jobs
    BY <2>1, OldestIsLeast
  <2>3. resolver' = [resolver EXCEPT ![r] = me]
    <3>1. resolver' = [resolver EXCEPT ![r] =
                         [@ EXCEPT !.entries = left, !.pc = pc]]
      BY <1>6, Zenon DEF CreateEntry
    <3> HIDE DEF left, pc
    <3> QED
      BY <1>0, <3>1
  <2>4. /\ pc \in {"finish", "create"}
        /\ pc = "create" <=> left # {}
        /\ left \subseteq Jobs
    BY <2>1, <2>2
  <2>5. /\ \/ table' = Create(table, e, "pending") /\ UNCHANGED unused
           \/ unused' = unused \cup {e} /\ UNCHANGED table
    BY <1>6 DEF CreateEntry
  <2> HIDE DEF e, pc, left
  <2>6. /\ me \in ResolverState /\ me.pc = pc /\ me.job = resolver[r].job
        /\ me.entries = left
    BY <1>0, <2>4 DEF ResolverState, ResolverPC
  <2> HIDE DEF me
  <2>7. table' \in Table /\ unused' \subseteq Jobs
    BY <1>0, <2>2, <2>5, CreateEffect DEF Status, Active
  <2> QED
    BY <1>0, <1>6, <2>3, <2>4, <2>6, <2>7, ResolverReplaced DEF CreateEntry
<1>7. CASE FinishResolve(r)
  <2>1. Free \in ResolverState /\ Free.pc = "free" /\ Free.job = NoJob /\ Free.entries = {}
    BY DEF Free, ResolverState, ResolverPC
  <2>2. resolving' \in [Jobs -> Resolvers \cup {None}]
    BY <1>0, <1>7 DEF FinishResolve
  <2> QED
    BY <1>0, <1>7, <2>1, <2>2, ResolverReplaced DEF FinishResolve
<1> QED
  BY <1>1, <1>2, <1>3, <1>4, <1>5, <1>6, <1>7 DEF ResolverStep

(* The same for a request.  A request may end a context: it clears the     *)
(* live flag of one worker or resolver, and of nobody else.                *)
LEMMA RequestReplaced ==
  ASSUME Assigned, NEW c \in Clients, NEW me \in RequestState,
         me.pc \in NeedsJob => me.job \in Jobs,
         request' = [request EXCEPT ![c] = me],
         table' \in Table, unused' \subseteq Jobs, stored' \subseteq Jobs,
         \/ UNCHANGED worker
         \/ \E w \in Workers : worker' = [worker EXCEPT ![w].live = FALSE],
         \/ UNCHANGED resolver
         \/ \E r \in Resolvers : resolver' = [resolver EXCEPT ![r].live = FALSE]
         \/ \E r \in Resolvers, j \in Jobs : StartResolver(r, j),
         cancelFuncs' \in [Jobs -> Workers \cup {None}],
         resolving' \in [Jobs -> Resolvers \cup {None}],
         sent' \in Nat,
         UNCHANGED <<staging, phase, recovery, boots>>
  PROVE  Assigned'
<1> USE NoJobIsNoJob
<1>1. worker \in [Workers -> WorkerState] /\ resolver \in [Resolvers -> ResolverState]
  BY DEF Assigned, TypeOK
<1>2. /\ worker' \in [Workers -> WorkerState]
      /\ \A v \in Workers : /\ worker'[v].pc = worker[v].pc
                            /\ worker'[v].job = worker[v].job
                            /\ worker'[v].verdict = worker[v].verdict
  <2>1. CASE UNCHANGED worker
    BY <1>1, <2>1
  <2>2. CASE \E w \in Workers : worker' = [worker EXCEPT ![w].live = FALSE]
    <3>1. PICK w \in Workers : worker' = [worker EXCEPT ![w].live = FALSE]
      BY <2>2
    <3> DEFINE it == [worker[w] EXCEPT !.live = FALSE]
    <3>2. worker[w] \in WorkerState
      BY <1>1
    <3>3. /\ it \in WorkerState /\ it.pc = worker[w].pc /\ it.job = worker[w].job
          /\ it.verdict = worker[w].verdict
      BY <3>2 DEF WorkerState
    <3>4. worker' = [worker EXCEPT ![w] = it]
      BY <3>1, <1>1
    <3> HIDE DEF it
    <3> QED
      BY <1>1, <3>3, <3>4
  <2> QED
    BY <2>1, <2>2
<1>3. ASSUME NEW r \in Resolvers, NEW it \in ResolverState,
             resolver' = [resolver EXCEPT ![r] = it],
             it.pc = "free" <=> it.job = NoJob,
             it.pc \in {"expand", "create"} <=> it.entries # {}
      PROVE  /\ resolver' \in [Resolvers -> ResolverState]
             /\ \A q \in Resolvers :
                  /\ resolver'[q].pc = "free" <=> resolver'[q].job = NoJob
                  /\ resolver'[q].pc \in {"expand", "create"} <=> resolver'[q].entries # {}
  <2>1. resolver' \in [Resolvers -> ResolverState]
    BY <1>1, <1>3
  <2>2. \A q \in Resolvers :
          /\ resolver'[q].pc = "free" <=> resolver'[q].job = NoJob
          /\ resolver'[q].pc \in {"expand", "create"} <=> resolver'[q].entries # {}
    BY <1>1, <1>3 DEF Assigned, JobsAssigned
  <2> QED
    BY <2>1, <2>2
<1>4. /\ resolver' \in [Resolvers -> ResolverState]
      /\ \A q \in Resolvers :
           /\ resolver'[q].pc = "free" <=> resolver'[q].job = NoJob
           /\ resolver'[q].pc \in {"expand", "create"} <=> resolver'[q].entries # {}
  <2>1. CASE UNCHANGED resolver
    BY <1>1, <2>1 DEF Assigned, JobsAssigned
  <2>2. CASE \E r \in Resolvers : resolver' = [resolver EXCEPT ![r].live = FALSE]
    <3>1. PICK r \in Resolvers : resolver' = [resolver EXCEPT ![r].live = FALSE]
      BY <2>2
    <3> DEFINE it == [resolver[r] EXCEPT !.live = FALSE]
    <3>2. resolver[r] \in ResolverState
      BY <1>1
    <3>3. /\ it \in ResolverState /\ it.pc = resolver[r].pc /\ it.job = resolver[r].job
          /\ it.entries = resolver[r].entries
      BY <3>2 DEF ResolverState
    <3>4. resolver' = [resolver EXCEPT ![r] = it]
      BY <3>1, <1>1
    <3> HIDE DEF it
    <3>5. /\ it.pc = "free" <=> it.job = NoJob
          /\ it.pc \in {"expand", "create"} <=> it.entries # {}
      BY <3>3 DEF Assigned, JobsAssigned
    <3> QED
      BY <1>3, <3>3, <3>4, <3>5
  <2>3. CASE \E r \in Resolvers, j \in Jobs : StartResolver(r, j)
    <3>1. PICK r \in Resolvers, j \in Jobs : StartResolver(r, j)
      BY <2>3
    <3> DEFINE it == [pc |-> "probe", job |-> j, live |-> TRUE, entries |-> {}]
    <3>2. it \in ResolverState /\ it.pc = "probe" /\ it.job = j /\ it.entries = {}
      BY DEF ResolverState, ResolverPC
    <3>3. resolver' = [resolver EXCEPT ![r] = it]
      BY <3>1 DEF StartResolver
    <3> HIDE DEF it
    <3> QED
      BY <1>3, <3>2, <3>3
  <2> QED
    BY <2>1, <2>2, <2>3
<1>5. request' \in [Clients -> RequestState]
  BY DEF Assigned, TypeOK
<1>6. \A d \in Clients : request'[d].pc \in NeedsJob => request'[d].job \in Jobs
  BY DEF Assigned, TypeOK, JobsAssigned
<1>7. TypeOK'
  BY <1>2, <1>4, <1>5 DEF Assigned, TypeOK
<1>8. JobsAssigned'
  BY <1>2, <1>4, <1>6 DEF Assigned, JobsAssigned
<1> QED
  BY <1>7, <1>8 DEF Assigned

(* The request that Goto and Reply leave behind.                           *)
LEMMA GotoEffect ==
  ASSUME Assigned, NEW c \in Clients, NEW pc \in RequestPC, Goto(c, pc)
  PROVE  \E me \in RequestState : /\ me.pc = pc /\ me.job = request[c].job
                                  /\ request' = [request EXCEPT ![c] = me]
<1>1. request \in [Clients -> RequestState] /\ request[c] \in RequestState
  BY DEF Assigned, TypeOK
<1> DEFINE me == [request[c] EXCEPT !.pc = pc]
<1>2. me \in RequestState /\ me.pc = pc /\ me.job = request[c].job
  BY <1>1 DEF RequestState
<1>3. request' = [request EXCEPT ![c] = me]
  BY <1>1 DEF Goto
<1> HIDE DEF me
<1> QED
  BY <1>2, <1>3

(* CancelJob ends at most one context and forgets the entry it found.      *)
LEMMA StopWorkerEffect ==
  ASSUME Assigned, NEW j \in Jobs, StopWorker(j)
  PROVE  /\ cancelFuncs' \in [Jobs -> Workers \cup {None}]
         /\ \/ UNCHANGED worker
            \/ \E w \in Workers : worker' = [worker EXCEPT ![w].live = FALSE]
<1>1. cancelFuncs \in [Jobs -> Workers \cup {None}]
  BY DEF Assigned, TypeOK
<1>2. CASE cancelFuncs[j] = None
  BY <1>1, <1>2 DEF StopWorker
<1>3. CASE cancelFuncs[j] # None
  <2>1. /\ cancelFuncs' = [cancelFuncs EXCEPT ![j] = None]
        /\ worker' = [worker EXCEPT ![cancelFuncs[j]].live = FALSE]
    BY <1>3 DEF StopWorker
  <2>2. cancelFuncs[j] \in Workers
    BY <1>1, <1>3
  <2> QED
    BY <1>1, <2>1, <2>2
<1> QED
  BY <1>2, <1>3

(* A request that starts.                                                  *)
LEMMA BeginAssigned ==
  ASSUME Assigned, NEW c \in Clients, NEW op \in Requests, NEW j \in Jobs \cup {NoJob},
         Begin(c, op, j), FirstStep[op] \in NeedsJob => j \in Jobs
  PROVE  Assigned'
<1> DEFINE me == [NoRequest EXCEPT !.pc = FirstStep[op], !.job = j]
<1>1. FirstStep[op] \in RequestPC
  <2>1. op \in DOMAIN FirstStep
    BY RequestsAreKnown
  <2>2. FirstStep[op] \in {FirstStep[o] : o \in DOMAIN FirstStep}
    BY <2>1
  <2> QED
    BY <2>2 DEF RequestPC
<1>2. me \in RequestState /\ me.pc = FirstStep[op] /\ me.job = j
  BY <1>1 DEF NoRequest, RequestState
<1>3. request' = [request EXCEPT ![c] = me]
  BY DEF Begin
<1>4. /\ sent' \in Nat
      /\ UNCHANGED <<table, unused, stored, staging, worker, cancelFuncs, resolver, resolving,
                     phase, recovery, boots>>
  BY DEF Begin, Assigned, TypeOK, disk, pool, checks
<1>5. /\ table' \in Table /\ unused' \subseteq Jobs /\ stored' \subseteq Jobs
      /\ cancelFuncs' \in [Jobs -> Workers \cup {None}]
      /\ resolving' \in [Jobs -> Resolvers \cup {None}]
  BY <1>4 DEF Assigned, TypeOK
<1> HIDE DEF me
<1> QED
  BY <1>2, <1>3, <1>4, <1>5, RequestReplaced

(* Every step of a request keeps the tables in order, and the request      *)
(* keeps its job to its end.                                               *)
LEMMA RequestAssigned ==
  ASSUME Assigned, NEW c \in Clients, BeginOnRow(c) \/ BeginGlobal(c) \/ RequestStep(c)
  PROVE  Assigned'
<1> USE NoJobIsNoJob DEF disk, pool, checks, counters
<1>0. /\ request \in [Clients -> RequestState] /\ request[c] \in RequestState
      /\ request[c].pc \in NeedsJob => request[c].job \in Jobs
      /\ table \in Table /\ stored \subseteq Jobs /\ unused \subseteq Jobs
      /\ resolver \in [Resolvers -> ResolverState]
      /\ cancelFuncs \in [Jobs -> Workers \cup {None}]
      /\ resolving \in [Jobs -> Resolvers \cup {None}]
      /\ sent \in Nat
  BY DEF Assigned, TypeOK, JobsAssigned
<1>1. CASE BeginOnRow(c)
  <2>1. PICK op \in Requests, j \in Jobs : Begin(c, op, j)
    BY <1>1 DEF BeginOnRow
  <2> QED
    BY <2>1, BeginAssigned
<1>2. CASE BeginGlobal(c)
  <2>1. PICK op \in Requests \cap {"add", "cancelall", "cleanup"} : Begin(c, op, NoJob)
    BY <1>2 DEF BeginGlobal
  <2>2. FirstStep[op] \notin NeedsJob
    BY <2>1 DEF FirstStep, NeedsJob
  <2> QED
    BY <2>1, <2>2, BeginAssigned
<1> DEFINE Stay == UNCHANGED <<table, unused, stored, worker, resolver, cancelFuncs, resolving,
                               staging, phase, recovery, sent, boots>>
<1>3. NoRequest \in RequestState /\ NoRequest.pc = "idle" /\ "idle" \notin NeedsJob
  BY DEF NoRequest, RequestState, RequestPC, NeedsJob
<1>4. CASE Prepare(c)
  <2> DEFINE i == Oldest(unused)
             me == [request[c] EXCEPT !.pc = "resolve", !.job = i]
  <2>1. i \in Jobs
    BY <1>0, <1>4, OldestIsLeast DEF Prepare
  <2>2. /\ request' = [request EXCEPT ![c] = me]
        /\ table' = Create(table, i, "checking")
        /\ unused' = unused \ {i}
    BY <1>0, <1>4 DEF Prepare
  <2> HIDE DEF i
  <2>3. me \in RequestState /\ me.pc = "resolve" /\ me.job = i
    BY <1>0, <2>1 DEF RequestState, RequestPC
  <2> HIDE DEF me
  <2>4. table' \in Table /\ unused' \subseteq Jobs
    BY <1>0, <2>1, <2>2, CreateEffect DEF Status, Active
  <2> QED
    BY <1>0, <1>4, <2>1, <2>2, <2>3, <2>4, RequestReplaced DEF Prepare
<1>5. CASE PrepareRefused(c)
  BY <1>0, <1>3, <1>5, RequestReplaced DEF PrepareRefused, Reply
<1>6. CASE Resolve(c)
  <2>1. request[c].job \in Jobs
    BY <1>0, <1>6 DEF Resolve, NeedsJob, RequestPC
  <2>2. PICK r \in Resolvers : StartResolver(r, request[c].job)
    BY <1>6 DEF Resolve
  <2>3. resolving' \in [Jobs -> Resolvers \cup {None}]
    BY <1>0, <2>1, <2>2 DEF StartResolver
  <2> QED
    BY <1>0, <1>3, <1>6, <2>1, <2>2, <2>3, RequestReplaced DEF Resolve, Reply
<1>7. CASE CancelPool(c)
  <2>1. request[c].job \in Jobs
    BY <1>0, <1>7 DEF CancelPool, NeedsJob, RequestPC, FirstStep
  <2>2. StopWorker(request[c].job)
    BY <1>7 DEF CancelPool
  <2>3. CASE Goto(c, "cancelRow")
    <3>1. "cancelRow" \in RequestPC
      BY DEF RequestPC
    <3>2. PICK me \in RequestState : /\ me.pc = "cancelRow" /\ me.job = request[c].job
                                     /\ request' = [request EXCEPT ![c] = me]
      BY <2>3, <3>1, GotoEffect
    <3> QED
      BY <1>0, <1>7, <2>1, <2>2, <3>2, StopWorkerEffect, RequestReplaced DEF CancelPool
  <2>4. CASE Reply(c)
    BY <1>0, <1>3, <1>7, <2>1, <2>2, <2>4, StopWorkerEffect, RequestReplaced
       DEF CancelPool, Reply
  <2> QED
    BY <1>7, <2>3, <2>4 DEF CancelPool
<1>8. CASE CancelRow(c)
  <2>1. Goto(c, "cancelCheck") /\ "cancelCheck" \in RequestPC
    BY <1>8 DEF CancelRow, RequestPC
  <2>2. PICK me \in RequestState : /\ me.pc = "cancelCheck" /\ me.job = request[c].job
                                   /\ request' = [request EXCEPT ![c] = me]
    BY <2>1, GotoEffect
  <2>3. request[c].job \in Jobs /\ table' \in Table
    BY <1>0, <1>8, MoveEffect
       DEF CancelRow, NeedsJob, RequestPC, Cancel, Status, Active, Finished
  <2> QED
    BY <1>0, <1>8, <2>2, <2>3, RequestReplaced DEF CancelRow
<1>9. CASE CancelCheck(c)
  <2> DEFINE j == request[c].job
             r == resolving[j]
  <2>1. j \in Jobs
    BY <1>0, <1>9 DEF CancelCheck, NeedsJob, RequestPC
  <2>2. \/ UNCHANGED checks
        \/ /\ r \in Resolvers
           /\ resolver' = [resolver EXCEPT ![r].live = FALSE]
           /\ resolving' = [resolving EXCEPT ![j] = None]
    BY <1>0, <1>9, <2>1 DEF CancelCheck
  <2>3. resolving' \in [Jobs -> Resolvers \cup {None}]
    BY <1>0, <2>2
  <2> QED
    BY <1>0, <1>3, <1>9, <2>2, <2>3, RequestReplaced DEF CancelCheck, Reply
<1>10. CASE ListRunning(c)
  <2> DEFINE ids == {j \in Jobs : table[j].status = "running"}
             me == [request[c] EXCEPT !.pc = "stopRunning", !.ids = ids]
  <2>1. me \in RequestState /\ me.pc = "stopRunning"
    BY <1>0 DEF RequestState, RequestPC
  <2>2. request' = [request EXCEPT ![c] = me]
    BY <1>0, <1>10 DEF ListRunning
  <2>3. "stopRunning" \notin NeedsJob
    BY DEF NeedsJob
  <2> HIDE DEF me
  <2> QED
    BY <1>0, <1>10, <2>1, <2>2, <2>3, RequestReplaced DEF ListRunning
<1>11. CASE StopRunning(c)
  <2>1. PICK j \in request[c].ids :
               /\ StopWorker(j)
               /\ request' = [request EXCEPT ![c].ids = @ \ {j}]
    BY <1>11 DEF StopRunning
  <2> DEFINE left == request[c].ids \ {j}
             me == [request[c] EXCEPT !.ids = left]
  <2>2. j \in Jobs /\ left \subseteq Jobs
    BY <1>0, <2>1 DEF RequestState
  <2>3. request' = [request EXCEPT ![c] = me]
    BY <1>0, <2>1
  <2> HIDE DEF left
  <2>4. me \in RequestState /\ me.pc = request[c].pc /\ me.job = request[c].job
    BY <1>0, <2>2 DEF RequestState
  <2> HIDE DEF me
  <2> QED
    BY <1>0, <1>11, <2>1, <2>2, <2>3, <2>4, StopWorkerEffect, RequestReplaced
       DEF StopRunning
<1>12. CASE CancelRows(c)
  <2>1. table' \in Table
    BY <1>0, <1>12, MoveEffect DEF CancelRows, CancelAll, Status, Active, Finished
  <2> QED
    BY <1>0, <1>3, <1>12, <2>1, RequestReplaced DEF CancelRows, Reply
<1>13. CASE Retry(c)
  <2>1. request[c].job \in Jobs
    BY <1>0, <1>13 DEF Retry, NeedsJob, RequestPC, FirstStep
  <2>2. table' \in Table
    BY <1>0, <1>13, <2>1 DEF Retry, ResetFailed, Table, Row, Status, Active
  <2> QED
    BY <1>0, <1>3, <1>13, <2>2, RequestReplaced DEF Retry, Reply
<1>14. CASE DropItems(c)
  <2>1. request[c].job \in Jobs
    BY <1>0, <1>14 DEF DropItems, NeedsJob, RequestPC, FirstStep
  <2>2. stored' \subseteq Jobs
    BY <1>0, <1>14 DEF DropItems
  <2>3. CASE Goto(c, "redownloadRow")
    <3>1. "redownloadRow" \in RequestPC
      BY DEF RequestPC
    <3>2. PICK me \in RequestState : /\ me.pc = "redownloadRow" /\ me.job = request[c].job
                                     /\ request' = [request EXCEPT ![c] = me]
      BY <2>3, <3>1, GotoEffect
    <3> QED
      BY <1>0, <1>14, <2>1, <2>2, <3>2, RequestReplaced DEF DropItems
  <2>4. CASE Reply(c)
    BY <1>0, <1>3, <1>14, <2>2, <2>4, RequestReplaced DEF DropItems, Reply
  <2> QED
    BY <1>14, <2>3, <2>4 DEF DropItems
<1>15. CASE RedownloadRow(c)
  <2>1. request[c].job \in Jobs
    BY <1>0, <1>15 DEF RedownloadRow, NeedsJob, RequestPC
  <2>2. Goto(c, "resolve") /\ "resolve" \in RequestPC
    BY <1>15 DEF RedownloadRow, RequestPC
  <2>3. PICK me \in RequestState : /\ me.pc = "resolve" /\ me.job = request[c].job
                                   /\ request' = [request EXCEPT ![c] = me]
    BY <2>2, GotoEffect
  <2>4. table' \in Table
    BY <1>0, <1>15, <2>1, NewRowType DEF RedownloadRow, Redownload, Table, Status, Active
  <2> QED
    BY <1>0, <1>15, <2>1, <2>3, <2>4, RequestReplaced DEF RedownloadRow
<1>16. ASSUME NEW pc, NEW tbl \in Table, RowAction(c, pc, tbl)
       PROVE  Assigned'
  <2>1. table' \in Table /\ stored' \subseteq Jobs
    BY <1>0, <1>16 DEF RowAction
  <2> QED
    BY <1>0, <1>3, <1>16, <2>1, RequestReplaced DEF RowAction, Reply
<1>17. ASSUME NEW j \in Jobs, NEW h \in BOOLEAN
       PROVE  SetHidden(table, j, h) \in Table
  BY <1>0, <1>17 DEF SetHidden, Table, Row
<1>18. CASE HideRow(c) \/ UnhideRow(c)
  <2>1. request[c].job \in Jobs
    BY <1>0, <1>18 DEF HideRow, UnhideRow, RowAction, NeedsJob, RequestPC, FirstStep
  <2> QED
    BY <1>16, <1>17, <1>18, <2>1 DEF HideRow, UnhideRow
<1>19. CASE PurgeRow(c) \/ CleanupRows(c)
  BY <1>0, <1>16, <1>19, DropEffect DEF PurgeRow, CleanupRows, Purge, CleanupDead
<1> QED
  BY <1>1, <1>2, <1>4, <1>5, <1>6, <1>7, <1>8, <1>9, <1>10, <1>11, <1>12, <1>13, <1>14,
     <1>15, <1>18, <1>19 DEF RequestStep

(* The steps of time and of the process.                                   *)
LEMMA ElapseAssigned ==
  ASSUME Assigned, NEW j \in Jobs, Elapse(j)
  PROVE  Assigned'
<1> DEFINE row == [table[j] EXCEPT !.due = TRUE]
<1>1. table \in Table /\ table[j] \in Row
  BY DEF Assigned, TypeOK, Table
<1>2. row \in Row
  BY <1>1 DEF Row
<1>3. table' = [table EXCEPT ![j] = row]
  BY <1>1 DEF Elapse, Table
<1> HIDE DEF row
<1>4. table' \in Table
  BY <1>1, <1>2, <1>3 DEF Table
<1> QED
  BY <1>4 DEF Elapse, Assigned, TypeOK, JobsAssigned, pool, checks, counters

(* Starts, recovery and crashes keep or clear whatever a process holds.    *)
LEMMA ProcessAssigned ==
  ASSUME Assigned, Boot \/ StartPool \/ RecoverChecking \/ ResumeCheck \/ Crash
  PROVE  Assigned'
<1> USE NoJobIsNoJob DEF disk, pool, checks, counters
<1>1. CASE Boot
  BY <1>1 DEF Boot, Assigned, TypeOK, JobsAssigned
<1>2. CASE StartPool
  <2>1. table' \in Table
    BY <1>2, MoveEffect
       DEF StartPool, ResetStale, Assigned, TypeOK, Status, Active, Finished
  <2> QED
    BY <1>2, <2>1 DEF StartPool, Assigned, TypeOK, JobsAssigned
<1>3. CASE RecoverChecking
  BY <1>3 DEF RecoverChecking, Assigned, TypeOK, JobsAssigned
<1>4. CASE ResumeCheck
  <2>1. PICK j \in recovery.left, r \in Resolvers :
          /\ StartResolver(r, j)
          /\ recovery' = [recovery EXCEPT !.left = @ \ {j}]
    BY <1>4 DEF ResumeCheck
  <2>2. /\ recovery \in [todo : BOOLEAN, left : SUBSET Jobs]
        /\ resolver \in [Resolvers -> ResolverState]
        /\ resolving \in [Jobs -> Resolvers \cup {None}]
    BY DEF Assigned, TypeOK
  <2>3. j \in Jobs /\ recovery' \in [todo : BOOLEAN, left : SUBSET Jobs]
    BY <2>1, <2>2
  <2>4. resolving' \in [Jobs -> Resolvers \cup {None}]
    BY <2>1, <2>2, <2>3 DEF StartResolver
  <2> DEFINE it == [pc |-> "probe", job |-> j, live |-> TRUE, entries |-> {}]
  <2>5. it \in ResolverState /\ it.pc = "probe" /\ it.job = j /\ it.entries = {}
    BY <2>3 DEF ResolverState, ResolverPC
  <2>6. resolver' = [resolver EXCEPT ![r] = it]
    BY <2>1 DEF StartResolver
  <2> HIDE DEF it
  <2>7. resolver' \in [Resolvers -> ResolverState]
    BY <2>2, <2>5, <2>6
  <2>8. \A q \in Resolvers :
          /\ resolver'[q].pc = "free" <=> resolver'[q].job = NoJob
          /\ resolver'[q].pc \in {"expand", "create"} <=> resolver'[q].entries # {}
    BY <2>2, <2>3, <2>5, <2>6 DEF Assigned, JobsAssigned
  <2>9. TypeOK'
    BY <1>4, <2>3, <2>4, <2>7 DEF ResumeCheck, Assigned, TypeOK
  <2> QED
    BY <1>4, <2>8, <2>9 DEF ResumeCheck, Assigned, JobsAssigned
<1>5. CASE Crash
  <2>1. Idle \in WorkerState /\ Free \in ResolverState /\ NoRequest \in RequestState
    BY DEF Idle, WorkerState, WorkerPC, Verdict, Free, ResolverState, ResolverPC,
           NoRequest, RequestState, RequestPC
  <2>2. \A r \in Resolvers : resolver[r].entries \subseteq Jobs
    BY DEF Assigned, TypeOK, ResolverState
  <2>3. unused' \subseteq Jobs
    BY <1>5, <2>2 DEF Crash, Assigned, TypeOK
  <2>4. TypeOK'
    BY <1>5, <2>1, <2>3 DEF Crash, Assigned, TypeOK
  <2>5. JobsAssigned'
    BY <1>5 DEF Crash, JobsAssigned, Idle, Free, NoRequest, NeedsJob
  <2> QED
    BY <2>4, <2>5 DEF Assigned
<1> QED
  BY <1>1, <1>2, <1>3, <1>4, <1>5

(* Every step keeps the types and the jobs assigned.                       *)
LEMMA AssignedStep == Assigned /\ [Next]_vars => Assigned'
<1>1. ASSUME Assigned, Next PROVE Assigned'
  BY <1>1, WorkerAssigned, ResolverAssigned, RequestAssigned, ElapseAssigned,
     ProcessAssigned DEF Next
<1>2. ASSUME Assigned, UNCHANGED vars PROVE Assigned'
  BY <1>2 DEF vars, disk, pool, checks, counters, Assigned, TypeOK, JobsAssigned
<1> QED
  BY <1>1, <1>2

(* Every variable keeps its type, and whoever is at work knows for which   *)
(* job: no verdict, expansion or request step acts on a job that is none   *)
(* (process, ResolvePlaceholder and the handlers of Service).              *)
THEOREM AlwaysAssigned == Spec => []Assigned
<1> QED
  BY AssignedInit, AssignedStep, PTL DEF Spec

(* The type invariant of the runs.                                         *)
THEOREM TypeCorrect == Spec => []TypeOK
<1>1. Assigned => TypeOK
  BY DEF Assigned
<1> QED
  BY <1>1, AlwaysAssigned, PTL
=============================================================================
