------------------------- MODULE DownloadQueueProofs -------------------------
(***************************************************************************)
(* Safety of the download queue, for any number of jobs, workers,          *)
(* resolvers and clients and without any of the bounds TLC needs.          *)
(*                                                                         *)
(* The four kinds of process change the shared state in few ways.  First   *)
(* these are stated, one lemma per kind; the theorems then need no more of *)
(* the steps of a kind that does not concern them than its lemma.          *)
(***************************************************************************)
EXTENDS DownloadQueueTypes

(* What a step does to a row, as far as any process can tell.              *)
RowKept(j) == /\ table'[j].status = table[j].status
              /\ table'[j].retries = table[j].retries
              /\ table'[j].hidden => table[j].hidden \/ Present(table, j)
RowStartsOver(j, s) == table'[j].status = s /\ table'[j].retries = 0

(* Nobody's work is changed, though contexts may end.                      *)
WorkersKept == \A w \in Workers : /\ worker'[w].pc = worker[w].pc
                                  /\ worker'[w].job = worker[w].job
                                  /\ worker'[w].retries = worker[w].retries
                                  /\ worker'[w].verdict = worker[w].verdict
                                  /\ worker'[w].got = worker[w].got
                                  /\ worker'[w].dir = worker[w].dir
ResolversKept == \A r \in Resolvers : /\ resolver'[r].pc = resolver[r].pc
                                      /\ resolver'[r].job = resolver[r].job
                                      /\ resolver'[r].entries = resolver[r].entries

(* A request: ends contexts, starts at most one resolver, claims no row.   *)
RequestRow(c, j) ==
    \/ RowKept(j)
    \/ /\ table[j].status \in Active /\ table'[j].status = "cancelled"
       /\ table[j].status = "running" => request[c].pc = "stopRunning"
    \/ table[j].status \in {"failed", "retrying"} /\ RowStartsOver(j, "pending")
    \/ request[c].pc = "redownloadRow" /\ Present(table, j) /\ RowStartsOver(j, "checking")
    \/ j \in unused /\ unused' = unused \ {j} /\ RowStartsOver(j, "checking")
    \/ table'[j] = NoRow /\ j \notin stored'

(* Requests are the users' side of the queue: whatever they do to a row is *)
(* one of six things, and a row they delete takes its items along.         *)
LEMMA RequestTable ==
  ASSUME Assigned, NEW c \in Clients, BeginOnRow(c) \/ BeginGlobal(c) \/ RequestStep(c)
  PROVE  stored' \subseteq stored /\ \A j \in Jobs : RequestRow(c, j)
<1> USE DEF disk
<1>0. /\ table \in Table /\ unused \subseteq Jobs
      /\ request[c].pc \in NeedsJob => request[c].job \in Jobs
      /\ \A j \in Jobs : table[j] \in Row
  BY DEF Assigned, TypeOK, JobsAssigned, Table
<1>1. ASSUME UNCHANGED table, stored' \subseteq stored
      PROVE  stored' \subseteq stored /\ \A j \in Jobs : RequestRow(c, j)
  BY <1>1 DEF RequestRow, RowKept
<1>2. CASE BeginOnRow(c) \/ BeginGlobal(c)
  BY <1>1, <1>2 DEF BeginOnRow, BeginGlobal, Begin
<1>3. CASE Prepare(c)
  <2>1. Oldest(unused) \in unused
    BY <1>0, <1>3, OldestIsLeast DEF Prepare
  <2>2. \A j \in Jobs : table'[j] = IF j = Oldest(unused) THEN NewRow("checking") ELSE table[j]
    BY <1>0, <1>3, <2>1, CreateEffect DEF Prepare, Status, Active
  <2> QED
    BY <1>3, <2>1, <2>2 DEF Prepare, RequestRow, RowKept, RowStartsOver, NewRow
<1>4. CASE PrepareRefused(c) \/ Resolve(c) \/ CancelPool(c) \/ CancelCheck(c)
           \/ ListRunning(c) \/ StopRunning(c) \/ DropItems(c)
  BY <1>1, <1>4 DEF PrepareRefused, Resolve, CancelPool, CancelCheck, ListRunning,
                    StopRunning, DropItems
<1>5. CASE CancelRow(c)
  BY <1>0, <1>5, MoveEffect
     DEF CancelRow, Cancel, Cancellable, Status, Active, Finished, RequestRow, RowKept
<1>6. CASE CancelRows(c)
  BY <1>0, <1>6, MoveEffect
     DEF CancelRows, CancelAll, Status, Active, Finished, RequestRow, RowKept
<1>7. CASE Retry(c)
  <2>1. request[c].job \in Jobs
    BY <1>0, <1>7 DEF Retry, NeedsJob, RequestPC, FirstStep
  <2> QED
    BY <1>0, <1>7, <2>1
       DEF Retry, ResetFailed, CanResetFailed, Table, Row, RequestRow, RowKept, RowStartsOver
<1>8. CASE RedownloadRow(c)
  <2>1. request[c].job \in Jobs
    BY <1>0, <1>8 DEF RedownloadRow, NeedsJob, RequestPC
  <2> QED
    BY <1>0, <1>8, <2>1
       DEF RedownloadRow, Redownload, Table, RequestRow, RowKept, RowStartsOver, NewRow
<1>9. CASE HideRow(c) \/ UnhideRow(c)
  <2>1. request[c].job \in Jobs
    BY <1>0, <1>9 DEF HideRow, UnhideRow, RowAction, NeedsJob, RequestPC, FirstStep
  <2>2. PICK h \in BOOLEAN : table' = SetHidden(table, request[c].job, h)
    BY <1>9 DEF HideRow, UnhideRow, RowAction
  <2>3. stored' \subseteq stored
    BY <1>9 DEF HideRow, UnhideRow, RowAction
  <2> QED
    BY <1>0, <2>1, <2>2, <2>3 DEF SetHidden, Table, Row, RequestRow, RowKept
<1>10. CASE PurgeRow(c) \/ CleanupRows(c)
  <2>1. PICK ids : /\ table' = Drop(table, ids)
                   /\ stored' = {j \in stored : Present(table', j)}
    BY <1>10 DEF PurgeRow, CleanupRows, RowAction, Purge, CleanupDead
  <2>2. \A j \in Jobs : table'[j] = table[j] \/ table'[j] = NoRow
    BY <1>0, <2>1, DropEffect
  <2>3. \A j \in Jobs : table'[j] = NoRow => j \notin stored'
    BY <2>1 DEF Present, NoRow, NewRow
  <2> QED
    BY <2>1, <2>2, <2>3 DEF RequestRow, RowKept
<1> QED
  BY <1>2, <1>3, <1>4, <1>5, <1>6, <1>7, <1>8, <1>9, <1>10 DEF RequestStep

(* CancelJob ends a context; it takes no work from anybody.                *)
LEMMA StopWorkerKeeps ==
  ASSUME Assigned, NEW j \in Jobs, StopWorker(j)
  PROVE  WorkersKept /\ \A k \in Jobs : cancelFuncs'[k] \in {cancelFuncs[k], None}
<1>1. /\ cancelFuncs \in [Jobs -> Workers \cup {None}]
      /\ worker \in [Workers -> WorkerState] /\ \A w \in Workers : worker[w] \in WorkerState
  BY DEF Assigned, TypeOK
<1>2. CASE cancelFuncs[j] = None
  BY <1>1, <1>2 DEF StopWorker, WorkersKept
<1>3. CASE cancelFuncs[j] # None
  <2> DEFINE w == cancelFuncs[j]
             it == [worker[w] EXCEPT !.live = FALSE]
  <2>1. w \in Workers /\ cancelFuncs' = [cancelFuncs EXCEPT ![j] = None]
    BY <1>1, <1>3 DEF StopWorker
  <2>2. worker' = [worker EXCEPT ![w] = it]
    BY <1>1, <1>3, <2>1 DEF StopWorker
  <2>3. /\ it.pc = worker[w].pc /\ it.job = worker[w].job
        /\ it.retries = worker[w].retries /\ it.verdict = worker[w].verdict
        /\ it.got = worker[w].got /\ it.dir = worker[w].dir
    BY <1>1, <2>1 DEF WorkerState
  <2> HIDE DEF it, w
  <2> QED
    BY <1>1, <2>1, <2>2, <2>3 DEF WorkersKept
<1> QED
  BY <1>2, <1>3

(* A request changes nobody's work, except that it may set a free resolver *)
(* to its own job, and it only takes ids from the supply.                  *)
LEMMA RequestWork ==
  ASSUME Assigned, NEW c \in Clients, BeginOnRow(c) \/ BeginGlobal(c) \/ RequestStep(c)
  PROVE  /\ WorkersKept /\ \A j \in Jobs : cancelFuncs'[j] \in {cancelFuncs[j], None}
         /\ \/ ResolversKept /\ \A j \in Jobs : resolving'[j] \in {resolving[j], None}
            \/ /\ request[c].pc = "resolve"
               /\ \E r \in Resolvers : StartResolver(r, request[c].job)
         /\ UNCHANGED <<staging, phase, recovery>> /\ unused' \subseteq unused
<1> USE DEF disk, pool, checks
<1>0. /\ request[c].pc \in NeedsJob => request[c].job \in Jobs
      /\ request[c] \in RequestState
      /\ resolver \in [Resolvers -> ResolverState]
      /\ \A r \in Resolvers : resolver[r] \in ResolverState
      /\ resolving \in [Jobs -> Resolvers \cup {None}]
  BY DEF Assigned, TypeOK, JobsAssigned
<1>1. ASSUME UNCHANGED <<worker, cancelFuncs>> 
      PROVE  WorkersKept /\ \A j \in Jobs : cancelFuncs'[j] \in {cancelFuncs[j], None}
  BY <1>1 DEF WorkersKept
<1>2. ASSUME UNCHANGED <<resolver, resolving>>
      PROVE  ResolversKept /\ \A j \in Jobs : resolving'[j] \in {resolving[j], None}
  BY <1>2 DEF ResolversKept
<1>3. CASE BeginOnRow(c) \/ BeginGlobal(c)
  BY <1>1, <1>2, <1>3 DEF BeginOnRow, BeginGlobal, Begin
<1>4. CASE Prepare(c) \/ PrepareRefused(c) \/ CancelRow(c) \/ ListRunning(c)
           \/ CancelRows(c) \/ Retry(c) \/ DropItems(c) \/ RedownloadRow(c)
  BY <1>1, <1>2, <1>4 DEF Prepare, PrepareRefused, CancelRow, ListRunning, CancelRows, Retry,
                          DropItems, RedownloadRow
<1>5. CASE HideRow(c) \/ UnhideRow(c) \/ PurgeRow(c) \/ CleanupRows(c)
  BY <1>1, <1>2, <1>5 DEF HideRow, UnhideRow, PurgeRow, CleanupRows, RowAction
<1>6. CASE Resolve(c)
  BY <1>1, <1>6 DEF Resolve
<1>7. CASE CancelPool(c)
  <2>1. request[c].job \in Jobs
    BY <1>0, <1>7 DEF CancelPool, NeedsJob, RequestPC, FirstStep
  <2> QED
    BY <1>2, <1>7, <2>1, StopWorkerKeeps DEF CancelPool
<1>8. CASE StopRunning(c)
  <2>1. PICK j \in request[c].ids : StopWorker(j)
    BY <1>8 DEF StopRunning
  <2>2. j \in Jobs
    BY <1>0 DEF RequestState
  <2> QED
    BY <1>2, <1>8, <2>1, <2>2, StopWorkerKeeps DEF StopRunning
<1>9. CASE CancelCheck(c)
  <2> DEFINE j == request[c].job
             r == resolving[j]
             it == [resolver[r] EXCEPT !.live = FALSE]
  <2>1. CASE r = None
    BY <1>1, <1>2, <1>9, <2>1 DEF CancelCheck
  <2>2. CASE r # None
    <3>1. j \in Jobs /\ r \in Resolvers
      BY <1>0, <1>9, <2>2 DEF CancelCheck, NeedsJob, RequestPC
    <3>2. /\ resolver' = [resolver EXCEPT ![r] = it]
          /\ resolving' = [resolving EXCEPT ![j] = None]
      BY <1>0, <1>9, <2>2 DEF CancelCheck
    <3>3. /\ it.pc = resolver[r].pc /\ it.job = resolver[r].job
          /\ it.entries = resolver[r].entries
      BY <1>0, <3>1 DEF ResolverState
    <3> HIDE DEF it, j, r
    <3>4. ResolversKept /\ \A k \in Jobs : resolving'[k] \in {resolving[k], None}
      BY <1>0, <3>1, <3>2, <3>3 DEF ResolversKept
    <3> QED
      BY <1>1, <1>9, <3>4 DEF CancelCheck
  <2> QED
    BY <2>1, <2>2
<1> QED
  BY <1>3, <1>4, <1>5, <1>6, <1>7, <1>8, <1>9 DEF RequestStep

-----------------------------------------------------------------------------
(* The way of a request from its first step to its reply: the steps that   *)
(* follow one another, with the job they are about unless Prepare makes it.*)
Follows == {<<"prepare", "resolve">>, <<"cancelPool", "cancelRow">>,
            <<"cancelRow", "cancelCheck">>, <<"listRunning", "stopRunning">>,
            <<"stopRunning", "stopRunning">>, <<"dropItems", "redownloadRow">>,
            <<"redownloadRow", "resolve">>}

LEMMA RequestPath ==
  ASSUME Assigned, NEW c \in Clients, BeginOnRow(c) \/ BeginGlobal(c) \/ RequestStep(c),
         NEW d \in Clients
  PROVE  \/ request'[d] = request[d]
         \/ request'[d] = NoRequest
         \/ \E op \in Requests : request'[d].pc = FirstStep[op]
         \/ /\ d = c /\ <<request[d].pc, request'[d].pc>> \in Follows
            /\ request[d].pc = "prepare" \/ request'[d].job = request[d].job
<1>0. /\ request \in [Clients -> RequestState] /\ request[c] \in RequestState
  BY DEF Assigned, TypeOK
<1> DEFINE Goal == \/ request'[d] = request[d]
                   \/ request'[d] = NoRequest
                   \/ \E op \in Requests : request'[d].pc = FirstStep[op]
                   \/ /\ d = c /\ <<request[d].pc, request'[d].pc>> \in Follows
                      /\ request[d].pc = "prepare" \/ request'[d].job = request[d].job
<1> SUFFICES Goal
  OBVIOUS
<1>1. ASSUME NEW me, request' = [request EXCEPT ![c] = me],
             \/ me = NoRequest
             \/ \E op \in Requests : me.pc = FirstStep[op]
             \/ /\ <<request[c].pc, me.pc>> \in Follows
                /\ request[c].pc = "prepare" \/ me.job = request[c].job
      PROVE  Goal
  BY <1>0, <1>1
<1> HIDE DEF Goal
<1>2. ASSUME Reply(c) PROVE Goal
  BY <1>1, <1>2 DEF Reply
<1>3. ASSUME NEW pc, Goto(c, pc), <<request[c].pc, pc>> \in Follows
      PROVE  Goal
  <2> DEFINE me == [request[c] EXCEPT !.pc = pc]
  <2>1. me.pc = pc /\ me.job = request[c].job /\ request' = [request EXCEPT ![c] = me]
    BY <1>0, <1>3 DEF Goto, RequestState
  <2> HIDE DEF me
  <2> QED
    BY <1>1, <1>3, <2>1
<1>4. CASE BeginOnRow(c) \/ BeginGlobal(c)
  <2>1. PICK op \in Requests, j \in Jobs \cup {NoJob} : Begin(c, op, j)
    BY <1>4 DEF BeginOnRow, BeginGlobal
  <2> DEFINE me == [NoRequest EXCEPT !.pc = FirstStep[op], !.job = j]
  <2>2. me.pc = FirstStep[op] /\ request' = [request EXCEPT ![c] = me]
    BY <2>1 DEF Begin, NoRequest
  <2> HIDE DEF me
  <2> QED
    BY <1>1, <2>2
<1>5. CASE Prepare(c)
  <2> DEFINE i == Oldest(unused)
             me == [request[c] EXCEPT !.pc = "resolve", !.job = i]
  <2>1. request' = [request EXCEPT ![c] = me] /\ request[c].pc = "prepare"
    BY <1>0, <1>5 DEF Prepare
  <2> HIDE DEF i
  <2>2. me.pc = "resolve"
    BY <1>0 DEF RequestState
  <2> HIDE DEF me
  <2> QED
    BY <1>1, <2>1, <2>2 DEF Follows
<1>6. CASE \/ PrepareRefused(c) \/ Resolve(c) \/ CancelCheck(c) \/ CancelRows(c) \/ Retry(c)
           \/ CancelPool(c) \/ CancelRow(c) \/ DropItems(c) \/ RedownloadRow(c)
  BY <1>2, <1>3, <1>6 DEF PrepareRefused, Resolve, CancelCheck, CancelRows, Retry,
                          CancelPool, CancelRow, DropItems, RedownloadRow, Follows
<1>7. CASE ListRunning(c)
  <2> DEFINE ids == {j \in Jobs : table[j].status = "running"}
             me == [request[c] EXCEPT !.pc = "stopRunning", !.ids = ids]
  <2>1. request' = [request EXCEPT ![c] = me] /\ request[c].pc = "listRunning"
    BY <1>0, <1>7 DEF ListRunning
  <2> HIDE DEF ids
  <2>2. me.pc = "stopRunning" /\ me.job = request[c].job
    BY <1>0 DEF RequestState
  <2> HIDE DEF me
  <2> QED
    BY <1>1, <2>1, <2>2 DEF Follows
<1>8. CASE StopRunning(c)
  <2>1. PICK j : request' = [request EXCEPT ![c].ids = @ \ {j}]
    BY <1>8 DEF StopRunning
  <2> DEFINE left == request[c].ids \ {j}
             me == [request[c] EXCEPT !.ids = left]
  <2>2. request' = [request EXCEPT ![c] = me] /\ request[c].pc = "stopRunning"
    BY <1>0, <1>8, <2>1 DEF StopRunning
  <2> HIDE DEF left
  <2>3. me.pc = request[c].pc /\ me.job = request[c].job
    BY <1>0 DEF RequestState
  <2> HIDE DEF me
  <2> QED
    BY <1>1, <2>2, <2>3 DEF Follows
<1>9. CASE HideRow(c) \/ UnhideRow(c) \/ PurgeRow(c) \/ CleanupRows(c)
  BY <1>2, <1>9 DEF HideRow, UnhideRow, PurgeRow, CleanupRows, RowAction
<1> QED
  BY <1>4, <1>5, <1>6, <1>7, <1>8, <1>9 DEF RequestStep

(* The other requests stay where they are.                                 *)
LEMMA RequestOthers ==
  ASSUME Assigned, NEW c \in Clients, BeginOnRow(c) \/ BeginGlobal(c) \/ RequestStep(c),
         NEW d \in Clients, d # c
  PROVE  request'[d] = request[d]
<1>1. request \in [Clients -> RequestState]
  BY DEF Assigned, TypeOK
<1>2. \A e : request' = [request EXCEPT ![c] = e] => request'[d] = request[d]
  BY <1>1
<1> QED
  BY <1>1, <1>2
     DEF BeginOnRow, BeginGlobal, Begin, RequestStep, Prepare, PrepareRefused, Resolve,
         CancelPool, CancelRow, CancelCheck, ListRunning, StopRunning, CancelRows, Retry,
         DropItems, RedownloadRow, HideRow, UnhideRow, PurgeRow, CleanupRows, RowAction,
         Goto, Reply

-----------------------------------------------------------------------------
(* What a worker does, in four lemmas.  It never touches the others.       *)
LEMMA OthersKept ==
  ASSUME Assigned, NEW w \in Workers, WorkerStep(w)
  PROVE  /\ \A v \in Workers \ {w} : worker'[v] = worker[v]
         /\ UNCHANGED <<unused, resolver, resolving, phase, recovery, request>>
<1> USE DEF disk, checks
<1>1. worker \in [Workers -> WorkerState]
  BY DEF Assigned, TypeOK
<1>2. CASE Claim(w) \/ TakeFile(w) \/ SaveFile(w) \/ WriteVerdict(w) \/ Release(w)
  BY <1>1, <1>2 DEF Claim, TakeFile, SaveFile, WriteVerdict, Release
<1>3. CASE Register(w)
  BY <1>1, <1>3 DEF Register, Conclude
<1>4. CASE EndDownload(w)
  BY <1>1, <1>4 DEF EndDownload, Conclude
<1> QED
  BY <1>2, <1>3, <1>4 DEF WorkerStep

(* ClaimNext takes a row that waits, and only that row.                    *)
LEMMA ClaimEffect ==
  ASSUME Assigned, NEW w \in Workers, Claim(w)
  PROVE  \E j \in Jobs :
           /\ worker[w].pc = "idle"
           /\ table[j].status \in {"pending", "retrying"} /\ table'[j].status = "running"
           /\ table'[j].retries = table[j].retries
           /\ \A k \in Jobs \ {j} : RowKept(k)
           /\ worker'[w].pc = "claimed" /\ worker'[w].job = j
           /\ worker'[w].retries = table[j].retries
           /\ UNCHANGED <<stored, cancelFuncs>>
<1>1. worker \in [Workers -> WorkerState] /\ table \in Table
  BY DEF Assigned, TypeOK
<1> DEFINE j == Oldest(Claimable(table))
<1>2. j \in Jobs /\ j \in Claimable(table)
  BY OldestIsLeast DEF Claim, Claimable
<1>3. /\ table' = ClaimNext(table, j)
      /\ worker' = [worker EXCEPT ![w] = [Idle EXCEPT !.pc = "claimed", !.job = j,
                                                      !.retries = table[j].retries]]
      /\ worker[w].pc = "idle" /\ UNCHANGED <<stored, cancelFuncs>>
  BY DEF Claim
<1> HIDE DEF j
<1>4. table[j].status \in {"pending", "retrying"}
  BY <1>2 DEF Claimable
<1>5. /\ table'[j].status = "running" /\ table'[j].retries = table[j].retries
      /\ \A k \in Jobs \ {j} : RowKept(k)
  BY <1>1, <1>2, <1>3, <1>4, MoveEffect DEF ClaimNext, RowKept, Status, Active
<1>6. /\ worker'[w].pc = "claimed" /\ worker'[w].job = j
      /\ worker'[w].retries = table[j].retries
  BY <1>1, <1>3 DEF Idle
<1> QED
  BY <1>2, <1>3, <1>4, <1>5, <1>6

(* Between its claim and its verdict a worker writes no row and keeps its  *)
(* job; a verdict to try again leaves attempts (handleFailure).            *)
LEMMA WorkingEffect ==
  ASSUME Assigned, NEW w \in Workers,
         Register(w) \/ TakeFile(w) \/ SaveFile(w) \/ EndDownload(w)
  PROVE  /\ worker[w].pc \in {"claimed", "download", "save"}
         /\ worker[w].job \in Jobs /\ worker'[w].job = worker[w].job
         /\ \/ /\ worker'[w].pc \in {"download", "save"}
               /\ worker'[w].retries = worker[w].retries
            \/ /\ worker'[w].pc = "update"
               /\ worker'[w].verdict = "retrying" => worker'[w].retries < MaxAttempts
         /\ \/ /\ worker[w].pc = "claimed"
               /\ cancelFuncs' = [cancelFuncs EXCEPT ![worker[w].job] = w]
            \/ worker[w].pc # "claimed" /\ UNCHANGED cancelFuncs
         /\ UNCHANGED table
<1> USE DEF disk
<1>1. /\ worker \in [Workers -> WorkerState] /\ worker[w] \in WorkerState
      /\ worker[w].retries \in Nat
      /\ worker[w].pc # "idle" => worker[w].job \in Jobs
  BY DEF Assigned, TypeOK, JobsAssigned, WorkerState
<1>2. ASSUME NEW v, NEW dir, Conclude(w, v, dir),
             v \in {"cancelled", "done"} \/ v \in AfterFailure(worker[w].retries)
      PROVE  /\ worker'[w].pc = "update" /\ worker'[w].job = worker[w].job
             /\ worker'[w].verdict = "retrying" => worker'[w].retries < MaxAttempts
  <2>1. /\ worker'[w].pc = "update" /\ worker'[w].job = worker[w].job
        /\ worker'[w].verdict = v
        /\ v = "retrying" => worker'[w].retries = worker[w].retries + 1
    BY <1>1, <1>2 DEF Conclude, Idle
  <2>2. v = "retrying" => worker[w].retries + 1 < MaxAttempts
    BY <1>1, <1>2, BoundsAreNaturals DEF AfterFailure
  <2> QED
    BY <2>1, <2>2
<1>3. CASE Register(w)
  <2>1. CASE worker' = [worker EXCEPT ![w] =
                          [@ EXCEPT !.pc = "download", !.live = TRUE, !.dir = TRUE]]
    BY <1>1, <1>3, <2>1 DEF Register, WorkerState
  <2>2. CASE \E v \in AfterFailure(worker[w].retries) : Conclude(w, v, FALSE)
    BY <1>1, <1>2, <1>3, <2>2 DEF Register
  <2> QED
    BY <1>3, <2>1, <2>2 DEF Register
<1>4. CASE TakeFile(w)
  BY <1>1, <1>4 DEF TakeFile, WorkerState
<1>5. CASE SaveFile(w)
  <2> DEFINE me == [worker[w] EXCEPT !.pc = "download", !.got = TRUE]
             it == [worker[w] EXCEPT !.pc = "download"]
  <2>1. /\ me.pc = "download" /\ me.job = worker[w].job /\ me.retries = worker[w].retries
        /\ it.pc = "download" /\ it.job = worker[w].job /\ it.retries = worker[w].retries
    BY <1>1 DEF WorkerState
  <2>2. worker'[w] = me \/ worker'[w] = it
    BY <1>1, <1>5 DEF SaveFile
  <2>3. worker[w].pc = "save" /\ UNCHANGED <<table, cancelFuncs>>
    BY <1>5 DEF SaveFile
  <2> HIDE DEF me, it
  <2> QED
    BY <1>1, <2>1, <2>2, <2>3
<1>6. CASE EndDownload(w)
  <2>1. PICK v \in Verdicts(worker[w]) : Conclude(w, v, TRUE)
    BY <1>6 DEF EndDownload
  <2>2. v \in {"cancelled", "done"} \/ v \in AfterFailure(worker[w].retries)
    BY DEF Verdicts
  <2> QED
    BY <1>1, <1>2, <1>6, <2>1, <2>2 DEF EndDownload
<1> QED
  BY <1>3, <1>4, <1>5, <1>6

(* The verdict goes to the row of the job, if it is still there.           *)
LEMMA VerdictEffect ==
  ASSUME Assigned, NEW w \in Workers, WriteVerdict(w)
  PROVE  /\ worker[w].pc = "update" /\ worker[w].job \in Jobs
         /\ worker'[w].pc = "release" /\ worker'[w].job = worker[w].job
         /\ \A k \in Jobs \ {worker[w].job} : RowKept(k)
         /\ \/ RowKept(worker[w].job) /\ ~Present(table, worker[w].job)
            \/ /\ Present(table, worker[w].job)
               /\ table'[worker[w].job].status = worker[w].verdict
               /\ table'[worker[w].job].retries = worker[w].retries
               /\ worker[w].verdict \in {"cancelled", "done", "failed", "retrying"}
         /\ UNCHANGED <<stored, cancelFuncs>>
<1>1. /\ worker \in [Workers -> WorkerState] /\ worker[w] \in WorkerState
      /\ worker[w].pc # "idle" => worker[w].job \in Jobs
      /\ worker[w].pc = "update" => worker[w].verdict # "none"
      /\ table \in Table
  BY DEF Assigned, TypeOK, JobsAssigned, WorkerState
<1> DEFINE me == [Idle EXCEPT !.pc = "release", !.job = worker[w].job, !.dir = worker[w].dir]
<1>2. /\ worker[w].pc = "update"
      /\ table' = Update(table, worker[w].job, worker[w].verdict, worker[w].retries)
      /\ worker' = [worker EXCEPT ![w] = me]
      /\ UNCHANGED <<stored, cancelFuncs>>
  BY DEF WriteVerdict
<1>3. me.pc = "release" /\ me.job = worker[w].job
  BY DEF Idle
<1>4. /\ worker[w].verdict \in {"cancelled", "done", "failed", "retrying"}
      /\ worker[w].retries \in Nat /\ worker[w].job \in Jobs
  BY <1>1, <1>2 DEF WorkerState, Verdict
<1>5. worker[w].verdict \in Status /\ worker[w].verdict # "absent"
  BY <1>4 DEF Status, Active, Finished
<1>6. worker'[w].pc = "release" /\ worker'[w].job = worker[w].job
  BY <1>1, <1>2, <1>3
<1> HIDE DEF me
<1>7. \A k \in Jobs \ {worker[w].job} : RowKept(k)
  BY <1>1, <1>2, <1>4, <1>5, UpdateEffect DEF RowKept
<1>8. \/ RowKept(worker[w].job) /\ ~Present(table, worker[w].job)
      \/ /\ Present(table, worker[w].job)
         /\ table'[worker[w].job].status = worker[w].verdict
         /\ table'[worker[w].job].retries = worker[w].retries
  BY <1>1, <1>2, <1>4, <1>5, UpdateEffect DEF RowKept
<1> QED
  BY <1>2, <1>4, <1>6, <1>7, <1>8

(* The deferred calls of process forget the job.                           *)
LEMMA ReleaseEffect ==
  ASSUME Assigned, NEW w \in Workers, Release(w)
  PROVE  /\ worker[w].pc = "release" /\ worker[w].job \in Jobs
         /\ worker'[w] = Idle
         /\ cancelFuncs' = [cancelFuncs EXCEPT ![worker[w].job] = None]
         /\ UNCHANGED <<table, stored>>
BY DEF Release, disk, Assigned, TypeOK, JobsAssigned, WorkerState

-----------------------------------------------------------------------------
(* A resolver confirms, deletes or creates one row at a time, and only the *)
(* row of its job while that is being checked or a row of its entries.     *)
ResolverRow(r, j) ==
    \/ RowKept(j)
    \/ /\ resolver[r].job = j /\ table[j].status = "checking"
       /\ table'[j].status = "pending" /\ table'[j].retries = table[j].retries
    \/ /\ resolver[r].pc = "expand" /\ resolver[r].job = j
       /\ table[j].status = "checking" /\ table'[j] = NoRow /\ j \notin stored'
    \/ /\ resolver[r].pc = "create" /\ j \in resolver[r].entries
       /\ j \notin resolver'[r].entries /\ UNCHANGED unused
       /\ RowStartsOver(j, "pending")

LEMMA ResolverTable ==
  ASSUME Assigned, NEW r \in Resolvers, ResolverStep(r)
  PROVE  stored' \subseteq stored /\ \A j \in Jobs : ResolverRow(r, j)
<1> USE DEF disk
<1>1. /\ table \in Table
      /\ resolver \in [Resolvers -> ResolverState] /\ resolver[r] \in ResolverState
      /\ resolver[r].pc # "free" => resolver[r].job \in Jobs
      /\ resolver[r].pc = "create" => resolver[r].entries # {}
  BY DEF Assigned, TypeOK, JobsAssigned, ResolverState
<1>2. CASE ProbeSingle(r) \/ ProbePlaylist(r) \/ ExpandRefused(r) \/ FinishResolve(r)
  BY <1>2 DEF ProbeSingle, ProbePlaylist, ExpandRefused, FinishResolve, ResolverRow, RowKept
<1>3. CASE Confirm(r)
  BY <1>1, <1>3, MoveEffect
     DEF Confirm, ConfirmSingle, Status, Active, ResolverRow, RowKept
<1>4. CASE Expand(r)
  BY <1>1, <1>4, DropEffect
     DEF Expand, CanDeleteChecking, DeleteChecking, ResolverRow, RowKept
<1>5. CASE CreateEntry(r)
  <2> DEFINE e == Oldest(resolver[r].entries)
             left == resolver[r].entries \ {e}
             pc == IF left = {} THEN "finish" ELSE "create"
             me == [resolver[r] EXCEPT !.entries = left, !.pc = pc]
  <2>1. e \in resolver[r].entries /\ e \in Jobs
    BY <1>1, <1>5, OldestIsLeast DEF CreateEntry, ResolverState
  <2>2. resolver' = [resolver EXCEPT ![r] = [@ EXCEPT !.entries = left, !.pc = pc]]
    BY <1>5, Zenon DEF CreateEntry
  <2>3. \/ table' = Create(table, e, "pending") /\ UNCHANGED unused
        \/ UNCHANGED table
    BY <1>5 DEF CreateEntry
  <2>4. resolver[r].pc = "create"
    BY <1>5 DEF CreateEntry
  <2> HIDE DEF pc, e
  <2>5. me.entries = left
    BY <1>1 DEF ResolverState
  <2>6. resolver'[r] = me
    BY <1>1, <2>2
  <2>7. e \notin resolver'[r].entries
    BY <2>5, <2>6
  <2> HIDE DEF me, left
  <2>8. CASE UNCHANGED table
    BY <1>5, <2>8 DEF CreateEntry, ResolverRow, RowKept
  <2>9. CASE table' = Create(table, e, "pending") /\ UNCHANGED unused
    <3>1. \A j \in Jobs : table'[j] = IF j = e THEN NewRow("pending") ELSE table[j]
      BY <1>1, <2>1, <2>9, CreateEffect DEF Status, Active
    <3> QED
      BY <1>5, <2>1, <2>4, <2>7, <2>9, <3>1 DEF CreateEntry, ResolverRow, RowKept, RowStartsOver, NewRow
  <2> QED
    BY <2>3, <2>8, <2>9
<1> QED
  BY <1>2, <1>3, <1>4, <1>5 DEF ResolverStep

(* A resolver keeps its job until it is done, keeps to itself, and deals   *)
(* with ids of the supply and of its entries only; it creates entries only *)
(* after deleting the placeholder.                                         *)
LEMMA ResolverWork ==
  ASSUME Assigned, NEW r \in Resolvers, ResolverStep(r)
  PROVE  /\ \A q \in Resolvers \ {r} : resolver'[q] = resolver[q]
         /\ UNCHANGED <<worker, cancelFuncs, phase, recovery, request>>
         /\ resolver[r].pc # "free" /\ resolver[r].job \in Jobs
         /\ \/ /\ resolver'[r] = Free
               /\ resolving' = [resolving EXCEPT ![resolver[r].job] = None]
            \/ /\ resolver'[r].job = resolver[r].job /\ UNCHANGED resolving
         /\ resolver'[r].entries \cup unused' \subseteq resolver[r].entries \cup unused
         /\ resolver[r].entries \cap unused = {} => resolver'[r].entries \cap unused' = {}
         /\ resolver'[r].pc = "create" =>
              \/ resolver[r].pc = "create"
              \/ table[resolver[r].job].status = "checking" /\ table'[resolver[r].job] = NoRow
<1> USE DEF disk, pool
<1>1. /\ table \in Table
      /\ resolver \in [Resolvers -> ResolverState] /\ resolver[r] \in ResolverState
      /\ resolver[r].pc # "free" => resolver[r].job \in Jobs
      /\ resolver[r].pc = "create" => resolver[r].entries # {}
  BY DEF Assigned, TypeOK, JobsAssigned, ResolverState
<1>2. CASE ProbeSingle(r)
  BY <1>1, <1>2 DEF ProbeSingle, ResolverState
<1>3. CASE ProbePlaylist(r)
  <2>1. PICK ids \in SUBSET unused :
               /\ unused' = unused \ ids
               /\ resolver' = [resolver EXCEPT ![r] =
                                 [@ EXCEPT !.pc = "expand", !.entries = ids]]
    BY <1>3 DEF ProbePlaylist
  <2> QED
    BY <1>1, <1>3, <2>1 DEF ProbePlaylist, ResolverState
<1>4. CASE Confirm(r)
  BY <1>1, <1>4 DEF Confirm, ResolverState
<1>5. CASE Expand(r)
  <2>1. table'[resolver[r].job] = NoRow
    <3>1. resolver[r].job \in Jobs /\ table' = Drop(table, {resolver[r].job})
      BY <1>1, <1>5 DEF Expand, DeleteChecking
    <3> QED
      BY <3>1 DEF Drop
  <2> QED
    BY <1>1, <1>5, <2>1 DEF Expand, CanDeleteChecking, ResolverState
<1>6. CASE ExpandRefused(r)
  BY <1>1, <1>6 DEF ExpandRefused, ResolverState
<1>7. CASE CreateEntry(r)
  <2> DEFINE e == Oldest(resolver[r].entries)
             left == resolver[r].entries \ {e}
             pc == IF left = {} THEN "finish" ELSE "create"
             me == [resolver[r] EXCEPT !.entries = left, !.pc = pc]
  <2>1. e \in resolver[r].entries
    BY <1>1, <1>7, OldestIsLeast DEF CreateEntry, ResolverState
  <2>2. resolver' = [resolver EXCEPT ![r] = [@ EXCEPT !.entries = left, !.pc = pc]]
    BY <1>7, Zenon DEF CreateEntry
  <2>3. UNCHANGED unused \/ unused' = unused \cup {e}
    BY <1>7 DEF CreateEntry
  <2> HIDE DEF pc, e
  <2>4. me.entries = left /\ me.job = resolver[r].job
    BY <1>1 DEF ResolverState
  <2>5. resolver'[r] = me
    BY <1>1, <2>2
  <2> HIDE DEF me
  <2> QED
    BY <1>1, <1>7, <2>1, <2>2, <2>3, <2>4, <2>5 DEF CreateEntry
<1>8. CASE FinishResolve(r)
  BY <1>1, <1>8 DEF FinishResolve, Free
<1> QED
  BY <1>2, <1>3, <1>4, <1>5, <1>6, <1>7, <1>8 DEF ResolverStep

-----------------------------------------------------------------------------
(* RunningIsOwned: only a claim sets a row to running, and it makes an     *)
(* owner; only the owner's verdict leaves the owner without work, and it   *)
(* takes the row out of running if nothing else did.                       *)
LEMMA RunningStep ==
  ASSUME Assigned, RunningIsOwned, Next
  PROVE  RunningIsOwned'
<1> USE DEF RowKept, RowStartsOver, Present
<1> SUFFICES ASSUME NEW j \in Jobs, phase' = "on", table'[j].status = "running"
             PROVE  \E w \in Workers : Busy(w, j)'
  BY DEF RunningIsOwned
<1>0. phase = "on" /\ table[j].status = "running" => \E w \in Workers : Busy(w, j)
  BY DEF RunningIsOwned
<1>1. ASSUME NEW w \in Workers, WorkerStep(w)
      PROVE  \E v \in Workers : Busy(v, j)'
  <2>0. phase = "on" /\ \A v \in Workers \ {w} : Busy(v, j) => Busy(v, j)'
    BY <1>1, OthersKept DEF Busy
  <2>1. CASE Claim(w)
    <3>1. table[j].status = "running" \/ Busy(w, j)'
      BY <2>1, ClaimEffect DEF Busy
    <3>2. ~Busy(w, j)
      BY <2>1, ClaimEffect DEF Busy
    <3> QED
      BY <1>0, <2>0, <3>1, <3>2
  <2>2. CASE Register(w) \/ TakeFile(w) \/ SaveFile(w) \/ EndDownload(w)
    <3>1. table[j].status = "running" /\ (Busy(w, j) => Busy(w, j)')
      BY <2>2, WorkingEffect DEF Busy
    <3> QED
      BY <1>0, <2>0, <3>1
  <2>3. CASE WriteVerdict(w)
    <3>1. j # worker[w].job /\ table[j].status = "running"
      BY <2>3, VerdictEffect
    <3> QED
      BY <1>0, <2>0, <3>1 DEF Busy
  <2>4. CASE Release(w)
    <3>1. table[j].status = "running" /\ ~Busy(w, j)
      BY <2>4, ReleaseEffect DEF Busy
    <3> QED
      BY <1>0, <2>0, <3>1
  <2> QED
    BY <1>1, <2>1, <2>2, <2>3, <2>4 DEF WorkerStep
<1>2. ASSUME NEW r \in Resolvers, ResolverStep(r)
      PROVE  \E v \in Workers : Busy(v, j)'
  <2>1. table[j].status = "running"
    BY <1>2, ResolverTable DEF ResolverRow, NoRow, NewRow
  <2>2. UNCHANGED <<worker, phase>>
    BY <1>2, ResolverWork
  <2> QED
    BY <1>0, <2>1, <2>2 DEF Busy
<1>3. ASSUME NEW c \in Clients, BeginOnRow(c) \/ BeginGlobal(c) \/ RequestStep(c)
      PROVE  \E v \in Workers : Busy(v, j)'
  <2>1. table[j].status = "running"
    BY <1>3, RequestTable DEF RequestRow, NoRow, NewRow
  <2>2. WorkersKept /\ UNCHANGED phase
    BY <1>3, RequestWork
  <2> QED
    BY <1>0, <2>1, <2>2 DEF Busy, WorkersKept
<1>4. ASSUME NEW k \in Jobs, Elapse(k)
      PROVE  \E v \in Workers : Busy(v, j)'
  <2>1. table[j].status = "running" /\ UNCHANGED <<worker, phase>>
    BY <1>4 DEF Elapse, Assigned, TypeOK, Table, Row, pool
  <2> QED
    BY <1>0, <2>1 DEF Busy
<1>5. CASE StartPool
  <2>1. table'[j].status # "running"
    BY <1>5, MoveEffect
       DEF StartPool, ResetStale, Assigned, TypeOK, Status, Active
  <2> QED
    BY <2>1
<1>6. CASE Boot \/ Crash
  BY <1>6 DEF Boot, Crash
<1>7. CASE RecoverChecking \/ ResumeCheck
  BY <1>0, <1>7 DEF RecoverChecking, ResumeCheck, Busy, disk, pool
<1> QED
  BY <1>1, <1>2, <1>3, <1>4, <1>5, <1>6, <1>7 DEF Next

(* Once the pool runs, a row says "running" only while a worker is bound   *)
(* to change that (ClaimNext, the unconditional Update of process, and     *)
(* ResetStale after a crash): no job hangs in a status nobody will leave.  *)
THEOREM RunningAlwaysOwned == Spec => []RunningIsOwned
<1>1. Init => RunningIsOwned
  BY DEF Init, RunningIsOwned
<1>2. Assigned /\ RunningIsOwned /\ [Next]_vars => RunningIsOwned'
  <2>1. ASSUME RunningIsOwned, UNCHANGED vars PROVE RunningIsOwned'
    BY <2>1 DEF RunningIsOwned, Busy, vars, disk, pool
  <2> QED
    BY <2>1, RunningStep
<1> QED
  BY <1>1, <1>2, AlwaysAssigned, PTL DEF Spec

-----------------------------------------------------------------------------
(* CancelHitsItsJob: an entry appears only for the job its process is at   *)
(* work on, and whoever lets go of a job removes the job's entry.          *)
LEMMA CancelStep ==
  ASSUME Assigned, CancelHitsItsJob, Next
  PROVE  CancelHitsItsJob'
<1> USE NoJobIsNoJob, NoneIsNoProcess
<1>0. /\ cancelFuncs \in [Jobs -> Workers \cup {None}]
      /\ resolving \in [Jobs -> Resolvers \cup {None}]
      /\ resolver \in [Resolvers -> ResolverState]
      /\ \A w \in Workers : worker[w].pc = "idle" <=> worker[w].job = NoJob
      /\ \A r \in Resolvers : resolver[r].pc = "free" <=> resolver[r].job = NoJob
  BY DEF Assigned, TypeOK, JobsAssigned
<1> DEFINE WorkersHit == \A j \in Jobs : cancelFuncs[j] # None =>
                           /\ worker[cancelFuncs[j]].job = j
                           /\ worker[cancelFuncs[j]].pc # "claimed"
           ResolversHit == \A j \in Jobs : resolving[j] # None =>
                             /\ resolver[resolving[j]].job = j
                             /\ resolver[resolving[j]].pc # "free"
<1>1. WorkersHit /\ ResolversHit
  BY DEF CancelHitsItsJob
<1>2. ASSUME WorkersHit', ResolversHit'
      PROVE  CancelHitsItsJob'
  BY <1>2 DEF CancelHitsItsJob
<1>3. ASSUME UNCHANGED <<worker, cancelFuncs>> PROVE WorkersHit'
  BY <1>1, <1>3
<1>4. ASSUME UNCHANGED <<resolver, resolving>> PROVE ResolversHit'
  BY <1>1, <1>4
<1>5. ASSUME NEW r \in Resolvers, NEW j \in Jobs, StartResolver(r, j)
      PROVE  ResolversHit'
  <2> DEFINE it == [pc |-> "probe", job |-> j, live |-> TRUE, entries |-> {}]
  <2>1. /\ resolver' = [resolver EXCEPT ![r] = it]
        /\ resolving' = [resolving EXCEPT ![j] = r] /\ resolver[r].pc = "free"
    BY <1>5 DEF StartResolver
  <2>2. it.pc = "probe" /\ it.job = j
    OBVIOUS
  <2> HIDE DEF it
  <2> SUFFICES ASSUME NEW k \in Jobs, resolving'[k] # None
               PROVE  resolver'[resolving'[k]].job = k /\ resolver'[resolving'[k]].pc # "free"
    OBVIOUS
  <2>3. CASE k = j
    BY <1>0, <2>1, <2>2, <2>3
  <2>4. CASE k # j
    <3>1. resolving'[k] = resolving[k] /\ resolving[k] \in Resolvers
      BY <1>0, <2>1, <2>4
    <3>2. resolving[k] # r
      BY <1>1, <2>1, <3>1
    <3> QED
      BY <1>0, <1>1, <2>1, <3>1, <3>2
  <2> QED
    BY <2>3, <2>4
<1>6. ASSUME NEW w \in Workers, WorkerStep(w)
      PROVE  CancelHitsItsJob'
  <2>1. ResolversHit' /\ \A v \in Workers \ {w} : worker'[v] = worker[v]
    BY <1>4, <1>6, OthersKept
  <2>2. CASE Claim(w)
    <3>1. worker[w].job = NoJob /\ UNCHANGED cancelFuncs
      BY <1>0, <2>2, ClaimEffect
    <3>2. \A j \in Jobs : cancelFuncs[j] # w
      BY <1>1, <3>1
    <3> QED
      BY <1>0, <1>1, <1>2, <2>1, <3>1, <3>2
  <2>3. CASE Register(w) \/ TakeFile(w) \/ SaveFile(w) \/ EndDownload(w)
    <3>1. /\ worker'[w].pc # "claimed" /\ worker'[w].job = worker[w].job
          /\ worker[w].job \in Jobs
          /\ cancelFuncs' = [cancelFuncs EXCEPT ![worker[w].job] = w] \/ UNCHANGED cancelFuncs
      BY <2>3, WorkingEffect
    <3> SUFFICES ASSUME NEW j \in Jobs, cancelFuncs'[j] # None
                 PROVE  /\ worker'[cancelFuncs'[j]].job = j
                        /\ worker'[cancelFuncs'[j]].pc # "claimed"
      BY <1>2, <2>1
    <3>2. \/ j = worker[w].job /\ cancelFuncs'[j] = w
          \/ cancelFuncs'[j] = cancelFuncs[j] /\ cancelFuncs[j] \in Workers
      BY <1>0, <3>1
    <3> QED
      BY <1>1, <2>1, <3>1, <3>2
  <2>4. CASE WriteVerdict(w)
    BY <1>0, <1>1, <1>2, <2>1, <2>4, VerdictEffect
  <2>5. CASE Release(w)
    <3>1. /\ cancelFuncs' = [cancelFuncs EXCEPT ![worker[w].job] = None]
          /\ worker[w].job \in Jobs
      BY <2>5, ReleaseEffect
    <3> SUFFICES ASSUME NEW j \in Jobs, cancelFuncs'[j] # None
                 PROVE  /\ worker'[cancelFuncs'[j]].job = j
                        /\ worker'[cancelFuncs'[j]].pc # "claimed"
      BY <1>2, <2>1
    <3>2. j # worker[w].job /\ cancelFuncs'[j] = cancelFuncs[j] /\ cancelFuncs[j] \in Workers
      BY <1>0, <3>1
    <3>3. cancelFuncs[j] # w
      BY <1>1, <3>2
    <3> QED
      BY <1>1, <2>1, <3>2, <3>3
  <2> QED
    BY <1>6, <2>2, <2>3, <2>4, <2>5 DEF WorkerStep
<1>7. ASSUME NEW r \in Resolvers, ResolverStep(r)
      PROVE  CancelHitsItsJob'
  <2>1. WorkersHit'
    BY <1>3, <1>7, ResolverWork
  <2>2. /\ \A q \in Resolvers \ {r} : resolver'[q] = resolver[q]
        /\ resolver[r].pc # "free" /\ resolver[r].job \in Jobs
    BY <1>7, ResolverWork
  <2>3. CASE resolving' = [resolving EXCEPT ![resolver[r].job] = None]
    <3> SUFFICES ASSUME NEW j \in Jobs, resolving'[j] # None
                 PROVE  /\ resolver'[resolving'[j]].job = j
                        /\ resolver'[resolving'[j]].pc # "free"
      BY <1>2, <2>1
    <3>1. j # resolver[r].job /\ resolving'[j] = resolving[j] /\ resolving[j] \in Resolvers
      BY <1>0, <2>2, <2>3
    <3>2. resolving[j] # r
      BY <1>1, <3>1
    <3> QED
      BY <1>1, <2>2, <3>1, <3>2
  <2>4. CASE resolver'[r].job = resolver[r].job /\ UNCHANGED resolving
    <3>1. resolver'[r].pc # "free"
      <4>1. Assigned'
        BY <1>7, ResolverAssigned
      <4>2. resolver'[r].job # NoJob
        BY <2>2, <2>4
      <4> QED
        BY <4>1, <4>2 DEF Assigned, JobsAssigned
    <3> QED
      BY <1>0, <1>1, <1>2, <2>1, <2>2, <2>4, <3>1
  <2> QED
    BY <1>7, <2>3, <2>4, ResolverWork
<1>8. ASSUME NEW c \in Clients, BeginOnRow(c) \/ BeginGlobal(c) \/ RequestStep(c)
      PROVE  CancelHitsItsJob'
  <2>1. WorkersKept /\ \A j \in Jobs : cancelFuncs'[j] \in {cancelFuncs[j], None}
    BY <1>8, RequestWork
  <2>2. WorkersHit'
    BY <1>0, <1>1, <2>1 DEF WorkersKept
  <2>3. CASE ResolversKept /\ \A j \in Jobs : resolving'[j] \in {resolving[j], None}
    BY <1>0, <1>1, <1>2, <2>2, <2>3 DEF ResolversKept
  <2>4. CASE /\ request[c].pc = "resolve"
             /\ \E r \in Resolvers : StartResolver(r, request[c].job)
    <3>1. request[c].job \in Jobs
      BY <2>4 DEF Assigned, JobsAssigned, NeedsJob, RequestPC
    <3> QED
      BY <1>2, <1>5, <2>2, <2>4, <3>1
  <2> QED
    BY <1>8, <2>3, <2>4, RequestWork
<1>9. CASE ResumeCheck
  <2>1. PICK j \in recovery.left, r \in Resolvers : StartResolver(r, j)
    BY <1>9 DEF ResumeCheck
  <2>2. j \in Jobs
    BY DEF Assigned, TypeOK
  <2>3. WorkersHit'
    BY <1>3, <1>9 DEF ResumeCheck, pool
  <2> QED
    BY <1>2, <1>5, <2>1, <2>2, <2>3
<1>10. CASE Crash
  BY <1>10 DEF Crash, CancelHitsItsJob
<1>11. ASSUME UNCHANGED <<worker, cancelFuncs, resolver, resolving>>
       PROVE  CancelHitsItsJob'
  BY <1>2, <1>3, <1>4, <1>11
<1>12. CASE Boot \/ StartPool \/ RecoverChecking \/ \E j \in Jobs : Elapse(j)
  BY <1>11, <1>12 DEF Boot, StartPool, RecoverChecking, Elapse, pool, checks
<1> QED
  BY <1>6, <1>7, <1>8, <1>9, <1>10, <1>12 DEF Next

(* The entry a cancellation finds in either registry belongs to a process  *)
(* that works on that very job (the registries cancelFuncs of Pool and     *)
(* resolving of Service, whose entries are removed by job id).             *)
THEOREM CancelAlwaysHitsItsJob == Spec => []CancelHitsItsJob
<1>1. Init => CancelHitsItsJob
  BY DEF Init, CancelHitsItsJob
<1>2. Assigned /\ CancelHitsItsJob /\ [Next]_vars => CancelHitsItsJob'
  <2>1. ASSUME CancelHitsItsJob, UNCHANGED vars PROVE CancelHitsItsJob'
    BY <2>1 DEF CancelHitsItsJob, vars, pool, checks
  <2> QED
    BY <2>1, CancelStep
<1> QED
  BY <1>1, <1>2, AlwaysAssigned, PTL DEF Spec

-----------------------------------------------------------------------------
(* Ids.  A fresh one has no row yet: it is in the supply or waits to become *)
(* an entry of a playlist.                                                 *)
Fresh(j) == j \in unused \/ \E r \in Resolvers : j \in resolver[r].entries

(* A worker does not bring a row into being, and hides none.               *)
LEMMA WorkerMakesNoRow ==
  ASSUME Assigned, NEW w \in Workers, WorkerStep(w), NEW j \in Jobs
  PROVE  /\ ~Present(table, j) => ~Present(table, j)'
         /\ table'[j].hidden => table[j].hidden \/ Present(table, j)'
<1> USE DEF Present, RowKept
<1>1. CASE Claim(w)
  BY <1>1, ClaimEffect
<1>2. CASE Register(w) \/ TakeFile(w) \/ SaveFile(w) \/ EndDownload(w)
  BY <1>2, WorkingEffect
<1>3. CASE WriteVerdict(w)
  BY <1>3, VerdictEffect
<1>4. CASE Release(w)
  BY <1>4, ReleaseEffect
<1> QED
  BY <1>1, <1>2, <1>3, <1>4 DEF WorkerStep

(* No step makes an id fresh again, and only a fresh id can gain a row.    *)
LEMMA FreshStep ==
  ASSUME Assigned, Next, NEW j \in Jobs
  PROVE  /\ Fresh(j)' => Fresh(j)
         /\ ~Present(table, j) /\ Present(table, j)' => Fresh(j)
<1> USE DEF Present
<1>0. /\ resolver \in [Resolvers -> ResolverState]
      /\ \A r \in Resolvers : resolver[r].entries \subseteq Jobs
      /\ table \in Table
  BY DEF Assigned, TypeOK, ResolverState
<1>1. ASSUME NEW w \in Workers, WorkerStep(w)
      PROVE  /\ Fresh(j)' => Fresh(j)
             /\ ~Present(table, j) /\ Present(table, j)' => Fresh(j)
  BY <1>1, OthersKept, WorkerMakesNoRow DEF Fresh
<1>2. ASSUME NEW r \in Resolvers, ResolverStep(r)
      PROVE  /\ Fresh(j)' => Fresh(j)
             /\ ~Present(table, j) /\ Present(table, j)' => Fresh(j)
  <2>1. Fresh(j)' => Fresh(j)
    BY <1>2, ResolverWork DEF Fresh
  <2>2. ~Present(table, j) /\ Present(table, j)' => Fresh(j)
    BY <1>2, ResolverTable DEF ResolverRow, RowKept, Fresh, NoRow, NewRow
  <2> QED
    BY <2>1, <2>2
<1>3. ASSUME NEW r \in Resolvers, NEW k, StartResolver(r, k), UNCHANGED unused
      PROVE  Fresh(j)' => Fresh(j)
  BY <1>0, <1>3 DEF StartResolver, Fresh
<1>4. ASSUME NEW c \in Clients, BeginOnRow(c) \/ BeginGlobal(c) \/ RequestStep(c)
      PROVE  /\ Fresh(j)' => Fresh(j)
             /\ ~Present(table, j) /\ Present(table, j)' => Fresh(j)
  <2>1. Fresh(j)' => Fresh(j)
    <3>1. unused' \subseteq unused
      BY <1>4, RequestWork
    <3>2. CASE ResolversKept
      BY <3>1, <3>2 DEF ResolversKept, Fresh
    <3>3. CASE \E r \in Resolvers : StartResolver(r, request[c].job)
      BY <1>0, <3>1, <3>3 DEF StartResolver, Fresh
    <3> QED
      BY <1>4, <3>2, <3>3, RequestWork
  <2>2. ~Present(table, j) /\ Present(table, j)' => Fresh(j)
    BY <1>4, RequestTable DEF RequestRow, RowKept, Fresh, NoRow, NewRow, Active
  <2> QED
    BY <2>1, <2>2
<1>5. ASSUME NEW k \in Jobs, Elapse(k)
      PROVE  /\ Fresh(j)' => Fresh(j)
             /\ ~Present(table, j) /\ Present(table, j)' => Fresh(j)
  BY <1>0, <1>5 DEF Elapse, Table, Row, Fresh, checks
<1>6. CASE StartPool
  BY <1>0, <1>6, MoveEffect DEF StartPool, ResetStale, Fresh, checks, Status, Active
<1>7. CASE Boot \/ RecoverChecking
  BY <1>7 DEF Boot, RecoverChecking, Fresh, disk, checks
<1>8. CASE ResumeCheck
  BY <1>3, <1>8 DEF ResumeCheck, disk
<1>9. CASE Crash
  BY <1>9 DEF Crash, Fresh, Free
<1> QED
  BY <1>1, <1>2, <1>4, <1>5, <1>6, <1>7, <1>8, <1>9 DEF Next

-----------------------------------------------------------------------------
(* Items belong to jobs that exist, although a worker may go on saving     *)
(* files of a job that a purge, a cleanup or an expansion has deleted (the *)
(* foreign key of items.job_id and its cascade).                           *)
THEOREM ItemsAlwaysHaveJob == Spec => []ItemsHaveJob
<1>1. Init => ItemsHaveJob
  BY DEF Init, ItemsHaveJob
<1>2. ASSUME Assigned, ItemsHaveJob, Next
      PROVE  ItemsHaveJob'
  <2> USE DEF Present, RowKept, RowStartsOver
  <2>0. stored \subseteq Jobs /\ table \in Table /\ \A j \in stored : Present(table, j)
    BY <1>2 DEF ItemsHaveJob, Assigned, TypeOK
  <2>1. ASSUME NEW w \in Workers, WorkerStep(w)
        PROVE  ItemsHaveJob'
    <3>1. CASE Claim(w)
      BY <1>2, <2>0, <3>1, ClaimEffect DEF ItemsHaveJob
    <3>2. CASE SaveFile(w)
      BY <1>2, <2>0, <3>2 DEF SaveFile, Recorded, ItemsHaveJob
    <3>3. CASE Register(w) \/ TakeFile(w) \/ EndDownload(w)
      BY <1>2, <2>0, <3>3 DEF Register, TakeFile, EndDownload, disk, ItemsHaveJob
    <3>4. CASE WriteVerdict(w)
      BY <1>2, <2>0, <3>4, VerdictEffect DEF ItemsHaveJob
    <3>5. CASE Release(w)
      BY <1>2, <2>0, <3>5, ReleaseEffect DEF ItemsHaveJob
    <3> QED
      BY <2>1, <3>1, <3>2, <3>3, <3>4, <3>5 DEF WorkerStep
  <2>2. ASSUME NEW r \in Resolvers, ResolverStep(r)
        PROVE  ItemsHaveJob'
    BY <1>2, <2>0, <2>2, ResolverTable DEF ItemsHaveJob, ResolverRow
  <2>3. ASSUME NEW c \in Clients, BeginOnRow(c) \/ BeginGlobal(c) \/ RequestStep(c)
        PROVE  ItemsHaveJob'
    BY <1>2, <2>0, <2>3, RequestTable DEF ItemsHaveJob, RequestRow
  <2>4. ASSUME NEW k \in Jobs, Elapse(k)
        PROVE  ItemsHaveJob'
    BY <2>0, <2>4 DEF Elapse, Table, Row, ItemsHaveJob
  <2>5. CASE StartPool
    BY <2>0, <2>5, MoveEffect DEF StartPool, ResetStale, ItemsHaveJob, Status, Active
  <2>6. CASE Boot \/ RecoverChecking \/ ResumeCheck \/ Crash
    BY <1>2, <2>6 DEF Boot, RecoverChecking, ResumeCheck, Crash, disk, ItemsHaveJob
  <2> QED
    BY <1>2, <2>1, <2>2, <2>3, <2>4, <2>5, <2>6 DEF Next
<1>3. ItemsHaveJob /\ UNCHANGED vars => ItemsHaveJob'
  BY DEF ItemsHaveJob, vars, disk
<1> QED
  BY <1>1, <1>2, <1>3, AlwaysAssigned, PTL DEF Spec

(* A deleted job is not brought back by whoever still works on it (the     *)
(* last Update of its worker, Redownload and Retry from a stale page), and *)
(* no file is recorded for it any more.                                    *)
THEOREM DeletedJobsStayDeleted == Spec => DeletedStaysDeleted
<1>1. Assigned /\ ItemsHaveJob' /\ [Next]_vars =>
        [\A j \in Jobs : Deleted(j) => Deleted(j)' /\ j \notin stored']_vars
  <2> SUFFICES ASSUME Assigned, ItemsHaveJob', Next, NEW j \in Jobs, Deleted(j)
               PROVE  Deleted(j)' /\ j \notin stored'
    OBVIOUS
  <2>1. ~Fresh(j) /\ ~Present(table, j)
    BY DEF Deleted, Fresh
  <2>2. ~Fresh(j)' /\ ~Present(table, j)'
    BY <2>1, FreshStep
  <2>3. Deleted(j)'
    BY <2>2 DEF Deleted, Fresh
  <2>4. j \notin stored'
    BY <2>2 DEF ItemsHaveJob, Present
  <2> QED
    BY <2>3, <2>4
<1> QED
  BY <1>1, AlwaysAssigned, ItemsAlwaysHaveJob, PTL DEF Spec, DeletedStaysDeleted

-----------------------------------------------------------------------------
(* RetriesStayInWindow: the count a worker carries from the row it claimed *)
(* is as good as the row's, until it writes it back with a verdict.        *)
RetriesInHand ==
    \A w \in Workers :
        /\ worker[w].pc \in {"claimed", "download", "save"} => worker[w].retries < MaxAttempts
        /\ worker[w].pc = "update" /\ worker[w].verdict = "retrying"
             => worker[w].retries < MaxAttempts

LEMMA RetriesStep ==
  ASSUME Assigned, RetriesStayInWindow, RetriesInHand, Next
  PROVE  (RetriesStayInWindow /\ RetriesInHand)'
<1> USE DEF RowKept, RowStartsOver, Active
<1>0. /\ 0 < MaxAttempts /\ table \in Table
      /\ \A j \in Jobs : table[j].status \in Active => table[j].retries < MaxAttempts
      /\ worker \in [Workers -> WorkerState]
  BY BoundsAreNaturals DEF RetriesStayInWindow, Assigned, TypeOK
<1>1. ASSUME NEW w \in Workers, WorkerStep(w)
      PROVE  (RetriesStayInWindow /\ RetriesInHand)'
  <2>1. \A v \in Workers \ {w} : worker'[v] = worker[v]
    BY <1>1, OthersKept
  <2>2. CASE Claim(w)
    BY <1>0, <2>1, <2>2, ClaimEffect DEF RetriesStayInWindow, RetriesInHand
  <2>3. CASE Register(w) \/ TakeFile(w) \/ SaveFile(w) \/ EndDownload(w)
    <3>1. /\ worker[w].pc \in {"claimed", "download", "save"} /\ UNCHANGED table
          /\ \/ worker'[w].pc \in {"download", "save"} /\ worker'[w].retries = worker[w].retries
             \/ /\ worker'[w].pc = "update"
                /\ worker'[w].verdict = "retrying" => worker'[w].retries < MaxAttempts
      BY <2>3, WorkingEffect
    <3>2. worker[w].retries < MaxAttempts
      BY <3>1 DEF RetriesInHand
    <3>3. RetriesInHand'
      BY <2>1, <3>1, <3>2 DEF RetriesInHand
    <3>4. RetriesStayInWindow'
      BY <1>0, <3>1 DEF RetriesStayInWindow
    <3> QED
      BY <3>3, <3>4
  <2>4. CASE WriteVerdict(w)
    <3>1. RetriesInHand'
      BY <2>1, <2>4, VerdictEffect DEF RetriesInHand
    <3>2. RetriesStayInWindow'
      BY <1>0, <2>4, VerdictEffect DEF RetriesStayInWindow, RetriesInHand
    <3> QED
      BY <3>1, <3>2
  <2>5. CASE Release(w)
    BY <1>0, <2>1, <2>5, ReleaseEffect DEF RetriesStayInWindow, RetriesInHand, Idle
  <2> QED
    BY <1>1, <2>2, <2>3, <2>4, <2>5 DEF WorkerStep
<1>2. ASSUME NEW r \in Resolvers, ResolverStep(r)
      PROVE  (RetriesStayInWindow /\ RetriesInHand)'
  <2>1. RetriesStayInWindow'
    BY <1>0, <1>2, ResolverTable DEF RetriesStayInWindow, ResolverRow, NoRow, NewRow
  <2>2. RetriesInHand'
    BY <1>2, ResolverWork DEF RetriesInHand
  <2> QED
    BY <2>1, <2>2
<1>3. ASSUME NEW c \in Clients, BeginOnRow(c) \/ BeginGlobal(c) \/ RequestStep(c)
      PROVE  (RetriesStayInWindow /\ RetriesInHand)'
  <2>1. RetriesStayInWindow'
    BY <1>0, <1>3, RequestTable DEF RetriesStayInWindow, RequestRow, NoRow, NewRow
  <2>2. RetriesInHand'
    BY <1>3, RequestWork DEF RetriesInHand, WorkersKept
  <2> QED
    BY <2>1, <2>2
<1>4. ASSUME NEW k \in Jobs, Elapse(k)
      PROVE  (RetriesStayInWindow /\ RetriesInHand)'
  <2>1. \A j \in Jobs : /\ table'[j].status = table[j].status
                        /\ table'[j].retries = table[j].retries
    BY <1>0, <1>4 DEF Elapse, Table, Row
  <2> QED
    BY <1>0, <1>4, <2>1 DEF Elapse, pool, RetriesStayInWindow, RetriesInHand
<1>5. CASE StartPool
  <2>1. RetriesStayInWindow'
    BY <1>0, <1>5, MoveEffect DEF StartPool, ResetStale, RetriesStayInWindow, Status
  <2> QED
    BY <1>5, <2>1 DEF StartPool, RetriesInHand
<1>6. CASE Boot \/ RecoverChecking \/ ResumeCheck
  BY <1>0, <1>6 DEF Boot, RecoverChecking, ResumeCheck, disk, pool, RetriesStayInWindow,
                    RetriesInHand
<1>7. CASE Crash
  BY <1>0, <1>7 DEF Crash, Idle, RetriesStayInWindow, RetriesInHand
<1> QED
  BY <1>1, <1>2, <1>3, <1>4, <1>5, <1>6, <1>7 DEF Next

(* A job with attempts to make has attempts left: no chain of failures,    *)
(* restarts and late writes exceeds the retry window (handleFailure, the   *)
(* write-back of process and ResetFailed).                                 *)
THEOREM RetriesAlwaysInWindow == Spec => []RetriesStayInWindow
<1>1. Init => RetriesStayInWindow /\ RetriesInHand
  BY BacklogIsOld, BoundsAreNaturals
     DEF Init, NewRow, NoRow, Idle, RetriesStayInWindow, RetriesInHand, Active
<1>2. Assigned /\ (RetriesStayInWindow /\ RetriesInHand) /\ [Next]_vars
        => (RetriesStayInWindow /\ RetriesInHand)'
  <2>1. ASSUME RetriesStayInWindow /\ RetriesInHand, UNCHANGED vars
        PROVE  (RetriesStayInWindow /\ RetriesInHand)'
    BY <2>1 DEF RetriesStayInWindow, RetriesInHand, vars, disk, pool
  <2> QED
    BY <2>1, RetriesStep
<1> QED
  BY <1>1, <1>2, AlwaysAssigned, PTL DEF Spec

-----------------------------------------------------------------------------
(* FreshIds: an id is handed out once, and until it has a row nobody can   *)
(* have heard of it.                                                       *)
OnlyOnce ==
    /\ \A r \in Resolvers : resolver[r].entries \cap unused = {}
    /\ \A q, r \in Resolvers : q # r => resolver[q].entries \cap resolver[r].entries = {}
Untouched(j) ==
    /\ ~Present(table, j)
    /\ \A w \in Workers : worker[w].job # j
    /\ \A r \in Resolvers : resolver[r].job # j
    /\ \A c \in Clients : request[c].job # j
    /\ j \notin recovery.left
HiddenIsRow == \A j \in Jobs : table[j].hidden => Present(table, j)
FreshIds == /\ OnlyOnce
            /\ HiddenIsRow
            /\ \A j \in Jobs : Fresh(j) => Untouched(j)

(* A request acts on a row somebody saw, or on the one it has just made.   *)
LEMMA RequestJob ==
  ASSUME Assigned, NEW c \in Clients, BeginOnRow(c) \/ BeginGlobal(c) \/ RequestStep(c),
         NEW d \in Clients
  PROVE  \/ request'[d].job \in {request[d].job, NoJob}
         \/ /\ request'[d].job \in Jobs
            /\ \/ Present(table, request'[d].job)
               \/ table[request'[d].job].hidden
         \/ request'[d].job \in unused /\ unused' = unused \ {request'[d].job}
<1>0. /\ request \in [Clients -> RequestState]
      /\ \A e \in Clients : request[e] \in RequestState
      /\ unused \subseteq Jobs
  BY DEF Assigned, TypeOK
<1>1. CASE BeginOnRow(c)
  <2>1. PICK op \in Requests, j \in Jobs : Offered(op, table[j]) /\ Begin(c, op, j)
    BY <1>1 DEF BeginOnRow
  <2>2. Present(table, j) \/ table[j].hidden
    BY <2>1, RequestsAreKnown DEF Offered, Present, Active, Finished, FirstStep
  <2>3. request'[d].job \in {request[d].job, j}
    BY <1>0, <2>1 DEF Begin, NoRequest
  <2> QED
    BY <2>2, <2>3
<1>2. CASE BeginGlobal(c)
  BY <1>0, <1>2 DEF BeginGlobal, Begin, NoRequest
<1>3. CASE Prepare(c)
  <2>1. Oldest(unused) \in unused
    BY <1>0, <1>3, OldestIsLeast DEF Prepare
  <2>2. request'[d].job \in {request[d].job, Oldest(unused)}
    BY <1>0, <1>3 DEF Prepare, RequestState
  <2> QED
    BY <1>3, <2>1, <2>2 DEF Prepare
<1>4. ASSUME Reply(c) PROVE request'[d].job \in {request[d].job, NoJob}
  BY <1>0, <1>4 DEF Reply, NoRequest
<1>5. ASSUME NEW pc, Goto(c, pc) PROVE request'[d].job = request[d].job
  BY <1>0, <1>5 DEF Goto, RequestState
<1>6. CASE \/ PrepareRefused(c) \/ Resolve(c) \/ CancelPool(c) \/ CancelRow(c)
           \/ CancelCheck(c) \/ CancelRows(c) \/ Retry(c) \/ DropItems(c)
           \/ RedownloadRow(c)
  BY <1>4, <1>5, <1>6 DEF PrepareRefused, Resolve, CancelPool, CancelRow, CancelCheck,
                          CancelRows, Retry, DropItems, RedownloadRow
<1>7. CASE ListRunning(c) \/ StopRunning(c)
  <2> DEFINE One(pc, ids) == [request[c] EXCEPT !.pc = pc, !.ids = ids]
             Two(ids) == [request[c] EXCEPT !.ids = ids]
  <2>1. \A pc, ids : One(pc, ids).job = request[c].job /\ Two(ids).job = request[c].job
    BY <1>0 DEF RequestState
  <2>2. \/ \E pc, ids : request' = [request EXCEPT ![c] = One(pc, ids)]
        \/ \E ids : request' = [request EXCEPT ![c] = Two(ids)]
    BY <1>0, <1>7 DEF ListRunning, StopRunning
  <2> HIDE DEF One, Two
  <2> QED
    BY <1>0, <2>1, <2>2
<1>8. CASE HideRow(c) \/ UnhideRow(c) \/ PurgeRow(c) \/ CleanupRows(c)
  BY <1>4, <1>8 DEF HideRow, UnhideRow, PurgeRow, CleanupRows, RowAction
<1> QED
  BY <1>1, <1>2, <1>3, <1>6, <1>7, <1>8 DEF RequestStep

(* FreshIds is inductive.                                                  *)
LEMMA FreshIdsStep ==
  ASSUME Assigned, FreshIds, Next
  PROVE  FreshIds'
<1> USE NoJobIsNoJob
<1>0. /\ resolver \in [Resolvers -> ResolverState]
      /\ \A r \in Resolvers : resolver[r].entries \subseteq Jobs
      /\ table \in Table /\ unused \subseteq Jobs
      /\ recovery \in [todo : BOOLEAN, left : SUBSET Jobs]
      /\ OnlyOnce /\ HiddenIsRow
      /\ \A j \in Jobs : Fresh(j) => Untouched(j)
      /\ \A j \in Jobs : Fresh(j)' => Fresh(j)
  BY FreshStep DEF FreshIds, Assigned, TypeOK, ResolverState
<1>1. ASSUME NEW w \in Workers, WorkerStep(w)
      PROVE  FreshIds'
  <2>1. /\ \A v \in Workers \ {w} : worker'[v] = worker[v]
        /\ UNCHANGED <<unused, resolver, recovery, request>>
    BY <1>1, OthersKept
  <2>2. OnlyOnce'
    BY <1>0, <2>1 DEF OnlyOnce
  <2>3. HiddenIsRow'
    <3> SUFFICES ASSUME NEW j \in Jobs, table'[j].hidden
                 PROVE  Present(table, j)'
      BY DEF HiddenIsRow
    <3>1. CASE Present(table, j)'
      BY <3>1
    <3>2. CASE table[j].hidden
      <4>1. CASE Claim(w)
        BY <1>0, <3>2, <4>1, ClaimEffect DEF HiddenIsRow, Present, RowKept
      <4>2. CASE Register(w) \/ TakeFile(w) \/ SaveFile(w) \/ EndDownload(w)
        BY <1>0, <3>2, <4>2, WorkingEffect DEF HiddenIsRow, Present
      <4>3. CASE WriteVerdict(w)
        BY <1>0, <3>2, <4>3, VerdictEffect DEF HiddenIsRow, Present, RowKept
      <4>4. CASE Release(w)
        BY <1>0, <3>2, <4>4, ReleaseEffect DEF HiddenIsRow, Present
      <4> QED
        BY <1>1, <4>1, <4>2, <4>3, <4>4 DEF WorkerStep
    <3> QED
      BY <1>1, <3>1, <3>2, WorkerMakesNoRow
  <2>4. ASSUME NEW j \in Jobs, Fresh(j)'
        PROVE  Untouched(j)'
    <3>1. Untouched(j) /\ ~Present(table, j)'
      BY <1>0, <1>1, <2>4, WorkerMakesNoRow DEF Untouched
    <3>2. worker'[w].job # j
      <4>1. CASE Claim(w)
        BY <3>1, <4>1, ClaimEffect DEF Untouched, Present
      <4>2. CASE Register(w) \/ TakeFile(w) \/ SaveFile(w) \/ EndDownload(w)
        BY <3>1, <4>2, WorkingEffect DEF Untouched
      <4>3. CASE WriteVerdict(w)
        BY <3>1, <4>3, VerdictEffect DEF Untouched
      <4>4. CASE Release(w)
        BY <4>4, ReleaseEffect DEF Idle
      <4> QED
        BY <1>1, <4>1, <4>2, <4>3, <4>4 DEF WorkerStep
    <3> QED
      BY <2>1, <3>1, <3>2 DEF Untouched
  <2> QED
    BY <2>2, <2>3, <2>4 DEF FreshIds
<1>2. ASSUME NEW r \in Resolvers, ResolverStep(r)
      PROVE  FreshIds'
  <2>1. /\ \A q \in Resolvers \ {r} : resolver'[q] = resolver[q]
        /\ UNCHANGED <<worker, recovery, request>>
        /\ resolver'[r] = Free \/ resolver'[r].job = resolver[r].job
        /\ resolver'[r].entries \cup unused' \subseteq resolver[r].entries \cup unused
        /\ resolver[r].entries \cap unused = {} => resolver'[r].entries \cap unused' = {}
    BY <1>2, ResolverWork
  <2>2. \A j \in Jobs : ResolverRow(r, j)
    BY <1>2, ResolverTable
  <2>3. OnlyOnce'
    <3>1. \A q \in Resolvers \ {r} : resolver'[q].entries = resolver[q].entries
      BY <2>1
    <3>2. \A q \in Resolvers : resolver'[q].entries \cap unused' = {}
      BY <1>0, <2>1, <3>1 DEF OnlyOnce
    <3>3. \A q \in Resolvers \ {r} : resolver'[q].entries \cap resolver'[r].entries = {}
      BY <1>0, <2>1, <3>1 DEF OnlyOnce
    <3>4. \A p, q \in Resolvers :
            p # q => resolver'[p].entries \cap resolver'[q].entries = {}
      BY <1>0, <3>1, <3>3 DEF OnlyOnce
    <3> QED
      BY <3>2, <3>4 DEF OnlyOnce
  <2>4. HiddenIsRow'
    BY <1>0, <2>2
       DEF HiddenIsRow, ResolverRow, RowKept, RowStartsOver, Present, NoRow, NewRow
  <2>5. ASSUME NEW j \in Jobs, Fresh(j)'
        PROVE  Untouched(j)'
    <3>1. Untouched(j)
      BY <1>0, <2>5
    <3>2. ~Present(table, j)'
      <4>1. CASE /\ j \in resolver[r].entries /\ j \notin resolver'[r].entries
                 /\ UNCHANGED unused
        <5>1. j \notin unused' /\ \A q \in Resolvers \ {r} : j \notin resolver'[q].entries
          BY <1>0, <2>1, <4>1 DEF OnlyOnce
        <5> QED
          BY <2>5, <4>1, <5>1 DEF Fresh
      <4> QED
        BY <2>2, <3>1, <4>1 DEF ResolverRow, RowKept, Untouched, Present, NoRow, NewRow
    <3> QED
      BY <2>1, <3>1, <3>2 DEF Untouched, Free
  <2> QED
    BY <2>3, <2>4, <2>5 DEF FreshIds
<1>3. ASSUME NEW r \in Resolvers, NEW k \in Jobs, StartResolver(r, k)
      PROVE  /\ resolver'[r].job = k /\ resolver'[r].entries = {}
             /\ \A q \in Resolvers \ {r} : resolver'[q] = resolver[q]
  BY <1>0, <1>3 DEF StartResolver
<1>4. ASSUME NEW c \in Clients, BeginOnRow(c) \/ BeginGlobal(c) \/ RequestStep(c)
      PROVE  FreshIds'
  <2>1. /\ WorkersKept /\ UNCHANGED recovery /\ unused' \subseteq unused
        /\ \/ ResolversKept
           \/ /\ request[c].pc = "resolve"
              /\ \E r \in Resolvers : StartResolver(r, request[c].job)
    BY <1>4, RequestWork
  <2>2. \A j \in Jobs : RequestRow(c, j)
    BY <1>4, RequestTable
  <2>3. request[c].pc = "resolve" => request[c].job \in Jobs
    BY DEF Assigned, JobsAssigned, NeedsJob, RequestPC
  <2>4. \A r \in Resolvers : /\ resolver'[r].entries \in {resolver[r].entries, {}}
                             /\ resolver'[r].job \in {resolver[r].job, request[c].job}
    <3>1. CASE ResolversKept
      BY <3>1 DEF ResolversKept
    <3>2. CASE /\ request[c].pc = "resolve"
               /\ \E r \in Resolvers : StartResolver(r, request[c].job)
      BY <1>3, <2>3, <3>2
    <3> QED
      BY <2>1, <3>1, <3>2
  <2>5. OnlyOnce'
    BY <1>0, <2>1, <2>4 DEF OnlyOnce
  <2>6. HiddenIsRow'
    BY <1>0, <2>2
       DEF HiddenIsRow, RequestRow, RowKept, RowStartsOver, Present, NoRow, NewRow
  <2>7. ASSUME NEW j \in Jobs, j \in unused, unused' = unused \ {j}
        PROVE  ~Fresh(j)'
    <3>1. \A r \in Resolvers : j \notin resolver[r].entries
      BY <1>0, <2>7 DEF OnlyOnce
    <3>2. \A r \in Resolvers : j \notin resolver'[r].entries
      BY <2>4, <3>1
    <3> QED
      BY <2>7, <3>2 DEF Fresh
  <2>8. ASSUME NEW j \in Jobs, Fresh(j)'
        PROVE  Untouched(j)'
    <3>1. Untouched(j)
      BY <1>0, <2>8
    <3>2. ~Present(table, j)'
      BY <2>2, <2>7, <2>8, <3>1
         DEF RequestRow, RowKept, Untouched, Present, NoRow, NewRow, Active
    <3>3. \A d \in Clients : request'[d].job # j
      <4> SUFFICES ASSUME NEW d \in Clients, request'[d].job = j
                   PROVE  FALSE
        OBVIOUS
      <4>1. CASE request'[d].job \in {request[d].job, NoJob}
        BY <3>1, <4>1 DEF Untouched
      <4>2. CASE Present(table, j) \/ table[j].hidden
        BY <1>0, <3>1, <4>2 DEF Untouched, HiddenIsRow
      <4>3. CASE j \in unused /\ unused' = unused \ {j}
        BY <2>7, <2>8, <4>3
      <4> QED
        BY <1>4, <4>1, <4>2, <4>3, RequestJob
    <3> QED
      BY <2>1, <2>4, <3>1, <3>2, <3>3 DEF Untouched, WorkersKept
  <2> QED
    BY <2>5, <2>6, <2>8 DEF FreshIds
<1>5. ASSUME NEW k \in Jobs, Elapse(k)
      PROVE  FreshIds'
  <2>1. \A j \in Jobs : /\ table'[j].status = table[j].status
                        /\ table'[j].hidden = table[j].hidden
    BY <1>0, <1>5 DEF Elapse, Table, Row
  <2>2. UNCHANGED <<unused, resolver, worker, request, recovery>>
    BY <1>5 DEF Elapse, pool, checks
  <2> QED
    BY <1>0, <2>1, <2>2 DEF FreshIds, OnlyOnce, HiddenIsRow, Fresh, Untouched, Present
<1>6. CASE StartPool
  <2>1. \A j \in Jobs : /\ Present(table, j)' <=> Present(table, j)
                        /\ table'[j].hidden = table[j].hidden
    BY <1>0, <1>6, MoveEffect DEF StartPool, ResetStale, Present, Status, Active
  <2>2. UNCHANGED <<unused, resolver, worker, request, recovery>>
    BY <1>6 DEF StartPool, checks
  <2> QED
    BY <1>0, <2>1, <2>2 DEF FreshIds, OnlyOnce, HiddenIsRow, Fresh, Untouched
<1>7. CASE Boot \/ RecoverChecking
  <2>1. \A j \in recovery'.left : Present(table, j)
    BY <1>7 DEF Boot, RecoverChecking, Present
  <2>2. UNCHANGED <<table, unused, resolver, worker, request>>
    BY <1>7 DEF Boot, RecoverChecking, disk, pool, checks
  <2> QED
    BY <1>0, <2>1, <2>2 DEF FreshIds, OnlyOnce, HiddenIsRow, Fresh, Untouched, Present
<1>8. CASE ResumeCheck
  <2>1. PICK k \in recovery.left, r \in Resolvers :
               /\ StartResolver(r, k)
               /\ recovery' = [recovery EXCEPT !.left = @ \ {k}]
    BY <1>8 DEF ResumeCheck
  <2>2. k \in Jobs /\ recovery'.left \subseteq recovery.left
    BY <1>0, <2>1
  <2>3. UNCHANGED <<table, unused, worker, request>>
    BY <1>8 DEF ResumeCheck, disk, pool
  <2>4. /\ resolver'[r].job = k /\ resolver'[r].entries = {}
        /\ \A q \in Resolvers \ {r} : resolver'[q] = resolver[q]
    BY <1>3, <2>1, <2>2
  <2>5. OnlyOnce'
    BY <1>0, <2>3, <2>4 DEF OnlyOnce
  <2>6. ASSUME NEW j \in Jobs, Fresh(j)'
        PROVE  Untouched(j)'
    <3>1. Untouched(j)
      BY <1>0, <2>6
    <3>2. j # k
      BY <2>1, <3>1 DEF Untouched
    <3> QED
      BY <2>2, <2>3, <2>4, <3>1, <3>2 DEF Untouched, Present
  <2> QED
    BY <1>0, <2>3, <2>5, <2>6 DEF FreshIds, HiddenIsRow, Present
<1>9. CASE Crash
  <2>1. OnlyOnce'
    BY <1>9 DEF Crash, OnlyOnce, Free
  <2>2. HiddenIsRow'
    BY <1>0, <1>9 DEF Crash, HiddenIsRow, Present
  <2>3. ASSUME NEW j \in Jobs, Fresh(j)'
        PROVE  Untouched(j)'
    <3>1. Untouched(j)
      BY <1>0, <2>3
    <3> QED
      BY <1>9, <3>1 DEF Crash, Untouched, Present, Idle, Free, NoRequest
  <2> QED
    BY <2>1, <2>2, <2>3 DEF FreshIds
<1> QED
  BY <1>1, <1>2, <1>4, <1>5, <1>6, <1>7, <1>8, <1>9 DEF Next

(* FreshIds holds throughout: no worker, resolver, request or recovery has *)
(* anything to do with a job that does not exist yet.                      *)
LEMMA IdsAlwaysFresh == Spec => []FreshIds
<1>1. Init => FreshIds
  <2> SUFFICES ASSUME Init PROVE FreshIds
    OBVIOUS
  <2>1. OnlyOnce
    BY DEF Init, OnlyOnce, Free
  <2>2. HiddenIsRow
    BY DEF Init, HiddenIsRow, NoRow, NewRow
  <2>3. ASSUME NEW j \in Jobs, Fresh(j)
        PROVE  Untouched(j)
    <3>1. j \notin Backlog
      BY <2>3 DEF Init, Fresh, Free
    <3> QED
      BY <3>1, NoJobIsNoJob
         DEF Init, Untouched, Present, NoRow, NewRow, Idle, Free, NoRequest
  <2> QED
    BY <2>1, <2>2, <2>3 DEF FreshIds
<1>2. Assigned /\ FreshIds /\ [Next]_vars => FreshIds'
  <2>1. ASSUME FreshIds, UNCHANGED vars PROVE FreshIds'
    BY <2>1 DEF FreshIds, OnlyOnce, HiddenIsRow, Fresh, Untouched, Present, vars, disk, pool,
                checks
  <2> QED
    BY <2>1, FreshIdsStep
<1> QED
  BY <1>1, <1>2, AlwaysAssigned, PTL DEF Spec

-----------------------------------------------------------------------------
(* ExpandedOnce: the placeholder is there when it is deleted, and no other *)
(* row takes its id.                                                       *)
LEMMA ExpandedStep ==
  ASSUME Assigned, FreshIds, ExpandedOnce, Next
  PROVE  ExpandedOnce'
<1>0. /\ resolver \in [Resolvers -> ResolverState] /\ table \in Table
      /\ \A j \in Jobs : Fresh(j) => Untouched(j)
      /\ \A r \in Resolvers : resolver[r].pc # "free" => resolver[r].job \in Jobs
      /\ \A r \in Resolvers : resolver[r].pc = "create" => ~Present(table, resolver[r].job)
      /\ \A q, r \in Resolvers :
           resolver[r].pc = "create" /\ resolver[q].pc = "create"
             /\ resolver[q].job = resolver[r].job => q = r
  BY DEF Assigned, TypeOK, JobsAssigned, ResolverState, FreshIds, ExpandedOnce
<1>1. ASSUME NEW r \in Resolvers, resolver[r].pc = "create"
      PROVE  table'[resolver[r].job].status = "absent"
  <2>1. \A j \in Jobs : ~Present(table, j) /\ ~Fresh(j) => table'[j].status = "absent"
    BY FreshStep DEF Present
  <2> QED
    BY <1>0, <1>1, <2>1 DEF Untouched
<1>2. ASSUME \A r \in Resolvers :
               \/ resolver'[r].pc # "create"
               \/ resolver'[r].pc = resolver[r].pc /\ resolver'[r].job = resolver[r].job
      PROVE  ExpandedOnce'
  BY <1>0, <1>1, <1>2 DEF ExpandedOnce, Present
<1>3. ASSUME NEW w \in Workers, WorkerStep(w)
      PROVE  ExpandedOnce'
  BY <1>2, <1>3, OthersKept
<1>4. ASSUME NEW r \in Resolvers, ResolverStep(r)
      PROVE  ExpandedOnce'
  <2>1. /\ \A q \in Resolvers \ {r} : resolver'[q] = resolver[q]
        /\ resolver'[r].pc = "create" =>
             /\ resolver'[r].job = resolver[r].job
             /\ \/ resolver[r].pc = "create"
                \/ /\ table[resolver[r].job].status = "checking"
                   /\ table'[resolver[r].job] = NoRow
    BY <1>4, ResolverWork DEF Free
  <2>2. CASE resolver'[r].pc # "create" \/ resolver[r].pc = "create"
    BY <1>2, <2>1, <2>2
  <2>3. CASE /\ resolver'[r].pc = "create" /\ resolver'[r].job = resolver[r].job
             /\ table[resolver[r].job].status = "checking"
             /\ table'[resolver[r].job] = NoRow
    <3>1. \A q \in Resolvers : resolver[q].pc = "create" => resolver[q].job # resolver[r].job
      BY <1>0, <2>3 DEF Present
    <3> QED
      BY <1>0, <1>1, <2>1, <2>3, <3>1 DEF ExpandedOnce, Present, NoRow, NewRow
  <2> QED
    BY <2>1, <2>2, <2>3
<1>5. ASSUME NEW r \in Resolvers, NEW k, StartResolver(r, k)
      PROVE  ExpandedOnce'
  <2> DEFINE it == [pc |-> "probe", job |-> k, live |-> TRUE, entries |-> {}]
  <2>1. resolver' = [resolver EXCEPT ![r] = it] /\ it.pc = "probe"
    BY <1>5 DEF StartResolver
  <2> HIDE DEF it
  <2> QED
    BY <1>0, <1>2, <2>1
<1>6. ASSUME NEW c \in Clients, BeginOnRow(c) \/ BeginGlobal(c) \/ RequestStep(c)
      PROVE  ExpandedOnce'
  <2>1. CASE ResolversKept
    BY <1>2, <2>1 DEF ResolversKept
  <2> QED
    BY <1>5, <1>6, <2>1, RequestWork
<1>7. CASE ResumeCheck
  BY <1>5, <1>7 DEF ResumeCheck
<1>8. CASE Boot \/ StartPool \/ RecoverChecking \/ \E j \in Jobs : Elapse(j)
  BY <1>2, <1>8 DEF Boot, StartPool, RecoverChecking, Elapse, checks
<1>9. CASE Crash
  BY <1>2, <1>9 DEF Crash, Free
<1> QED
  BY <1>3, <1>4, <1>6, <1>7, <1>8, <1>9 DEF Next

(* A link is expanded by one resolver at most, although a check may be     *)
(* started, resumed and cancelled while another runs, and only by the one  *)
(* that removed the placeholder (the guard of DeleteChecking).             *)
THEOREM AlwaysExpandedOnce == Spec => []ExpandedOnce
<1>1. Init => ExpandedOnce
  BY DEF Init, ExpandedOnce, Free
<1>2. Assigned /\ FreshIds /\ ExpandedOnce /\ [Next]_vars => ExpandedOnce'
  <2>1. ASSUME ExpandedOnce, UNCHANGED vars PROVE ExpandedOnce'
    BY <2>1 DEF ExpandedOnce, Present, vars, disk, checks
  <2> QED
    BY <2>1, ExpandedStep
<1> QED
  BY <1>1, <1>2, AlwaysAssigned, IdsAlwaysFresh, PTL DEF Spec

-----------------------------------------------------------------------------
(* ExclusiveDownload: as long as a worker owes a row its verdict, the row  *)
(* does not wait for another worker.  Redownload breaks this, because it   *)
(* resets a row whatever its status is by then, so the proof is about an   *)
(* interface that does not offer it.                                       *)
BusyRows == \A w \in Workers, j \in Jobs :
              Busy(w, j) => table[j].status \in {"running", "cancelled", "absent"}
PoolRests == phase # "on" => \A w \in Workers : worker[w].pc = "idle"
NoRedownload == \A c \in Clients : request[c].pc \notin {"dropItems", "redownloadRow"}
OneWorkerPerJob == ExclusiveDownload /\ BusyRows /\ PoolRests /\ NoRedownload

(* Without the operation no request ever reaches the steps of Redownload.  *)
LEMMA NoRedownloadStep ==
  ASSUME Assigned, NoRedownload, "redownload" \notin Requests,
         NEW c \in Clients, BeginOnRow(c) \/ BeginGlobal(c) \/ RequestStep(c)
  PROVE  NoRedownload'
<1> SUFFICES ASSUME NEW d \in Clients
             PROVE  request'[d].pc \notin {"dropItems", "redownloadRow"}
  BY DEF NoRedownload
<1>1. request[d].pc \notin {"dropItems", "redownloadRow"}
  BY DEF NoRedownload
<1>2. \A op \in Requests : FirstStep[op] \notin {"dropItems", "redownloadRow"}
  <2> TAKE op \in Requests
  <2>1. op \in DOMAIN FirstStep /\ op # "redownload"
    BY RequestsAreKnown
  <2> QED
    BY <2>1 DEF FirstStep
<1> QED
  BY <1>1, <1>2, RequestPath DEF Follows, NoRequest

(* OneWorkerPerJob is inductive.                                           *)
LEMMA OneWorkerStep ==
  ASSUME Assigned, FreshIds, OneWorkerPerJob, "redownload" \notin Requests, Next
  PROVE  OneWorkerPerJob'
<1> USE DEF RowKept, RowStartsOver, Present
<1>0. /\ table \in Table /\ worker \in [Workers -> WorkerState]
      /\ \A j \in Jobs : Fresh(j) => Untouched(j)
      /\ \A j \in Jobs, v, w \in Workers : Busy(v, j) /\ Busy(w, j) => v = w
      /\ \A w \in Workers, j \in Jobs :
           Busy(w, j) => table[j].status \in {"running", "cancelled", "absent"}
      /\ NoRedownload /\ PoolRests
  BY DEF Assigned, TypeOK, FreshIds, OneWorkerPerJob, ExclusiveDownload, BusyRows
<1>1. ASSUME NEW w \in Workers, WorkerStep(w)
      PROVE  OneWorkerPerJob'
  <2>1. /\ \A v \in Workers \ {w} : worker'[v] = worker[v]
        /\ UNCHANGED <<phase, request>>
    BY <1>1, OthersKept
  <2>2. phase = "on"
    <3>1. CASE worker[w].pc = "idle"
      BY <1>1, <3>1 DEF WorkerStep, Claim, Register, TakeFile, SaveFile, EndDownload,
                        WriteVerdict, Release
    <3> QED
      BY <1>0, <3>1 DEF PoolRests
  <2>3. PoolRests' /\ NoRedownload'
    BY <1>0, <2>1, <2>2 DEF PoolRests, NoRedownload
  <2>4. \A v \in Workers \ {w}, j \in Jobs : Busy(v, j)' <=> Busy(v, j)
    BY <2>1 DEF Busy
  <2>5. CASE Claim(w)
    <3>1. PICK k \in Jobs :
            /\ table[k].status \in {"pending", "retrying"} /\ table'[k].status = "running"
            /\ \A j \in Jobs \ {k} : RowKept(j)
            /\ worker'[w].pc = "claimed" /\ worker'[w].job = k
      BY <2>5, ClaimEffect
    <3>2. \A v \in Workers : ~Busy(v, k)
      BY <1>0, <3>1
    <3>3. \A j \in Jobs : Busy(w, j)' => j = k
      BY <3>1 DEF Busy
    <3>4. ExclusiveDownload'
      BY <1>0, <2>4, <3>2, <3>3 DEF ExclusiveDownload
    <3>5. BusyRows'
      BY <1>0, <2>4, <3>1, <3>2, <3>3 DEF BusyRows
    <3> QED
      BY <2>3, <3>4, <3>5 DEF OneWorkerPerJob
  <2>6. CASE Register(w) \/ TakeFile(w) \/ SaveFile(w) \/ EndDownload(w)
    <3>1. UNCHANGED table /\ \A j \in Jobs : Busy(w, j)' => Busy(w, j)
      BY <2>6, WorkingEffect DEF Busy
    <3> QED
      BY <1>0, <2>3, <2>4, <3>1 DEF OneWorkerPerJob, ExclusiveDownload, BusyRows
  <2>7. CASE WriteVerdict(w)
    <3>1. /\ \A j \in Jobs : ~Busy(w, j)'
          /\ \A j \in Jobs : Busy(w, j) \/ RowKept(j)
      BY <2>7, VerdictEffect DEF Busy
    <3>2. ExclusiveDownload'
      BY <1>0, <2>4, <3>1 DEF ExclusiveDownload
    <3>3. BusyRows'
      BY <1>0, <2>4, <3>1 DEF BusyRows
    <3> QED
      BY <2>3, <3>2, <3>3 DEF OneWorkerPerJob
  <2>8. CASE Release(w)
    <3>1. UNCHANGED table /\ \A j \in Jobs : ~Busy(w, j)'
      BY <2>8, ReleaseEffect DEF Busy, Idle
    <3> QED
      BY <1>0, <2>3, <2>4, <3>1 DEF OneWorkerPerJob, ExclusiveDownload, BusyRows
  <2> QED
    BY <1>1, <2>5, <2>6, <2>7, <2>8 DEF WorkerStep
<1>2. \A j \in Jobs : Fresh(j) => \A w \in Workers : ~Busy(w, j)
  BY <1>0 DEF Untouched, Busy
<1>3. ASSUME NEW r \in Resolvers, ResolverStep(r)
      PROVE  OneWorkerPerJob'
  <2>1. UNCHANGED <<worker, phase, request>>
    BY <1>3, ResolverWork
  <2>2. BusyRows'
    <3> SUFFICES ASSUME NEW w \in Workers, NEW j \in Jobs, Busy(w, j)
                 PROVE  table'[j].status \in {"running", "cancelled", "absent"}
      BY <2>1 DEF BusyRows, Busy
    <3>1. ~Fresh(j)
      BY <1>2
    <3>2. RowKept(j) \/ table'[j] = NoRow
      BY <1>0, <1>3, <3>1, ResolverTable DEF ResolverRow, Fresh
    <3> QED
      BY <1>0, <3>2 DEF NoRow, NewRow
  <2> QED
    BY <1>0, <2>1, <2>2
       DEF OneWorkerPerJob, ExclusiveDownload, Busy, PoolRests, NoRedownload
<1>4. ASSUME NEW c \in Clients, BeginOnRow(c) \/ BeginGlobal(c) \/ RequestStep(c)
      PROVE  OneWorkerPerJob'
  <2>1. WorkersKept /\ UNCHANGED phase
    BY <1>4, RequestWork
  <2>2. \A w \in Workers, j \in Jobs : Busy(w, j)' <=> Busy(w, j)
    BY <2>1 DEF Busy, WorkersKept
  <2>3. BusyRows'
    <3> SUFFICES ASSUME NEW w \in Workers, NEW j \in Jobs, Busy(w, j)
                 PROVE  table'[j].status \in {"running", "cancelled", "absent"}
      BY <2>2 DEF BusyRows
    <3>1. ~Fresh(j) /\ request[c].pc # "redownloadRow"
      BY <1>0, <1>2 DEF NoRedownload
    <3>2. RowKept(j) \/ table'[j].status = "cancelled" \/ table'[j] = NoRow
      BY <1>0, <1>4, <3>1, RequestTable DEF RequestRow, Fresh
    <3> QED
      BY <1>0, <3>2 DEF NoRow, NewRow
  <2>4. NoRedownload'
    BY <1>0, <1>4, NoRedownloadStep
  <2>5. ExclusiveDownload'
    BY <1>0, <2>2 DEF ExclusiveDownload
  <2>6. PoolRests'
    BY <1>0, <2>1 DEF PoolRests, WorkersKept
  <2> QED
    BY <2>3, <2>4, <2>5, <2>6 DEF OneWorkerPerJob
<1>5. ASSUME NEW k \in Jobs, Elapse(k)
      PROVE  OneWorkerPerJob'
  <2>1. \A j \in Jobs : table'[j].status = table[j].status
    BY <1>0, <1>5 DEF Elapse, Table, Row
  <2>2. UNCHANGED <<worker, phase, request>>
    BY <1>5 DEF Elapse, pool
  <2> QED
    BY <1>0, <2>1, <2>2
       DEF OneWorkerPerJob, ExclusiveDownload, BusyRows, Busy, PoolRests, NoRedownload
<1>6. ASSUME \A w \in Workers : worker'[w].pc = "idle"
      PROVE  (ExclusiveDownload /\ BusyRows /\ PoolRests)'
  BY <1>6 DEF ExclusiveDownload, BusyRows, Busy, PoolRests
<1>7. CASE StartPool \/ Boot
  <2>1. \A w \in Workers : worker'[w].pc = "idle"
    BY <1>0, <1>7 DEF StartPool, Boot, pool, PoolRests
  <2>2. NoRedownload'
    BY <1>0, <1>7 DEF StartPool, Boot, NoRedownload
  <2> QED
    BY <1>6, <2>1, <2>2 DEF OneWorkerPerJob
<1>8. CASE RecoverChecking \/ ResumeCheck
  BY <1>0, <1>8
     DEF RecoverChecking, ResumeCheck, disk, pool, OneWorkerPerJob, ExclusiveDownload,
         BusyRows, Busy, PoolRests, NoRedownload
<1>9. CASE Crash
  <2>1. \A w \in Workers : worker'[w].pc = "idle"
    BY <1>9 DEF Crash, Idle
  <2>2. NoRedownload'
    BY <1>9 DEF Crash, NoRequest, NoRedownload
  <2> QED
    BY <1>6, <2>1, <2>2 DEF OneWorkerPerJob
<1> QED
  BY <1>1, <1>3, <1>4, <1>5, <1>7, <1>8, <1>9 DEF Next

(* It holds throughout.                                                    *)
LEMMA AlwaysOneWorker ==
  ASSUME "redownload" \notin Requests
  PROVE  Spec => []OneWorkerPerJob
<1>1. Init => OneWorkerPerJob
  BY DEF Init, OneWorkerPerJob, ExclusiveDownload, BusyRows, Busy, PoolRests, NoRedownload,
         Idle, NoRequest
<1>2. Assigned /\ FreshIds /\ OneWorkerPerJob /\ [Next]_vars => OneWorkerPerJob'
  <2>1. ASSUME OneWorkerPerJob, UNCHANGED vars PROVE OneWorkerPerJob'
    BY <2>1 DEF OneWorkerPerJob, ExclusiveDownload, BusyRows, Busy, PoolRests, NoRedownload,
                vars, disk, pool
  <2> QED
    BY <2>1, OneWorkerStep
<1> QED
  BY <1>1, <1>2, AlwaysAssigned, IdsAlwaysFresh, PTL DEF Spec

(* No two workers download one job at a time, however claims, the window   *)
(* before process registers, cancellations, retries, deletions and         *)
(* restarts interleave, as long as nobody resets a row under its worker.   *)
THEOREM DownloadsExclusive ==
  ASSUME "redownload" \notin Requests
  PROVE  Spec => []ExclusiveDownload
<1>1. OneWorkerPerJob => ExclusiveDownload
  BY DEF OneWorkerPerJob
<1> QED
  BY <1>1, AlwaysOneWorker, PTL
=============================================================================
