---------------------------- MODULE MediaLibrary ----------------------------
(***************************************************************************)
(* Files on disk against rows of the table "items": what the goroutines of *)
(* the process and the handlers of requests do to both, one file-system    *)
(* operation or one SQL statement per step (internal/worker,               *)
(* internal/repo/item.go, internal/storage, internal/filecheck,            *)
(* internal/library, internal/ops, internal/audio).                        *)
(*                                                                         *)
(* A path is a directory, the output directory of videos or the directory  *)
(* of tracks inside it, and a name; the track of a video has its name.     *)
(* A file is known by the job it was downloaded for or extracted from.     *)
(*                                                                         *)
(* How jobs come to be queued, cancelled and retried is DownloadQueue; here *)
(* Downloads are queued at the start, and a job keeps what decides over    *)
(* its files.                                                              *)
(***************************************************************************)
EXTENDS FiniteSets, Naturals

CONSTANTS Names,        \* names of files
          Jobs, Items,  \* the ids that can be generated (bound: at one time)
          Downloads,    \* jobs queued at the start
          Shelf, Gone,  \* names of the videos in the library at the start, and of
                        \* those deleted from it, whose jobs are hidden
          Loaders,      \* workers of the pool
          Clients,      \* concurrent requests (bound)
          Lane,         \* the heavy lane of background operations
          Checkers,     \* the periodic file check and the one of a reindex
          Scanning,     \* whether the directory scanner is configured to run
          Requests,     \* what users and operations ask for
          MaxActs,      \* bound on requests and on changes from outside
          MaxBoots,     \* bound on restarts
          None, Nothing, Part, Foreign

ASSUME LibraryConstants ==
    /\ Downloads \subseteq Jobs
    /\ Shelf \subseteq Names /\ Gone \subseteq Names \ Shelf
    /\ Scanning \in BOOLEAN
    /\ MaxActs \in Nat /\ MaxBoots \in Nat
    /\ Lane \notin Clients
    /\ {Nothing, Part, Foreign} \cap Jobs = {}
    /\ Foreign \notin {Nothing, Part} /\ Nothing # Part

ASSUME NoneIsNothingElse == None \notin Jobs \cup Items \cup ({"video", "track"} \X Names)

Directories == {"video", "track"}
Paths   == Directories \X Names
Videos  == {"video"} \X Names
Track(p) == <<"track", p[2]>>

(* What can lie at a path: nothing; an empty or unfinished file; a file a  *)
(* user put there; what was downloaded for or extracted from a job.        *)
Media   == Jobs \cup {Foreign}
Content == Media \cup {Nothing, Part}

VARIABLES
    disk,      \* what lies at each path
    jobs,      \* the columns of "jobs" that decide over files
    items,     \* the table "items"
    inFlight,  \* InFlightPaths: paths moved into place and not recorded yet
    loader,    \* process in internal/worker/pool.go, per worker
    scan,      \* DirScanner.scan
    check,     \* filecheck.Run, per caller
    request,   \* a handler, or the operation of the lane, in progress
    acts,      \* requests and changes from outside so far, for the bound
    boots      \* restarts so far, for the bound

vars == <<disk, jobs, items, inFlight, loader, scan, check, request, acts, boots>>

Actors == Clients \cup {Lane}

JobRow   == [status : {"absent", "queued", "running", "done", "failed", "cancelled", "imported"},
             hidden : BOOLEAN]
NoJob    == [status |-> "absent", hidden |-> FALSE]
ItemRow  == [path : Paths \cup {None}, job : Jobs \cup {None}, deleted : BOOLEAN, lost : BOOLEAN]
NoItem   == [path |-> None, job |-> None, deleted |-> FALSE, lost |-> FALSE]

LoaderPC == {"idle", "fetch", "announce", "move", "stat", "record", "forget"}
AtRest   == [pc |-> "idle", job |-> None, path |-> None, saved |-> FALSE]

ScanPC   == {"walk", "restore", "import", "row"}
NoScan   == [pc |-> "walk", left |-> {}, there |-> {}, gone |-> {}, todo |-> {},
             path |-> None, job |-> None]

NoCheck  == [pc |-> "walk", todo |-> {}, id |-> None, missing |-> FALSE]
Seen     == [id : Items, path : Paths, lost : BOOLEAN]

RequestPC == {"idle", "list", "unlink", "reset", "prune", "stub", "move", "row", "rollback",
              "encode", "encoding", "record"}
NoRequest == [op |-> "none", pc |-> "idle", job |-> None, item |-> None,
              from |-> None, to |-> None, todo |-> {}]

LibraryTypeOK ==
    /\ disk \in [Paths -> Content]
    /\ jobs \in [Jobs -> JobRow]
    /\ items \in [Items -> ItemRow]
    /\ inFlight \subseteq Paths
    /\ loader \in [Loaders -> [pc : LoaderPC, job : Jobs \cup {None},
                               path : Paths \cup {None}, saved : BOOLEAN]]
    /\ scan \in [pc : ScanPC, left : SUBSET Directories, there : SUBSET Paths,
                 gone : SUBSET Paths, todo : SUBSET Paths, path : Paths \cup {None}, job : Jobs \cup {None}]
    /\ check \in [Checkers -> [pc : {"walk", "mark"}, todo : SUBSET Seen,
                               id : Items \cup {None}, missing : BOOLEAN]]
    /\ request \in [Actors -> [op : Requests \cup {"none"}, pc : RequestPC,
                               job : Jobs \cup {None}, item : Items \cup {None},
                               from : Paths \cup {None}, to : Paths \cup {None},
                               todo : SUBSET Paths]]
    /\ acts \in Nat /\ boots \in Nat

(* What earlier lives of the process left: a job that is done and an item  *)
(* for every video of the shelf and every one deleted from it.             *)
OneToOne(f) == \A m, n \in DOMAIN f : f[m] = f[n] => m = n
Owners      == [Shelf \cup Gone -> Jobs \ Downloads]
Rows        == [Shelf \cup Gone -> Items]

ASSUME ThereAreEnoughIds == (\E f \in Owners : OneToOne(f)) /\ (\E f \in Rows : OneToOne(f))

FirstJob  == CHOOSE f \in Owners : OneToOne(f)
FirstItem == CHOOSE f \in Rows : OneToOne(f)

FirstRow(j) ==
    IF j \in Downloads THEN [status |-> "queued", hidden |-> FALSE]
    ELSE IF \E n \in Shelf \cup Gone : FirstJob[n] = j
         THEN [status |-> "done", hidden |-> \E n \in Gone : FirstJob[n] = j]
         ELSE NoJob

FirstFile(n) ==
    [path |-> <<"video", n>>, job |-> FirstJob[n], deleted |-> n \in Gone, lost |-> FALSE]

Init ==
    /\ disk = [p \in Paths |-> IF p[1] = "video" /\ p[2] \in Shelf THEN FirstJob[p[2]]
                                                                   ELSE Nothing]
    /\ jobs = [j \in Jobs |-> FirstRow(j)]
    /\ items = [i \in Items |->
                  IF \E n \in Shelf \cup Gone : FirstItem[n] = i
                  THEN FirstFile(CHOOSE n \in Shelf \cup Gone : FirstItem[n] = i)
                  ELSE NoItem]
    /\ inFlight = {}
    /\ loader = [l \in Loaders |-> AtRest]
    /\ scan = NoScan
    /\ check = [c \in Checkers |-> NoCheck]
    /\ request = [a \in Actors |-> NoRequest]
    /\ acts = 0
    /\ boots = 0

-----------------------------------------------------------------------------
(* The tables.                                                             *)

Present(j)  == jobs[j].status # "absent"
Known(i)    == items[i].path # None
Available(i) == Known(i) /\ ~items[i].deleted /\ ~items[i].lost
RowsAt(p)   == {i \in Items : items[i].path = p}
ItemsOf(j)  == {i \in Items : Known(i) /\ items[i].job = j}

(* A generated id is one nobody has or remembers; which one is the same.   *)
FreshJobs ==
    {j \in Jobs : /\ ~Present(j)
                  /\ j # scan.job
                  /\ \A l \in Loaders : loader[l].job # j
                  /\ \A a \in Actors : request[a].job # j
                  /\ \A p \in Paths : disk[p] # j}
FreshItems ==
    {i \in Items : /\ ~Known(i)
                   /\ \A a \in Actors : request[a].item # i
                   /\ \A c \in Checkers : check[c].id # i /\ \A r \in check[c].todo : r.id # i}
New(ids) == CHOOSE i \in ids : TRUE

(* Items.Create: INSERT ... ON CONFLICT(path) DO UPDATE, which keeps the   *)
(* id, moves the row to the new job and clears both marks.  The foreign    *)
(* key refuses a job without a row.                                        *)
Upsert(p, j) ==
    /\ RowsAt(p) = {} => FreshItems # {}
    /\ items' = [i \in Items |->
                   IF i \in RowsAt(p) \/ (RowsAt(p) = {} /\ i = New(FreshItems))
                   THEN [path |-> p, job |-> j, deleted |-> FALSE, lost |-> FALSE]
                   ELSE items[i]]

(* DELETE FROM items, and DELETE FROM jobs with what cascades from it.     *)
DeleteItems(gone) == items' = [i \in Items |-> IF i \in gone THEN NoItem ELSE items[i]]
DeleteJobs(gone) ==
    /\ jobs' = [j \in Jobs |-> IF j \in gone THEN NoJob ELSE jobs[j]]
    /\ DeleteItems({i \in Items : items[i].job \in gone})

Lay(p, content) == disk' = [disk EXCEPT ![p] = content]

-----------------------------------------------------------------------------
(* A worker of the pool.  Names are tried until one can be created with    *)
(* O_EXCL, so what is reserved is a path where nothing lay.                *)

LoaderMoves(l, pc) == loader' = [loader EXCEPT ![l].pc = pc]

Claim(l) ==
    /\ loader[l].pc = "idle"
    /\ \E j \in Jobs :
         /\ jobs[j].status = "queued"
         /\ jobs' = [jobs EXCEPT ![j].status = "running"]
         /\ loader' = [loader EXCEPT ![l] = [AtRest EXCEPT !.pc = "fetch", !.job = j]]
    /\ UNCHANGED <<disk, items, inFlight, scan, check, request, acts, boots>>

CanCreateOverStub(p) == disk[p] \in {Nothing, Part}
CanCreate(p) == disk[p] = Nothing

Reserve(l) ==
    /\ loader[l].pc = "fetch"
    /\ \E p \in Videos :
         /\ CanCreate(p)
         /\ Lay(p, Part)
         /\ loader' = [loader EXCEPT ![l].pc = "announce", ![l].path = p]
    /\ UNCHANGED <<jobs, items, inFlight, scan, check, request, acts, boots>>

Announce(l) ==
    /\ loader[l].pc = "announce"
    /\ inFlight' = inFlight \cup {loader[l].path}
    /\ LoaderMoves(l, "move")
    /\ UNCHANGED <<disk, jobs, items, scan, check, request, acts, boots>>

MoveFile(l) ==
    /\ loader[l].pc = "move"
    /\ Lay(loader[l].path, loader[l].job)
    /\ LoaderMoves(l, "stat")
    /\ UNCHANGED <<jobs, items, inFlight, scan, check, request, acts, boots>>

MoveFailsLeavesStub(l) ==
    /\ loader[l].pc = "move"
    /\ LoaderMoves(l, "forget")
    /\ UNCHANGED <<disk, jobs, items, inFlight, scan, check, request, acts, boots>>
MoveFails(l) ==
    /\ loader[l].pc = "move"
    /\ Lay(loader[l].path, Nothing)
    /\ LoaderMoves(l, "forget")
    /\ UNCHANGED <<jobs, items, inFlight, scan, check, request, acts, boots>>

StatFile(l) ==
    /\ loader[l].pc = "stat"
    /\ LoaderMoves(l, IF disk[loader[l].path] = Nothing THEN "forget" ELSE "record")
    /\ UNCHANGED <<disk, jobs, items, inFlight, scan, check, request, acts, boots>>

RecordFile(l) ==
    /\ loader[l].pc = "record"
    /\ \/ /\ Present(loader[l].job)
          /\ Upsert(loader[l].path, loader[l].job)
          /\ loader' = [loader EXCEPT ![l].pc = "forget", ![l].saved = TRUE]
       \/ /\ ~Present(loader[l].job)
          /\ LoaderMoves(l, "forget")
          /\ UNCHANGED items
    /\ UNCHANGED <<disk, jobs, inFlight, scan, check, request, acts, boots>>

ForgetLeaks(l) ==
    /\ loader[l].pc = "forget"
    /\ inFlight' = IF loader[l].saved THEN inFlight \ {loader[l].path} ELSE inFlight
    /\ loader' = [loader EXCEPT ![l].pc = "fetch", ![l].path = None]
    /\ UNCHANGED <<disk, jobs, items, scan, check, request, acts, boots>>
Forget(l) ==
    /\ loader[l].pc = "forget"
    /\ inFlight' = inFlight \ {loader[l].path}
    /\ loader' = [loader EXCEPT ![l].pc = "fetch", ![l].path = None]
    /\ UNCHANGED <<disk, jobs, items, scan, check, request, acts, boots>>

(* The last Update, over whatever the row says by now.                     *)
Verdict(l) ==
    /\ loader[l].pc = "fetch"
    /\ \E s \in {"cancelled"} \cup (IF loader[l].saved THEN {"done"} ELSE {"queued", "failed"}) :
         jobs' = IF Present(loader[l].job) THEN [jobs EXCEPT ![loader[l].job].status = s]
                                           ELSE jobs
    /\ loader' = [loader EXCEPT ![l] = AtRest]
    /\ UNCHANGED <<disk, items, inFlight, scan, check, request, acts, boots>>

LoaderStep(l) ==
    \/ Claim(l) \/ Reserve(l) \/ Announce(l) \/ MoveFile(l) \/ MoveFails(l)
    \/ StatFile(l) \/ RecordFile(l) \/ Forget(l) \/ Verdict(l)

-----------------------------------------------------------------------------
(* The directory scanner reads which rows there are, then lists the two    *)
(* directories and looks at what it found, in an order that does not       *)
(* matter.  Paths whose row was available are passed over.                 *)

ScanStart ==
    /\ Scanning
    /\ scan.pc = "walk" /\ scan.left = {} /\ scan.todo = {}
    /\ LET known == {items[i].path : i \in {k \in Items : Known(k)}}
           there == {items[i].path : i \in {k \in Items : Available(k)}}
       IN  scan' = [NoScan EXCEPT !.left = Directories, !.there = there,
                                  !.gone = known \ there]
    /\ UNCHANGED <<disk, jobs, items, inFlight, loader, check, request, acts, boots>>

ScanList ==
    /\ scan.pc = "walk"
    /\ \E d \in scan.left :
         LET found == {p \in Paths \ scan.there : p[1] = d /\ disk[p] # Nothing}
         IN  scan' = [scan EXCEPT !.left  = @ \ {d},
                                  !.todo  = @ \cup found,
                                  !.there = {p \in @ : p[1] # d},
                                  !.gone  = {p \in @ : p[1] # d \/ p \in found}]
    /\ UNCHANGED <<disk, jobs, items, inFlight, loader, check, request, acts, boots>>

ScanLook ==
    /\ scan.pc = "walk"
    /\ \E p \in scan.todo :
         scan' = [scan EXCEPT
                    !.todo = @ \ {p},
                    !.gone = @ \ {p},
                    !.pc   = IF disk[p] = Nothing \/ p \in inFlight THEN "walk"
                             ELSE IF p \in scan.gone THEN "restore" ELSE "import",
                    !.path = IF disk[p] = Nothing \/ p \in inFlight THEN None ELSE p]
    /\ UNCHANGED <<disk, jobs, items, inFlight, loader, check, request, acts, boots>>

ScanWalksOn == scan' = [scan EXCEPT !.pc = "walk", !.path = None, !.job = None]

(* RestoreByPath, by path and without a condition.                         *)
ScanRestoreLostOnly ==
    /\ scan.pc = "restore"
    /\ items' = [i \in Items |-> IF i \in RowsAt(scan.path)
                                 THEN [items[i] EXCEPT !.lost = FALSE] ELSE items[i]]
    /\ ScanWalksOn
    /\ UNCHANGED <<disk, jobs, inFlight, loader, check, request, acts, boots>>
ScanRestore ==
    /\ scan.pc = "restore"
    /\ items' = [i \in Items |-> IF i \in RowsAt(scan.path)
                                 THEN [items[i] EXCEPT !.deleted = FALSE, !.lost = FALSE]
                                 ELSE items[i]]
    /\ ScanWalksOn
    /\ UNCHANGED <<disk, jobs, inFlight, loader, check, request, acts, boots>>

ScanImportJobSwapped ==
    /\ scan.pc = "import"
    /\ FreshJobs # {}
    /\ jobs' = [jobs EXCEPT ![New(FreshJobs)] = [NoJob EXCEPT !.status = "filesystem"]]
    /\ scan' = [scan EXCEPT !.pc = "row", !.job = New(FreshJobs)]
    /\ UNCHANGED <<disk, items, inFlight, loader, check, request, acts, boots>>
ScanImportJob ==
    /\ scan.pc = "import"
    /\ FreshJobs # {}
    /\ jobs' = [jobs EXCEPT ![New(FreshJobs)] = [NoJob EXCEPT !.status = "imported"]]
    /\ scan' = [scan EXCEPT !.pc = "row", !.job = New(FreshJobs)]
    /\ UNCHANGED <<disk, items, inFlight, loader, check, request, acts, boots>>

ScanImportItem ==
    /\ scan.pc = "row"
    /\ IF Present(scan.job) THEN Upsert(scan.path, scan.job) ELSE UNCHANGED items
    /\ ScanWalksOn
    /\ UNCHANGED <<disk, jobs, inFlight, loader, check, request, acts, boots>>

ScanStep == ScanStart \/ ScanList \/ ScanLook \/ ScanRestore \/ ScanImportJob \/ ScanImportItem

-----------------------------------------------------------------------------
(* The file check: the rows are read once, then each path is tested and    *)
(* the mark of the row with that id set or taken back.                     *)

CheckStart(c) ==
    /\ check[c].pc = "walk" /\ check[c].todo = {}
    /\ check' = [check EXCEPT ![c] =
          [NoCheck EXCEPT !.todo = {[id |-> i, path |-> items[i].path, lost |-> items[i].lost] :
                                      i \in {k \in Items : Known(k) /\ ~items[k].deleted}}]]
    /\ UNCHANGED <<disk, jobs, items, inFlight, loader, scan, request, acts, boots>>

CheckLook(c) ==
    /\ check[c].pc = "walk"
    /\ \E r \in check[c].todo :
         LET missing == disk[r.path] = Nothing
         IN  check' = [check EXCEPT ![c] =
                IF missing = r.lost
                THEN [NoCheck EXCEPT !.todo = check[c].todo \ {r}]
                ELSE [pc |-> "mark", todo |-> check[c].todo \ {r},
                      id |-> r.id, missing |-> missing]]
    /\ UNCHANGED <<disk, jobs, items, inFlight, loader, scan, request, acts, boots>>

CheckMark(c) ==
    /\ check[c].pc = "mark"
    /\ LET i == check[c].id
       IN  items' = IF ~Known(i) \/ (check[c].missing /\ items[i].deleted) THEN items
                    ELSE [items EXCEPT ![i].lost = check[c].missing]
    /\ check' = [check EXCEPT ![c] = [NoCheck EXCEPT !.todo = check[c].todo]]
    /\ UNCHANGED <<disk, jobs, inFlight, loader, scan, request, acts, boots>>

CheckStep(c) == CheckStart(c) \/ CheckLook(c) \/ CheckMark(c)

-----------------------------------------------------------------------------
(* Requests.  Each is a read, then operations on files, then statements on *)
(* rows by the id it was given.                                            *)

Begin(a, op, r) ==
    /\ request[a].pc = "idle"
    /\ op \in Requests
    /\ acts < MaxActs
    /\ acts' = acts + 1
    /\ request' = [request EXCEPT ![a] = [r EXCEPT !.op = op]]

Goes(a, pc) == request' = [request EXCEPT ![a].pc = pc]
Ends(a)     == request' = [request EXCEPT ![a] = NoRequest]

(* Hide, Unhide and ResetFailed are one statement each.                    *)
SetHidden(c) ==
    /\ request[c].pc = "idle"
    /\ "hide" \in Requests
    /\ acts < MaxActs
    /\ acts' = acts + 1
    /\ \E j \in {k \in Jobs : Present(k)}, h \in BOOLEAN : jobs' = [jobs EXCEPT ![j].hidden = h]
    /\ UNCHANGED <<disk, items, inFlight, loader, scan, check, request, boots>>

Retry(c) ==
    /\ request[c].pc = "idle"
    /\ "retry" \in Requests
    /\ acts < MaxActs
    /\ acts' = acts + 1
    /\ \E j \in Jobs : /\ jobs[j].status = "failed"
                       /\ jobs' = [jobs EXCEPT ![j].status = "queued"]
    /\ UNCHANGED <<disk, items, inFlight, loader, scan, check, request, boots>>

BeginDelete(c) ==
    /\ \E i \in {k \in Items : Known(k)} :
         Begin(c, "delete", [NoRequest EXCEPT !.pc = "unlink", !.item = i,
                                              !.todo = {items[i].path}])
    /\ UNCHANGED <<disk, jobs, items, inFlight, loader, scan, check, boots>>

(* PurgeJob looks at the flag first; Redownload takes any job.             *)
BeginPurge(c) ==
    /\ \E j \in {k \in Jobs : Present(k) /\ jobs[k].hidden} :
         Begin(c, "purge", [NoRequest EXCEPT !.pc = "list", !.job = j])
    /\ UNCHANGED <<disk, jobs, items, inFlight, loader, scan, check, boots>>

BeginRedownload(c) ==
    /\ \E j \in {k \in Jobs : Present(k)} :
         Begin(c, "redownload", [NoRequest EXCEPT !.pc = "list", !.job = j])
    /\ UNCHANGED <<disk, jobs, items, inFlight, loader, scan, check, boots>>

(* ListByJobID; a purge leaves the paths of unavailable items alone.       *)
ListFiles(c) ==
    /\ request[c].pc = "list"
    /\ LET mine == {i \in ItemsOf(request[c].job) :
                      request[c].op = "redownload" \/ Available(i)}
       IN  request' = [request EXCEPT ![c].pc = "unlink",
                                      ![c].todo = {items[i].path : i \in mine}]
    /\ UNCHANGED <<disk, jobs, items, inFlight, loader, scan, check, acts, boots>>

(* The operation "cleanup": PathsForCleanup, deleted rows included.        *)
Dead(j) == jobs[j].hidden \/ jobs[j].status = "failed"
BeginCleanup ==
    /\ Begin(Lane, "cleanup",
             [NoRequest EXCEPT !.pc = "unlink",
                               !.todo = {items[i].path : i \in {k \in Items :
                                           Known(k) /\ Dead(items[k].job)}}])
    /\ UNCHANGED <<disk, jobs, items, inFlight, loader, scan, check, boots>>

(* Storage.Delete; a file that is not there is no error.                   *)
Unlink(a) ==
    /\ request[a].pc = "unlink"
    /\ \E p \in request[a].todo :
         /\ Lay(p, Nothing)
         /\ request' = [request EXCEPT ![a].todo = @ \ {p}]
    /\ UNCHANGED <<jobs, items, inFlight, loader, scan, check, acts, boots>>

Unlinked(a, op) == request[a].pc = "unlink" /\ request[a].op = op /\ request[a].todo = {}

SoftDelete(c) ==
    /\ Unlinked(c, "delete")
    /\ LET i == request[c].item
       IN  items' = IF Known(i) THEN [items EXCEPT ![i].deleted = TRUE] ELSE items
    /\ Ends(c)
    /\ UNCHANGED <<disk, jobs, inFlight, loader, scan, check, acts, boots>>

PurgeRow(c) ==
    /\ Unlinked(c, "purge")
    /\ DeleteJobs({j \in {request[c].job} : jobs[j].hidden})
    /\ Ends(c)
    /\ UNCHANGED <<disk, inFlight, loader, scan, check, acts, boots>>

DropItems(c) ==
    /\ Unlinked(c, "redownload")
    /\ DeleteItems(ItemsOf(request[c].job))
    /\ Goes(c, "reset")
    /\ UNCHANGED <<disk, jobs, inFlight, loader, scan, check, acts, boots>>

ResetJob(c) ==
    /\ request[c].pc = "reset"
    /\ LET j == request[c].job
       IN  jobs' = IF Present(j) THEN [jobs EXCEPT ![j] = [NoJob EXCEPT !.status = "queued"]]
                                 ELSE jobs
    /\ Ends(c)
    /\ UNCHANGED <<disk, items, inFlight, loader, scan, check, acts, boots>>

CleanupDead ==
    /\ Unlinked(Lane, "cleanup")
    /\ DeleteJobs({j \in Jobs : Dead(j)})
    /\ Goes(Lane, "prune")
    /\ UNCHANGED <<disk, inFlight, loader, scan, check, acts, boots>>

PruneLost ==
    /\ request[Lane].pc = "prune"
    /\ DeleteItems({i \in Items : items[i].lost})
    /\ Ends(Lane)
    /\ UNCHANGED <<disk, jobs, inFlight, loader, scan, check, acts, boots>>

-----------------------------------------------------------------------------
(* RenameItem: the new name is taken with O_EXCL, the file moved over it,  *)
(* and the row updated, which the unique path may refuse; then the file is *)
(* moved back over whatever lies there.                                    *)

BeginRename(c) ==
    /\ \E i \in {k \in Items : Known(k)}, n \in Names :
         /\ items[i].path[2] # n
         /\ Begin(c, "rename", [NoRequest EXCEPT !.pc = "stub", !.item = i,
                                                 !.from = items[i].path,
                                                 !.to = <<items[i].path[1], n>>])
    /\ UNCHANGED <<disk, jobs, items, inFlight, loader, scan, check, boots>>

RenameStub(c) ==
    /\ request[c].pc = "stub"
    /\ \/ /\ CanCreate(request[c].to)
          /\ Lay(request[c].to, Part)
          /\ Goes(c, "move")
       \/ /\ ~CanCreate(request[c].to)
          /\ Ends(c)
          /\ UNCHANGED disk
    /\ UNCHANGED <<jobs, items, inFlight, loader, scan, check, acts, boots>>

Moved(from, to) == [disk EXCEPT ![to] = disk[from], ![from] = Nothing]

RenameFile(c) ==
    /\ request[c].pc = "move"
    /\ \/ /\ disk[request[c].from] # Nothing
          /\ disk' = Moved(request[c].from, request[c].to)
          /\ Goes(c, "row")
       \/ /\ disk[request[c].from] = Nothing
          /\ Lay(request[c].to, Nothing)
          /\ Ends(c)
    /\ UNCHANGED <<jobs, items, inFlight, loader, scan, check, acts, boots>>

RenameRowUnchecked(c) ==
    /\ request[c].pc = "row"
    /\ LET i == request[c].item
       IN  items' = IF Known(i) THEN [items EXCEPT ![i].path = request[c].to] ELSE items
    /\ Ends(c)
    /\ UNCHANGED <<disk, jobs, inFlight, loader, scan, check, acts, boots>>
RenameRow(c) ==
    /\ request[c].pc = "row"
    /\ LET i == request[c].item
       IN  \/ /\ Known(i)
              /\ RowsAt(request[c].to) \subseteq {i}
              /\ items' = [items EXCEPT ![i].path = request[c].to]
              /\ Ends(c)
           \/ /\ ~Known(i)
              /\ Ends(c)
              /\ UNCHANGED items
           \/ /\ Known(i)
              /\ ~(RowsAt(request[c].to) \subseteq {i})
              /\ Goes(c, "rollback")
              /\ UNCHANGED items
    /\ UNCHANGED <<disk, jobs, inFlight, loader, scan, check, acts, boots>>

RenameBack(c) ==
    /\ request[c].pc = "rollback"
    /\ disk' = IF disk[request[c].to] # Nothing THEN Moved(request[c].to, request[c].from)
                                                ELSE disk
    /\ Ends(c)
    /\ UNCHANGED <<jobs, items, inFlight, loader, scan, check, acts, boots>>

-----------------------------------------------------------------------------
(* The operation "extract_audio" on one item: ffmpeg writes the track over *)
(* whatever has its name, or fails and leaves what it wrote.               *)

BeginExtract ==
    /\ \E i \in {k \in Items : Available(k)} :
         /\ items[i].path \in Videos
         /\ Begin(Lane, "extract", [NoRequest EXCEPT !.pc = "encode", !.job = items[i].job,
                                                     !.from = items[i].path,
                                                     !.to = Track(items[i].path)])
    /\ UNCHANGED <<disk, jobs, items, inFlight, loader, scan, check, boots>>

Encode ==
    /\ request[Lane].pc = "encode"
    /\ IF disk[request[Lane].from] = Nothing
       THEN Ends(Lane) /\ UNCHANGED disk
       ELSE Lay(request[Lane].to, Part) /\ Goes(Lane, "encoding")
    /\ UNCHANGED <<jobs, items, inFlight, loader, scan, check, acts, boots>>

Encoded ==
    /\ request[Lane].pc = "encoding"
    /\ \/ Lay(request[Lane].to, request[Lane].job) /\ Goes(Lane, "record")
       \/ Ends(Lane) /\ UNCHANGED disk
    /\ UNCHANGED <<jobs, items, inFlight, loader, scan, check, acts, boots>>

RecordTrack ==
    /\ request[Lane].pc = "record"
    /\ IF Present(request[Lane].job) THEN Upsert(request[Lane].to, request[Lane].job)
                                     ELSE UNCHANGED items
    /\ Ends(Lane)
    /\ UNCHANGED <<disk, jobs, inFlight, loader, scan, check, acts, boots>>

BeginStep(c) ==
    \/ SetHidden(c) \/ Retry(c)
    \/ BeginDelete(c) \/ BeginPurge(c) \/ BeginRedownload(c) \/ BeginRename(c)
WorkStep(c) ==
    \/ ListFiles(c) \/ Unlink(c) \/ SoftDelete(c) \/ PurgeRow(c) \/ DropItems(c) \/ ResetJob(c)
    \/ RenameStub(c) \/ RenameFile(c) \/ RenameRow(c) \/ RenameBack(c)
LaneBegins == BeginCleanup \/ BeginExtract
LaneWorks ==
    \/ Unlink(Lane) \/ CleanupDead \/ PruneLost
    \/ Encode \/ Encoded \/ RecordTrack

-----------------------------------------------------------------------------
(* A user puts a file into the directory or takes one out of it.           *)

PutFile ==
    /\ "put" \in Requests
    /\ acts < MaxActs
    /\ acts' = acts + 1
    /\ \E p \in Paths : disk[p] = Nothing /\ Lay(p, Foreign)
    /\ UNCHANGED <<jobs, items, inFlight, loader, scan, check, request, boots>>

TakeFile ==
    /\ "take" \in Requests
    /\ acts < MaxActs
    /\ acts' = acts + 1
    /\ \E p \in Paths : disk[p] \in Media /\ Lay(p, Nothing)
    /\ UNCHANGED <<jobs, items, inFlight, loader, scan, check, request, boots>>

(* The process ends at any moment and starts again: only the disk and the  *)
(* tables survive, and ResetStale queues what was running.                 *)
Restart ==
    /\ boots < MaxBoots
    /\ boots' = boots + 1
    /\ jobs' = [j \in Jobs |-> IF jobs[j].status = "running"
                               THEN [jobs[j] EXCEPT !.status = "queued"] ELSE jobs[j]]
    /\ inFlight' = {}
    /\ loader' = [l \in Loaders |-> AtRest]
    /\ scan' = NoScan
    /\ check' = [c \in Checkers |-> NoCheck]
    /\ request' = [a \in Actors |-> NoRequest]
    /\ UNCHANGED <<disk, items, acts>>

Next ==
    \/ \E l \in Loaders : LoaderStep(l)
    \/ ScanStep
    \/ \E c \in Checkers : CheckStep(c)
    \/ \E c \in Clients : BeginStep(c) \/ WorkStep(c)
    \/ LaneBegins \/ LaneWorks
    \/ PutFile \/ TakeFile
    \/ Restart

Spec == Init /\ [][Next]_vars

(* Goroutines and handlers are scheduled; the timers of the scanner and of *)
(* the file check keep firing.                                             *)
FairSpec ==
    /\ Spec
    /\ WF_vars(ScanStep)
    /\ \A l \in Loaders : WF_vars(LoaderStep(l))
    /\ \A c \in Checkers : WF_vars(CheckStep(c))
    /\ \A c \in Clients : WF_vars(WorkStep(c))
    /\ WF_vars(LaneWorks)

-----------------------------------------------------------------------------
(* The schema of "items": a path has one row, and a row a job; RenameItem  *)
(* must cope with a refusal after it has moved the file, a worker and the  *)
(* lane with a job that is gone.                                           *)
TablesAreSound ==
    \A i \in Items :
        IF Known(i) THEN RowsAt(items[i].path) = {i} /\ items[i].job \in Jobs /\ Present(items[i].job)
                    ELSE items[i] = NoItem

(* An announced path is one its worker still holds: a path left in the set *)
(* would keep the scanner away from it until the next restart (Add and     *)
(* Remove in process, internal/worker/pool.go).                            *)
AnnouncedPathsAreHeld ==
    \A p \in inFlight : \E l \in Loaders :
        loader[l].path = p /\ loader[l].pc \in {"move", "stat", "record", "forget"}

(* An empty file is a name some worker is about to use, until a crash      *)
(* leaves one behind (reserveFreePath and the clean-up after moveFile);    *)
(* renames and extractions leave others, and are not requested here.       *)
PartsHaveMakers ==
    boots = 0 => \A p \in Paths : disk[p] = Part =>
        \E l \in Loaders : loader[l].path = p /\ loader[l].pc \in {"announce", "move"}

(* A file with contents is never replaced by another: two downloads with   *)
(* one title, or a download and a file of the user, lie side by side.      *)
NamesakesSurvive ==
    [][\A p \in Paths : disk[p] \in Media => disk'[p] \in {disk[p], Nothing}]_vars

(* Whatever races there were, once the workers and the requests are done   *)
(* the scanner and the file check make rows and files agree: every file    *)
(* belongs to an available row, and a row that is not deleted is marked    *)
(* lost exactly when its file is missing.                                  *)
Quiet ==
    /\ \A l \in Loaders : loader[l].pc = "idle"
    /\ \A a \in Actors : request[a].pc = "idle"
Settled ==
    /\ \A p \in Paths : disk[p] # Nothing => \E i \in RowsAt(p) : Available(i)
    /\ \A i \in Items : Known(i) /\ ~items[i].deleted =>
                          (items[i].lost <=> disk[items[i].path] = Nothing)
LibraryHeals == <>[]Quiet => <>[]Settled

(* A job that ended well can be found in the library: queries show jobs    *)
(* with files, and jobs without files only if they are not done            *)
(* (internal/repo/item.go:37 on rows that can be neither seen, hidden nor  *)
(* deleted; pendingStatuses in media_query.go).                            *)
DoneJobsAreReachable == \A j \in Jobs : jobs[j].status = "done" => ItemsOf(j) # {}

(* The scanner never takes the file of a download for a file of the user:  *)
(* docs/SPEC.md:421 and README.md:111 rule the race out.                   *)
ScannerLeavesDownloads ==
    [][\A i \in Items : (Known(i) /\ jobs[items[i].job].status \in {"running", "done"}
                          /\ items'[i].job # items[i].job)
                       => items'[i].job # scan.job]_vars
=============================================================================
