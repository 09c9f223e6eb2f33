------------------------ MODULE MediaLibraryProofs ------------------------
(***************************************************************************)
(* Safety of the media library, for any names, ids, workers, requests,     *)
(* changes from outside and restarts.                                      *)
(***************************************************************************)
EXTENDS MediaLibrary, TLAPS

(* The states of each process: whoever is at work has what its next steps  *)
(* use.                                                                    *)
LoaderState ==
    {m \in [pc : LoaderPC, job : Jobs \cup {None}, path : Paths \cup {None}, saved : BOOLEAN] :
        /\ m.pc # "idle" => m.job \in Jobs
        /\ m.pc \in {"announce", "move", "stat", "record", "forget"} => m.path \in Paths}

ScanState ==
    {m \in [pc : ScanPC, left : SUBSET Directories, there : SUBSET Paths, gone : SUBSET Paths,
            todo : SUBSET Paths, path : Paths \cup {None}, job : Jobs \cup {None}] :
        /\ m.pc \in {"restore", "import", "row"} => m.path \in Paths
        /\ m.pc = "row" => m.job \in Jobs}

CheckState ==
    {m \in [pc : {"walk", "mark"}, todo : SUBSET Seen, id : Items \cup {None}, missing : BOOLEAN] :
        m.pc = "mark" => m.id \in Items}

RequestState ==
    {m \in [op : Requests \cup {"none"}, pc : RequestPC, job : Jobs \cup {None},
            item : Items \cup {None}, from : Paths \cup {None}, to : Paths \cup {None},
            todo : SUBSET Paths] :
        /\ m.pc \in {"list", "reset", "encode", "encoding", "record"} => m.job \in Jobs
        /\ m.pc = "list" => m.op \in {"purge", "redownload"}
        /\ m.pc = "unlink" /\ m.op \in {"purge", "redownload"} => m.job \in Jobs
        /\ m.pc = "unlink" /\ m.op = "delete" => m.item \in Items
        /\ m.pc \in {"stub", "move", "row", "rollback"} => m.item \in Items
        /\ m.pc \in {"stub", "move", "row", "rollback", "encode", "encoding", "record"}
             => m.from \in Paths /\ m.to \in Paths}

Tables ==
    /\ jobs \in [Jobs -> JobRow]
    /\ items \in [Items -> ItemRow]
    /\ TablesAreSound

(* What is neither a table nor a bound.                                    *)
Processes ==
    /\ disk \in [Paths -> Content]
    /\ inFlight \subseteq Paths
    /\ loader \in [Loaders -> LoaderState]
    /\ scan \in ScanState
    /\ check \in [Checkers -> CheckState]
    /\ request \in [Actors -> RequestState]

Sound == Tables /\ Processes /\ acts \in Nat /\ boots \in Nat

LEMMA SoundIsTyped == Sound => LibraryTypeOK /\ TablesAreSound
BY DEF Sound, Tables, Processes, LibraryTypeOK, LoaderState, ScanState, CheckState, RequestState

-----------------------------------------------------------------------------
(* The statements.                                                         *)

(* Statements on "jobs" that delete no row.                                *)
LEMMA JobsChange ==
  ASSUME Tables, jobs' \in [Jobs -> JobRow], items' = items,
         \A j \in Jobs : Present(j) => jobs'[j].status # "absent"
  PROVE  Tables'
BY DEF Tables, TablesAreSound, Known, RowsAt, Present

(* Statements that set or clear marks of items.                            *)
LEMMA MarksChange ==
  ASSUME Tables, jobs' = jobs, items' \in [Items -> ItemRow],
         \A i \in Items :
            \/ items'[i] = items[i]
            \/ Known(i) /\ items'[i].path = items[i].path /\ items'[i].job = items[i].job
  PROVE  Tables'
<1>1. \A i \in Items : /\ items'[i].path = items[i].path /\ items'[i].job = items[i].job
                       /\ ~Known(i) => items'[i] = items[i]
  OBVIOUS
<1> QED
  BY <1>1 DEF Tables, TablesAreSound, Known, RowsAt, Present

(* Items.Create.                                                           *)
LEMMA UpsertKeeps ==
  ASSUME Tables, jobs' = jobs, NEW p \in Paths, NEW j \in Jobs, Present(j), Upsert(p, j)
  PROVE  Tables'
<1> DEFINE row == [path |-> p, job |-> j, deleted |-> FALSE, lost |-> FALSE]
           it  == IF RowsAt(p) = {} THEN New(FreshItems) ELSE CHOOSE i \in RowsAt(p) : TRUE
<1>1. /\ it \in Items
      /\ \A i \in Items : i # it => items[i].path # p
      /\ items[it].path = p \/ ~Known(it)
  <2>1. CASE RowsAt(p) = {}
    <3>1. New(FreshItems) \in FreshItems
      BY <2>1 DEF Upsert, New
    <3> QED
      BY <2>1, <3>1 DEF FreshItems, RowsAt
  <2>2. CASE RowsAt(p) # {}
    <3>1. PICK k \in RowsAt(p) : it = k
      BY <2>2
    <3>2. k \in Items /\ items[k].path = p
      BY <3>1 DEF RowsAt
    <3>3. Known(k)
      BY <3>2, NoneIsNothingElse DEF Known, Paths, Directories
    <3>4. RowsAt(p) = {k}
      BY <3>2, <3>3 DEF Tables, TablesAreSound
    <3> QED
      BY <3>1, <3>2, <3>4 DEF RowsAt
  <2> QED
    BY <2>1, <2>2
<1>2. \A i \in Items : (i \in RowsAt(p) \/ (RowsAt(p) = {} /\ i = New(FreshItems))) <=> i = it
  <2>1. CASE RowsAt(p) = {}
    BY <2>1
  <2>2. CASE RowsAt(p) # {}
    BY <2>2, <1>1 DEF RowsAt
  <2> QED
    BY <2>1, <2>2
<1>3. items' = [i \in Items |-> IF i = it THEN row ELSE items[i]]
  BY <1>2 DEF Upsert
<1>4. row \in ItemRow /\ row.path = p /\ row.job = j
  BY DEF ItemRow
<1> HIDE DEF row, it
<1>5. items' \in [Items -> ItemRow]
  BY <1>3, <1>4 DEF Tables
<1>6. \A i \in Items : items'[i] = IF i = it THEN row ELSE items[i]
  BY <1>3
<1>7. p # None
  BY NoneIsNothingElse DEF Paths, Directories
<1>8. TablesAreSound'
  BY <1>1, <1>4, <1>6, <1>7 DEF Tables, TablesAreSound, Known, RowsAt, Present
<1> QED
  BY <1>5, <1>8 DEF Tables

(* DELETE FROM items.                                                      *)
LEMMA DeleteItemsKeeps ==
  ASSUME Tables, jobs' = jobs, NEW gone, DeleteItems(gone)
  PROVE  Tables'
<1>1. NoItem \in ItemRow /\ NoItem.path = None
  BY DEF NoItem, ItemRow
<1>2. items' \in [Items -> ItemRow] /\ \A i \in Items : items'[i] = IF i \in gone THEN NoItem ELSE items[i]
  BY <1>1 DEF Tables, DeleteItems
<1> QED
  BY <1>1, <1>2 DEF Tables, TablesAreSound, Known, RowsAt, Present

(* DELETE FROM jobs and its cascade.                                       *)
LEMMA DeleteJobsKeeps ==
  ASSUME Tables, NEW gone, DeleteJobs(gone)
  PROVE  Tables'
<1>1. NoItem \in ItemRow /\ NoItem.path = None /\ NoJob \in JobRow
  BY DEF NoItem, ItemRow, NoJob, JobRow
<1>2. /\ items' \in [Items -> ItemRow]
      /\ \A i \in Items : items'[i] = IF items[i].job \in gone THEN NoItem ELSE items[i]
      /\ jobs' \in [Jobs -> JobRow]
      /\ \A j \in Jobs : jobs'[j] = IF j \in gone THEN NoJob ELSE jobs[j]
  BY <1>1 DEF Tables, DeleteJobs, DeleteItems
<1> QED
  BY <1>1, <1>2 DEF Tables, TablesAreSound, Known, RowsAt, Present

-----------------------------------------------------------------------------
(* The start.                                                              *)

LEMMA FirstIds == FirstJob \in Owners /\ OneToOne(FirstJob) /\ FirstItem \in Rows /\ OneToOne(FirstItem)
BY ThereAreEnoughIds DEF FirstJob, FirstItem

LEMMA InitSound == Init => Sound
<1> SUFFICES ASSUME Init PROVE Sound
  OBVIOUS
<1> DEFINE Shown == Shelf \cup Gone
<1>1. /\ \A n \in Shown : FirstJob[n] \in Jobs \ Downloads /\ FirstItem[n] \in Items
      /\ \A m, n \in Shown : FirstItem[m] = FirstItem[n] => m = n
      /\ Shown \subseteq Names
  BY FirstIds, LibraryConstants DEF Owners, Rows, OneToOne
<1>2. jobs \in [Jobs -> JobRow] /\ \A n \in Shown : jobs[FirstJob[n]].status = "done"
  <2>1. \A j \in Jobs : FirstRow(j) \in JobRow
    BY DEF FirstRow, NoJob, JobRow
  <2>2. jobs = [j \in Jobs |-> FirstRow(j)]
    BY DEF Init
  <2>3. \A n \in Shown : FirstRow(FirstJob[n]).status = "done"
    BY <1>1 DEF FirstRow
  <2> QED
    BY <1>1, <2>1, <2>2, <2>3
<1>3. \A i \in Items : items[i] = NoItem \/ \E n \in Shown : FirstItem[n] = i /\ items[i] = FirstFile(n)
  <2>1. TAKE i \in Items
  <2>2. items[i] = IF \E n \in Shown : FirstItem[n] = i
                   THEN FirstFile(CHOOSE n \in Shown : FirstItem[n] = i) ELSE NoItem
    BY DEF Init
  <2> QED
    BY <2>2
<1>4. /\ items \in [Items -> ItemRow]
      /\ \A n \in Shown : FirstFile(n).path = <<"video", n>> /\ FirstFile(n).job = FirstJob[n]
  <2>1. \A n \in Shown : FirstFile(n) \in ItemRow
    BY <1>1 DEF FirstFile, ItemRow, Paths, Directories
  <2>2. NoItem \in ItemRow
    BY DEF NoItem, ItemRow
  <2>3. \A i \in Items : items[i] \in ItemRow
    BY <1>3, <2>1, <2>2
  <2> QED
    BY <2>3 DEF Init, FirstFile
<1>5. TablesAreSound
  <2> SUFFICES ASSUME NEW i \in Items
               PROVE  IF Known(i) THEN RowsAt(items[i].path) = {i} /\ items[i].job \in Jobs
                                         /\ Present(items[i].job)
                                  ELSE items[i] = NoItem
    BY DEF TablesAreSound
  <2>1. CASE items[i] = NoItem
    BY <2>1 DEF Known, NoItem
  <2>2. CASE items[i] # NoItem
    <3>1. PICK n \in Shown : FirstItem[n] = i /\ items[i].path = <<"video", n>> /\ items[i].job = FirstJob[n]
      BY <1>3, <1>4, <2>2
    <3>2. Known(i)
      BY <1>1, <3>1, NoneIsNothingElse DEF Known
    <3>3. Present(items[i].job) /\ items[i].job \in Jobs
      BY <1>1, <1>2, <3>1 DEF Present
    <3>4. \A k \in Items : items[k].path = items[i].path => k = i
      <4> TAKE k \in Items
      <4> HAVE items[k].path = items[i].path
      <4>1. items[k] # NoItem
        BY <3>2 DEF Known, NoItem
      <4>2. PICK m \in Shown : FirstItem[m] = k /\ items[k].path = <<"video", m>>
        BY <1>3, <1>4, <4>1
      <4> QED
        BY <3>1, <4>2
    <3> QED
      BY <3>2, <3>3, <3>4 DEF RowsAt
  <2> QED
    BY <2>1, <2>2
<1>6. disk \in [Paths -> Content]
  BY <1>1 DEF Init, Paths, Content, Media
<1>7. AtRest \in LoaderState /\ NoScan \in ScanState /\ NoCheck \in CheckState /\ NoRequest \in RequestState
  BY DEF AtRest, LoaderState, LoaderPC, NoScan, ScanState, ScanPC, NoCheck, CheckState,
         NoRequest, RequestState, RequestPC
<1> QED
  BY <1>2, <1>4, <1>5, <1>6, <1>7 DEF Init, Sound, Tables, Processes

-----------------------------------------------------------------------------
(* One process takes a step.                                               *)

LEMMA LaidOut ==
  ASSUME disk \in [Paths -> Content], NEW p \in Paths, NEW c \in Content, Lay(p, c)
  PROVE  disk' \in [Paths -> Content]
BY DEF Lay

LEMMA LoaderKeeps ==
  ASSUME Sound, NEW l \in Loaders, LoaderStep(l)
  PROVE  Sound'
<1>1. /\ Tables /\ loader \in [Loaders -> LoaderState] /\ loader[l] \in LoaderState
      /\ disk \in [Paths -> Content] /\ jobs \in [Jobs -> JobRow] /\ inFlight \subseteq Paths
  BY DEF Sound, Processes, Tables
<1>2. Jobs \subseteq Content /\ Part \in Content /\ Nothing \in Content /\ Videos \subseteq Paths
  BY DEF Content, Media, Videos, Paths, Directories
<1>3. SUFFICES /\ Tables' /\ disk' \in [Paths -> Content] /\ inFlight' \subseteq Paths
               /\ loader' \in [Loaders -> LoaderState]
               /\ UNCHANGED <<scan, check, request, acts, boots>>
  BY DEF Sound, Processes
<1>4. CASE Claim(l)
  <2>1. PICK j \in Jobs : /\ jobs[j].status = "queued"
                          /\ jobs' = [jobs EXCEPT ![j].status = "running"]
                          /\ loader' = [loader EXCEPT ![l] = [AtRest EXCEPT !.pc = "fetch", !.job = j]]
    BY <1>4 DEF Claim
  <2>2. Tables'
    <3>1. jobs' \in [Jobs -> JobRow] /\ \A k \in Jobs : Present(k) => jobs'[k].status # "absent"
      BY <1>1, <2>1 DEF JobRow, Present
    <3> QED
      BY <1>1, <1>4, <3>1, JobsChange DEF Claim
  <2>3. [AtRest EXCEPT !.pc = "fetch", !.job = j] \in LoaderState
    BY DEF AtRest, LoaderState, LoaderPC
  <2> QED
    BY <1>1, <1>4, <2>1, <2>2, <2>3 DEF Claim
<1>5. CASE Reserve(l)
  <2>1. PICK p \in Videos : Lay(p, Part) /\ loader' = [loader EXCEPT ![l].pc = "announce", ![l].path = p]
    BY <1>5 DEF Reserve
  <2>2. [loader[l] EXCEPT !.pc = "announce", !.path = p] \in LoaderState
    BY <1>1, <1>2, <1>5 DEF LoaderState, LoaderPC, Reserve
  <2>3. loader' \in [Loaders -> LoaderState]
    BY <1>1, <2>1, <2>2
  <2>4. Tables'
    BY <1>1, <1>5 DEF Reserve, Tables, TablesAreSound, Known, RowsAt, Present
  <2> QED
    BY <1>1, <1>2, <1>5, <2>1, <2>3, <2>4, LaidOut DEF Reserve
<1>6. CASE Announce(l) \/ MoveFile(l) \/ MoveFails(l) \/ StatFile(l) \/ Forget(l)
  <2>1. loader[l].path \in Paths /\ loader[l].job \in Jobs
    BY <1>1, <1>6 DEF LoaderState, Announce, MoveFile, MoveFails, StatFile, Forget
  <2>2. loader' \in [Loaders -> LoaderState]
    <3>1. \A pc \in {"move", "stat", "record", "forget"} : [loader[l] EXCEPT !.pc = pc] \in LoaderState
      BY <1>1, <2>1 DEF LoaderState, LoaderPC
    <3>2. [loader[l] EXCEPT !.pc = "fetch", !.path = None] \in LoaderState
      BY <1>1, <2>1 DEF LoaderState, LoaderPC
    <3> QED
      BY <1>1, <1>6, <3>1, <3>2
         DEF Announce, MoveFile, MoveFails, StatFile, Forget, LoaderMoves
  <2>3. Tables'
    BY <1>1, <1>6 DEF Announce, MoveFile, MoveFails, StatFile, Forget,
                      Tables, TablesAreSound, Known, RowsAt, Present
  <2>4. disk' \in [Paths -> Content] /\ inFlight' \subseteq Paths
    BY <1>1, <1>2, <1>6, <2>1, LaidOut DEF Announce, MoveFile, MoveFails, StatFile, Forget
  <2> QED
    BY <1>6, <2>2, <2>3, <2>4 DEF Announce, MoveFile, MoveFails, StatFile, Forget
<1>7. CASE RecordFile(l)
  <2>1. loader[l].path \in Paths /\ loader[l].job \in Jobs
    BY <1>1, <1>7 DEF LoaderState, RecordFile
  <2>2. /\ [loader[l] EXCEPT !.pc = "forget", !.saved = TRUE] \in LoaderState
        /\ [loader[l] EXCEPT !.pc = "forget"] \in LoaderState
    BY <1>1, <2>1 DEF LoaderState, LoaderPC
  <2>3. loader' \in [Loaders -> LoaderState]
    BY <1>1, <1>7, <2>2 DEF RecordFile, LoaderMoves
  <2>4. Tables'
    <3>1. CASE Present(loader[l].job) /\ Upsert(loader[l].path, loader[l].job)
      BY <1>1, <1>7, <2>1, <3>1, UpsertKeeps DEF RecordFile
    <3>2. CASE UNCHANGED items
      BY <1>1, <1>7, <3>2 DEF RecordFile, Tables, TablesAreSound, Known, RowsAt, Present
    <3> QED
      BY <1>7, <3>1, <3>2 DEF RecordFile
  <2> QED
    BY <1>1, <1>7, <2>3, <2>4 DEF RecordFile
<1>8. CASE Verdict(l)
  <2>1. loader[l].job \in Jobs /\ AtRest \in LoaderState
    BY <1>1, <1>8 DEF LoaderState, LoaderPC, Verdict, AtRest
  <2>2. PICK s \in {"cancelled", "done", "queued", "failed"} :
          jobs' = IF Present(loader[l].job) THEN [jobs EXCEPT ![loader[l].job].status = s] ELSE jobs
    BY <1>8 DEF Verdict
  <2>3. jobs' \in [Jobs -> JobRow] /\ \A k \in Jobs : Present(k) => jobs'[k].status # "absent"
    BY <1>1, <2>1, <2>2 DEF JobRow, Present
  <2>4. Tables'
    BY <1>1, <1>8, <2>3, JobsChange DEF Verdict
  <2> QED
    BY <1>1, <1>8, <2>1, <2>4 DEF Verdict
<1> QED
  BY <1>4, <1>5, <1>6, <1>7, <1>8 DEF LoaderStep

(* Steps that leave the tables alone.                                      *)
LEMMA SameTables ==
  ASSUME Tables, UNCHANGED <<jobs, items>>
  PROVE  Tables'
BY DEF Tables, TablesAreSound, Known, RowsAt, Present

LEMMA ScanKeeps ==
  ASSUME Sound, ScanStep
  PROVE  Sound'
<1>1. /\ Tables /\ scan \in ScanState /\ jobs \in [Jobs -> JobRow] /\ items \in [Items -> ItemRow]
      /\ scan.left \subseteq Directories /\ scan.todo \subseteq Paths /\ scan.there \subseteq Paths
      /\ scan.gone \subseteq Paths
  BY DEF Sound, Processes, Tables, ScanState
<1>2. SUFFICES /\ Tables' /\ scan' \in ScanState
               /\ UNCHANGED <<disk, inFlight, loader, check, request, acts, boots>>
  BY DEF Sound, Processes
<1>3. [scan EXCEPT !.pc = "walk", !.path = None, !.job = None] \in ScanState
  BY <1>1 DEF ScanState, ScanPC
<1>4. CASE ScanStart
  <2>1. {items[i].path : i \in {k \in Items : Known(k)}} \subseteq Paths
    BY <1>1 DEF ItemRow, Known
  <2>2. \A K, T : K \subseteq Paths /\ T \subseteq Paths =>
          [NoScan EXCEPT !.left = Directories, !.there = T, !.gone = K \ T] \in ScanState
    BY DEF NoScan, ScanState, ScanPC
  <2>3. {items[i].path : i \in {k \in Items : Available(k)}} \subseteq Paths
    BY <1>1 DEF ItemRow, Known, Available
  <2>4. scan' \in ScanState
    BY <1>4, <2>1, <2>2, <2>3 DEF ScanStart
  <2> QED
    BY <1>1, <1>4, <2>4, SameTables DEF ScanStart
<1>5. CASE ScanList
  <2>1. PICK d \in scan.left :
          LET found == {p \in Paths \ scan.there : p[1] = d /\ disk[p] # Nothing}
          IN  scan' = [scan EXCEPT !.left  = scan.left \ {d},
                                   !.todo  = scan.todo \cup found,
                                   !.there = {p \in scan.there : p[1] # d},
                                   !.gone  = {p \in scan.gone : p[1] # d \/ p \in found}]
    BY <1>5 DEF ScanList
  <2>2. \A L, T, H, G : L \subseteq Directories /\ T \subseteq Paths /\ H \subseteq Paths /\ G \subseteq Paths
          => [scan EXCEPT !.left = L, !.todo = T, !.there = H, !.gone = G] \in ScanState
    BY <1>1 DEF ScanState
  <2>3. scan' \in ScanState
    BY <1>1, <2>1, <2>2
  <2> QED
    BY <1>1, <1>5, <2>3, SameTables DEF ScanList
<1>6. CASE ScanLook
  <2>1. PICK p \in scan.todo :
          scan' = [scan EXCEPT
                     !.todo = scan.todo \ {p},
                     !.gone = scan.gone \ {p},
                     !.pc   = IF disk[p] = Nothing \/ p \in inFlight THEN "walk"
                              ELSE IF p \in scan.gone THEN "restore" ELSE "import",
                     !.path = IF disk[p] = Nothing \/ p \in inFlight THEN None ELSE p]
    BY <1>6 DEF ScanLook
  <2>2. \A T, G : T \subseteq Paths /\ G \subseteq Paths =>
          /\ [scan EXCEPT !.todo = T, !.gone = G, !.pc = "walk", !.path = None] \in ScanState
          /\ \A pc \in {"restore", "import"} :
               [scan EXCEPT !.todo = T, !.gone = G, !.pc = pc, !.path = p] \in ScanState
    BY <1>1 DEF ScanState, ScanPC
  <2>3. scan' \in ScanState
    <3>1. CASE disk[p] = Nothing \/ p \in inFlight
      BY <1>1, <2>1, <2>2, <3>1
    <3>2. CASE ~(disk[p] = Nothing \/ p \in inFlight) /\ p \in scan.gone
      BY <1>1, <2>1, <2>2, <3>2
    <3>3. CASE ~(disk[p] = Nothing \/ p \in inFlight) /\ p \notin scan.gone
      BY <1>1, <2>1, <2>2, <3>3
    <3> QED
      BY <3>1, <3>2, <3>3
  <2> QED
    BY <1>1, <1>6, <2>3, SameTables DEF ScanLook
<1>7. CASE ScanRestore
  <2>1. /\ items' \in [Items -> ItemRow]
        /\ \A i \in Items : items'[i] = IF i \in RowsAt(scan.path)
                                        THEN [items[i] EXCEPT !.deleted = FALSE, !.lost = FALSE]
                                        ELSE items[i]
    <3>1. \A i \in Items : [items[i] EXCEPT !.deleted = FALSE, !.lost = FALSE] \in ItemRow
      BY <1>1 DEF ItemRow
    <3> QED
      BY <1>1, <1>7, <3>1 DEF ScanRestore
  <2>2. scan.path \in Paths
    BY <1>1, <1>7 DEF ScanState, ScanRestore
  <2>3. \A i \in Items : \/ items'[i] = items[i]
                         \/ Known(i) /\ items'[i].path = items[i].path /\ items'[i].job = items[i].job
    <3>1. \A i \in Items : i \in RowsAt(scan.path) => items[i].path # None
      BY <2>2, NoneIsNothingElse DEF RowsAt, Paths, Directories
    <3>2. \A i \in Items : LET new == [items[i] EXCEPT !.deleted = FALSE, !.lost = FALSE]
                           IN  new.path = items[i].path /\ new.job = items[i].job
      BY <1>1 DEF ItemRow
    <3> QED
      BY <2>1, <3>1, <3>2 DEF Known
  <2>4. jobs' = jobs
    BY <1>7 DEF ScanRestore
  <2>5. Tables'
    BY <1>1, <2>1, <2>3, <2>4, MarksChange
  <2> QED
    BY <1>1, <1>3, <1>7, <2>5 DEF ScanRestore, ScanWalksOn
<1>8. CASE ScanImportJob
  <2>1. New(FreshJobs) \in Jobs /\ ~Present(New(FreshJobs))
    BY <1>8 DEF ScanImportJob, New, FreshJobs
  <2>2. [NoJob EXCEPT !.status = "imported"] \in JobRow
        /\ [NoJob EXCEPT !.status = "imported"].status = "imported"
    BY DEF NoJob, JobRow
  <2>3. /\ jobs' \in [Jobs -> JobRow] /\ items' = items
        /\ \A j \in Jobs : Present(j) => jobs'[j].status # "absent"
    BY <1>1, <1>8, <2>1, <2>2 DEF ScanImportJob, Present
  <2>4. Tables'
    BY <1>1, <2>3, JobsChange
  <2>5. \A j \in Jobs : scan.pc = "import" => [scan EXCEPT !.pc = "row", !.job = j] \in ScanState
    BY <1>1 DEF ScanState, ScanPC
  <2> QED
    BY <1>8, <2>1, <2>4, <2>5 DEF ScanImportJob
<1>9. CASE ScanImportItem
  <2>1. scan.path \in Paths /\ scan.job \in Jobs
    BY <1>1, <1>9 DEF ScanState, ScanImportItem
  <2>2. jobs' = jobs /\ IF Present(scan.job) THEN Upsert(scan.path, scan.job) ELSE items' = items
    BY <1>9 DEF ScanImportItem
  <2>3. Tables'
    BY <1>1, <2>1, <2>2, UpsertKeeps, SameTables
  <2> QED
    BY <1>3, <1>9, <2>3 DEF ScanImportItem, ScanWalksOn
<1> QED
  BY <1>4, <1>5, <1>6, <1>7, <1>8, <1>9 DEF ScanStep

LEMMA CheckKeeps ==
  ASSUME Sound, NEW c \in Checkers, CheckStep(c)
  PROVE  Sound'
<1>1. /\ Tables /\ check \in [Checkers -> CheckState] /\ check[c] \in CheckState
      /\ items \in [Items -> ItemRow] /\ check[c].todo \subseteq Seen
  BY DEF Sound, Processes, Tables, CheckState
<1>2. SUFFICES /\ Tables' /\ check' \in [Checkers -> CheckState]
               /\ UNCHANGED <<disk, inFlight, loader, scan, request, acts, boots>>
  BY DEF Sound, Processes
<1>3. \A T : T \subseteq Seen => [NoCheck EXCEPT !.todo = T] \in CheckState
  BY DEF NoCheck, CheckState
<1>4. CASE CheckStart(c)
  <2>1. {[id |-> i, path |-> items[i].path, lost |-> items[i].lost] :
           i \in {k \in Items : Known(k) /\ ~items[k].deleted}} \subseteq Seen
    BY <1>1 DEF Seen, ItemRow, Known
  <2>2. check' \in [Checkers -> CheckState]
    BY <1>1, <1>3, <1>4, <2>1 DEF CheckStart
  <2> QED
    BY <1>1, <1>4, <2>2, SameTables DEF CheckStart
<1>5. CASE CheckLook(c)
  <2>1. PICK r \in check[c].todo :
          check' = [check EXCEPT ![c] =
            IF (disk[r.path] = Nothing) = r.lost
            THEN [NoCheck EXCEPT !.todo = check[c].todo \ {r}]
            ELSE [pc |-> "mark", todo |-> check[c].todo \ {r},
                  id |-> r.id, missing |-> disk[r.path] = Nothing]]
    BY <1>5 DEF CheckLook
  <2>2. r.id \in Items
    BY <1>1 DEF Seen
  <2>3. \A m \in BOOLEAN : [pc |-> "mark", todo |-> check[c].todo \ {r}, id |-> r.id, missing |-> m]
                             \in CheckState
    BY <1>1, <2>2 DEF CheckState
  <2>4. check' \in [Checkers -> CheckState]
    BY <1>1, <1>3, <2>1, <2>3
  <2> QED
    BY <1>1, <1>5, <2>4, SameTables DEF CheckLook
<1>6. CASE CheckMark(c)
  <2> DEFINE i == check[c].id
  <2>1. i \in Items /\ check[c].missing \in BOOLEAN
    BY <1>1, <1>6 DEF CheckMark, CheckState
  <2>2. jobs' = jobs /\ items' = IF ~Known(i) \/ (check[c].missing /\ items[i].deleted) THEN items
                                 ELSE [items EXCEPT ![i].lost = check[c].missing]
    BY <1>6 DEF CheckMark
  <2>3. [items[i] EXCEPT !.lost = check[c].missing] \in ItemRow
    BY <1>1, <2>1 DEF ItemRow
  <2> HIDE DEF i
  <2>4. items' \in [Items -> ItemRow]
    BY <1>1, <2>1, <2>2, <2>3
  <2>5. \A k \in Items : \/ items'[k] = items[k]
                         \/ Known(k) /\ items'[k].path = items[k].path /\ items'[k].job = items[k].job
    BY <1>1, <2>1, <2>2 DEF ItemRow
  <2>6. Tables'
    BY <1>1, <2>2, <2>4, <2>5, MarksChange
  <2>7. check' \in [Checkers -> CheckState]
    BY <1>1, <1>3, <1>6 DEF CheckMark
  <2> QED
    BY <1>6, <2>6, <2>7 DEF CheckMark
<1> QED
  BY <1>4, <1>5, <1>6 DEF CheckStep

-----------------------------------------------------------------------------
(* Requests and operations.                                                *)

LEMMA RequestSteps ==
  ASSUME request \in [Actors -> RequestState], NEW a \in Actors, NEW m \in RequestState,
         request' = [request EXCEPT ![a] = m]
  PROVE  request' \in [Actors -> RequestState]
OBVIOUS

LEMMA Idle == NoRequest \in RequestState
BY DEF NoRequest, RequestState, RequestPC

LEMMA BeginKeeps ==
  ASSUME Sound, \/ \E c \in Clients : BeginStep(c)
                \/ LaneBegins \/ PutFile \/ TakeFile
  PROVE  Sound'
<1>1. /\ Tables /\ request \in [Actors -> RequestState] /\ acts \in Nat
      /\ jobs \in [Jobs -> JobRow] /\ items \in [Items -> ItemRow] /\ disk \in [Paths -> Content]
      /\ Clients \subseteq Actors /\ Lane \in Actors
  BY DEF Sound, Processes, Tables, Actors
<1> DEFINE Kept == /\ Tables' /\ disk' \in [Paths -> Content] /\ request' \in [Actors -> RequestState]
                   /\ acts' \in Nat /\ UNCHANGED <<inFlight, loader, scan, check, boots>>
<1>2. SUFFICES Kept
  BY DEF Sound, Processes
<1>3. \A i \in Items : Known(i) => items[i].path \in Paths /\ items[i].job \in Jobs
  BY <1>1 DEF Tables, TablesAreSound, ItemRow, Known
<1>4. ASSUME NEW c \in Clients, SetHidden(c) PROVE Kept
  <2>1. PICK j \in Jobs, h \in BOOLEAN : Present(j) /\ jobs' = [jobs EXCEPT ![j].hidden = h]
    BY <1>4 DEF SetHidden
  <2>2. jobs' \in [Jobs -> JobRow] /\ \A k \in Jobs : Present(k) => jobs'[k].status # "absent"
    BY <1>1, <2>1 DEF JobRow, Present
  <2> QED
    BY <1>1, <1>4, <2>2, JobsChange DEF SetHidden
<1>5. ASSUME NEW c \in Clients, Retry(c) PROVE Kept
  <2>1. PICK j \in Jobs : jobs' = [jobs EXCEPT ![j].status = "queued"]
    BY <1>5 DEF Retry
  <2>2. jobs' \in [Jobs -> JobRow] /\ \A k \in Jobs : Present(k) => jobs'[k].status # "absent"
    BY <1>1, <2>1 DEF JobRow, Present
  <2> QED
    BY <1>1, <1>5, <2>2, JobsChange DEF Retry
<1>6. ASSUME NEW a \in Actors, NEW op \in Requests, NEW r,
             [r EXCEPT !.op = op] \in RequestState, Begin(a, op, r),
             UNCHANGED <<disk, jobs, items, inFlight, loader, scan, check, boots>>
      PROVE Kept
  BY <1>1, <1>6, SameTables, RequestSteps DEF Begin
<1>7. ASSUME NEW c \in Clients, BeginDelete(c) PROVE Kept
  <2>1. PICK i \in Items : /\ Known(i)
                           /\ Begin(c, "delete", [NoRequest EXCEPT !.pc = "unlink", !.item = i,
                                                                   !.todo = {items[i].path}])
    BY <1>7 DEF BeginDelete
  <2>2. "delete" \in Requests
    BY <2>1 DEF Begin
  <2>3. [[NoRequest EXCEPT !.pc = "unlink", !.item = i, !.todo = {items[i].path}] EXCEPT !.op = "delete"]
          \in RequestState
    BY <1>3, <2>1, <2>2 DEF NoRequest, RequestState, RequestPC
  <2> QED
    BY <1>1, <1>6, <1>7, <2>1, <2>2, <2>3 DEF BeginDelete
<1>8. ASSUME NEW c \in Clients, BeginPurge(c) PROVE Kept
  <2>1. PICK j \in Jobs : Begin(c, "purge", [NoRequest EXCEPT !.pc = "list", !.job = j])
    BY <1>8 DEF BeginPurge
  <2>2. "purge" \in Requests
    BY <2>1 DEF Begin
  <2>3. [[NoRequest EXCEPT !.pc = "list", !.job = j] EXCEPT !.op = "purge"] \in RequestState
    BY <2>2 DEF NoRequest, RequestState, RequestPC
  <2> QED
    BY <1>1, <1>6, <1>8, <2>1, <2>2, <2>3 DEF BeginPurge
<1>9. ASSUME NEW c \in Clients, BeginRedownload(c) PROVE Kept
  <2>1. PICK j \in Jobs : Begin(c, "redownload", [NoRequest EXCEPT !.pc = "list", !.job = j])
    BY <1>9 DEF BeginRedownload
  <2>2. "redownload" \in Requests
    BY <2>1 DEF Begin
  <2>3. [[NoRequest EXCEPT !.pc = "list", !.job = j] EXCEPT !.op = "redownload"] \in RequestState
    BY <2>2 DEF NoRequest, RequestState, RequestPC
  <2> QED
    BY <1>1, <1>6, <1>9, <2>1, <2>2, <2>3 DEF BeginRedownload
<1>10. ASSUME NEW c \in Clients, BeginRename(c) PROVE Kept
  <2>1. PICK i \in Items, n \in Names :
          /\ Known(i)
          /\ Begin(c, "rename", [NoRequest EXCEPT !.pc = "stub", !.item = i, !.from = items[i].path,
                                                  !.to = <<items[i].path[1], n>>])
    BY <1>10 DEF BeginRename
  <2>2. "rename" \in Requests
    BY <2>1 DEF Begin
  <2>3. items[i].path \in Paths /\ <<items[i].path[1], n>> \in Paths
    BY <1>3, <2>1 DEF Paths
  <2>4. [[NoRequest EXCEPT !.pc = "stub", !.item = i, !.from = items[i].path,
                           !.to = <<items[i].path[1], n>>] EXCEPT !.op = "rename"] \in RequestState
    BY <2>2, <2>3 DEF NoRequest, RequestState, RequestPC
  <2> QED
    BY <1>1, <1>6, <1>10, <2>1, <2>2, <2>4 DEF BeginRename
<1>11. ASSUME BeginCleanup PROVE Kept
  <2> DEFINE paths == {items[i].path : i \in {k \in Items : Known(k) /\ Dead(items[k].job)}}
  <2>1. Begin(Lane, "cleanup", [NoRequest EXCEPT !.pc = "unlink", !.todo = paths])
    BY <1>11 DEF BeginCleanup
  <2>2. "cleanup" \in Requests
    BY <2>1 DEF Begin
  <2>3. paths \subseteq Paths
    BY <1>3
  <2>4. [[NoRequest EXCEPT !.pc = "unlink", !.todo = paths] EXCEPT !.op = "cleanup"] \in RequestState
    BY <2>2, <2>3 DEF NoRequest, RequestState, RequestPC
  <2> QED
    BY <1>1, <1>6, <1>11, <2>1, <2>2, <2>4 DEF BeginCleanup
<1>12. ASSUME BeginExtract PROVE Kept
  <2>1. PICK i \in Items :
          /\ Available(i) /\ items[i].path \in Videos
          /\ Begin(Lane, "extract", [NoRequest EXCEPT !.pc = "encode", !.job = items[i].job,
                                                      !.from = items[i].path,
                                                      !.to = Track(items[i].path)])
    BY <1>12 DEF BeginExtract
  <2>2. "extract" \in Requests
    BY <2>1 DEF Begin
  <2>3. items[i].path \in Paths /\ Track(items[i].path) \in Paths /\ items[i].job \in Jobs
    BY <1>3, <2>1 DEF Available, Videos, Track, Paths, Directories
  <2>4. [[NoRequest EXCEPT !.pc = "encode", !.job = items[i].job, !.from = items[i].path,
                           !.to = Track(items[i].path)] EXCEPT !.op = "extract"] \in RequestState
    BY <2>2, <2>3 DEF NoRequest, RequestState, RequestPC
  <2> QED
    BY <1>1, <1>6, <1>12, <2>1, <2>2, <2>4 DEF BeginExtract
<1>13. CASE PutFile \/ TakeFile
  <2>1. PICK p \in Paths, c \in {Foreign, Nothing} : Lay(p, c)
    BY <1>13 DEF PutFile, TakeFile
  <2>2. disk' \in [Paths -> Content]
    BY <1>1, <2>1, LaidOut DEF Content, Media
  <2> QED
    BY <1>1, <1>13, <2>2, SameTables DEF PutFile, TakeFile
<1> QED
  BY <1>4, <1>5, <1>7, <1>8, <1>9, <1>10, <1>11, <1>12, <1>13 DEF BeginStep, LaneBegins

(* What a request does between its beginning and its end.                  *)
LEMMA WorkKeeps ==
  ASSUME Sound, \/ \E c \in Clients : WorkStep(c)
                \/ LaneWorks
  PROVE  Sound'
<1>1. /\ Tables /\ request \in [Actors -> RequestState] /\ disk \in [Paths -> Content]
      /\ jobs \in [Jobs -> JobRow] /\ items \in [Items -> ItemRow]
      /\ Clients \subseteq Actors /\ Lane \in Actors
      /\ Nothing \in Content /\ Part \in Content /\ Jobs \subseteq Content
  BY DEF Sound, Processes, Tables, Actors, Content, Media
<1> DEFINE Kept == /\ Tables' /\ disk' \in [Paths -> Content] /\ request' \in [Actors -> RequestState]
                   /\ UNCHANGED <<inFlight, loader, scan, check, acts, boots>>
<1>2. SUFFICES Kept
  BY DEF Sound, Processes
<1>3. ASSUME NEW a \in Actors, Ends(a) PROVE request' \in [Actors -> RequestState]
  BY <1>1, <1>3, Idle DEF Ends
<1>4. ASSUME NEW c \in Actors, ListFiles(c) PROVE Kept
  <2>1. request[c] \in RequestState /\ request[c].pc = "list" /\ request[c].job \in Jobs
    BY <1>1, <1>4 DEF ListFiles, RequestState
  <2>2. \A T : T \subseteq Paths => [request[c] EXCEPT !.pc = "unlink", !.todo = T] \in RequestState
    BY <2>1 DEF RequestState, RequestPC
  <2> DEFINE mine  == {i \in ItemsOf(request[c].job) : request[c].op = "redownload" \/ Available(i)}
             paths == {items[i].path : i \in mine}
  <2>3. paths \subseteq Paths
    BY <1>1 DEF ItemsOf, Known, ItemRow
  <2>4. request' = [request EXCEPT ![c] = [request[c] EXCEPT !.pc = "unlink", !.todo = paths]]
    BY <1>4 DEF ListFiles
  <2> HIDE DEF paths
  <2>5. request' \in [Actors -> RequestState]
    BY <1>1, <2>2, <2>3, <2>4
  <2> QED
    BY <1>1, <1>4, <2>5, SameTables DEF ListFiles
<1>5. ASSUME NEW a \in Actors, Unlink(a) PROVE Kept
  <2>1. request[a] \in RequestState /\ request[a].pc = "unlink" /\ request[a].todo \subseteq Paths
    BY <1>1, <1>5 DEF Unlink, RequestState
  <2>2. PICK p \in request[a].todo :
          Lay(p, Nothing) /\ request' = [request EXCEPT ![a].todo = request[a].todo \ {p}]
    BY <1>5, <2>1 DEF Unlink
  <2>3. [request[a] EXCEPT !.todo = request[a].todo \ {p}] \in RequestState
    BY <2>1 DEF RequestState
  <2>4. request' \in [Actors -> RequestState]
    BY <1>1, <2>2, <2>3
  <2>5. disk' \in [Paths -> Content]
    BY <1>1, <2>1, <2>2, LaidOut
  <2> QED
    BY <1>1, <1>5, <2>4, <2>5, SameTables DEF Unlink
<1>6. ASSUME NEW c \in Actors, SoftDelete(c) PROVE Kept
  <2>1. request[c].item \in Items
    BY <1>1, <1>6 DEF SoftDelete, Unlinked, RequestState
  <2>2. [items[request[c].item] EXCEPT !.deleted = TRUE] \in ItemRow
    BY <1>1, <2>1 DEF ItemRow
  <2>3. /\ jobs' = jobs
        /\ items' = IF Known(request[c].item) THEN [items EXCEPT ![request[c].item].deleted = TRUE] ELSE items
    BY <1>6 DEF SoftDelete
  <2>4. items' \in [Items -> ItemRow]
    BY <1>1, <2>1, <2>2, <2>3
  <2>5. \A k \in Items : \/ items'[k] = items[k]
                         \/ Known(k) /\ items'[k].path = items[k].path /\ items'[k].job = items[k].job
    BY <1>1, <2>1, <2>3 DEF ItemRow
  <2> QED
    BY <1>1, <1>3, <1>6, <2>3, <2>4, <2>5, MarksChange DEF SoftDelete
<1>7. ASSUME NEW c \in Actors, PurgeRow(c) PROVE Kept
  BY <1>1, <1>3, <1>7, DeleteJobsKeeps DEF PurgeRow
<1>8. ASSUME NEW a \in Actors, NEW pc \in {"reset", "prune", "move", "row", "rollback"},
             Goes(a, pc), [request[a] EXCEPT !.pc = pc] \in RequestState
      PROVE  request' \in [Actors -> RequestState]
  BY <1>1, <1>8 DEF Goes
<1>9. ASSUME NEW c \in Actors, DropItems(c) PROVE Kept
  <2>1. [request[c] EXCEPT !.pc = "reset"] \in RequestState
    BY <1>1, <1>9 DEF DropItems, Unlinked, RequestState, RequestPC
  <2> QED
    BY <1>1, <1>8, <1>9, <2>1, DeleteItemsKeeps DEF DropItems
<1>10. ASSUME NEW c \in Actors, ResetJob(c) PROVE Kept
  <2>1. request[c].job \in Jobs
    BY <1>1, <1>10 DEF ResetJob, RequestState
  <2>2. [NoJob EXCEPT !.status = "queued"] \in JobRow /\ [NoJob EXCEPT !.status = "queued"].status = "queued"
    BY DEF NoJob, JobRow
  <2>3. jobs' \in [Jobs -> JobRow] /\ \A k \in Jobs : Present(k) => jobs'[k].status # "absent"
    BY <1>1, <1>10, <2>1, <2>2 DEF ResetJob, Present
  <2> QED
    BY <1>1, <1>3, <1>10, <2>3, JobsChange DEF ResetJob
<1>11. ASSUME CleanupDead PROVE Kept
  <2>1. [request[Lane] EXCEPT !.pc = "prune"] \in RequestState
    BY <1>1, <1>11 DEF CleanupDead, Unlinked, RequestState, RequestPC
  <2> QED
    BY <1>1, <1>8, <1>11, <2>1, DeleteJobsKeeps DEF CleanupDead
<1>12. ASSUME PruneLost PROVE Kept
  BY <1>1, <1>3, <1>12, DeleteItemsKeeps DEF PruneLost
<1>13. ASSUME NEW c \in Actors, request[c].pc \in {"stub", "move", "row", "rollback"}
       PROVE  /\ request[c].from \in Paths /\ request[c].to \in Paths /\ request[c].item \in Items
              /\ \A pc \in {"move", "row", "rollback"} : [request[c] EXCEPT !.pc = pc] \in RequestState
              /\ Moved(request[c].from, request[c].to) \in [Paths -> Content]
              /\ Moved(request[c].to, request[c].from) \in [Paths -> Content]
  BY <1>1, <1>13 DEF RequestState, RequestPC, Moved
<1>14. ASSUME NEW c \in Actors, RenameStub(c) \/ RenameFile(c) \/ RenameBack(c) PROVE Kept
  <2>1. request[c].pc \in {"stub", "move", "row", "rollback"}
    BY <1>14 DEF RenameStub, RenameFile, RenameBack
  <2>2. disk' \in [Paths -> Content]
    BY <1>1, <1>13, <1>14, <2>1, LaidOut DEF RenameStub, RenameFile, RenameBack
  <2>3. request' \in [Actors -> RequestState]
    BY <1>3, <1>8, <1>13, <1>14, <2>1 DEF RenameStub, RenameFile, RenameBack
  <2> QED
    BY <1>1, <1>14, <2>2, <2>3, SameTables DEF RenameStub, RenameFile, RenameBack
<1>15. ASSUME NEW c \in Actors, RenameRow(c) PROVE Kept
  <2> DEFINE i == request[c].item
  <2>1. request[c].pc = "row" /\ i \in Items /\ request[c].to \in Paths
    BY <1>13, <1>15 DEF RenameRow
  <2>2. request' \in [Actors -> RequestState]
    BY <1>3, <1>8, <1>13, <1>15, <2>1 DEF RenameRow
  <2>3. CASE /\ Known(i) /\ RowsAt(request[c].to) \subseteq {i}
             /\ items' = [items EXCEPT ![i].path = request[c].to]
    <3>1. [items[i] EXCEPT !.path = request[c].to] \in ItemRow
      BY <1>1, <2>1 DEF ItemRow
    <3>2. request[c].to # None
      BY <2>1, NoneIsNothingElse DEF Paths, Directories
    <3>3. /\ items' \in [Items -> ItemRow]
          /\ \A k \in Items : items'[k] = IF k = i THEN [items[i] EXCEPT !.path = request[c].to] ELSE items[k]
          /\ items'[i].path = request[c].to /\ items'[i].job = items[i].job
      BY <1>1, <2>1, <2>3, <3>1 DEF ItemRow
    <3>4. \A k \in Items : items[k].path = request[c].to => k = i
      BY <2>3 DEF RowsAt
    <3>5. jobs' = jobs
      BY <1>15 DEF RenameRow
    <3> HIDE DEF i
    <3>6. Tables'
      BY <1>1, <2>1, <2>3, <3>2, <3>3, <3>4, <3>5 DEF Tables, TablesAreSound, Known, RowsAt, Present
    <3> QED
      BY <1>1, <1>15, <2>2, <3>6 DEF RenameRow
  <2>4. CASE UNCHANGED items
    BY <1>1, <1>15, <2>2, <2>4, SameTables DEF RenameRow
  <2> QED
    BY <1>15, <2>3, <2>4 DEF RenameRow
<1>16. ASSUME Encode \/ Encoded PROVE Kept
  <2>1. /\ request[Lane] \in RequestState /\ request[Lane].to \in Paths /\ request[Lane].job \in Jobs
        /\ request[Lane].from \in Paths
    BY <1>1, <1>16 DEF Encode, Encoded, RequestState
  <2>2. \A pc \in {"encoding", "record"} : [request[Lane] EXCEPT !.pc = pc] \in RequestState
    BY <2>1 DEF RequestState, RequestPC
  <2>3. request' \in [Actors -> RequestState]
    BY <1>1, <1>3, <1>16, <2>2 DEF Encode, Encoded, Goes
  <2>4. disk' \in [Paths -> Content]
    BY <1>1, <1>16, <2>1, LaidOut DEF Encode, Encoded
  <2> QED
    BY <1>1, <1>16, <2>3, <2>4, SameTables DEF Encode, Encoded
<1>17. ASSUME RecordTrack PROVE Kept
  <2>1. request[Lane].to \in Paths /\ request[Lane].job \in Jobs
    BY <1>1, <1>17 DEF RecordTrack, RequestState
  <2>2. jobs' = jobs /\ IF Present(request[Lane].job) THEN Upsert(request[Lane].to, request[Lane].job)
                                                      ELSE items' = items
    BY <1>17 DEF RecordTrack
  <2>3. Tables'
    BY <1>1, <2>1, <2>2, UpsertKeeps, SameTables
  <2> QED
    BY <1>1, <1>3, <1>17, <2>3 DEF RecordTrack
<1> QED
  BY <1>1, <1>4, <1>5, <1>6, <1>7, <1>9, <1>10, <1>11, <1>12, <1>14, <1>15, <1>16, <1>17
     DEF WorkStep, LaneWorks

LEMMA RestartKeeps ==
  ASSUME Sound, Restart
  PROVE  Sound'
<1>1. /\ Tables /\ jobs \in [Jobs -> JobRow] /\ disk \in [Paths -> Content] /\ acts \in Nat /\ boots \in Nat
      /\ AtRest \in LoaderState /\ NoScan \in ScanState /\ NoCheck \in CheckState
  BY DEF Sound, Processes, Tables, AtRest, LoaderState, LoaderPC, NoScan, ScanState, ScanPC,
         NoCheck, CheckState
<1>2. /\ jobs' \in [Jobs -> JobRow] /\ items' = items
      /\ \A k \in Jobs : Present(k) => jobs'[k].status # "absent"
  BY <1>1 DEF Restart, JobRow, Present
<1>3. Tables'
  BY <1>1, <1>2, JobsChange
<1> QED
  BY <1>1, <1>3, Idle DEF Restart, Sound, Processes

LEMMA NextSound == Sound /\ [Next]_vars => Sound'
<1> SUFFICES ASSUME Sound, [Next]_vars PROVE Sound'
  OBVIOUS
<1>1. CASE UNCHANGED vars
  BY <1>1 DEF vars, Sound, Processes, Tables, TablesAreSound, Known, RowsAt, Present
<1>2. CASE Next
  BY <1>2, LoaderKeeps, ScanKeeps, CheckKeeps, BeginKeeps, WorkKeeps, RestartKeeps DEF Next
<1> QED
  BY <1>1, <1>2

(* The state of the library has the shape the code takes for granted, and  *)
(* whoever is between two steps holds the row, the path and the job it     *)
(* will use next.                                                          *)
THEOREM LibraryTypeCorrect == Spec => []LibraryTypeOK
<1>1. Sound => LibraryTypeOK
  BY SoundIsTyped
<1> QED
  BY <1>1, InitSound, NextSound, PTL DEF Spec

(* However requests, operations, workers, scans, checks and crashes        *)
(* interleave, a path has one row and a row has its job: the upsert of     *)
(* Items.Create, the refusal in RenameItem and the cascade of a deletion   *)
(* keep the schema between every two statements.                           *)
THEOREM TablesAlwaysSound == Spec => []TablesAreSound
<1>1. Sound => TablesAreSound
  BY SoundIsTyped
<1> QED
  BY <1>1, InitSound, NextSound, PTL DEF Spec

-----------------------------------------------------------------------------
(* The names in flight.                                                    *)

(* A step of a worker adds the path it holds, keeps it, or takes it back;  *)
(* nobody else touches the set or the workers.                             *)
LEMMA AnnouncedKeeps ==
  ASSUME Sound, AnnouncedPathsAreHeld, [Next]_vars
  PROVE  AnnouncedPathsAreHeld'
<1>1. loader \in [Loaders -> LoaderState]
  BY DEF Sound, Processes
<1>2. ASSUME NEW l \in Loaders, LoaderStep(l) PROVE AnnouncedPathsAreHeld'
  <2> DEFINE Holds(m) == m.pc \in {"move", "stat", "record", "forget"}
  <2>1. \A k \in Loaders : k # l => loader'[k] = loader[k]
    BY <1>1, <1>2 DEF LoaderStep, Claim, Reserve, Announce, MoveFile, MoveFails, StatFile, RecordFile,
                      Forget, Verdict, LoaderMoves
  <2>2. CASE /\ inFlight' = inFlight
             /\ Holds(loader[l]) => Holds(loader'[l]) /\ loader'[l].path = loader[l].path
    BY <2>1, <2>2 DEF AnnouncedPathsAreHeld
  <2>3. CASE Announce(l)
    <3>1. loader'[l].pc = "move" /\ loader'[l].path = loader[l].path /\ loader[l].pc = "announce"
          /\ inFlight' = inFlight \cup {loader[l].path}
      BY <1>1, <2>3 DEF Announce, LoaderMoves, LoaderState
    <3> QED
      BY <2>1, <3>1 DEF AnnouncedPathsAreHeld
  <2>4. CASE Forget(l)
    <3> SUFFICES ASSUME NEW p \in inFlight'
                 PROVE  \E k \in Loaders : loader'[k].path = p /\ Holds(loader'[k])
      BY DEF AnnouncedPathsAreHeld
    <3>1. p \in inFlight /\ p # loader[l].path
      BY <2>4 DEF Forget
    <3>2. PICK k \in Loaders : loader[k].path = p /\ Holds(loader[k])
      BY <3>1 DEF AnnouncedPathsAreHeld
    <3> QED
      BY <2>1, <3>1, <3>2
  <2>5. CASE Claim(l) \/ Reserve(l) \/ Verdict(l)
    <3>1. inFlight' = inFlight /\ ~Holds(loader[l])
      BY <2>5 DEF Claim, Reserve, Verdict
    <3> QED
      BY <2>2, <3>1
  <2>6. CASE MoveFile(l) \/ MoveFails(l) \/ StatFile(l) \/ RecordFile(l)
    <3>1. inFlight' = inFlight /\ Holds(loader'[l]) /\ loader'[l].path = loader[l].path
      BY <1>1, <2>6 DEF MoveFile, MoveFails, StatFile, RecordFile, LoaderMoves, LoaderState
    <3> QED
      BY <2>2, <3>1
  <2> QED
    BY <1>2, <2>3, <2>4, <2>5, <2>6 DEF LoaderStep
<1>3. CASE Restart
  BY <1>3 DEF Restart, AnnouncedPathsAreHeld
<1>4. CASE UNCHANGED <<loader, inFlight>>
  BY <1>4 DEF AnnouncedPathsAreHeld
<1>5. ScanStep => UNCHANGED <<loader, inFlight>>
  BY DEF ScanStep, ScanStart, ScanList, ScanLook, ScanRestore, ScanImportJob, ScanImportItem
<1>6. \A c \in Checkers : CheckStep(c) => UNCHANGED <<loader, inFlight>>
  BY DEF CheckStep, CheckStart, CheckLook, CheckMark
<1>7. \A c \in Clients : BeginStep(c) => UNCHANGED <<loader, inFlight>>
  BY DEF BeginStep, SetHidden, Retry, BeginDelete, BeginPurge, BeginRedownload, BeginRename
<1>8. \A c \in Clients : WorkStep(c) => UNCHANGED <<loader, inFlight>>
  BY DEF WorkStep, ListFiles, Unlink, SoftDelete, PurgeRow, DropItems, ResetJob,
         RenameStub, RenameFile, RenameRow, RenameBack
<1>9. LaneBegins \/ LaneWorks \/ PutFile \/ TakeFile => UNCHANGED <<loader, inFlight>>
  BY DEF LaneBegins, BeginCleanup, BeginExtract, LaneWorks, Unlink, CleanupDead, PruneLost,
         Encode, Encoded, RecordTrack, PutFile, TakeFile
<1>10. UNCHANGED vars => UNCHANGED <<loader, inFlight>>
  BY DEF vars
<1> QED
  BY <1>2, <1>3, <1>4, <1>5, <1>6, <1>7, <1>8, <1>9, <1>10 DEF Next

(* A path in InFlightPaths belongs to a worker that is about to take it    *)
(* out: on every way through the event loop of process, and however many   *)
(* workers there are, no path stays announced for good.                    *)
THEOREM AnnouncedAlwaysHeld == Spec => []AnnouncedPathsAreHeld
<1>1. Init => AnnouncedPathsAreHeld
  BY DEF Init, AnnouncedPathsAreHeld
<1> QED
  BY <1>1, InitSound, NextSound, AnnouncedKeeps, PTL DEF Spec

-----------------------------------------------------------------------------
(* Namesakes.                                                              *)

(* The requests that neither move nor delete nor write files themselves.   *)
Harmless == Requests \subseteq {"hide", "retry", "put", "take"}

(* Where a worker is about to put its file lies what it created there, and *)
(* no two workers have one name.                                           *)
Naming(l) == loader[l].pc \in {"announce", "move"}
NamesAreTaken ==
    /\ Harmless
    /\ \A a \in Actors : request[a].pc = "idle"
    /\ \A l \in Loaders : Naming(l) => disk[loader[l].path] = Part
    /\ \A k, l \in Loaders : Naming(k) /\ Naming(l) /\ loader[k].path = loader[l].path => k = l

(* What a step may do to the disk.                                         *)
Spares == \A p \in Paths : disk[p] \in Media => disk'[p] \in {disk[p], Nothing}

LEMMA Kinds == Part \notin Media /\ Nothing \notin Media /\ Part # Nothing /\ Foreign # Part
BY LibraryConstants DEF Media

(* A worker creates a file where there was none, replaces the one it has   *)
(* created, or takes it away.                                              *)
LEMMA LoaderSpares ==
  ASSUME Sound, NamesAreTaken, NEW l \in Loaders, LoaderStep(l)
  PROVE  NamesAreTaken' /\ Spares
<1>1. /\ loader \in [Loaders -> LoaderState] /\ disk \in [Paths -> Content] /\ loader[l] \in LoaderState
      /\ request' = request /\ Harmless'
      /\ Naming(l) => loader[l].path \in Paths /\ disk[loader[l].path] = Part
      /\ \A k \in Loaders : Naming(k) => loader[k].path \in Paths
  BY DEF Sound, Processes, NamesAreTaken, Harmless, Naming, LoaderState, LoaderStep, Claim, Reserve,
         Announce, MoveFile, MoveFails, StatFile, RecordFile, Forget, Verdict
<1>2. \A k \in Loaders : k # l => loader'[k] = loader[k]
  BY <1>1 DEF LoaderStep, Claim, Reserve, Announce, MoveFile, MoveFails, StatFile, RecordFile,
              Forget, Verdict, LoaderMoves
<1>3. CASE Reserve(l)
  <2>1. PICK p \in Videos : disk[p] = Nothing /\ Lay(p, Part)
                              /\ loader' = [loader EXCEPT ![l].pc = "announce", ![l].path = p]
    BY <1>3 DEF Reserve, CanCreate
  <2>2. p \in Paths /\ loader'[l].pc = "announce" /\ loader'[l].path = p
    BY <1>1, <2>1 DEF Videos, Paths, Directories, LoaderState
  <2>3. disk'[p] = Part /\ \A q \in Paths : q # p => disk'[q] = disk[q]
    BY <1>1, <2>1, <2>2 DEF Lay
  <2>4. \A k \in Loaders : k # l /\ Naming(k) => loader[k].path # p
    BY <1>1, <2>1, Kinds DEF NamesAreTaken
  <2>5. Spares
    BY <2>1, <2>3, Kinds DEF Spares
  <2>6. \A k \in Loaders : Naming(k)' => disk'[loader'[k].path] = Part
    BY <1>1, <1>2, <2>2, <2>3, <2>4 DEF NamesAreTaken, Naming
  <2>7. \A j, k \in Loaders : Naming(j)' /\ Naming(k)' /\ loader'[j].path = loader'[k].path => j = k
    BY <1>2, <2>2, <2>4 DEF NamesAreTaken, Naming
  <2> QED
    BY <1>1, <2>5, <2>6, <2>7 DEF NamesAreTaken
<1>4. CASE Announce(l)
  <2>1. loader'[l].path = loader[l].path /\ Naming(l) /\ disk' = disk
    BY <1>1, <1>4 DEF Announce, LoaderMoves, LoaderState, Naming
  <2>2. \A k \in Loaders : loader'[k].path = loader[k].path /\ (Naming(k)' => Naming(k))
    BY <1>2, <2>1 DEF Naming
  <2> QED
    BY <1>1, <2>1, <2>2 DEF NamesAreTaken, Spares
<1>5. CASE MoveFile(l) \/ MoveFails(l)
  <2>1. /\ Naming(l) /\ ~Naming(l)'
        /\ \A q \in Paths : q # loader[l].path => disk'[q] = disk[q]
    BY <1>1, <1>5 DEF MoveFile, MoveFails, LoaderMoves, LoaderState, Naming, Lay
  <2>2. Spares
    BY <1>1, <2>1, Kinds DEF Spares
  <2>3. \A k \in Loaders : Naming(k)' => /\ Naming(k) /\ loader'[k].path = loader[k].path /\ k # l
                                         /\ loader[k].path # loader[l].path
    BY <1>2, <2>1 DEF Naming, NamesAreTaken
  <2> QED
    BY <1>1, <2>1, <2>2, <2>3 DEF NamesAreTaken
<1>6. CASE Claim(l) \/ StatFile(l) \/ RecordFile(l) \/ Forget(l) \/ Verdict(l)
  <2>1. disk' = disk /\ ~Naming(l)'
    <3>1. CASE Claim(l) \/ Verdict(l)
      <4>1. PICK m : loader' = [loader EXCEPT ![l] = m] /\ m.pc \in {"fetch", "idle"}
        BY <3>1 DEF Claim, Verdict, AtRest
      <4> QED
        BY <1>1, <3>1, <4>1 DEF Claim, Verdict, Naming
    <3>2. CASE StatFile(l) \/ RecordFile(l) \/ Forget(l)
      BY <1>1, <3>2 DEF StatFile, RecordFile, Forget, LoaderMoves, LoaderState, Naming
    <3> QED
      BY <1>6, <3>1, <3>2
  <2>2. \A k \in Loaders : Naming(k)' => Naming(k) /\ loader'[k].path = loader[k].path
    BY <1>2, <2>1 DEF Naming
  <2> QED
    BY <1>1, <2>1, <2>2 DEF NamesAreTaken, Spares
<1> QED
  BY <1>3, <1>4, <1>5, <1>6 DEF LoaderStep

LEMMA NextSpares ==
  ASSUME Sound, NamesAreTaken, [Next]_vars
  PROVE  NamesAreTaken' /\ Spares
<1>1. CASE UNCHANGED <<disk, loader, request>>
  BY <1>1 DEF NamesAreTaken, Harmless, Naming, Spares
<1>2. CASE \E l \in Loaders : LoaderStep(l)
  BY <1>2, LoaderSpares
<1>3. CASE ScanStep \/ \E c \in Checkers : CheckStep(c)
  BY <1>1, <1>3 DEF ScanStep, ScanStart, ScanList, ScanLook, ScanRestore, ScanImportJob, ScanImportItem,
                    CheckStep, CheckStart, CheckLook, CheckMark
<1>4. ASSUME NEW c \in Clients, BeginStep(c) \/ WorkStep(c) PROVE NamesAreTaken' /\ Spares
  <2>1. request[c].pc = "idle"
    BY DEF NamesAreTaken, Actors
  <2>2. SetHidden(c) \/ Retry(c)
    BY <1>4, <2>1 DEF BeginStep, WorkStep, BeginDelete, BeginPurge, BeginRedownload, BeginRename, Begin,
                      ListFiles, Unlink, SoftDelete, PurgeRow, DropItems, ResetJob, Unlinked,
                      RenameStub, RenameFile, RenameRow, RenameBack, NamesAreTaken, Harmless
  <2> QED
    BY <1>1, <2>2 DEF SetHidden, Retry
<1>5. ~LaneBegins /\ ~LaneWorks
  <2>1. request[Lane].pc = "idle"
    BY DEF NamesAreTaken, Actors
  <2> QED
    BY <2>1 DEF LaneBegins, LaneWorks, BeginCleanup, BeginExtract, Begin, Unlink, CleanupDead, PruneLost,
                Unlinked, Encode, Encoded, RecordTrack, NamesAreTaken, Harmless
<1>6. CASE PutFile \/ TakeFile
  <2>1. PICK p \in Paths : /\ \/ disk[p] = Nothing /\ Lay(p, Foreign)
                              \/ disk[p] \in Media /\ Lay(p, Nothing)
                           /\ UNCHANGED <<loader, request>>
    BY <1>6 DEF PutFile, TakeFile
  <2>2. \A q \in Paths : q # p => disk'[q] = disk[q]
    BY <2>1 DEF Sound, Processes, Lay
  <2>3. Spares
    BY <2>1, <2>2, Kinds DEF Spares, Sound, Processes, Lay
  <2>4. \A l \in Loaders : Naming(l) => loader[l].path \in Paths /\ loader[l].path # p
    BY <2>1, Kinds DEF Sound, Processes, LoaderState, Naming, NamesAreTaken
  <2> QED
    BY <2>1, <2>2, <2>3, <2>4 DEF NamesAreTaken, Harmless, Naming
<1>7. CASE Restart
  <2>1. /\ disk' = disk /\ \A l \in Loaders : ~Naming(l)'
        /\ \A a \in Actors : request'[a].pc = "idle"
    BY <1>7 DEF Restart, Naming, AtRest, NoRequest
  <2> QED
    BY <2>1 DEF NamesAreTaken, Harmless, Spares
<1>8. CASE UNCHANGED vars
  BY <1>1, <1>8 DEF vars
<1> QED
  BY <1>2, <1>3, <1>4, <1>5, <1>6, <1>7, <1>8 DEF Next

(* A download never replaces a file that lies under its name, whichever    *)
(* titles the downloads of any number of workers have and whatever the     *)
(* user and the scanner do meanwhile: reserveFreePath creates the name     *)
(* with O_EXCL, and nobody else touches it before the move.                *)
THEOREM NamesakesAlwaysSurvive ==
  ASSUME Requests \subseteq {"hide", "retry", "put", "take"}
  PROVE  Spec => NamesakesSurvive
<1>1. Init => NamesAreTaken
  BY DEF Init, NamesAreTaken, Harmless, Naming, AtRest, NoRequest
<1>2. Sound /\ NamesAreTaken /\ [Next]_vars => NamesAreTaken' /\ [Spares]_vars
  BY NextSpares
<1>3. NamesakesSurvive <=> [][Spares]_vars
  BY PTL DEF NamesakesSurvive, Spares
<1> QED
  BY <1>1, <1>2, <1>3, InitSound, NextSound, PTL DEF Spec

-----------------------------------------------------------------------------
(* Empty files.  A renaming takes its new name the way a worker does, and  *)
(* an extraction may leave what ffmpeg wrote; without them only workers    *)
(* lay empty files, and a process that has not ended yet clears its own.   *)
NoRenaming ==
    \A a \in Actors :
        request[a].pc \notin {"stub", "move", "row", "rollback", "encode", "encoding", "record"}

(* Requests work on rows, or take files away.                              *)
LEMMA RequestsLayNothing ==
  ASSUME Sound, NoRenaming, Requests \cap {"rename", "extract"} = {},
         \/ \E c \in Clients : BeginStep(c) \/ WorkStep(c)
         \/ LaneBegins \/ LaneWorks
  PROVE  NoRenaming' /\ \A p \in Paths : disk'[p] \in {disk[p], Nothing}
<1>1. request \in [Actors -> RequestState] /\ disk \in [Paths -> Content]
  BY DEF Sound, Processes
<1>2. ASSUME NEW a \in Actors, NEW m, request' = [request EXCEPT ![a] = m],
             m.pc \in {"idle", "list", "unlink", "reset", "prune"}
      PROVE  NoRenaming'
  BY <1>1, <1>2 DEF NoRenaming
<1>3. ASSUME NEW a \in Actors, NEW op, NEW r, Begin(a, op, r),
             [r EXCEPT !.op = op].pc \in {"list", "unlink"}
      PROVE  NoRenaming'
  BY <1>2, <1>3 DEF Begin
<1>4. Lane \in Actors /\ Clients \subseteq Actors
  BY DEF Actors
<1>5. ASSUME NEW c \in Clients, BeginStep(c) PROVE NoRenaming' /\ disk' = disk
  <2>1. ~BeginRename(c)
    BY DEF BeginRename, Begin
  <2>2. CASE SetHidden(c) \/ Retry(c)
    BY <2>2 DEF SetHidden, Retry, NoRenaming
  <2>3. CASE BeginDelete(c)
    <3>1. PICK i \in Items :
            Begin(c, "delete", [NoRequest EXCEPT !.pc = "unlink", !.item = i,
                                                 !.todo = {items[i].path}])
      BY <2>3 DEF BeginDelete
    <3>2. [[NoRequest EXCEPT !.pc = "unlink", !.item = i, !.todo = {items[i].path}]
              EXCEPT !.op = "delete"].pc = "unlink"
      BY DEF NoRequest
    <3> QED
      BY <1>4, <1>3, <2>3, <3>1, <3>2 DEF BeginDelete
  <2>4. CASE BeginPurge(c) \/ BeginRedownload(c)
    <3>1. PICK j \in Jobs, op \in {"purge", "redownload"} :
            Begin(c, op, [NoRequest EXCEPT !.pc = "list", !.job = j])
      BY <2>4 DEF BeginPurge, BeginRedownload
    <3>2. [[NoRequest EXCEPT !.pc = "list", !.job = j] EXCEPT !.op = op].pc = "list"
      BY DEF NoRequest
    <3> QED
      BY <1>4, <1>3, <2>4, <3>1, <3>2 DEF BeginPurge, BeginRedownload
  <2> QED
    BY <1>5, <2>1, <2>2, <2>3, <2>4 DEF BeginStep
<1>6. ASSUME NEW a \in Actors, Unlink(a)
      PROVE  NoRenaming' /\ \A p \in Paths : disk'[p] \in {disk[p], Nothing}
  <2>1. \A b \in Actors : request'[b].pc = request[b].pc
    BY <1>1, <1>6 DEF Unlink, RequestState
  <2> QED
    BY <1>1, <1>6, <2>1 DEF Unlink, Lay, NoRenaming
<1>7. ASSUME NEW c \in Clients, WorkStep(c), ~Unlink(c) PROVE NoRenaming' /\ disk' = disk
  <2>1. request[c] \in RequestState
    BY <1>1, <1>4
  <2>2. ListFiles(c) \/ SoftDelete(c) \/ PurgeRow(c) \/ DropItems(c) \/ ResetJob(c)
    BY <1>4, <1>7 DEF WorkStep, RenameStub, RenameFile, RenameRow, RenameBack, NoRenaming
  <2>3. \A b \in Actors : b # c => request'[b] = request[b]
    BY <1>1, <2>2 DEF ListFiles, SoftDelete, PurgeRow, DropItems, ResetJob, Ends, Goes
  <2>4. request'[c].pc \in {"unlink", "idle", "reset"}
    BY <1>1, <1>4, <2>1, <2>2
       DEF ListFiles, SoftDelete, PurgeRow, DropItems, ResetJob, Ends, Goes, NoRequest,
           RequestState
  <2> QED
    BY <1>4, <2>2, <2>3, <2>4
       DEF ListFiles, SoftDelete, PurgeRow, DropItems, ResetJob, NoRenaming
<1>8. ASSUME LaneBegins PROVE NoRenaming' /\ disk' = disk
  <2>1. BeginCleanup
    BY <1>8 DEF LaneBegins, BeginExtract, Begin
  <2> DEFINE paths == {items[i].path : i \in {k \in Items : Known(k) /\ Dead(items[k].job)}}
  <2>2. Begin(Lane, "cleanup", [NoRequest EXCEPT !.pc = "unlink", !.todo = paths])
    BY <2>1 DEF BeginCleanup
  <2>3. [[NoRequest EXCEPT !.pc = "unlink", !.todo = paths] EXCEPT !.op = "cleanup"].pc = "unlink"
    BY DEF NoRequest
  <2> QED
    BY <1>4, <1>3, <2>1, <2>2, <2>3 DEF BeginCleanup
<1>9. ASSUME LaneWorks, ~Unlink(Lane) PROVE NoRenaming' /\ disk' = disk
  <2>1. CleanupDead \/ PruneLost
    BY <1>4, <1>9 DEF LaneWorks, Encode, Encoded, RecordTrack, NoRenaming
  <2>2. PICK m : request' = [request EXCEPT ![Lane] = m] /\ m.pc \in {"prune", "idle"}
    <3>1. [request[Lane] EXCEPT !.pc = "prune"].pc = "prune"
      BY <1>1, <1>4 DEF RequestState
    <3> QED
      BY <2>1, <3>1 DEF CleanupDead, PruneLost, Ends, Goes, NoRequest
  <2> QED
    BY <1>2, <1>4, <2>1, <2>2 DEF CleanupDead, PruneLost
<1> QED
  BY <1>4, <1>5, <1>6, <1>7, <1>8, <1>9

LEMMA PartsKeepMakers ==
  ASSUME Sound, NoRenaming, PartsHaveMakers, Requests \cap {"rename", "extract"} = {}, Next
  PROVE  NoRenaming' /\ PartsHaveMakers'
<1>1. /\ loader \in [Loaders -> LoaderState] /\ disk \in [Paths -> Content] /\ boots \in Nat
      /\ request \in [Actors -> RequestState]
  BY DEF Sound, Processes
<1>2. ASSUME UNCHANGED <<request, loader, boots>>,
             \A p \in Paths : disk'[p] \in {disk[p], Nothing, Foreign}
      PROVE  NoRenaming' /\ PartsHaveMakers'
  BY <1>2, Kinds DEF NoRenaming, PartsHaveMakers
<1>3. ASSUME NEW l \in Loaders, LoaderStep(l) PROVE NoRenaming' /\ PartsHaveMakers'
  <2>1. UNCHANGED <<request, boots>>
    BY <1>3 DEF LoaderStep, Claim, Reserve, Announce, MoveFile, MoveFails, StatFile, RecordFile,
                Forget, Verdict
  <2>2. \A k \in Loaders : k # l => loader'[k] = loader[k]
    BY <1>1, <1>3 DEF LoaderStep, Claim, Reserve, Announce, MoveFile, MoveFails, StatFile,
                      RecordFile, Forget, Verdict, LoaderMoves
  <2>3. loader[l] \in LoaderState /\ Videos \subseteq Paths
    BY <1>1 DEF Videos, Paths, Directories
  <2>4. ASSUME NEW p \in Paths, disk'[p] = Part
        PROVE  \/ Naming(l)' /\ loader'[l].path = p
               \/ disk[p] = Part /\ (Naming(l) => loader[l].path # p)
    <3>1. CASE Reserve(l)
      <4>1. PICK q \in Videos : /\ Lay(q, Part)
                                /\ loader' = [loader EXCEPT ![l].pc = "announce", ![l].path = q]
        BY <3>1 DEF Reserve
      <4>2. loader'[l].pc = "announce" /\ loader'[l].path = q
        BY <1>1, <2>3, <4>1 DEF LoaderState
      <4>3. q = p \/ disk[p] = Part
        BY <1>1, <2>3, <2>4, <4>1 DEF Lay
      <4> QED
        BY <3>1, <4>2, <4>3 DEF Reserve, Naming
    <3>2. CASE Announce(l)
      BY <1>1, <2>3, <2>4, <3>2 DEF Announce, LoaderMoves, LoaderState, Naming
    <3>3. CASE MoveFile(l) \/ MoveFails(l)
      <4>1. loader[l].path \in Paths /\ loader[l].job \in Jobs
        BY <2>3, <3>3 DEF MoveFile, MoveFails, LoaderState
      <4>2. disk'[loader[l].path] # Part /\ \A q \in Paths : q # loader[l].path => disk'[q] = disk[q]
        BY <1>1, <3>3, <4>1, Kinds DEF MoveFile, MoveFails, Lay, Media
      <4> QED
        BY <2>4, <4>2
    <3>4. CASE Claim(l) \/ StatFile(l) \/ RecordFile(l) \/ Forget(l) \/ Verdict(l)
      BY <2>4, <3>4 DEF Claim, StatFile, RecordFile, Forget, Verdict, Naming
    <3> QED
      BY <1>3, <3>1, <3>2, <3>3, <3>4 DEF LoaderStep
  <2> QED
    BY <2>1, <2>2, <2>4 DEF NoRenaming, PartsHaveMakers, Naming
<1>4. CASE \/ \E c \in Clients : BeginStep(c) \/ WorkStep(c)
           \/ LaneBegins \/ LaneWorks
  <2>1. NoRenaming' /\ \A p \in Paths : disk'[p] \in {disk[p], Nothing}
    BY <1>4, RequestsLayNothing
  <2>2. UNCHANGED <<loader, boots>>
    BY <1>4 DEF BeginStep, SetHidden, Retry, BeginDelete, BeginPurge, BeginRedownload, BeginRename,
                WorkStep, ListFiles, Unlink, SoftDelete, PurgeRow, DropItems, ResetJob, RenameStub,
                RenameFile, RenameRow, RenameBack, LaneBegins, BeginCleanup, BeginExtract,
                LaneWorks, CleanupDead, PruneLost, Encode, Encoded, RecordTrack
  <2> QED
    BY <2>1, <2>2, Kinds DEF PartsHaveMakers
<1>5. CASE ScanStep \/ \E c \in Checkers : CheckStep(c)
  BY <1>2, <1>5 DEF ScanStep, ScanStart, ScanList, ScanLook, ScanRestore, ScanImportJob,
                    ScanImportItem, CheckStep, CheckStart, CheckLook, CheckMark
<1>6. CASE PutFile \/ TakeFile
  <2>1. \A p \in Paths : disk'[p] \in {disk[p], Nothing, Foreign}
    BY <1>1, <1>6 DEF PutFile, TakeFile, Lay
  <2> QED
    BY <1>2, <1>6, <2>1 DEF PutFile, TakeFile
<1>7. CASE Restart
  <2>1. boots' # 0
    BY <1>1, <1>7 DEF Restart
  <2> QED
    BY <1>7, <2>1 DEF Restart, NoRenaming, NoRequest, PartsHaveMakers
<1> QED
  BY <1>3, <1>4, <1>5, <1>6, <1>7 DEF Next

(* Until a first crash every empty file is a name that some worker holds   *)
(* and is about to use: on every way out of process a failed move takes    *)
(* its reservation back, whatever users and the scanner delete or put      *)
(* there meanwhile (reserveFreePath and the clean-up after moveFile).      *)
THEOREM PartsAlwaysHaveMakers ==
  ASSUME Requests \cap {"rename", "extract"} = {}
  PROVE  Spec => []PartsHaveMakers
<1>1. Init => NoRenaming /\ PartsHaveMakers
  <2> SUFFICES ASSUME Init PROVE NoRenaming /\ PartsHaveMakers
    OBVIOUS
  <2>1. \A p \in Paths : disk[p] # Part
    BY FirstIds, LibraryConstants DEF Init, Owners, Paths
  <2> QED
    BY <2>1 DEF Init, NoRenaming, NoRequest, PartsHaveMakers
<1>2. Sound /\ (NoRenaming /\ PartsHaveMakers) /\ [Next]_vars => (NoRenaming /\ PartsHaveMakers)'
  <2>1. ASSUME NoRenaming /\ PartsHaveMakers, UNCHANGED vars
        PROVE  (NoRenaming /\ PartsHaveMakers)'
    BY <2>1 DEF NoRenaming, PartsHaveMakers, vars
  <2> QED
    BY <2>1, PartsKeepMakers
<1> QED
  BY <1>1, <1>2, InitSound, NextSound, PTL DEF Spec
=============================================================================
