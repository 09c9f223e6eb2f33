------------------------------- MODULE Labels -------------------------------
(***************************************************************************)
(* Tags and collections of jobs (internal/repo/tag.go, collection.go) and  *)
(* their users: requests (internal/library/service.go), the bulk and       *)
(* reindex operations (internal/ops/worker.go) and the expander, which     *)
(* tags the jobs of a playlist (internal/playlist/expander.go).  A         *)
(* collection is a row of its own and the tag of the same name.            *)
(*                                                                         *)
(* A step is one SQL statement outside a transaction, or one transaction.  *)
(* The foreign keys cascade.                                               *)
(***************************************************************************)
EXTENDS FiniteSets

CONSTANTS Jobs, Tags, Names, Collections,   \* ids of jobs, tags and collections; names
          Clients,      \* requests, operations and expansions under way (bound)
          Requests,     \* the kinds of them that occur
          Unnamed       \* the name of an id that has no row

LabelConstants == Unnamed \notin Names

VARIABLES
    alive,      \* the jobs that have a row
    tag,        \* the table tags
    tagged,     \* the table job_tags
    coll,       \* the names in the table collections
    client      \* a task in progress

vars == <<alive, tag, tagged, coll, client>>

NoTag    == [name |-> Unnamed, kind |-> "plain"]
TaskKind == {"none", "tag", "playlist", "untag", "prune"}
TaskPC   == {"idle", "insert", "select", "create", "attach", "unlink", "drop",
             "links", "plain", "rows"}

(* jobs: the jobs to be tagged or untagged; for an expansion, the one just *)
(* created.  id: the tag that was selected, if there is one.               *)
TaskState == [pc : TaskPC, kind : TaskKind, name : Names \cup {Unnamed}, jobs : SUBSET Jobs,
              id : SUBSET Tags]
NoTask    == [pc |-> "idle", kind |-> "none", name |-> Unnamed, jobs |-> {}, id |-> {}]

LabelsTypeOK ==
    /\ alive \subseteq Jobs
    /\ tag \in [Tags -> [name : Names \cup {Unnamed}, kind : {"plain", "collection"}]]
    /\ tagged \subseteq Jobs \X Tags
    /\ coll \in [Collections -> Names \cup {Unnamed}]
    /\ client \in [Clients -> TaskState]

Init ==
    /\ alive \in SUBSET Jobs
    /\ tag = [t \in Tags |-> NoTag]
    /\ tagged = {}
    /\ coll = [c \in Collections |-> Unnamed]
    /\ client = [c \in Clients |-> NoTask]

Named(n)    == {t \in Tags : tag[t].name = n}
Used        == {t \in Tags : \E j \in Jobs : <<j, t>> \in tagged}
(* A uuid nobody has met.                                                  *)
Fresh       == {t \in Tags : tag[t] = NoTag /\ \A c \in Clients : t \notin client[c].id}
(* Rows of tags go, and with them their job_tags.                          *)
DropTags(T) == /\ tag' = [t \in Tags |-> IF t \in T THEN NoTag ELSE tag[t]]
               /\ tagged' = {p \in tagged : p[2] \notin T}

Set(c, task) == client' = [client EXCEPT ![c] = task]

-----------------------------------------------------------------------------
(* Tasks begin.                                                            *)

(* AddTag, execBulkTag, and extractOne with its own tag.                   *)
AddTag(c) ==
    /\ client[c].pc = "idle"
    /\ "tag" \in Requests
    /\ \E n \in Names, J \in (SUBSET Jobs) \ {{}} :
          Set(c, [NoTask EXCEPT !.pc = "insert", !.kind = "tag", !.name = n, !.jobs = J])
    /\ UNCHANGED <<alive, tag, tagged, coll>>

(* CreateJobs of the expander, for a playlist with a title.                *)
Expand(c) ==
    /\ client[c].pc = "idle"
    /\ "playlist" \in Requests
    /\ \E n \in Names :
          Set(c, [NoTask EXCEPT !.pc = "insert", !.kind = "playlist", !.name = n])
    /\ UNCHANGED <<alive, tag, tagged, coll>>

RemoveTag(c) ==
    /\ client[c].pc = "idle"
    /\ "untag" \in Requests
    /\ \E n \in Names, j \in Jobs :
          Set(c, [NoTask EXCEPT !.pc = "unlink", !.kind = "untag", !.name = n, !.jobs = {j}])
    /\ UNCHANGED <<alive, tag, tagged, coll>>

(* execReindex.                                                            *)
Prune(c) ==
    /\ client[c].pc = "idle"
    /\ "prune" \in Requests
    /\ Set(c, [NoTask EXCEPT !.pc = "links", !.kind = "prune"])
    /\ UNCHANGED <<alive, tag, tagged, coll>>

-----------------------------------------------------------------------------
(* Upsert of a tag, in two statements, and the attachment by id.           *)

InsertTag(c) ==
    /\ client[c].pc = "insert"
    /\ IF Named(client[c].name) # {} THEN UNCHANGED tag
       ELSE \E t \in Fresh : tag' = [tag EXCEPT ![t] = [name |-> client[c].name,
                                                        kind |-> "plain"]]
    /\ Set(c, [client[c] EXCEPT !.pc = "select"])
    /\ UNCHANGED <<alive, tagged, coll>>

(* Without a row the request fails; an expansion goes on without a tag.    *)
SelectTag(c) ==
    /\ client[c].pc = "select"
    /\ LET found == Named(client[c].name)
           task  == [client[c] EXCEPT !.id = found]
       IN  CASE task.kind = "playlist" -> Set(c, [task EXCEPT !.pc = "create"])
             [] task.kind = "tag" /\ found # {} -> Set(c, [task EXCEPT !.pc = "attach"])
             [] OTHER -> Set(c, NoTask)
    /\ UNCHANGED <<alive, tag, tagged, coll>>

(* AddToJob, BulkAddToJobs: one INSERT, refused by the foreign keys when   *)
(* the tag or any of the jobs has gone.                                    *)
Attach(c) ==
    /\ client[c].pc = "attach"
    /\ tagged' = IF client[c].jobs \subseteq alive /\ \A t \in client[c].id : tag[t] # NoTag
                 THEN tagged \cup (client[c].jobs \X client[c].id) ELSE tagged
    /\ Set(c, IF client[c].kind = "playlist" THEN [client[c] EXCEPT !.pc = "create", !.jobs = {}]
              ELSE NoTask)
    /\ UNCHANGED <<alive, tag, coll>>

(* The next entry of the playlist becomes a job and is tagged if there is  *)
(* a tag; the error of that is ignored.                                    *)
CreateJob(c) ==
    /\ client[c].pc = "create"
    /\ \E j \in Jobs \ alive :
          /\ alive' = alive \cup {j}
          /\ Set(c, IF client[c].id = {} THEN client[c]
                    ELSE [client[c] EXCEPT !.jobs = {j}, !.pc = "attach"])
    /\ UNCHANGED <<tag, tagged, coll>>

EndExpand(c) ==
    /\ client[c].pc = "create"
    /\ Set(c, NoTask)
    /\ UNCHANGED <<alive, tag, tagged, coll>>

-----------------------------------------------------------------------------
(* RemoveFromJob and PruneOrphans.                                         *)

Unlink(c) ==
    /\ client[c].pc = "unlink"
    /\ tagged' = tagged \ (client[c].jobs \X Named(client[c].name))
    /\ Set(c, [client[c] EXCEPT !.pc = "drop"])
    /\ UNCHANGED <<alive, tag, coll>>

(* The tag itself goes with its last job, unless it is a collection's.     *)
DropUnused(c) ==
    /\ client[c].pc = "drop"
    /\ DropTags({t \in Named(client[c].name) : tag[t].kind = "plain"} \ Used)
    /\ Set(c, NoTask)
    /\ UNCHANGED <<alive, coll>>

PruneLinks(c) ==
    /\ client[c].pc = "links"
    /\ tagged' = {p \in tagged : p[1] \in alive}
    /\ Set(c, [client[c] EXCEPT !.pc = "plain"])
    /\ UNCHANGED <<alive, tag, coll>>

PrunePlain(c) ==
    /\ client[c].pc = "plain"
    /\ DropTags({t \in Tags : tag[t].kind = "plain"} \ Used)
    /\ Set(c, [client[c] EXCEPT !.pc = "rows"])
    /\ UNCHANGED <<alive, coll>>

(* Tags of collections without a row; collections themselves are kept.     *)
PruneRows(c) ==
    /\ client[c].pc = "rows"
    /\ DropTags({t \in Tags : tag[t].kind = "collection"
                              /\ \A k \in Collections : coll[k] # tag[t].name})
    /\ Set(c, NoTask)
    /\ UNCHANGED <<alive, coll>>

-----------------------------------------------------------------------------
(* Collections: each of these is one transaction.  Jobs are deleted by     *)
(* PurgeJob and the cleanup.                                               *)

CreateCollection(k) ==
    /\ "collection" \in Requests
    /\ coll[k] = Unnamed
    /\ \E n \in Names : /\ \A l \in Collections : coll[l] # n
                        /\ coll' = [coll EXCEPT ![k] = n]
    /\ UNCHANGED <<alive, tag, tagged, client>>

(* The tag goes whatever its kind.                                         *)
DeleteCollection(k) ==
    /\ coll[k] # Unnamed
    /\ DropTags(Named(coll[k]))
    /\ coll' = [coll EXCEPT ![k] = Unnamed]
    /\ UNCHANGED <<alive, client>>

RenameRowOnly(k) ==
    /\ coll[k] # Unnamed
    /\ \E n \in Names :
          /\ \A l \in Collections \ {k} : coll[l] # n
          /\ coll' = [coll EXCEPT ![k] = n]
    /\ UNCHANGED <<alive, tag, tagged, client>>

RenameAfresh(k) ==
    /\ coll[k] # Unnamed
    /\ \E n \in Names :
          /\ \A l \in Collections \ {k} : coll[l] # n
          /\ n # coll[k]
          /\ Named(n) = {}
          /\ coll' = [coll EXCEPT ![k] = n]
    /\ DropTags(Named(coll[k]))
    /\ UNCHANGED <<alive, client>>

(* The tag follows the row.  The transaction fails as a whole if the new   *)
(* name is taken by a collection, or by a tag while the old name has one.  *)
RenameCollection(k) ==
    /\ coll[k] # Unnamed
    /\ \E n \in Names :
          /\ \A l \in Collections \ {k} : coll[l] # n
          /\ Named(coll[k]) = {} \/ n = coll[k] \/ Named(n) = {}
          /\ coll' = [coll EXCEPT ![k] = n]
          /\ tag' = [t \in Tags |-> IF t \in Named(coll[k]) THEN [tag[t] EXCEPT !.name = n]
                                                           ELSE tag[t]]
    /\ UNCHANGED <<alive, tagged, client>>

(* AddJobs: a plain tag of the collection's name becomes the collection's. *)
(* A job that has gone fails the transaction.                              *)
AddJobs(k) ==
    /\ coll[k] # Unnamed
    /\ \E J \in (SUBSET alive) \ {{}},
          t \in IF Named(coll[k]) # {} THEN Named(coll[k]) ELSE Fresh :
          /\ tag' = [tag EXCEPT ![t] = [name |-> coll[k], kind |-> "collection"]]
          /\ tagged' = tagged \cup (J \X {t})
    /\ UNCHANGED <<alive, coll, client>>

PurgeJob(j) ==
    /\ "purge" \in Requests
    /\ j \in alive
    /\ alive' = alive \ {j}
    /\ tagged' = {p \in tagged : p[1] # j}
    /\ UNCHANGED <<tag, coll, client>>

Next ==
    \/ \E c \in Clients :
          \/ AddTag(c) \/ Expand(c) \/ RemoveTag(c) \/ Prune(c)
          \/ InsertTag(c) \/ SelectTag(c) \/ Attach(c) \/ CreateJob(c) \/ EndExpand(c)
          \/ Unlink(c) \/ DropUnused(c) \/ PruneLinks(c) \/ PrunePlain(c) \/ PruneRows(c)
    \/ \E k \in Collections : \/ CreateCollection(k) \/ DeleteCollection(k)
                              \/ RenameCollection(k) \/ AddJobs(k)
    \/ \E j \in Jobs : PurgeJob(j)

Spec == Init /\ [][Next]_vars

-----------------------------------------------------------------------------
(* Properties.                                                             *)

LabelsOf(j) == {tag[t].name : t \in {u \in Tags : <<j, u>> \in tagged}}

(* Upsert, AddJobs, Rename and Delete: a tag marked as a collection's      *)
(* always has that collection, so that the prune never takes jobs out of   *)
(* one; and no name has two tags, whoever created them.                    *)
TagsMatchCollections ==
    /\ \A t \in Tags : tag[t].kind = "collection" => \E k \in Collections : coll[k] = tag[t].name
    /\ \A t, u \in Tags : t # u /\ tag[t].name = tag[u].name => tag[t].name = Unnamed

(* Names that this step takes off job j on request.                        *)
TakenOff(j) == {n \in Names : \E c \in Clients : /\ client[c].pc = "unlink"
                                                 /\ client'[c].pc = "drop"
                                                 /\ client[c].name = n /\ j \in client[c].jobs}

(* RemoveFromJob, PruneOrphans, collection.go:87 and the reindexing: a job *)
(* loses a label only to a request that takes it off this job, to the      *)
(* deletion or the renaming of the collection of that name, or with the    *)
(* job itself; and a collection that is renamed, pruned or added to keeps  *)
(* its jobs under whatever name it has.                                    *)
LabelsAreKept ==
    [][\A j \in alive \cap alive' :
          /\ LabelsOf(j) \ LabelsOf(j)' \subseteq
                TakenOff(j) \cup {coll[k] : k \in {l \in Collections : coll[l] # coll'[l]}}
          /\ \A k \in Collections :
                coll[k] # Unnamed /\ coll'[k] # Unnamed /\ coll[k] \in LabelsOf(j)
                    => coll'[k] \in LabelsOf(j)' \/ coll[k] \in TakenOff(j)]_vars
=============================================================================
