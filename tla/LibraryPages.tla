---------------------------- MODULE LibraryPages ----------------------------
(***************************************************************************)
(* What the library shows (internal/repo/media_query.go, Service.Media and *)
(* the "show more" button of web/templates/media.templ).                   *)
(*                                                                         *)
(* The list is the union of a row per file and a row per job that has no   *)
(* file yet, newest first.  A page asks for its rows and, only if it is    *)
(* full, for their number, in a second query; the next page starts where   *)
(* this one ended, in a library that goes on changing.                     *)
(***************************************************************************)
EXTENDS Naturals, FiniteSets

CONSTANTS Jobs, Items,  \* ids of rows of jobs and of items
          Matching,     \* those whose own text matches the searched one
          Tagged,       \* jobs with the chosen tag
          Videos,       \* items that are videos; the others are audio
          Limit,        \* rows of a page
          Filters,      \* filters in use: what each asks for
          NoJob

PageConstants ==
    /\ Jobs \cap Items = {} /\ NoJob \notin Jobs /\ Limit \in Nat \ {0}
    /\ Filters # {} /\ Filters \subseteq SUBSET {"query", "tag", "video"}

VARIABLES
    job,        \* the table jobs
    item,       \* the table items: the job of each
    older,      \* created_at: the stored rows that are older than a row
    viewer,     \* a page that is being read
    owed        \* rows of the first list that it has not shown yet; nothing is
                \* owed once a row has left the list or a count has failed

vars == <<job, item, older, viewer, owed>>

NoRow  == [status |-> "none", hidden |-> FALSE]
Rows == Jobs \cup Items
Blank == [pc |-> "closed", filter |-> CHOOSE f \in Filters : TRUE, offset |-> 0,
          size |-> 0, total |-> 0]

PagesTypeOK ==
    /\ job \in [Jobs -> [status : {"none", "active", "done"}, hidden : BOOLEAN]]
    /\ item \in [Items -> Jobs \cup {NoJob}]
    /\ older \in [Rows -> SUBSET Rows]
    /\ viewer \in [pc : {"closed", "list", "count", "shown"}, filter : Filters,
                   offset : Nat, size : 0 .. Limit, total : Nat]
    /\ owed \subseteq Rows

Init ==
    /\ job = [j \in Jobs |-> NoRow] /\ item = [i \in Items |-> NoJob]
    /\ older = [r \in Rows |-> {}] /\ viewer = Blank /\ owed = {}

-----------------------------------------------------------------------------
(* The queries.                                                            *)

ItemsOf(j) == {i \in Items : item[i] = j}
Stored == {j \in Jobs : job[j].status # "none"} \cup {i \in Items : item[i] # NoJob}

(* buildMediaConds: the two halves have conditions of their own.           *)
JobMatches(j, f) ==
    /\ "query" \in f => j \in Matching
    /\ "tag" \in f => j \in Tagged
ItemMatches(i, f) ==
    /\ "query" \in f => i \in Matching \/ item[i] \in Matching
    /\ "tag" \in f => item[i] \in Tagged
    /\ "video" \in f => i \in Videos

FileRows(f) == {i \in Items : /\ item[i] # NoJob /\ ~job[item[i]].hidden
                              /\ ItemMatches(i, f)}
WaitingRows(f) == {j \in Jobs : /\ "video" \notin f /\ job[j].status = "active"
                                /\ ~job[j].hidden /\ ItemsOf(j) = {} /\ JobMatches(j, f)}

(* buildMediaQuery: the rows of both halves, the newest first, of which    *)
(* LIMIT and OFFSET cut out a window.                                      *)
Listing(f) == FileRows(f) \cup WaitingRows(f)
Above(f, r) == {q \in Listing(f) : r \in older[q]}
Window(f, offset) ==
    {r \in Listing(f) : Cardinality(Above(f, r)) \in offset .. (offset + Limit - 1)}

(* buildMediaCountQuery.                                                   *)
CountMedia(f) == Cardinality(FileRows(f)) + Cardinality(WaitingRows(f))

-----------------------------------------------------------------------------
(* The library changes; other modules have the steps.  A row that leaves   *)
(* the list of the reader ends what is owed.                               *)

Listed == Listing(viewer.filter)
Follow ==
    /\ UNCHANGED viewer
    /\ owed' = IF Listed \subseteq Listed' THEN owed ELSE {}

(* created_at is set when a row is inserted.                               *)
Insert(r) == older' = [older EXCEPT ![r] = Stored]
Remove(gone) ==
    older' = [r \in Rows |-> IF r \in gone THEN {} ELSE older[r] \ gone]

(* A link that was added, or a file that the scanner found.                *)
AddJob(j) ==
    /\ job[j].status = "none"
    /\ \E s \in {"active", "done"} : job' = [job EXCEPT ![j].status = s]
    /\ Insert(j)
    /\ UNCHANGED item /\ Follow

(* A file is recorded, or passes to the job that has just written its path *)
(* (the upsert, which leaves created_at alone).                            *)
AddFile(i) ==
    /\ \E j \in Jobs : /\ job[j].status # "none"
                      /\ item' = [item EXCEPT ![i] = j]
    /\ IF item[i] = NoJob THEN Insert(i) ELSE UNCHANGED older
    /\ UNCHANGED job /\ Follow

EndJob(j) ==
    /\ job[j].status = "active"
    /\ job' = [job EXCEPT ![j].status = "done"]
    /\ UNCHANGED <<item, older>> /\ Follow

HideJob(j) ==
    /\ job[j].status # "none"
    /\ job' = [job EXCEPT ![j].hidden = ~@]
    /\ UNCHANGED <<item, older>> /\ Follow

(* The two statements of Redownload.                                       *)
DropItems(j) ==
    /\ ItemsOf(j) # {}
    /\ item' = [i \in Items |-> IF item[i] = j THEN NoJob ELSE item[i]]
    /\ Remove(ItemsOf(j))
    /\ UNCHANGED job /\ Follow

RestartJob(j) ==
    /\ job[j].status # "none"
    /\ job' = [job EXCEPT ![j] = [status |-> "active", hidden |-> FALSE]]
    /\ UNCHANGED <<item, older>> /\ Follow

(* Purge and CleanupDead; the placeholder of a playlist goes as well, when *)
(* it is expanded.                                                         *)
PurgeJob(j) ==
    /\ job[j].hidden \/ job[j].status = "active"
    /\ job' = [job EXCEPT ![j] = NoRow]
    /\ item' = [i \in Items |-> IF item[i] = j THEN NoJob ELSE item[i]]
    /\ Remove(ItemsOf(j) \cup {j})
    /\ Follow

-----------------------------------------------------------------------------
(* Service.Media for a page, and the button under it.                      *)

Open ==
    /\ viewer.pc = "closed"
    /\ \E f \in Filters :
          /\ viewer' = [Blank EXCEPT !.pc = "list", !.filter = f]
          /\ owed' = Listing(f)
    /\ UNCHANGED <<job, item, older>>

(* A page that is not full is the last: its end is the number of rows.     *)
FilterMedia ==
    /\ viewer.pc = "list"
    /\ LET page == Window(viewer.filter, viewer.offset)
           size == Cardinality(page)
       IN  /\ viewer' = [viewer EXCEPT !.pc = IF size >= Limit THEN "count" ELSE "shown",
                                       !.size = size, !.total = viewer.offset + size]
           /\ owed' = owed \ page
    /\ UNCHANGED <<job, item, older>>

CountRowsOfPage ==
    /\ viewer.pc = "count"
    /\ viewer' = [viewer EXCEPT !.pc = "shown"]
    /\ UNCHANGED <<job, item, older, owed>>

CountRows ==
    /\ viewer.pc = "count"
    /\ viewer' = [viewer EXCEPT !.pc = "shown", !.total = CountMedia(viewer.filter)]
    /\ UNCHANGED <<job, item, older, owed>>

(* The error is ignored: what has been shown counts as everything.         *)
CountFails ==
    /\ viewer.pc = "count"
    /\ viewer' = [viewer EXCEPT !.pc = "shown"]
    /\ owed' = {}
    /\ UNCHANGED <<job, item, older>>

Shown == viewer.offset + viewer.size
HasMore == viewer.total > Shown

ShowMore ==
    /\ viewer.pc = "shown" /\ HasMore
    /\ viewer' = [viewer EXCEPT !.pc = "list", !.offset = Shown, !.size = 0, !.total = 0]
    /\ UNCHANGED <<job, item, older, owed>>

Close ==
    /\ viewer.pc = "shown"
    /\ viewer' = Blank /\ owed' = {}
    /\ UNCHANGED <<job, item, older>>

Next ==
    \/ \E j \in Jobs : \/ AddJob(j) \/ EndJob(j) \/ HideJob(j)
                       \/ DropItems(j) \/ RestartJob(j) \/ PurgeJob(j)
    \/ \E i \in Items : AddFile(i)
    \/ Open \/ FilterMedia \/ CountRows \/ CountFails \/ ShowMore \/ Close

Spec == Init /\ [][Next]_vars

-----------------------------------------------------------------------------
(* Properties.                                                             *)

(* media.templ:39, service.go:72: whoever asks for more until there is no  *)
(* button left has seen every row that was in the list all the time,       *)
(* however many rows arrived on top meanwhile and between the two queries  *)
(* of a page; only rows that leave the list, or a failed count, hide any.  *)
PagesMissNothing ==
    viewer.pc = "shown" /\ ~HasMore => owed = {}
=============================================================================
