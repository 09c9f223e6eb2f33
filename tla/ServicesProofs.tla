--------------------------- MODULE ServicesProofs ---------------------------
(***************************************************************************)
(* The invariants of the five components of MCServices, for any number of  *)
(* keys, values, requests, domains, jobs, labels, rows of the library,     *)
(* links, messages and workers.  None of the properties is inductive by    *)
(* itself:                                                                 *)
(*                                                                         *)
(* - Settings: what a loader has read may have been overwritten before it  *)
(*   stores it.  StoredCopyIsCurrent says that somebody who has not        *)
(*   invalidated yet is then at hand, and HolderLoads that he cannot       *)
(*   invalidate before the loader has stored.                              *)
(* - CookieJar: LoneInOrder says at each step of a request nobody overlaps *)
(*   what its merged text, the table and the file have to do with each     *)
(*   other.                                                                *)
(* - Labels: a job keeps a label because the tag of a collection keeps its *)
(*   name (CollectionsAreNamed) and the tag keeps its row                  *)
(*   (TagsMatchCollections) until a request takes it off.                  *)
(* - LibraryPages: the rows of a list have the ranks 0, 1, ... in it, each *)
(*   one of its own (RankIsBijection), so that a page that is not full     *)
(*   ends the list; a row still to be shown lies beyond what has been      *)
(*   shown (OwedLiesAhead).                                                *)
(* - BotMessages: until its message is stored nobody checks a link, or     *)
(*   works on it (LinkWaits), then its row and its workers have the        *)
(*   message (LinkIsStored), because everybody knows messages of his own   *)
(*   job only (MessagesNameTheirJob); all of it for links that are not     *)
(*   marred early.  A link that is not marred at all is checked by the bot *)
(*   alone (OneCheck), with its message in pendingMsgs (EntryIsTheMessage) *)
(*   and no other message that offers to stop it (FreshIsUntouched).       *)
(***************************************************************************)
EXTENDS MCServices, FiniteSetTheorems, TLAPS

-----------------------------------------------------------------------------
(* Settings.                                                               *)

(* The mutex is held by exactly the one who loads.                         *)
HolderLoads == \A p \in Procs : proc[p].pc \in {"load", "store"} <=> mutex = p

(* What is about to be stored is the table, or somebody will invalidate.   *)
StoredCopyIsCurrent ==
    \A p \in Procs : proc[p].pc = "store" /\ ~proc[p].got.failed =>
        \/ proc[p].got.map = table
        \/ \E q \in Procs : proc[q].pc = "drop"

CopyInv == SettingsTypeOK /\ HolderLoads /\ StoredCopyIsCurrent /\ CopyFollowsTable

-----------------------------------------------------------------------------
LEMMA BlankTypes == Empty \in Overrides /\ NoCopy \in Copies /\ NoTask \in Tasks
<1>1. Empty \in Overrides BY DEF Empty, Overrides
<1>2. NoCopy \in Copies BY <1>1 DEF NoCopy, Copies
<1>3. 1 \in Keys BY SettingsConstants DEF Keys
<1>4. Empty \in [Keys -> Values \cup {Unset, Env}] BY DEF Empty
<1> QED BY <1>1, <1>2, <1>3, <1>4 DEF NoTask, Tasks, ProcPC, Goals

LEMMA EffectiveType ==
    ASSUME NEW m \in Overrides, NEW k \in Keys
    PROVE  Effective(m, k) \in Values \cup {Unset, Env}
BY DEF Effective, Overrides

LEMMA NextKeyType ==
    ASSUME NEW k \in Keys, k < NKeys
    PROVE  k + 1 \in Keys
BY SettingsConstants DEF Keys

(* What a caller has after it took something out of a copy.                *)
LEMMA GivenTask ==
    ASSUME NEW task \in Tasks, NEW c \in Copies
    PROVE  /\ Given(task, c) \in Tasks
           /\ Given(task, c).pc \in {"check", "done"}
<1> DEFINE t == [task EXCEPT !.got = NoCopy, !.calm = @ /\ ~c.failed]
<1>1. (task.calm /\ ~c.failed) \in BOOLEAN BY DEF Tasks
<1>2. t \in Tasks BY <1>1, BlankTypes DEF Tasks
<1>3. c.map \in [Keys -> Values \cup {Unset, Env}] BY DEF Copies, Overrides
<1> HIDE DEF t
<1>4. CASE t.goal = "form"
  <2>1. Given(task, c) = [t EXCEPT !.pc = "done", !.seen = c.map]
    BY <1>4 DEF Given, t
  <2> QED BY <2>1, <1>2, <1>3 DEF Tasks, ProcPC
<1>5. CASE t.goal # "form"
  <2> DEFINE seen == [t.seen EXCEPT ![t.key] = Effective(c.map, t.key)]
             pc   == IF t.key < NKeys THEN "check" ELSE "done"
             key  == IF t.key < NKeys THEN t.key + 1 ELSE t.key
  <2>1. Given(task, c) = [t EXCEPT !.seen = seen, !.pc = pc, !.key = key]
    BY <1>5, <1>2 DEF Given, t, Tasks
  <2>2. t.key \in Keys /\ t.seen \in [Keys -> Values \cup {Unset, Env}] BY <1>2 DEF Tasks
  <2>3. key \in Keys BY <2>2, NextKeyType
  <2>4. Effective(c.map, t.key) \in Values \cup {Unset, Env}
    BY <2>2, EffectiveType DEF Copies
  <2>5. seen \in [Keys -> Values \cup {Unset, Env}] BY <2>2, <2>4
  <2>6. pc \in ProcPC /\ pc \in {"check", "done"} BY DEF ProcPC
  <2> HIDE DEF seen, pc, key
  <2> QED BY <2>1, <2>3, <2>5, <2>6, <1>2 DEF Tasks
<1> QED BY <1>4, <1>5

(* It is calm after that only if it was before.                            *)
LEMMA GivenCalm ==
    ASSUME NEW task \in Tasks, NEW c \in Copies, Given(task, c).calm
    PROVE  task.calm
<1> DEFINE calm == task.calm /\ ~c.failed
           t    == [task EXCEPT !.got = NoCopy, !.calm = calm]
<1>1. t \in Tasks /\ t.calm = calm
  <2>1. calm \in BOOLEAN OBVIOUS
  <2> HIDE DEF calm
  <2> QED BY <2>1, BlankTypes DEF Tasks
<1>2. Given(task, c).calm = t.calm
  <2> HIDE DEF t
  <2>1. \/ Given(task, c) = [t EXCEPT !.pc = "done", !.seen = c.map]
        \/ \E seen, pc, key : Given(task, c) = [t EXCEPT !.seen = seen, !.pc = pc, !.key = key]
    BY <1>1 DEF Given, t, Tasks
  <2> QED BY <2>1, <1>1 DEF Tasks
<1> QED BY <1>1, <1>2

LEMMA AfterKeyTask ==
    ASSUME NEW p \in Procs, NEW task \in Tasks
    PROVE  /\ AfterKey(p, task) \in Tasks
           /\ AfterKey(p, task).pc \in {"set", "check"}
<1>1. Calm(p) \in BOOLEAN BY DEF Calm
<1>2. CASE task.key < NKeys
  <2>1. task.key + 1 \in Keys BY <1>2, NextKeyType DEF Tasks
  <2> QED BY <1>2, <2>1 DEF AfterKey, Tasks, ProcPC
<1>3. CASE ~(task.key < NKeys)
  BY <1>1, <1>3, BlankTypes DEF AfterKey, Tasks, ProcPC, Goals
<1> QED BY <1>2, <1>3

-----------------------------------------------------------------------------
(* How one process's step can disturb the invariant.                       *)

(* A step of p that leaves the table, the copy and the mutex alone.        *)
LEMMA PrivateStep ==
    ASSUME CopyInv, NEW p \in Procs, NEW task \in Tasks,
           proc' = [proc EXCEPT ![p] = task],
           proc[p].pc \notin {"load", "store", "drop"},
           task.pc \notin {"load", "store"},
           UNCHANGED <<table, cache, mutex>>, faults' \in Nat
    PROVE  CopyInv'
<1>1. SettingsTypeOK'
  BY DEF CopyInv, SettingsTypeOK
<1>2. /\ proc'[p].pc = task.pc
      /\ \A q \in Procs \ {p} : proc'[q] = proc[q]
  BY DEF CopyInv, SettingsTypeOK
<1>3. HolderLoads'
  BY <1>2 DEF CopyInv, HolderLoads
<1>4. \A q \in Procs : proc[q].pc = "drop" => proc'[q].pc = "drop"
  BY <1>2
<1>5. StoredCopyIsCurrent'
  BY <1>2, <1>4 DEF CopyInv, StoredCopyIsCurrent
<1>6. CopyFollowsTable'
  BY <1>4 DEF CopyInv, CopyFollowsTable
<1> QED BY <1>1, <1>3, <1>5, <1>6 DEF CopyInv

(* With the mutex free nobody is about to store.                           *)
LEMMA FreeMutex ==
    ASSUME CopyInv, mutex = Nobody
    PROVE  \A q \in Procs : proc[q].pc \notin {"load", "store"}
BY SettingsConstants DEF CopyInv, HolderLoads

LEMMA WriteKeyKeeps ==
    ASSUME CopyInv, NEW p \in Procs, WriteKey(p)
    PROVE  CopyInv'
<1>1. proc[p] \in Tasks /\ proc[p].key \in Keys /\ proc[p].form \in Overrides
  BY DEF CopyInv, SettingsTypeOK, Tasks
<1>2. table' \in Overrides
  BY <1>1 DEF CopyInv, SettingsTypeOK, WriteKey, Overrides
<1>3. \A q \in Procs : proc'[q] = IF q = p THEN [proc[p] EXCEPT !.pc = "drop"]
                                           ELSE [proc[q] EXCEPT !.calm = FALSE]
  BY DEF WriteKey
<1>4. \A q \in Procs : proc[q] \in Tasks
  BY DEF CopyInv, SettingsTypeOK
<1>5. ASSUME NEW q \in Procs PROVE proc'[q] \in Tasks
  <2>1. CASE q = p
    <3>1. [proc[p] EXCEPT !.pc = "drop"] \in Tasks
      BY <1>1 DEF Tasks, ProcPC
    <3> QED BY <2>1, <3>1, <1>3
  <2>2. CASE q # p
    <3>1. [proc[q] EXCEPT !.calm = FALSE] \in Tasks
      BY <1>4 DEF Tasks
    <3> QED BY <2>2, <3>1, <1>3
  <2> QED BY <2>1, <2>2
<1>6. SettingsTypeOK'
  <2>1. proc' \in [Procs -> Tasks]
    BY <1>5 DEF WriteKey
  <2> QED BY <1>2, <2>1 DEF CopyInv, SettingsTypeOK, WriteKey
<1>7. proc'[p].pc = "drop" /\ \A q \in Procs \ {p} : proc'[q].pc = proc[q].pc
  BY <1>3, <1>4 DEF Tasks
<1>8. HolderLoads'
  BY <1>7 DEF CopyInv, HolderLoads, WriteKey
<1>9. StoredCopyIsCurrent' /\ CopyFollowsTable'
  BY <1>7 DEF StoredCopyIsCurrent, CopyFollowsTable
<1> QED BY <1>6, <1>8, <1>9 DEF CopyInv

LEMMA DropCopyKeeps ==
    ASSUME CopyInv, NEW p \in Procs, DropCopy(p)
    PROVE  CopyInv'
<1>1. AfterKey(p, proc[p]) \in Tasks /\ AfterKey(p, proc[p]).pc \in {"set", "check"}
  BY AfterKeyTask DEF CopyInv, SettingsTypeOK
<1>2. \A q \in Procs : proc[q].pc \notin {"load", "store"}
  BY FreeMutex DEF DropCopy
<1>3. \A q \in Procs : proc'[q].pc \notin {"load", "store"}
  BY <1>1, <1>2 DEF CopyInv, SettingsTypeOK, DropCopy
<1>4. SettingsTypeOK'
  BY <1>1, BlankTypes DEF CopyInv, SettingsTypeOK, DropCopy
<1>5. HolderLoads'
  BY <1>3, SettingsConstants DEF HolderLoads, DropCopy
<1>6. StoredCopyIsCurrent' /\ CopyFollowsTable'
  BY <1>3 DEF StoredCopyIsCurrent, CopyFollowsTable, DropCopy, NoCopy
<1> QED BY <1>4, <1>5, <1>6 DEF CopyInv

(* A loader starts, with the mutex.                                        *)
LEMMA TakeMutexKeeps ==
    ASSUME CopyInv, NEW p \in Procs, TakeMutex(p)
    PROVE  CopyInv'
<1>1. CASE cache.loaded
  <2>1. Given(proc[p], cache) \in Tasks /\ Given(proc[p], cache).pc \in {"check", "done"}
    BY GivenTask DEF CopyInv, SettingsTypeOK
  <2> QED BY <1>1, <2>1, PrivateStep DEF TakeMutex, CopyInv, SettingsTypeOK
<1>2. CASE ~cache.loaded
  <2>1. /\ proc' = [proc EXCEPT ![p] = [proc[p] EXCEPT !.pc = "load"]]
        /\ mutex' = p /\ UNCHANGED <<table, cache, faults>>
    BY <1>2 DEF TakeMutex
  <2>2. proc[p] \in Tasks
    BY DEF CopyInv, SettingsTypeOK
  <2>3. [proc[p] EXCEPT !.pc = "load"] \in Tasks
    BY <2>2 DEF Tasks, ProcPC
  <2>4. SettingsTypeOK'
    BY <2>1, <2>3 DEF CopyInv, SettingsTypeOK
  <2>5. proc'[p].pc = "load" /\ \A q \in Procs \ {p} : proc'[q] = proc[q]
    BY <2>1, <2>2 DEF CopyInv, SettingsTypeOK, Tasks
  <2>6. HolderLoads'
    BY <2>1, <2>5, FreeMutex DEF HolderLoads, TakeMutex
  <2>7. \A q \in Procs : proc'[q].pc # "store"
    BY <2>5, FreeMutex DEF TakeMutex
  <2>8. StoredCopyIsCurrent' /\ CopyFollowsTable'
    BY <2>1, <2>7, <1>2 DEF StoredCopyIsCurrent, CopyFollowsTable
  <2> QED BY <2>4, <2>6, <2>8 DEF CopyInv
<1> QED BY <1>1, <1>2

(* The SELECT of a loader, whether or not it fails.                        *)
LEMMA LoadKeeps ==
    ASSUME CopyInv, NEW p \in Procs, LoadTable(p) \/ LoadTableFails(p)
    PROVE  CopyInv'
<1>1. PICK c \in Copies : /\ proc' = [proc EXCEPT ![p] = [proc[p] EXCEPT !.pc = "store", !.got = c]]
                          /\ c.failed \/ c.map = table
  <2>1. CASE LoadTable(p)
    <3> DEFINE c == [loaded |-> TRUE, failed |-> FALSE, map |-> table]
    <3>1. c \in Copies /\ c.map = table BY DEF CopyInv, SettingsTypeOK, Copies
    <3>2. proc' = [proc EXCEPT ![p] = [proc[p] EXCEPT !.pc = "store", !.got = c]]
      BY <2>1 DEF LoadTable, CopyInv, SettingsTypeOK
    <3> QED BY <3>1, <3>2
  <2>2. CASE LoadTableFails(p)
    <3> DEFINE c == [loaded |-> TRUE, failed |-> TRUE, map |-> Empty]
    <3>1. c \in Copies /\ c.failed BY BlankTypes DEF Copies
    <3>2. proc' = [proc EXCEPT ![p] = [proc[p] EXCEPT !.pc = "store", !.got = c]]
      BY <2>2 DEF LoadTableFails, CopyInv, SettingsTypeOK
    <3> QED BY <3>1, <3>2
  <2> QED BY <2>1, <2>2
<1>2. proc[p].pc = "load" /\ UNCHANGED <<table, cache, mutex>> /\ faults' \in Nat
  BY DEF LoadTable, LoadTableFails, Fail, CopyInv, SettingsTypeOK
<1>3. proc[p] \in Tasks
  BY DEF CopyInv, SettingsTypeOK
<1>4. [proc[p] EXCEPT !.pc = "store", !.got = c] \in Tasks
  BY <1>3 DEF Tasks, ProcPC
<1>5. SettingsTypeOK'
  BY <1>1, <1>2, <1>4 DEF CopyInv, SettingsTypeOK
<1>6. /\ proc'[p].pc = "store" /\ proc'[p].got = c
      /\ \A q \in Procs \ {p} : proc'[q] = proc[q]
  BY <1>1, <1>3 DEF CopyInv, SettingsTypeOK, Tasks
<1>7. HolderLoads'
  BY <1>2, <1>6 DEF CopyInv, HolderLoads
<1>8. \A q \in Procs : proc[q].pc = "drop" => proc'[q].pc = "drop"
  BY <1>2, <1>6
<1>9. StoredCopyIsCurrent' /\ CopyFollowsTable'
  BY <1>1, <1>2, <1>6, <1>8 DEF CopyInv, StoredCopyIsCurrent, CopyFollowsTable
<1> QED BY <1>5, <1>7, <1>9 DEF CopyInv

LEMMA StoreCopyKeeps ==
    ASSUME CopyInv, NEW p \in Procs, StoreCopy(p)
    PROVE  CopyInv'
<1>1. proc[p] \in Tasks /\ proc[p].got \in Copies
  BY DEF CopyInv, SettingsTypeOK, Tasks
<1>2. /\ Given(proc[p], proc[p].got) \in Tasks
      /\ Given(proc[p], proc[p].got).pc \in {"check", "done"}
  BY <1>1, GivenTask
<1>3. SettingsTypeOK'
  BY <1>1, <1>2 DEF CopyInv, SettingsTypeOK, StoreCopy
<1>4. /\ proc'[p].pc \in {"check", "done"}
      /\ \A q \in Procs \ {p} : proc'[q] = proc[q]
  BY <1>2 DEF CopyInv, SettingsTypeOK, StoreCopy
<1>5. \A q \in Procs : proc'[q].pc \notin {"load", "store"}
  BY <1>4 DEF CopyInv, HolderLoads, StoreCopy
<1>6. HolderLoads'
  BY <1>5, SettingsConstants DEF HolderLoads, StoreCopy
<1>7. StoredCopyIsCurrent'
  BY <1>5 DEF StoredCopyIsCurrent
<1>8. CopyFollowsTable'
  BY <1>4 DEF CopyInv, StoredCopyIsCurrent, CopyFollowsTable, StoreCopy
<1> QED BY <1>3, <1>6, <1>7, <1>8 DEF CopyInv

-----------------------------------------------------------------------------
LEMMA StepKeeps ==
    ASSUME CopyInv, NEW p \in Procs, Save(p) \/ ShowForm(p) \/ BuildOptions(p) \/ ProcStep(p)
    PROVE  CopyInv'
<1>0. proc[p] \in Tasks /\ cache \in Copies /\ faults \in Nat
  BY DEF CopyInv, SettingsTypeOK
<1>1. CASE Save(p)
  <2>1. PICK f \in Overrides :
          proc' = [proc EXCEPT ![p] = [NoTask EXCEPT !.pc = "set", !.goal = "save", !.form = f]]
    BY <1>1 DEF Save
  <2>2. [NoTask EXCEPT !.pc = "set", !.goal = "save", !.form = f] \in Tasks
    BY BlankTypes DEF Tasks, ProcPC, Goals
  <2> QED BY <1>0, <1>1, <2>1, <2>2, BlankTypes, PrivateStep DEF Save, Tasks
<1>2. CASE ShowForm(p) \/ BuildOptions(p)
  <2>1. Calm(p) \in BOOLEAN BY DEF Calm
  <2>2. PICK g \in Goals :
          proc' = [proc EXCEPT ![p] = [NoTask EXCEPT !.pc = "check", !.goal = g, !.calm = Calm(p)]]
    BY <1>2 DEF ShowForm, BuildOptions, Goals
  <2>3. [NoTask EXCEPT !.pc = "check", !.goal = g, !.calm = Calm(p)] \in Tasks
    BY <2>1, BlankTypes DEF Tasks, ProcPC, Goals
  <2>4. [NoTask EXCEPT !.pc = "check", !.goal = g, !.calm = Calm(p)].pc = "check"
    BY BlankTypes DEF Tasks
  <2> QED BY <1>0, <1>2, <2>2, <2>3, <2>4, PrivateStep DEF ShowForm, BuildOptions
<1>3. CASE WriteKey(p) BY <1>3, WriteKeyKeeps
<1>4. CASE WriteKeyFails(p)
  <2>1. AfterKey(p, proc[p]) \in Tasks /\ AfterKey(p, proc[p]).pc \in {"set", "check"}
    BY <1>0, AfterKeyTask
  <2>2. faults' \in Nat
    BY <1>0, <1>4 DEF WriteKeyFails, Fail
  <2> QED BY <1>4, <2>1, <2>2, PrivateStep DEF WriteKeyFails
<1>5. CASE DropCopy(p) BY <1>5, DropCopyKeeps
<1>6. CASE CheckCopy(p)
  <2>1. CASE cache.loaded
    BY <1>0, <1>6, <2>1, GivenTask, PrivateStep DEF CheckCopy
  <2>2. CASE ~cache.loaded
    <3>1. [proc[p] EXCEPT !.pc = "lock"] \in Tasks BY <1>0 DEF Tasks, ProcPC
    <3>2. [proc[p] EXCEPT !.pc = "lock"].pc = "lock" BY <1>0 DEF Tasks
    <3>3. proc' = [proc EXCEPT ![p] = [proc[p] EXCEPT !.pc = "lock"]]
      BY <1>6, <2>2 DEF CheckCopy
    <3> QED BY <1>0, <1>6, <3>1, <3>2, <3>3, PrivateStep DEF CheckCopy
  <2> QED BY <2>1, <2>2
<1>7. CASE TakeMutex(p) BY <1>7, TakeMutexKeeps
<1>8. CASE LoadTable(p) \/ LoadTableFails(p) BY <1>8, LoadKeeps
<1>9. CASE StoreCopy(p) BY <1>9, StoreCopyKeeps
<1>10. CASE Leave(p)
  <2>1. NoTask.pc = "idle" BY DEF NoTask
  <2> QED BY <1>0, <1>10, <2>1, BlankTypes, PrivateStep DEF Leave
<1> QED BY <1>1, <1>2, <1>3, <1>4, <1>5, <1>6, <1>7, <1>8, <1>9, <1>10 DEF ProcStep

LEMMA InitHolds ==
    ASSUME Init
    PROVE  CopyInv
<1>1. \A p \in Procs : proc[p].pc = "idle"
  BY DEF Init, NoTask
<1>2. SettingsTypeOK
  BY BlankTypes DEF Init, SettingsTypeOK
<1>3. HolderLoads
  BY <1>1, SettingsConstants DEF Init, HolderLoads
<1>4. StoredCopyIsCurrent /\ CopyFollowsTable
  BY <1>1 DEF Init, NoCopy, StoredCopyIsCurrent, CopyFollowsTable
<1> QED BY <1>2, <1>3, <1>4 DEF CopyInv

LEMMA CopyInvIsInductive == CopyInv /\ [Next]_vars => CopyInv'
<1> SUFFICES ASSUME CopyInv, [Next]_vars PROVE CopyInv'
  OBVIOUS
<1>1. CASE Next
  BY <1>1, StepKeeps DEF Next
<1>2. CASE UNCHANGED vars
  BY <1>2 DEF vars, CopyInv, SettingsTypeOK, HolderLoads, StoredCopyIsCurrent, CopyFollowsTable
<1> QED BY <1>1, <1>2

(* Provider.Set, invalidate and overrides: whatever the order of writers,  *)
(* loaders and readers, a copy that was loaded without an error is the     *)
(* table again as soon as every writer has come to invalidate.             *)
THEOREM CopiesFollow == Spec => []CopyFollowsTable
<1>1. CopyInv => CopyFollowsTable
  BY DEF CopyInv
<1> QED
  BY InitHolds, CopyInvIsInductive, <1>1, PTL DEF Spec

-----------------------------------------------------------------------------
(* CalmReadersSeeTheTable.  A calm reader has no writer about to           *)
(* invalidate, so that every copy it meets is the table or a failed one,   *)
(* and what it has taken so far is what the table says.                    *)

TaskInOrder(t) ==
    t.calm =>
        /\ t.pc \in {"check", "lock", "load", "store", "done"}
        /\ t.goal \in {"form", "options"}
        /\ t.goal = "options" /\ t.pc # "done" =>
              \A k \in Keys : k < t.key => t.seen[k] = Effective(table, k)
        /\ t.pc = "done" =>
              t.seen = IF t.goal = "form" THEN table ELSE [k \in Keys |-> Effective(table, k)]

NoWriterBehind == \A p, q \in Procs : proc[p].calm => proc[q].pc # "drop"

CalmInv == CopyInv /\ NoWriterBehind /\ \A p \in Procs : TaskInOrder(proc[p])

(* Taking the next value out of a copy that equals the table.              *)
LEMMA GivenInOrder ==
    ASSUME NEW task \in Tasks, NEW c \in Copies, TaskInOrder(task),
           task.pc # "done", table \in Overrides,
           task.calm /\ ~c.failed => c.map = table
    PROVE  TaskInOrder(Given(task, c))
<1> DEFINE calm == task.calm /\ ~c.failed
           t    == [task EXCEPT !.got = NoCopy, !.calm = calm]
<1>1. /\ t \in Tasks /\ t.pc = task.pc /\ t.goal = task.goal /\ t.key = task.key
      /\ t.seen = task.seen /\ (t.calm <=> calm)
  <2>1. calm \in BOOLEAN OBVIOUS
  <2> HIDE DEF calm
  <2> QED BY <2>1, BlankTypes DEF Tasks
<1>2. Given(task, c) = IF t.goal = "form" THEN [t EXCEPT !.pc = "done", !.seen = c.map]
                       ELSE [t EXCEPT !.seen[t.key] = Effective(c.map, t.key),
                                      !.pc  = IF t.key < NKeys THEN "check" ELSE "done",
                                      !.key = IF t.key < NKeys THEN @ + 1 ELSE @]
  BY DEF Given
<1> HIDE DEF t
<1>3. CASE t.goal = "form"
  <2>1. Given(task, c) = [t EXCEPT !.pc = "done", !.seen = c.map]
    BY <1>2, <1>3
  <2>2. /\ Given(task, c).pc = "done" /\ Given(task, c).goal = "form"
        /\ Given(task, c).seen = c.map /\ Given(task, c).calm = t.calm
    BY <2>1, <1>1, <1>3 DEF Tasks
  <2> QED BY <2>2, <1>1 DEF TaskInOrder
<1>4. CASE t.goal # "form"
  <2> DEFINE seen == [t.seen EXCEPT ![t.key] = Effective(c.map, t.key)]
             pc   == IF t.key < NKeys THEN "check" ELSE "done"
             key  == IF t.key < NKeys THEN t.key + 1 ELSE t.key
             new  == Given(task, c)
  <2>1. new = [t EXCEPT !.seen = seen, !.pc = pc, !.key = key]
    BY <1>2, <1>4, <1>1 DEF Tasks
  <2>2. /\ new.pc = pc /\ new.goal = t.goal /\ new.key = key /\ new.seen = seen
        /\ new.calm = t.calm
    BY <2>1, <1>1 DEF Tasks
  <2> SUFFICES ASSUME new.calm PROVE TaskInOrder(new)
    BY DEF TaskInOrder
  <2>3. task.calm /\ c.map = table /\ task.goal = "options"
    BY <2>2, <1>1, <1>4 DEF TaskInOrder
  <2>4. \A k \in Keys : k < t.key => t.seen[k] = Effective(table, k)
    BY <2>3, <1>1 DEF TaskInOrder
  <2>5. t.key \in Keys /\ t.seen \in [Keys -> Values \cup {Unset, Env}]
    BY <1>1 DEF Tasks
  <2>6. seen \in [Keys -> Values \cup {Unset, Env}]
        /\ \A k \in Keys : seen[k] = IF k = t.key THEN Effective(table, k) ELSE t.seen[k]
    <3>1. Effective(c.map, t.key) \in Values \cup {Unset, Env}
      BY <2>5, EffectiveType DEF Copies
    <3> QED BY <3>1, <2>3, <2>5
  <2> HIDE DEF new, seen
  <2>7. CASE t.key < NKeys
    <3>1. \A k \in Keys : k < t.key + 1 => k < t.key \/ k = t.key
      BY <2>5 DEF Keys
    <3>2. \A k \in Keys : k < t.key + 1 => seen[k] = Effective(table, k)
      BY <3>1, <2>4, <2>6
    <3>3. new.pc = "check" /\ new.key = t.key + 1 /\ new.goal = "options" /\ new.seen = seen
      BY <2>7, <2>2, <2>3, <1>1
    <3> QED BY <3>2, <3>3 DEF TaskInOrder
  <2>8. CASE ~(t.key < NKeys)
    <3>1. \A k \in Keys : k < t.key \/ k = t.key
      BY <2>5, <2>8, SettingsConstants DEF Keys
    <3>2. \A k \in Keys : seen[k] = Effective(table, k)
      BY <3>1, <2>4, <2>6
    <3>3. seen = [k \in Keys |-> Effective(table, k)]
      BY <3>2, <2>6
    <3>4. new.pc = "done" /\ new.goal = "options" /\ new.seen = seen
      BY <2>8, <2>2, <2>3, <1>1
    <3> QED BY <3>3, <3>4 DEF TaskInOrder
  <2> QED BY <2>7, <2>8
<1> QED BY <1>3, <1>4

(* A step of p that changes no table and makes nobody invalidate.          *)
LEMMA ReaderStep ==
    ASSUME CalmInv, CopyInv', NEW p \in Procs, NEW task \in Tasks,
           proc' = [proc EXCEPT ![p] = task],
           task.pc # "drop", TaskInOrder(task), UNCHANGED table,
           task.calm => \A q \in Procs \ {p} : proc[q].pc # "drop"
    PROVE  CalmInv'
<1>1. proc'[p] = task /\ \A q \in Procs \ {p} : proc'[q] = proc[q]
  BY DEF CalmInv, CopyInv, SettingsTypeOK
<1>2. NoWriterBehind'
  BY <1>1 DEF CalmInv, NoWriterBehind
<1>3. TaskInOrder(proc[p])' /\ \A q \in Procs : TaskInOrder(proc[q])'
  BY <1>1 DEF CalmInv, TaskInOrder, Effective
<1> QED BY <1>2, <1>3 DEF CalmInv

LEMMA CalmStep ==
    ASSUME CalmInv, CopyInv', NEW p \in Procs,
           Save(p) \/ ShowForm(p) \/ BuildOptions(p) \/ ProcStep(p)
    PROVE  CalmInv'
<1>0. /\ CopyInv /\ proc \in [Procs -> Tasks] /\ proc[p] \in Tasks /\ cache \in Copies
      /\ table \in Overrides /\ TaskInOrder(proc[p])
  BY DEF CalmInv, CopyInv, SettingsTypeOK
<1>1. proc[p].calm => \A q \in Procs : proc[q].pc # "drop"
  BY DEF CalmInv, NoWriterBehind
<1>2. Calm(p) \in BOOLEAN /\ (Calm(p) => \A q \in Procs \ {p} : proc[q].pc # "drop")
  BY DEF Calm, Saving
<1>3. ASSUME NEW task, task = AfterKey(p, proc[p]), proc[p].pc \in {"set", "drop"}
      PROVE  /\ task \in Tasks /\ task.pc # "drop" /\ TaskInOrder(task)
             /\ task.calm => \A q \in Procs \ {p} : proc[q].pc # "drop"
  <2>1. task \in Tasks /\ task.pc # "drop"
    BY <1>0, <1>3, AfterKeyTask
  <2>2. ~proc[p].calm
    BY <1>0, <1>3 DEF TaskInOrder
  <2>3. CASE proc[p].key < NKeys
    <3>1. task = [proc[p] EXCEPT !.pc = "set", !.key = proc[p].key + 1]
      BY <1>3, <2>3, <1>0 DEF AfterKey, Tasks
    <3>2. task.calm = proc[p].calm
      BY <3>1, <1>0 DEF Tasks
    <3> QED BY <2>1, <2>2, <3>2 DEF TaskInOrder
  <2>4. CASE ~(proc[p].key < NKeys)
    <3>1. task = [NoTask EXCEPT !.pc = "check", !.goal = "form", !.calm = Calm(p)]
      BY <1>3, <2>4 DEF AfterKey
    <3>2. task.pc = "check" /\ task.goal = "form" /\ task.calm = Calm(p)
      BY <3>1 DEF NoTask
    <3> QED BY <2>1, <3>2, <1>2 DEF TaskInOrder
  <2> QED BY <2>3, <2>4
<1>4. CASE Save(p)
  <2>1. PICK f \in Overrides :
          proc' = [proc EXCEPT ![p] = [NoTask EXCEPT !.pc = "set", !.goal = "save", !.form = f]]
    BY <1>4 DEF Save
  <2> DEFINE task == [NoTask EXCEPT !.pc = "set", !.goal = "save", !.form = f]
  <2>2. task \in Tasks /\ task.pc = "set" /\ ~task.calm
    BY BlankTypes DEF Tasks, ProcPC, Goals, NoTask
  <2> HIDE DEF task
  <2>3. TaskInOrder(task) BY <2>2 DEF TaskInOrder
  <2>4. proc' = [proc EXCEPT ![p] = task] BY <2>1 DEF task
  <2> QED BY <1>4, <2>2, <2>3, <2>4, ReaderStep DEF Save
<1>5. CASE ShowForm(p) \/ BuildOptions(p)
  <2>1. PICK g \in {"form", "options"} :
          proc' = [proc EXCEPT ![p] = [NoTask EXCEPT !.pc = "check", !.goal = g, !.calm = Calm(p)]]
    BY <1>5 DEF ShowForm, BuildOptions
  <2> DEFINE task == [NoTask EXCEPT !.pc = "check", !.goal = g, !.calm = Calm(p)]
  <2>2. task \in Tasks
    BY <1>2, BlankTypes DEF Tasks, ProcPC, Goals
  <2>3. task.pc = "check" /\ task.goal = g /\ task.calm = Calm(p) /\ task.key = 1
    BY DEF NoTask
  <2> HIDE DEF task
  <2>4. \A k \in Keys : ~(k < 1) BY DEF Keys
  <2>5. TaskInOrder(task) BY <2>3, <2>4 DEF TaskInOrder
  <2>6. proc' = [proc EXCEPT ![p] = task] /\ UNCHANGED table
    BY <1>5, <2>1 DEF task, ShowForm, BuildOptions
  <2> QED BY <1>2, <2>2, <2>3, <2>5, <2>6, ReaderStep
<1>6. CASE WriteKey(p)
  <2>1. ~proc[p].calm
    BY <1>0, <1>6 DEF TaskInOrder, WriteKey
  <2>2. \A q \in Procs : ~proc'[q].calm
    <3>1. proc'[p].calm = proc[p].calm
      BY <1>0, <1>6 DEF WriteKey, Tasks
    <3>2. \A q \in Procs \ {p} : proc[q] \in Tasks /\ proc'[q] = [proc[q] EXCEPT !.calm = FALSE]
      BY <1>0, <1>6 DEF WriteKey
    <3>3. \A q \in Procs \ {p} : ~proc'[q].calm
      BY <3>2 DEF Tasks
    <3> QED BY <2>1, <3>1, <3>3
  <2> QED BY <2>2 DEF CalmInv, NoWriterBehind, TaskInOrder
<1>7. CASE WriteKeyFails(p) \/ DropCopy(p)
  <2>1. proc' = [proc EXCEPT ![p] = AfterKey(p, proc[p])] /\ UNCHANGED table
        /\ proc[p].pc \in {"set", "drop"}
    BY <1>7 DEF WriteKeyFails, DropCopy
  <2> QED BY <1>3, <2>1, ReaderStep
<1>8. CASE CheckCopy(p) \/ TakeMutex(p)
  <2>1. UNCHANGED <<table, cache>> /\ proc[p].pc \in {"check", "lock"}
    BY <1>8 DEF CheckCopy, TakeMutex
  <2>2. CASE cache.loaded
    <3>1. proc' = [proc EXCEPT ![p] = Given(proc[p], cache)]
      BY <1>8, <2>2 DEF CheckCopy, TakeMutex
    <3>2. proc[p].calm /\ ~cache.failed => cache.map = table
      BY <1>0, <1>1, <2>2 DEF CopyInv, CopyFollowsTable
    <3>3. TaskInOrder(Given(proc[p], cache))
      BY <1>0, <2>1, <3>2, GivenInOrder
    <3>4. /\ Given(proc[p], cache) \in Tasks /\ Given(proc[p], cache).pc # "drop"
          /\ Given(proc[p], cache).calm => proc[p].calm
      BY <1>0, GivenTask, GivenCalm
    <3> QED BY <1>1, <2>1, <3>1, <3>3, <3>4, ReaderStep
  <2>3. CASE ~cache.loaded
    <3>1. PICK s \in {"lock", "load"} : proc' = [proc EXCEPT ![p] = [proc[p] EXCEPT !.pc = s]]
      BY <1>8, <2>3 DEF CheckCopy, TakeMutex
    <3> DEFINE task == [proc[p] EXCEPT !.pc = s]
    <3>2. /\ task \in Tasks /\ task.pc = s /\ task.calm = proc[p].calm
          /\ task.goal = proc[p].goal /\ task.key = proc[p].key /\ task.seen = proc[p].seen
      BY <1>0 DEF Tasks, ProcPC
    <3> HIDE DEF task
    <3>3. TaskInOrder(task) BY <1>0, <2>1, <3>2 DEF TaskInOrder
    <3>4. proc' = [proc EXCEPT ![p] = task] BY <3>1 DEF task
    <3> QED BY <1>1, <2>1, <3>2, <3>3, <3>4, ReaderStep
  <2> QED BY <2>2, <2>3
<1>9. CASE LoadTable(p) \/ LoadTableFails(p)
  <2>1. PICK c \in Copies :
          proc' = [proc EXCEPT ![p] = [proc[p] EXCEPT !.pc = "store", !.got = c]]
    <3>1. /\ [loaded |-> TRUE, failed |-> FALSE, map |-> table] \in Copies
          /\ [loaded |-> TRUE, failed |-> TRUE, map |-> Empty] \in Copies
      BY <1>0, BlankTypes DEF Copies
    <3> QED BY <1>0, <1>9, <3>1 DEF LoadTable, LoadTableFails
  <2> DEFINE task == [proc[p] EXCEPT !.pc = "store", !.got = c]
  <2>2. /\ task \in Tasks /\ task.pc = "store" /\ task.calm = proc[p].calm
        /\ task.goal = proc[p].goal /\ task.key = proc[p].key /\ task.seen = proc[p].seen
    BY <1>0 DEF Tasks, ProcPC
  <2>3. UNCHANGED table /\ proc[p].pc = "load"
    BY <1>9 DEF LoadTable, LoadTableFails
  <2> HIDE DEF task
  <2>4. TaskInOrder(task) BY <1>0, <2>2, <2>3 DEF TaskInOrder
  <2>5. proc' = [proc EXCEPT ![p] = task] BY <2>1 DEF task
  <2> QED BY <1>1, <2>2, <2>3, <2>4, <2>5, ReaderStep
<1>10. CASE StoreCopy(p)
  <2>1. proc[p].got \in Copies BY <1>0 DEF Tasks
  <2>2. proc[p].calm /\ ~proc[p].got.failed => proc[p].got.map = table
    BY <1>0, <1>1, <1>10 DEF CopyInv, StoredCopyIsCurrent, StoreCopy
  <2>3. TaskInOrder(Given(proc[p], proc[p].got))
    BY <1>0, <1>10, <2>1, <2>2, GivenInOrder DEF StoreCopy
  <2>4. /\ Given(proc[p], proc[p].got) \in Tasks /\ Given(proc[p], proc[p].got).pc # "drop"
        /\ Given(proc[p], proc[p].got).calm => proc[p].calm
    BY <1>0, <2>1, GivenTask, GivenCalm
  <2> QED BY <1>1, <1>10, <2>3, <2>4, ReaderStep DEF StoreCopy
<1>11. CASE Leave(p)
  <2>1. NoTask.pc = "idle" /\ ~NoTask.calm BY DEF NoTask
  <2>2. TaskInOrder(NoTask) BY <2>1 DEF TaskInOrder
  <2> QED BY <1>11, <2>1, <2>2, BlankTypes, ReaderStep DEF Leave
<1> QED BY <1>4, <1>5, <1>6, <1>7, <1>8, <1>9, <1>10, <1>11 DEF ProcStep

LEMMA CalmInvHolds == Spec => []CalmInv
<1>1. Init => CalmInv
  <2> SUFFICES ASSUME Init PROVE CalmInv
    OBVIOUS
  <2>1. \A p \in Procs : ~proc[p].calm
    BY DEF Init, NoTask
  <2> QED BY <2>1, InitHolds DEF CalmInv, NoWriterBehind, TaskInOrder
<1>2. CalmInv /\ [Next]_vars => CalmInv'
  <2> SUFFICES ASSUME CalmInv, [Next]_vars PROVE CalmInv'
    OBVIOUS
  <2>1. CopyInv' BY CopyInvIsInductive DEF CalmInv
  <2>2. CASE Next
    BY <2>1, <2>2, CalmStep DEF Next
  <2>3. CASE UNCHANGED vars
    BY <2>1, <2>3 DEF vars, CalmInv, NoWriterBehind, TaskInOrder, Effective
  <2> QED BY <2>2, <2>3
<1> QED BY <1>1, <1>2, PTL DEF Spec

(* Provider.Overrides and DownloadOptions: a caller during whose call      *)
(* nobody was saving gets the saved settings, field by field.              *)
THEOREM CalmReadersSee == Spec => []CalmReadersSeeTheTable
<1>1. CalmInv => CalmReadersSeeTheTable
  <2> SUFFICES ASSUME CalmInv, NEW p \in Procs, proc[p].pc = "done", proc[p].calm
               PROVE  proc[p].seen = IF proc[p].goal = "form" THEN table
                                     ELSE [k \in Keys |-> Effective(table, k)]
    BY DEF CalmReadersSeeTheTable
  <2> QED BY DEF CalmInv, TaskInOrder
<1> QED BY <1>1, CalmInvHolds, PTL

-----------------------------------------------------------------------------
(* Labels.                                                                 *)

(* A tag of a collection has a name, so that it cannot be mistaken for a   *)
(* row that is not there.                                                  *)
CollectionsAreNamed == \A t \in Tags : tag[t].kind = "collection" => tag[t].name # None

LabelInv == L!LabelsTypeOK /\ CollectionsAreNamed /\ TagsMatchCollections

LEMMA TaskTypes ==
    ASSUME L!LabelsTypeOK, L!Next
    PROVE  L!LabelsTypeOK'
<1> USE DEF L!TaskState, L!TaskPC, L!TaskKind, L!NoTask, L!Set
<1>1. /\ alive \subseteq LabelledJobs
      /\ tag \in [Tags -> [name : Things \cup {None}, kind : {"plain", "collection"}]]
      /\ tagged \subseteq LabelledJobs \X Tags
      /\ coll \in [Collections -> Things \cup {None}]
      /\ labeller \in [Actors -> L!TaskState]
    BY DEF L!LabelsTypeOK
<1>2. ASSUME NEW T \in SUBSET Tags, L!DropTags(T)
      PROVE  /\ tag' \in [Tags -> [name : Things \cup {None}, kind : {"plain", "collection"}]]
             /\ tagged' \subseteq LabelledJobs \X Tags
    BY <1>1, <1>2 DEF L!DropTags, L!NoTag
<1>3. ASSUME NEW n \in Things \cup {None}
      PROVE  L!Named(n) \in SUBSET Tags
    BY DEF L!Named
<1>4. ASSUME NEW c \in Actors, \/ L!AddTag(c) \/ L!Expand(c) \/ L!RemoveTag(c) \/ L!Prune(c)
      PROVE  L!LabelsTypeOK'
  <2>1. \E task \in L!TaskState : L!Set(c, task)
    <3>1. CASE L!AddTag(c)
      BY <3>1 DEF L!AddTag
    <3>2. CASE L!Expand(c)
      BY <3>2 DEF L!Expand
    <3>3. CASE L!RemoveTag(c)
      BY <3>3 DEF L!RemoveTag
    <3>4. CASE L!Prune(c)
      BY <3>4 DEF L!Prune
    <3> QED
      BY <1>4, <3>1, <3>2, <3>3, <3>4
  <2>2. UNCHANGED <<alive, tag, tagged, coll>>
    BY <1>4 DEF L!AddTag, L!Expand, L!RemoveTag, L!Prune
  <2> QED
    BY <1>1, <2>1, <2>2 DEF L!LabelsTypeOK
<1>5. ASSUME NEW c \in Actors, \/ L!InsertTag(c) \/ L!SelectTag(c)
      PROVE  L!LabelsTypeOK'
  <2>1. L!Named(labeller[c].name) \in SUBSET Tags
    BY <1>1, <1>3
  <2>2. CASE L!InsertTag(c)
    BY <1>1, <2>1, <2>2 DEF L!InsertTag, L!Fresh, L!LabelsTypeOK
  <2>3. CASE L!SelectTag(c)
    <3> DEFINE task == [labeller[c] EXCEPT !.id = L!Named(labeller[c].name)]
    <3>1. task \in L!TaskState
      BY <1>1, <2>1
    <3>2. UNCHANGED <<alive, tag, tagged, coll>> /\ \/ L!Set(c, L!NoTask)
                                                     \/ L!Set(c, [task EXCEPT !.pc = "create"])
                                                     \/ L!Set(c, [task EXCEPT !.pc = "attach"])
      BY <2>3 DEF L!SelectTag
    <3> HIDE DEF task
    <3> QED
      BY <1>1, <3>1, <3>2 DEF L!LabelsTypeOK
  <2> QED
    BY <1>5, <2>2, <2>3
<1>6. ASSUME NEW c \in Actors, \/ L!Attach(c) \/ L!CreateJob(c) \/ L!EndExpand(c)
      PROVE  L!LabelsTypeOK'
  <2>1. CASE L!Attach(c)
    <3>1. labeller[c].jobs \X labeller[c].id \subseteq LabelledJobs \X Tags
      BY <1>1
    <3>2. tagged' \in {tagged \cup (labeller[c].jobs \X labeller[c].id), tagged}
      BY <2>1 DEF L!Attach
    <3>3. labeller' \in [Actors -> L!TaskState]
      <4>1. [labeller[c] EXCEPT !.pc = "create", !.jobs = {}] \in L!TaskState
        BY <1>1
      <4> QED
        BY <1>1, <2>1, <4>1 DEF L!Attach
    <3> QED
      BY <1>1, <2>1, <3>1, <3>2, <3>3 DEF L!Attach, L!LabelsTypeOK
  <2>2. CASE L!CreateJob(c)
    <3>1. PICK j \in LabelledJobs :
             /\ alive' = alive \cup {j}
             /\ L!Set(c, IF labeller[c].id = {} THEN labeller[c]
                         ELSE [labeller[c] EXCEPT !.jobs = {j}, !.pc = "attach"])
      BY <2>2 DEF L!CreateJob
    <3>2. [labeller[c] EXCEPT !.jobs = {j}, !.pc = "attach"] \in L!TaskState
      BY <1>1
    <3> QED
      BY <1>1, <2>2, <3>1, <3>2 DEF L!CreateJob, L!LabelsTypeOK
  <2>3. CASE L!EndExpand(c)
    BY <1>1, <2>3 DEF L!EndExpand, L!LabelsTypeOK
  <2> QED
    BY <1>6, <2>1, <2>2, <2>3
<1>7. ASSUME NEW c \in Actors, \/ L!Unlink(c) \/ L!PruneLinks(c)
      PROVE  L!LabelsTypeOK'
    BY <1>1, <1>7 DEF L!Unlink, L!PruneLinks, L!LabelsTypeOK
<1>8. ASSUME NEW c \in Actors, \/ L!DropUnused(c) \/ L!PrunePlain(c) \/ L!PruneRows(c)
      PROVE  L!LabelsTypeOK'
  <2>1. \E T \in SUBSET Tags : L!DropTags(T)
    BY <1>8 DEF L!DropUnused, L!PrunePlain, L!PruneRows, L!Named
  <2>2. UNCHANGED <<alive, coll>> /\ labeller' \in [Actors -> L!TaskState]
    BY <1>1, <1>8 DEF L!DropUnused, L!PrunePlain, L!PruneRows
  <2> QED
    BY <1>1, <1>2, <2>1, <2>2 DEF L!LabelsTypeOK
<1>9. ASSUME NEW k \in Collections, L!CreateCollection(k)
      PROVE  L!LabelsTypeOK'
    BY <1>1, <1>9 DEF L!CreateCollection, L!LabelsTypeOK
<1>10. ASSUME NEW k \in Collections, L!DeleteCollection(k)
       PROVE  L!LabelsTypeOK'
  <2>1. L!Named(coll[k]) \in SUBSET Tags
    BY <1>1, <1>3
  <2> QED
    BY <1>1, <1>2, <1>10, <2>1 DEF L!DeleteCollection, L!LabelsTypeOK
<1>11. ASSUME NEW k \in Collections, L!RenameCollection(k)
       PROVE  L!LabelsTypeOK'
    BY <1>1, <1>11 DEF L!RenameCollection, L!LabelsTypeOK
<1>12. ASSUME NEW k \in Collections, L!AddJobs(k)
       PROVE  L!LabelsTypeOK'
    BY <1>1, <1>12 DEF L!AddJobs, L!Named, L!Fresh, L!LabelsTypeOK
<1>13. ASSUME NEW j \in LabelledJobs, L!PurgeJob(j)
       PROVE  L!LabelsTypeOK'
    BY <1>1, <1>13 DEF L!PurgeJob, L!LabelsTypeOK
<1> QED
  BY <1>4, <1>5, <1>6, <1>7, <1>8, <1>9, <1>10, <1>11, <1>12, <1>13 DEF L!Next

(* The three together survive what a statement does to a tag.              *)
LEMMA TagsStay ==
    ASSUME LabelInv, L!LabelsTypeOK', UNCHANGED coll,
           NEW T \in SUBSET Tags,
           \/ UNCHANGED tag
           \/ tag' = [t \in Tags |-> IF t \in T THEN L!NoTag ELSE tag[t]]
    PROVE  LabelInv'
BY DEF LabelInv, L!LabelsTypeOK, CollectionsAreNamed, TagsMatchCollections,
       L!TagsMatchCollections, L!NoTag

LEMMA LabelsStep ==
    ASSUME LabelInv, L!Next
    PROVE  LabelInv'
<1> USE DEF LabelInv, L!LabelsTypeOK, CollectionsAreNamed, TagsMatchCollections,
            L!TagsMatchCollections
<1>1. L!LabelsTypeOK'
  BY TaskTypes
<1>2. ASSUME UNCHANGED <<tag, coll>>
      PROVE  LabelInv'
  BY <1>1, <1>2, TagsStay
<1>3. ASSUME UNCHANGED coll, NEW T \in SUBSET Tags, L!DropTags(T)
      PROVE  LabelInv'
  BY <1>1, <1>3, TagsStay DEF L!DropTags
<1>4. ASSUME NEW c \in Actors, L!InsertTag(c)
      PROVE  LabelInv'
  <2>1. labeller[c].name \in Things \cup {None}
    BY DEF L!TaskState
  <2>2. CASE UNCHANGED tag
    BY <1>2, <1>4, <2>2 DEF L!InsertTag
  <2>3. ASSUME NEW t \in Tags, \A u \in Tags : tag[u].name # labeller[c].name,
               tag' = [tag EXCEPT ![t] = [name |-> labeller[c].name, kind |-> "plain"]]
        PROVE  LabelInv'
    BY <1>1, <1>4, <2>1, <2>3 DEF L!InsertTag
  <2> QED
    BY <1>4, <2>2, <2>3 DEF L!InsertTag, L!Fresh, L!Named
<1>5. ASSUME NEW k \in Collections, L!CreateCollection(k)
      PROVE  LabelInv'
  BY <1>1, <1>5 DEF L!CreateCollection
<1>6. ASSUME NEW k \in Collections, L!DeleteCollection(k)
      PROVE  LabelInv'
  BY <1>1, <1>6 DEF L!DeleteCollection, L!DropTags, L!Named, L!NoTag
<1>7. ASSUME NEW k \in Collections, L!RenameCollection(k)
      PROVE  LabelInv'
  <2>1. PICK n \in Things :
           /\ \/ \A t \in Tags : tag[t].name # coll[k]
              \/ n = coll[k]
              \/ \A t \in Tags : tag[t].name # n
           /\ coll[k] # None /\ coll' = [coll EXCEPT ![k] = n]
           /\ tag' = [t \in Tags |-> IF t \in L!Named(coll[k]) THEN [tag[t] EXCEPT !.name = n]
                                     ELSE tag[t]]
    <3> HIDE DEF LabelInv
    <3> QED
      BY <1>7 DEF L!RenameCollection, L!Named
  <2>2. n # None
    BY InstanceConstants DEF L!LabelConstants
  <2>3. \A t \in Tags : /\ tag'[t].kind = tag[t].kind
                        /\ tag'[t].name = IF tag[t].name = coll[k] THEN n ELSE tag[t].name
    <3> TAKE t \in Tags
    <3>1. tag[t] \in [name : Things \cup {None}, kind : {"plain", "collection"}]
      OBVIOUS
    <3>2. tag'[t] = IF tag[t].name = coll[k] THEN [tag[t] EXCEPT !.name = n] ELSE tag[t]
      BY <2>1 DEF L!Named
    <3> HIDE DEF LabelInv
    <3> QED
      BY <3>1, <3>2
  <2>4. CollectionsAreNamed'
    BY <2>2, <2>3
  <2>5. \A t \in Tags : tag'[t].kind = "collection" => \E l \in Collections : coll'[l] = tag'[t].name
    BY <2>1, <2>3
  <2>6. \A t, u \in Tags : t # u /\ tag'[t].name = tag'[u].name => tag'[t].name = None
    BY <2>1, <2>3
  <2> QED
    BY <1>1, <2>4, <2>5, <2>6
<1>8. ASSUME NEW k \in Collections, L!AddJobs(k)
      PROVE  LabelInv'
  BY <1>1, <1>8 DEF L!AddJobs, L!Named, L!Fresh, L!NoTag
<1>9. ASSUME NEW j \in LabelledJobs, L!PurgeJob(j)
      PROVE  LabelInv'
  BY <1>2, <1>9 DEF L!PurgeJob
<1>10. ASSUME NEW c \in Actors,
              \/ L!AddTag(c) \/ L!Expand(c) \/ L!RemoveTag(c) \/ L!Prune(c)
              \/ L!SelectTag(c) \/ L!Attach(c) \/ L!CreateJob(c) \/ L!EndExpand(c)
              \/ L!Unlink(c) \/ L!PruneLinks(c)
       PROVE  LabelInv'
  BY <1>2, <1>10 DEF L!AddTag, L!Expand, L!RemoveTag, L!Prune, L!SelectTag, L!Attach,
                     L!CreateJob, L!EndExpand, L!Unlink, L!PruneLinks
<1>11. ASSUME NEW c \in Actors, L!DropUnused(c) \/ L!PrunePlain(c) \/ L!PruneRows(c)
       PROVE  LabelInv'
  <2>1. UNCHANGED coll /\ \E T \in SUBSET Tags : L!DropTags(T)
    BY <1>11 DEF L!DropUnused, L!PrunePlain, L!PruneRows, L!Named
  <2> QED
    BY <1>3, <2>1
<1> QED
  BY <1>4, <1>5, <1>6, <1>7, <1>8, <1>9, <1>10, <1>11 DEF L!Next

LEMMA AlwaysLabelInv == L!Spec => []LabelInv
<1>1. L!Init => LabelInv
  BY DEF L!Init, LabelInv, L!LabelsTypeOK, CollectionsAreNamed, TagsMatchCollections,
         L!TagsMatchCollections, L!NoTag, L!NoTask, L!TaskState, L!TaskPC, L!TaskKind
<1>2. LabelInv /\ [L!Next]_L!vars => LabelInv'
  <2>1. ASSUME LabelInv, UNCHANGED L!vars
        PROVE  LabelInv'
    BY <2>1 DEF LabelInv, L!LabelsTypeOK, CollectionsAreNamed, TagsMatchCollections,
                L!TagsMatchCollections, L!vars
  <2> QED
    BY <2>1, LabelsStep
<1> QED
  BY <1>1, <1>2, PTL DEF L!Spec

(* A tag marked as a collection's always has that collection, so that no   *)
(* prune takes jobs out of one, and no name has two tags: the two          *)
(* statements of Upsert, AddJobs, Rename, Delete and the prunes, in any    *)
(* order and for any number of them (repo/tag.go, repo/collection.go).     *)
THEOREM TagsAlwaysMatch == L!Spec => []TagsMatchCollections
<1>1. LabelInv => TagsMatchCollections
  BY DEF LabelInv
<1> QED
  BY <1>1, AlwaysLabelInv, PTL

(* What is tagged has a row, and no two collections have one name.         *)
TaggedAreNamed      == \A p \in tagged : tag[p[2]].name # None
CollectionsDistinct == \A k, l \in Collections : coll[k] = coll[l] => k = l \/ coll[k] = None

LEMMA DistinctStep ==
    ASSUME LabelInv, CollectionsDistinct, L!Next
    PROVE  CollectionsDistinct'
<1>1. coll \in [Collections -> Things \cup {None}]
  BY DEF LabelInv, L!LabelsTypeOK
<1>2. \/ UNCHANGED coll
      \/ \E k \in Collections : coll' = [coll EXCEPT ![k] = None]
      \/ \E k \in Collections, n \in Things :
            /\ \A l \in Collections \ {k} : coll[l] # n
            /\ coll' = [coll EXCEPT ![k] = n]
  <2>1. ASSUME NEW c \in Actors,
               \/ L!AddTag(c) \/ L!Expand(c) \/ L!RemoveTag(c) \/ L!Prune(c)
               \/ L!InsertTag(c) \/ L!SelectTag(c) \/ L!Attach(c) \/ L!CreateJob(c)
               \/ L!EndExpand(c) \/ L!Unlink(c) \/ L!DropUnused(c) \/ L!PruneLinks(c)
               \/ L!PrunePlain(c) \/ L!PruneRows(c)
        PROVE  UNCHANGED coll
    BY <2>1 DEF L!AddTag, L!Expand, L!RemoveTag, L!Prune, L!InsertTag, L!SelectTag, L!Attach,
                L!CreateJob, L!EndExpand, L!Unlink, L!DropUnused, L!PruneLinks, L!PrunePlain,
                L!PruneRows
  <2>2. ASSUME NEW k \in Collections, L!CreateCollection(k)
        PROVE  \E n \in Things : /\ \A l \in Collections \ {k} : coll[l] # n
                                 /\ coll' = [coll EXCEPT ![k] = n]
    BY <2>2 DEF L!CreateCollection
  <2>3. ASSUME NEW k \in Collections, L!RenameCollection(k)
        PROVE  \E n \in Things : /\ \A l \in Collections \ {k} : coll[l] # n
                                 /\ coll' = [coll EXCEPT ![k] = n]
    BY <2>3 DEF L!RenameCollection
  <2>4. ASSUME NEW k \in Collections, L!DeleteCollection(k)
        PROVE  coll' = [coll EXCEPT ![k] = None]
    BY <2>4 DEF L!DeleteCollection
  <2>5. ASSUME NEW k \in Collections, L!AddJobs(k)
        PROVE  UNCHANGED coll
    BY <2>5 DEF L!AddJobs
  <2>6. ASSUME NEW j \in LabelledJobs, L!PurgeJob(j)
        PROVE  UNCHANGED coll
    BY <2>6 DEF L!PurgeJob
  <2> QED
    BY <2>1, <2>2, <2>3, <2>4, <2>5, <2>6 DEF L!Next
<1> QED
  BY <1>1, <1>2 DEF CollectionsDistinct

(* What a step may do to one tag of a job.                                 *)
Stays(j, t)   == <<j, t>> \in tagged' /\ tag'[t].name = tag[t].name
                 /\ \A k \in Collections : coll[k] = tag[t].name => coll'[k] \in {coll[k], None}
Taken(j, t)   == tag[t].name \in L!TakenOff(j) /\ UNCHANGED coll
Follows(j, t) == \E k \in Collections :
                    /\ tag[t].name = coll[k] /\ coll'[k] # coll[k]
                    /\ coll'[k] # None => <<j, t>> \in tagged' /\ tag'[t].name = coll'[k]

LEMMA TagFates ==
    ASSUME LabelInv, TaggedAreNamed, L!Next,
           NEW j \in alive, j \in alive', NEW t \in Tags, <<j, t>> \in tagged
    PROVE  Stays(j, t) \/ Taken(j, t) \/ Follows(j, t)
<1>1. /\ tag \in [Tags -> [name : Things \cup {None}, kind : {"plain", "collection"}]]
      /\ tag[t].name \in Things
      /\ coll \in [Collections -> Things \cup {None}]
      /\ labeller \in [Actors -> L!TaskState]
      /\ j \in LabelledJobs
  BY DEF LabelInv, L!LabelsTypeOK, TaggedAreNamed
<1>2. ASSUME UNCHANGED <<tag, coll>>, <<j, t>> \in tagged'
      PROVE  Stays(j, t)
  BY <1>2 DEF Stays
<1>3. ASSUME NEW T \in SUBSET Tags, t \notin T, L!DropTags(T), UNCHANGED coll
      PROVE  Stays(j, t)
  BY <1>3 DEF Stays, L!DropTags
<1>4. ASSUME NEW c \in Actors,
             \/ L!AddTag(c) \/ L!Expand(c) \/ L!RemoveTag(c) \/ L!Prune(c)
             \/ L!SelectTag(c) \/ L!Attach(c) \/ L!CreateJob(c) \/ L!EndExpand(c)
             \/ L!PruneLinks(c)
      PROVE  Stays(j, t)
  BY <1>2, <1>4 DEF L!AddTag, L!Expand, L!RemoveTag, L!Prune, L!SelectTag, L!Attach,
                    L!CreateJob, L!EndExpand, L!PruneLinks
<1>5. ASSUME NEW c \in Actors, L!InsertTag(c)
      PROVE  Stays(j, t)
  <2>1. ASSUME NEW u \in L!Fresh
        PROVE  u # t
    BY <1>1, InstanceConstants DEF L!Fresh, L!NoTag, L!LabelConstants
  <2> QED
    BY <1>1, <1>5, <2>1 DEF L!InsertTag, Stays
<1>6. ASSUME NEW c \in Actors, L!Unlink(c)
      PROVE  Stays(j, t) \/ Taken(j, t)
  <2>1. CASE <<j, t>> \in tagged'
    BY <1>2, <1>6, <2>1 DEF L!Unlink
  <2>2. CASE <<j, t>> \notin tagged'
    <3>1. j \in labeller[c].jobs /\ labeller[c].name = tag[t].name /\ labeller[c].pc = "unlink"
      BY <1>6, <2>2 DEF L!Unlink, L!Named
    <3>2. labeller'[c].pc = "drop"
      BY <1>1, <1>6 DEF L!Unlink, L!Set, L!TaskState
    <3> QED
      BY <1>1, <1>6, <3>1, <3>2 DEF L!Unlink, L!TakenOff, Taken
  <2> QED
    BY <2>1, <2>2
<1>7. ASSUME NEW c \in Actors, L!DropUnused(c) \/ L!PrunePlain(c) \/ L!PruneRows(c)
      PROVE  Stays(j, t)
  <2>1. t \in L!Used
    BY <1>1 DEF L!Used
  <2>2. CASE L!DropUnused(c)
    BY <1>3, <2>1, <2>2 DEF L!DropUnused, L!Named
  <2>3. CASE L!PrunePlain(c)
    BY <1>3, <2>1, <2>3 DEF L!PrunePlain
  <2>4. CASE L!PruneRows(c)
    BY <1>3, <2>4 DEF L!PruneRows, LabelInv, TagsMatchCollections, L!TagsMatchCollections
  <2> QED
    BY <1>7, <2>2, <2>3, <2>4
<1>8. ASSUME NEW k \in Collections, L!CreateCollection(k)
      PROVE  Stays(j, t)
  BY <1>1, <1>8, InstanceConstants DEF L!CreateCollection, Stays, L!LabelConstants
<1>9. ASSUME NEW k \in Collections, L!DeleteCollection(k)
      PROVE  Stays(j, t) \/ Follows(j, t)
  <2>1. CASE tag[t].name = coll[k]
    BY <1>1, <1>9, <2>1 DEF L!DeleteCollection, Follows
  <2>2. CASE tag[t].name # coll[k]
    BY <1>1, <1>9, <2>2 DEF L!DeleteCollection, L!DropTags, L!Named, Stays
  <2> QED
    BY <2>1, <2>2
<1>10. ASSUME NEW k \in Collections, L!RenameCollection(k)
       PROVE  Stays(j, t) \/ Follows(j, t)
  <2>1. PICK n \in Things :
           /\ coll[k] # None /\ coll' = [coll EXCEPT ![k] = n] /\ UNCHANGED tagged
           /\ tag' = [u \in Tags |-> IF u \in L!Named(coll[k]) THEN [tag[u] EXCEPT !.name = n]
                                     ELSE tag[u]]
    BY <1>10 DEF L!RenameCollection
  <2>2. CASE tag[t].name = coll[k]
    <3>1. tag[t] \in [name : Things \cup {None}, kind : {"plain", "collection"}]
      BY <1>1
    <3>2. tag'[t] = [tag[t] EXCEPT !.name = n]
      BY <2>1, <2>2 DEF L!Named
    <3>3. tag'[t].name = n
      BY <3>1, <3>2
    <3>4. CASE n = coll[k]
      BY <1>1, <2>1, <2>2, <3>3, <3>4 DEF Stays
    <3>5. CASE n # coll[k]
      BY <1>1, <2>1, <2>2, <3>3, <3>5 DEF Follows
    <3> QED
      BY <3>4, <3>5
  <2>3. CASE tag[t].name # coll[k]
    BY <1>1, <2>1, <2>3 DEF L!Named, Stays
  <2> QED
    BY <2>2, <2>3
<1>11. ASSUME NEW k \in Collections, L!AddJobs(k)
       PROVE  Stays(j, t)
  <2>1. PICK u \in IF L!Named(coll[k]) # {} THEN L!Named(coll[k]) ELSE L!Fresh :
           /\ tag' = [tag EXCEPT ![u] = [name |-> coll[k], kind |-> "collection"]]
           /\ tagged \subseteq tagged' /\ UNCHANGED coll
    BY <1>11 DEF L!AddJobs
  <2>2. u # t \/ tag[t].name = coll[k]
    BY <1>1, <2>1, InstanceConstants DEF L!Fresh, L!Named, L!NoTag, L!LabelConstants
  <2> QED
    BY <1>1, <2>1, <2>2 DEF Stays
<1>12. ASSUME NEW i \in LabelledJobs, L!PurgeJob(i)
       PROVE  Stays(j, t)
  BY <1>2, <1>12 DEF L!PurgeJob
<1> QED
  BY <1>4, <1>5, <1>6, <1>7, <1>8, <1>9, <1>10, <1>11, <1>12 DEF L!Next

(* A tag gets its first job when it has a name, and loses its jobs with it.*)
LEMMA NamedStep ==
    ASSUME LabelInv, TaggedAreNamed, L!Next
    PROVE  TaggedAreNamed'
<1>1. /\ tag \in [Tags -> [name : Things \cup {None}, kind : {"plain", "collection"}]]
      /\ tagged \subseteq LabelledJobs \X Tags
      /\ coll \in [Collections -> Things \cup {None}]
      /\ labeller \in [Actors -> L!TaskState]
      /\ None \notin Things
  BY InstanceConstants DEF LabelInv, L!LabelsTypeOK, L!LabelConstants
<1>2. ASSUME UNCHANGED tag, tagged' \subseteq tagged
      PROVE  TaggedAreNamed'
  BY <1>2 DEF TaggedAreNamed
<1>3. ASSUME NEW T \in SUBSET Tags, L!DropTags(T)
      PROVE  TaggedAreNamed'
  BY <1>1, <1>3 DEF L!DropTags, TaggedAreNamed
<1>4. ASSUME NEW c \in Actors,
             \/ L!AddTag(c) \/ L!Expand(c) \/ L!RemoveTag(c) \/ L!Prune(c)
             \/ L!SelectTag(c) \/ L!CreateJob(c) \/ L!EndExpand(c)
             \/ L!Unlink(c) \/ L!PruneLinks(c)
      PROVE  TaggedAreNamed'
  BY <1>2, <1>4 DEF L!AddTag, L!Expand, L!RemoveTag, L!Prune, L!SelectTag,
                    L!CreateJob, L!EndExpand, L!Unlink, L!PruneLinks
<1>5. ASSUME NEW c \in Actors, L!InsertTag(c)
      PROVE  TaggedAreNamed'
  <2>1. ASSUME NEW u \in L!Fresh, NEW p \in tagged
        PROVE  u # p[2]
    BY <1>1, <2>1 DEF L!Fresh, L!NoTag, TaggedAreNamed
  <2> QED
    BY <1>1, <1>5, <2>1 DEF L!InsertTag, TaggedAreNamed
<1>6. ASSUME NEW c \in Actors, L!Attach(c)
      PROVE  TaggedAreNamed'
  <2>1. ASSUME NEW u \in Tags, tag[u] # L!NoTag
        PROVE  tag[u].name # None
    BY <1>1, <2>1 DEF L!NoTag, LabelInv, CollectionsAreNamed
  <2>2. labeller[c].id \subseteq Tags
    BY <1>1 DEF L!TaskState
  <2> QED
    BY <1>6, <2>1, <2>2 DEF L!Attach, TaggedAreNamed
<1>7. ASSUME NEW c \in Actors, L!DropUnused(c) \/ L!PrunePlain(c) \/ L!PruneRows(c)
      PROVE  TaggedAreNamed'
  <2>1. \E T \in SUBSET Tags : L!DropTags(T)
    BY <1>7 DEF L!DropUnused, L!PrunePlain, L!PruneRows, L!Named
  <2> QED
    BY <1>3, <2>1
<1>8. ASSUME NEW k \in Collections, L!CreateCollection(k)
      PROVE  TaggedAreNamed'
  BY <1>2, <1>8 DEF L!CreateCollection
<1>9. ASSUME NEW k \in Collections, L!DeleteCollection(k)
      PROVE  TaggedAreNamed'
  BY <1>3, <1>9 DEF L!DeleteCollection, L!Named
<1>10. ASSUME NEW k \in Collections, L!RenameCollection(k)
       PROVE  TaggedAreNamed'
  <2>1. PICK n \in Things :
           /\ UNCHANGED tagged
           /\ tag' = [u \in Tags |-> IF u \in L!Named(coll[k]) THEN [tag[u] EXCEPT !.name = n]
                                     ELSE tag[u]]
    BY <1>10 DEF L!RenameCollection
  <2>2. ASSUME NEW u \in Tags, tag[u].name # None
        PROVE  tag'[u].name # None
    <3>1. tag[u] \in [name : Things \cup {None}, kind : {"plain", "collection"}]
      BY <1>1
    <3>2. tag'[u] \in {tag[u], [tag[u] EXCEPT !.name = n]}
      BY <2>1
    <3>3. n # None
      BY <1>1
    <3> QED
      BY <2>2, <3>1, <3>2, <3>3
  <2> QED
    BY <1>1, <2>1, <2>2 DEF TaggedAreNamed
<1>11. ASSUME NEW k \in Collections, L!AddJobs(k)
       PROVE  TaggedAreNamed'
  <2>1. PICK u \in Tags, J \in SUBSET alive :
           /\ tag' = [tag EXCEPT ![u] = [name |-> coll[k], kind |-> "collection"]]
           /\ tagged' = tagged \cup (J \X {u}) /\ coll[k] # None
    BY <1>11 DEF L!AddJobs, L!Named, L!Fresh
  <2> QED
    BY <1>1, <2>1 DEF TaggedAreNamed
<1>12. ASSUME NEW i \in LabelledJobs, L!PurgeJob(i)
       PROVE  TaggedAreNamed'
  BY <1>2, <1>12 DEF L!PurgeJob
<1> QED
  BY <1>4, <1>5, <1>6, <1>7, <1>8, <1>9, <1>10, <1>11, <1>12 DEF L!Next

(* The labels of a job follow from the fates of its tags.                  *)
LEMMA LabelsLast ==
    ASSUME LabelInv, TaggedAreNamed, CollectionsDistinct, L!Next,
           NEW j \in alive \cap alive'
    PROVE  /\ L!LabelsOf(j) \ L!LabelsOf(j)' \subseteq
                 L!TakenOff(j)
                   \cup {coll[k] : k \in {l \in Collections : coll[l] # coll'[l]}}
           /\ \A k \in Collections :
                 coll[k] # None /\ coll'[k] # None /\ coll[k] \in L!LabelsOf(j)
                     => coll'[k] \in L!LabelsOf(j)' \/ coll[k] \in L!TakenOff(j)
<1>1. ASSUME NEW t \in Tags, <<j, t>> \in tagged
      PROVE  Stays(j, t) \/ Taken(j, t) \/ Follows(j, t)
  BY <1>1, TagFates
<1>2. ASSUME NEW n \in L!LabelsOf(j), n \notin L!LabelsOf(j)'
      PROVE  n \in L!TakenOff(j) \cup {coll[k] : k \in {l \in Collections : coll[l] # coll'[l]}}
  <2>1. PICK t \in Tags : <<j, t>> \in tagged /\ tag[t].name = n
    BY DEF L!LabelsOf
  <2>2. ~Stays(j, t)
    BY <1>2, <2>1 DEF Stays, L!LabelsOf
  <2> QED
    BY <1>1, <2>1, <2>2 DEF Taken, Follows
<1>3. ASSUME NEW k \in Collections, coll[k] # None, coll'[k] # None, coll[k] \in L!LabelsOf(j)
      PROVE  coll'[k] \in L!LabelsOf(j)' \/ coll[k] \in L!TakenOff(j)
  <2>1. PICK t \in Tags : <<j, t>> \in tagged /\ tag[t].name = coll[k]
    BY <1>3 DEF L!LabelsOf
  <2>2. CASE Stays(j, t)
    BY <1>3, <2>1, <2>2 DEF Stays, L!LabelsOf
  <2>3. CASE Taken(j, t)
    BY <2>1, <2>3 DEF Taken
  <2>4. CASE Follows(j, t)
    BY <1>3, <2>1, <2>4 DEF Follows, CollectionsDistinct, L!LabelsOf
  <2> QED
    BY <1>1, <2>1, <2>2, <2>3, <2>4
<1> QED
  BY <1>2, <1>3

(* A job loses a label only to a request for this job, to the deletion or  *)
(* the renaming of the collection of that name, or with its row; and a     *)
(* collection keeps its jobs under whatever name it has (RemoveFromJob,    *)
(* PruneOrphans, execReindex and the transactions of collection.go).       *)
THEOREM LabelsAlwaysKept == L!Spec => LabelsAreKept
<1>1. L!Init => TaggedAreNamed /\ CollectionsDistinct
  BY DEF L!Init, TaggedAreNamed, CollectionsDistinct
<1>2. LabelInv /\ TaggedAreNamed /\ CollectionsDistinct /\ [L!Next]_L!vars
        => TaggedAreNamed' /\ CollectionsDistinct'
  <2>1. ASSUME TaggedAreNamed, CollectionsDistinct, UNCHANGED L!vars
        PROVE  TaggedAreNamed' /\ CollectionsDistinct'
    BY <2>1 DEF TaggedAreNamed, CollectionsDistinct, L!vars
  <2> QED
    BY <2>1, NamedStep, DistinctStep
<1>3. LabelInv /\ TaggedAreNamed /\ CollectionsDistinct /\ [L!Next]_L!vars =>
        [\A j \in alive \cap alive' :
           /\ L!LabelsOf(j) \ L!LabelsOf(j)' \subseteq
                 L!TakenOff(j)
                   \cup {coll[k] : k \in {l \in Collections : coll[l] # coll'[l]}}
           /\ \A k \in Collections :
                 coll[k] # None /\ coll'[k] # None /\ coll[k] \in L!LabelsOf(j)
                     => coll'[k] \in L!LabelsOf(j)' \/ coll[k] \in L!TakenOff(j)]_L!vars
  BY LabelsLast
<1> QED
  BY <1>1, <1>2, <1>3, AlwaysLabelInv, PTL DEF L!Spec, LabelsAreKept, L!LabelsAreKept

-----------------------------------------------------------------------------
(* CookieJar.                                                              *)

(* What a request that nobody overlaps finds at each of its steps.         *)
LoneInOrder(me, j, f) ==
    me.alone => /\ me.pc # "idle"
                /\ me.pc \in {"open", "write", "remove"} => me.merged = j
                /\ me.pc \in {"open", "write"} => j # C!Blank
                /\ me.pc = "write" => me.linked /\ f = C!Blank
                /\ me.pc = "remove" => j = C!Blank
                /\ me.pc = "done" => f = IF j = C!Blank THEN None ELSE j

JarInv ==
    /\ C!JarTypeOK
    /\ \A c \in Actors : LoneInOrder(importer[c], jar, file)
    /\ \A c, d \in Actors : importer[c].alone /\ c # d => importer[d].pc = "idle"

(* A step of one request that leaves the others where they are.            *)
LEMMA JarByRequests ==
    ASSUME JarInv, NEW c \in Actors, NEW me \in C!ClientState,
           importer' = [importer EXCEPT ![c] = me],
           jar' \in C!Texts, file' \in C!Texts \cup {None, Mixed}, jarFaults' \in Nat,
           importer[c].pc # "idle", me.alone => importer[c].alone,
           LoneInOrder(me, jar', file')
    PROVE  JarInv'
<1>1. importer \in [Actors -> C!ClientState]
  BY DEF JarInv, C!JarTypeOK
<1>2. C!JarTypeOK'
  BY <1>1 DEF C!JarTypeOK
<1>3. ASSUME NEW d \in Actors
      PROVE  LoneInOrder(importer'[d], jar', file')
  <2>1. CASE d = c
    BY <1>1, <2>1
  <2>2. CASE d # c
    <3>1. importer'[d] = importer[d] /\ ~importer[d].alone
      BY <1>1, <2>2 DEF JarInv
    <3> QED
      BY <3>1 DEF LoneInOrder
  <2> QED
    BY <2>1, <2>2
<1>4. ASSUME NEW d \in Actors, NEW e \in Actors, importer'[d].alone, d # e
      PROVE  importer'[e].pc = "idle"
  <2>1. importer[d].alone
    BY <1>1, <1>4
  <2>2. importer[e].pc = "idle"
    BY <1>4, <2>1 DEF JarInv
  <2>3. e # c
    BY <2>2
  <2> QED
    BY <1>1, <2>2, <2>3
<1> QED
  BY <1>2, <1>3, <1>4 DEF JarInv

(* A request arrives: it is alone only if nobody else is there, and nobody *)
(* else is alone any more.                                                 *)
LEMMA ArriveKeeps ==
    ASSUME JarInv, NEW c \in Actors, NEW me \in C!ClientState, me.pc \in {"merge", "upsert", "delete"},
           C!Arrive(c, me), UNCHANGED <<jar, file, jarFaults>>
    PROVE  JarInv'
<1>1. importer \in [Actors -> C!ClientState]
  BY DEF JarInv, C!JarTypeOK
<1> DEFINE lone == \A y \in Actors \ {c} : importer[y].pc = "idle"
<1>2. importer' = [x \in Actors |-> IF x = c THEN [me EXCEPT !.alone = lone]
                                    ELSE [importer[x] EXCEPT !.alone = FALSE]]
  BY DEF C!Arrive
<1>3. lone \in BOOLEAN
  OBVIOUS
<1> HIDE DEF lone
<1>4. importer'[c] \in C!ClientState /\ importer'[c].pc = me.pc /\ importer'[c].alone = lone
  BY <1>2, <1>3 DEF C!ClientState
<1>5. ASSUME NEW d \in Actors \ {c}
      PROVE  /\ importer'[d] \in C!ClientState /\ importer'[d].pc = importer[d].pc
             /\ importer'[d].alone = FALSE
  <2>1. importer[d] \in C!ClientState /\ importer'[d] = [importer[d] EXCEPT !.alone = FALSE]
    BY <1>1, <1>2
  <2> QED
    BY <2>1 DEF C!ClientState
<1>6. importer' \in [Actors -> C!ClientState]
  BY <1>2, <1>4, <1>5
<1>7. \A d \in Actors : LoneInOrder(importer'[d], jar', file')
  BY <1>4, <1>5 DEF LoneInOrder
<1>8. \A d, e \in Actors : importer'[d].alone /\ d # e => importer'[e].pc = "idle"
  BY <1>4, <1>5 DEF lone
<1> QED
  BY <1>6, <1>7, <1>8 DEF JarInv, C!JarTypeOK

LEMMA DoneType ==
    ASSUME NEW r \in C!ClientState, r.pc \in {"upsert", "delete"}, NEW d \in Things
    PROVE  /\ C!Done(r, d) \in C!ClientState /\ C!Done(r, d).alone = r.alone
           /\ C!Done(r, d).pc \in {"upsert", "delete", "merge"}
<1> DEFINE todo == r.todo \ {d}
           pc   == IF r.todo = {d} THEN "merge" ELSE r.pc
<1>1. C!Done(r, d) = [r EXCEPT !.todo = todo, !.pc = pc]
  BY DEF C!Done, C!ClientState
<1>2. todo \subseteq Things /\ pc \in {"upsert", "delete", "merge"}
  BY DEF C!ClientState
<1> HIDE DEF todo, pc
<1> QED
  BY <1>1, <1>2 DEF C!ClientState, C!ClientPC

LEMMA NoRequestType == C!NoRequest \in C!ClientState /\ ~C!NoRequest.alone /\ C!Blank \in C!Texts
<1>1. C!Blank \in C!Texts
  BY DEF C!Blank, C!Texts
<1> QED
  BY <1>1 DEF C!NoRequest, C!ClientState, C!ClientPC

LEMMA JarStep ==
    ASSUME JarInv, C!Next
    PROVE  JarInv'
<1>1. /\ jar \in C!Texts /\ file \in C!Texts \cup {None, Mixed} /\ jarFaults \in Nat
      /\ importer \in [Actors -> C!ClientState]
      /\ \A c \in Actors : LoneInOrder(importer[c], jar, file) /\ importer[c] \in C!ClientState
  BY DEF JarInv, C!JarTypeOK
<1>2. C!Fault => jarFaults' \in Nat
  BY <1>1 DEF C!Fault
<1>3. ASSUME C!Crash
      PROVE  JarInv'
  BY <1>1, <1>2, <1>3, NoRequestType DEF C!Crash, JarInv, C!JarTypeOK, LoneInOrder
<1>4. ASSUME NEW c \in Actors, C!Import(c)
      PROVE  JarInv'
  <2>1. PICK raw \in C!Texts, todo \in SUBSET Things, pc \in {"merge", "upsert"} :
           C!Arrive(c, [C!NoRequest EXCEPT !.pc = pc, !.todo = todo, !.raw = raw])
    BY <1>4 DEF C!Import
  <2> DEFINE me == [C!NoRequest EXCEPT !.pc = pc, !.todo = todo, !.raw = raw]
  <2>2. me \in C!ClientState /\ me.pc = pc
    BY NoRequestType DEF C!ClientState, C!ClientPC
  <2> HIDE DEF me
  <2> QED
    BY <1>4, <2>1, <2>2, ArriveKeeps DEF C!Import, me
<1>5. ASSUME NEW c \in Actors, C!DeleteDomain(c)
      PROVE  JarInv'
  <2>1. PICK d \in Things :
           C!Arrive(c, [C!NoRequest EXCEPT !.pc = "delete", !.todo = {d}])
    BY <1>5 DEF C!DeleteDomain
  <2> DEFINE me == [C!NoRequest EXCEPT !.pc = "delete", !.todo = {d}]
  <2>2. me \in C!ClientState /\ me.pc = "delete"
    BY NoRequestType DEF C!ClientState, C!ClientPC
  <2> HIDE DEF me
  <2> QED
    BY <1>5, <2>1, <2>2, ArriveKeeps DEF C!DeleteDomain, me
<1>6. ASSUME NEW c \in Actors, NEW d \in Things,
             C!Upsert(c, d) \/ C!UpsertFails(c, d) \/ C!Delete(c, d)
      PROVE  JarInv'
  <2> DEFINE me == C!Done(importer[c], d)
  <2>1. importer[c].pc \in {"upsert", "delete"} /\ importer' = [importer EXCEPT ![c] = me]
    BY <1>6 DEF C!Upsert, C!UpsertFails, C!Delete
  <2>2. me \in C!ClientState /\ me.alone = importer[c].alone /\ me.pc \in {"upsert", "delete", "merge"}
    BY <1>1, <2>1, DoneType
  <2>3. jar' \in C!Texts
    BY <1>1, <1>6 DEF C!Upsert, C!UpsertFails, C!Delete, C!Texts, C!ClientState
  <2>4. file' = file /\ jarFaults' \in Nat
    BY <1>1, <1>2, <1>6 DEF C!Upsert, C!UpsertFails, C!Delete
  <2> HIDE DEF me
  <2>5. LoneInOrder(me, jar', file')
    BY <2>2 DEF LoneInOrder
  <2> QED
    BY <1>1, <2>1, <2>2, <2>3, <2>4, <2>5, JarByRequests
<1>7. ASSUME NEW c \in Actors, C!DeleteFails(c) \/ C!Answer(c)
      PROVE  JarInv'
  <2>1. importer' = [importer EXCEPT ![c] = C!NoRequest] /\ importer[c].pc # "idle"
    BY <1>7 DEF C!DeleteFails, C!Answer
  <2>2. jar' = jar /\ file' = file /\ jarFaults' \in Nat
    BY <1>1, <1>2, <1>7 DEF C!DeleteFails, C!Answer
  <2>3. LoneInOrder(C!NoRequest, jar', file')
    BY NoRequestType DEF LoneInOrder
  <2> QED
    BY <1>1, <2>1, <2>2, <2>3, NoRequestType, JarByRequests
<1>8. ASSUME NEW c \in Actors, C!Merge(c)
      PROVE  JarInv'
  <2> DEFINE pc == IF jar = C!Blank THEN "remove" ELSE "open"
             me == [importer[c] EXCEPT !.merged = jar, !.pc = pc]
  <2>1. importer' = [importer EXCEPT ![c] = me]
    BY <1>1, <1>8 DEF C!Merge
  <2>2. pc \in {"remove", "open"} /\ (pc = "remove" <=> jar = C!Blank)
    OBVIOUS
  <2> HIDE DEF pc
  <2>3. me \in C!ClientState /\ me.pc = pc /\ me.merged = jar /\ me.alone = importer[c].alone
    BY <1>1, <2>2 DEF C!ClientState, C!ClientPC
  <2> HIDE DEF me
  <2>4. LoneInOrder(me, jar', file')
    BY <1>8, <2>2, <2>3 DEF LoneInOrder, C!Merge
  <2>5. importer[c].pc # "idle" /\ UNCHANGED <<jar, file, jarFaults>>
    BY <1>8 DEF C!Merge
  <2> QED
    BY <1>1, <2>1, <2>3, <2>4, <2>5, JarByRequests
<1>9. ASSUME NEW c \in Actors, C!RewriteFails(c)
      PROVE  JarInv'
  <2> DEFINE me == [importer[c] EXCEPT !.pc = "done", !.alone = FALSE]
  <2>1. importer' = [importer EXCEPT ![c] = me] /\ importer[c].pc # "idle"
    BY <1>1, <1>9 DEF C!RewriteFails
  <2>2. me \in C!ClientState /\ ~me.alone
    BY <1>1 DEF C!ClientState, C!ClientPC
  <2> HIDE DEF me
  <2>3. LoneInOrder(me, jar', file')
    BY <2>2 DEF LoneInOrder
  <2>4. jar' = jar /\ file' = file /\ jarFaults' \in Nat
    BY <1>2, <1>9 DEF C!RewriteFails
  <2> QED
    BY <1>1, <2>1, <2>2, <2>3, <2>4, JarByRequests
<1>10. ASSUME NEW c \in Actors, C!Open(c)
       PROVE  JarInv'
  <2> DEFINE me == [importer[c] EXCEPT !.pc = "write", !.linked = TRUE]
  <2>1. importer' = [importer EXCEPT ![c] = me] /\ importer[c].pc = "open"
        /\ file' = C!Blank /\ UNCHANGED <<jar, jarFaults>>
    BY <1>1, <1>10 DEF C!Open
  <2>2. /\ me \in C!ClientState /\ me.pc = "write" /\ me.linked
        /\ me.alone = importer[c].alone /\ me.merged = importer[c].merged
    BY <1>1 DEF C!ClientState, C!ClientPC
  <2> HIDE DEF me
  <2>3. LoneInOrder(me, jar', file')
    BY <1>1, <2>1, <2>2 DEF LoneInOrder, C!Blank
  <2> QED
    BY <1>1, <2>1, <2>2, <2>3, NoRequestType, JarByRequests
<1>11. ASSUME NEW c \in Actors, C!Write(c)
       PROVE  JarInv'
  <2> DEFINE me == [importer[c] EXCEPT !.pc = "done"]
  <2>1. importer' = [importer EXCEPT ![c] = me] /\ importer[c].pc = "write"
        /\ UNCHANGED <<jar, jarFaults>>
    BY <1>1, <1>11 DEF C!Write
  <2>2. me \in C!ClientState /\ me.pc = "done" /\ me.alone = importer[c].alone
    BY <1>1 DEF C!ClientState, C!ClientPC
  <2> HIDE DEF me
  <2>3. importer[c].merged \in C!Texts
    BY <1>1 DEF C!ClientState
  <2>4. /\ file' \in {file, importer[c].merged, Mixed}
        /\ importer[c].linked /\ file = C!Blank => file' = importer[c].merged
    BY <1>11 DEF C!Write
  <2>5. LoneInOrder(me, jar', file')
    BY <1>1, <2>1, <2>2, <2>4 DEF LoneInOrder, C!Blank
  <2> QED
    BY <1>1, <2>1, <2>2, <2>3, <2>4, <2>5, JarByRequests
<1>12. ASSUME NEW c \in Actors, C!Remove(c)
       PROVE  JarInv'
  <2>1. importer' = [x \in Actors |-> IF x = c THEN [importer[c] EXCEPT !.pc = "done"]
                                      ELSE [importer[x] EXCEPT !.linked = FALSE]]
        /\ importer[c].pc = "remove" /\ file' = None /\ UNCHANGED <<jar, jarFaults>>
    BY <1>12 DEF C!Remove
  <2>2. /\ importer'[c] \in C!ClientState /\ importer'[c].pc = "done"
        /\ importer'[c].alone = importer[c].alone
    BY <1>1, <2>1 DEF C!ClientState, C!ClientPC
  <2>3. ASSUME NEW d \in Actors \ {c}
        PROVE  /\ importer'[d] \in C!ClientState /\ importer'[d].pc = importer[d].pc
               /\ importer'[d].alone = importer[d].alone /\ ~importer[d].alone
    <3>1. importer[d] \in C!ClientState /\ importer'[d] = [importer[d] EXCEPT !.linked = FALSE]
      BY <1>1, <2>1
    <3>2. ~importer[d].alone
      BY <2>1 DEF JarInv
    <3> QED
      BY <3>1, <3>2 DEF C!ClientState
  <2>4. importer' \in [Actors -> C!ClientState]
    BY <2>1, <2>2, <2>3
  <2>5. LoneInOrder(importer'[c], jar', file')
    BY <1>1, <2>1, <2>2 DEF LoneInOrder, C!Blank
  <2>6. \A d \in Actors : LoneInOrder(importer'[d], jar', file')
    BY <2>3, <2>5 DEF LoneInOrder
  <2>7. \A d, e \in Actors : importer'[d].alone /\ d # e => importer'[e].pc = "idle"
    BY <2>2, <2>3 DEF JarInv
  <2> QED
    BY <1>1, <2>1, <2>4, <2>6, <2>7 DEF JarInv, C!JarTypeOK
<1> QED
  BY <1>3, <1>4, <1>5, <1>6, <1>7, <1>8, <1>9, <1>10, <1>11, <1>12 DEF C!Next

(* A rewrite that nobody overlapped leaves the file equal to the table,    *)
(* whatever failures, crashes and overlapping requests did to both before, *)
(* for any number of domains, texts and requests (rewriteFile).            *)
THEOREM LoneRewritesSettle == C!Spec => []LoneRewriteSettles
<1>1. C!Init => JarInv
  BY NoRequestType DEF C!Init, JarInv, C!JarTypeOK, LoneInOrder
<1>2. JarInv /\ [C!Next]_C!vars => JarInv'
  <2>1. ASSUME JarInv, UNCHANGED C!vars
        PROVE  JarInv'
    BY <2>1 DEF JarInv, C!JarTypeOK, LoneInOrder, C!Blank, C!vars
  <2> QED
    BY <2>1, JarStep
<1>3. JarInv => LoneRewriteSettles
  BY DEF JarInv, LoneInOrder, LoneRewriteSettles, C!LoneRewriteSettles, C!FileMatchesTable
<1> QED
  BY <1>1, <1>2, <1>3, PTL DEF C!Spec

-----------------------------------------------------------------------------
(* LibraryPages.                                                           *)

(* created_at orders the stored rows.                                      *)
NewestFirst ==
    /\ \A r \in P!Rows : older[r] \subseteq P!Stored /\ r \notin older[r]
    /\ \A q, r, s \in P!Rows : r \in older[q] /\ s \in older[r] => s \in older[q]
    /\ \A q, r \in P!Stored : q = r \/ q \in older[r] \/ r \in older[q]

(* How many rows a listing shows before r.                                 *)
Rank(f, r) == Cardinality(P!Above(f, r))

(* Where the reader has got to.                                            *)
Reached == IF viewer.pc = "list" THEN viewer.offset ELSE P!Shown

(* What a reader is owed is in the list, beyond what has been shown; and   *)
(* with no button left nothing is.                                         *)
OwedLiesAhead ==
    viewer.pc # "closed" =>
        \A r \in owed : r \in P!Listed /\ Rank(viewer.filter, r) >= Reached

PageInv ==
    /\ P!PagesTypeOK /\ NewestFirst /\ IsFiniteSet(P!Stored)
    /\ OwedLiesAhead /\ PagesMissNothing

-----------------------------------------------------------------------------
(* The rows of a listing have the ranks from zero on, each its own.        *)


(* The instance has a copy of the standard operator.                       *)
LEMMA SameCardinality == \A S : P!Cardinality(S) = Cardinality(S)
<1>1. \A S : P!IsFiniteSet(S) <=> IsFiniteSet(S)
  BY DEF P!IsFiniteSet, IsFiniteSet
<1> QED
  BY <1>1 DEF P!Cardinality, Cardinality

LEMMA ListingStored ==
    ASSUME P!PagesTypeOK, NEW f
    PROVE  P!Listing(f) \subseteq P!Stored /\ P!Stored \subseteq P!Rows
BY DEF P!PagesTypeOK, P!Listing, P!FileRows, P!WaitingRows, P!Stored, P!Rows

LEMMA RankBound ==
    ASSUME P!PagesTypeOK, NewestFirst, IsFiniteSet(P!Stored), NEW f, NEW r \in P!Listing(f)
    PROVE  /\ IsFiniteSet(P!Listing(f)) /\ IsFiniteSet(P!Above(f, r))
           /\ Rank(f, r) \in Nat /\ Cardinality(P!Listing(f)) \in Nat
           /\ Rank(f, r) < Cardinality(P!Listing(f))
<1>1. IsFiniteSet(P!Listing(f))
  BY ListingStored, FS_Subset
<1>2. P!Above(f, r) \subseteq P!Listing(f) /\ r \notin P!Above(f, r)
  BY ListingStored DEF P!Above, NewestFirst
<1>3. IsFiniteSet(P!Above(f, r)) /\ Cardinality(P!Above(f, r)) <= Cardinality(P!Listing(f))
  BY <1>1, <1>2, FS_Subset
<1>4. Cardinality(P!Above(f, r)) # Cardinality(P!Listing(f))
  BY <1>1, <1>2, FS_Subset
<1>5. Cardinality(P!Above(f, r)) \in Nat /\ Cardinality(P!Listing(f)) \in Nat
  BY <1>1, <1>3, FS_CardinalityType
<1> QED
  BY <1>1, <1>3, <1>4, <1>5 DEF Rank

(* The newer of two rows comes first.                                      *)
LEMMA RankOrder ==
    ASSUME P!PagesTypeOK, NewestFirst, IsFiniteSet(P!Stored), NEW f,
           NEW q \in P!Listing(f), NEW r \in P!Listing(f), r \in older[q]
    PROVE  Rank(f, q) < Rank(f, r)
<1>1. P!Above(f, q) \subseteq P!Above(f, r)
  BY ListingStored DEF P!Above, NewestFirst
<1>2. q \in P!Above(f, r) /\ q \notin P!Above(f, q)
  BY ListingStored DEF P!Above, NewestFirst
<1>3. IsFiniteSet(P!Above(f, r)) /\ Rank(f, r) \in Nat /\ Rank(f, q) \in Nat
  BY RankBound
<1> QED
  BY <1>1, <1>2, <1>3, FS_Subset DEF Rank

LEMMA RankIsBijection ==
    ASSUME P!PagesTypeOK, NewestFirst, IsFiniteSet(P!Stored), NEW f
    PROVE  [r \in P!Listing(f) |-> Rank(f, r)]
              \in Bijection(P!Listing(f), 0 .. (Cardinality(P!Listing(f)) - 1))
<1> DEFINE n == Cardinality(P!Listing(f))
           rank == [r \in P!Listing(f) |-> Rank(f, r)]
<1>1. IsFiniteSet(P!Listing(f)) /\ n \in Nat
  BY ListingStored, FS_Subset, FS_CardinalityType
<1>2. rank \in [P!Listing(f) -> 0 .. (n - 1)]
  BY <1>1, RankBound
<1>3. ASSUME NEW q \in P!Listing(f), NEW r \in P!Listing(f), q # r
      PROVE  Rank(f, q) # Rank(f, r)
  <2>1. q \in older[r] \/ r \in older[q]
    BY <1>3, ListingStored DEF NewestFirst
  <2>2. Rank(f, q) \in Nat /\ Rank(f, r) \in Nat
    BY RankBound
  <2> QED
    BY <2>1, <2>2, RankOrder
<1>4. rank \in Injection(P!Listing(f), 0 .. (n - 1))
  BY <1>2, <1>3 DEF Injection, IsInjective
<1>5. IsFiniteSet(0 .. (n - 1)) /\ Cardinality(0 .. (n - 1)) = n
  BY <1>1, FS_Interval
<1>6. rank \in Surjection(P!Listing(f), 0 .. (n - 1))
  BY <1>4, <1>5, FS_Injection
<1> QED
  BY <1>4, <1>6 DEF Bijection

(* A page that is not full shows the end of the list.                      *)
LEMMA WindowSize ==
    ASSUME P!PagesTypeOK, NewestFirst, IsFiniteSet(P!Stored), NEW f, NEW offset \in Nat
    PROVE  LET page == P!Window(f, offset)
           IN  /\ Cardinality(page) \in 0 .. PageSize
               /\ Cardinality(page) < PageSize =>
                     \A r \in P!Listing(f) : Rank(f, r) < offset + PageSize
<1> DEFINE n    == Cardinality(P!Listing(f))
           rank == [r \in P!Listing(f) |-> Rank(f, r)]
           page == P!Window(f, offset)
           span == offset .. (offset + PageSize - 1)
<1>1. PageSize \in Nat \ {0}
  BY InstanceConstants DEF P!PageConstants
<1>2. IsFiniteSet(span) /\ Cardinality(span) = PageSize
  BY <1>1, FS_Interval
<1>3. rank \in Bijection(P!Listing(f), 0 .. (n - 1)) /\ n \in Nat
  BY RankIsBijection, ListingStored, FS_Subset, FS_CardinalityType
<1>4. page = {r \in P!Listing(f) : rank[r] \in span}
  BY SameCardinality DEF P!Window, Rank
<1> HIDE DEF n, rank, page, span
<1> DEFINE shown == [r \in page |-> rank[r]]
<1>5. shown \in Injection(page, span)
  BY <1>3, <1>4 DEF Bijection, Injection, IsInjective
<1>6. IsFiniteSet(page) /\ Cardinality(page) <= PageSize /\ Cardinality(page) \in Nat
  BY <1>2, <1>5, FS_Injection, FS_CardinalityType
<1>7. ASSUME NEW r \in P!Listing(f), ~(Rank(f, r) < offset + PageSize)
      PROVE  Cardinality(page) = PageSize
  <2>1. rank[r] \in 0 .. (n - 1) /\ rank[r] = Rank(f, r)
    BY <1>3 DEF Bijection, Injection, rank
  <2>2. span \subseteq 0 .. (n - 1)
    BY <1>1, <1>3, <1>7, <2>1 DEF span
  <2>3. \A k \in span : \E q \in P!Listing(f) : rank[q] = k
    BY <1>3, <2>2 DEF Bijection, Surjection
  <2>4. shown \in Surjection(page, span)
    BY <1>4, <1>5, <2>3 DEF Surjection, Injection
  <2> QED
    BY <1>2, <1>5, <2>4, FS_Injection
<1> QED
  BY <1>1, <1>6, <1>7 DEF page

-----------------------------------------------------------------------------
(* The library changes.                                                    *)

LEMMA InsertKeeps ==
    ASSUME P!PagesTypeOK, NewestFirst, IsFiniteSet(P!Stored),
           NEW x \in P!Rows, x \notin P!Stored,
           P!Insert(x), P!Stored' = P!Stored \cup {x}
    PROVE  /\ older' \in [P!Rows -> SUBSET P!Rows] /\ NewestFirst' /\ IsFiniteSet(P!Stored')
           /\ \A q \in P!Stored : older'[q] = older[q]
<1>1. P!Stored \subseteq P!Rows
  BY ListingStored
<1>2. /\ older' \in [P!Rows -> SUBSET P!Rows] /\ older'[x] = P!Stored
      /\ \A q \in P!Rows \ {x} : older'[q] = older[q]
  BY <1>1 DEF P!PagesTypeOK, P!Insert
<1>3. IsFiniteSet(P!Stored')
  BY FS_AddElement
<1>4. P!Rows' = P!Rows
  BY DEF P!Rows
<1>5. \A r \in P!Rows : older'[r] \subseteq P!Stored /\ r \notin older'[r]
  BY <1>2 DEF NewestFirst
<1>6. \A q, r, s \in P!Rows : r \in older'[q] /\ s \in older'[r] => s \in older'[q]
  BY <1>2, <1>5 DEF NewestFirst
<1>7. \A q, r \in P!Stored' : q = r \/ q \in older'[r] \/ r \in older'[q]
  BY <1>1, <1>2 DEF NewestFirst
<1> QED
  BY <1>1, <1>2, <1>3, <1>4, <1>5, <1>6, <1>7 DEF NewestFirst

LEMMA RemoveKeeps ==
    ASSUME P!PagesTypeOK, NewestFirst, IsFiniteSet(P!Stored),
           NEW gone, P!Remove(gone), P!Stored' = P!Stored \ gone
    PROVE  /\ older' \in [P!Rows -> SUBSET P!Rows] /\ NewestFirst' /\ IsFiniteSet(P!Stored')
           /\ \A q \in P!Rows \ gone : older'[q] = older[q] \ gone
<1>1. P!Stored \subseteq P!Rows
  BY ListingStored
<1>2. /\ older' \in [P!Rows -> SUBSET P!Rows]
      /\ \A q \in P!Rows : older'[q] = IF q \in gone THEN {} ELSE older[q] \ gone
  BY DEF P!PagesTypeOK, P!Remove
<1>3. IsFiniteSet(P!Stored')
  BY FS_Subset
<1>4. P!Rows' = P!Rows
  BY DEF P!Rows
<1>5. \A q, r \in P!Stored' : q = r \/ q \in older'[r] \/ r \in older'[q]
  BY <1>1, <1>2 DEF NewestFirst
<1> QED
  BY <1>1, <1>2, <1>3, <1>4, <1>5 DEF NewestFirst

(* While no row leaves the list, what is owed can only move down.          *)
LEMMA FollowKeeps ==
    ASSUME PageInv, P!PagesTypeOK', NewestFirst', IsFiniteSet(P!Stored'), P!Follow,
           \A q, r \in P!Stored \cap P!Stored' : r \in older[q] => r \in older'[q]
    PROVE  OwedLiesAhead' /\ PagesMissNothing'
<1> DEFINE f == viewer.filter
<1>1. viewer' = viewer /\ Reached' = Reached /\ P!Shown' = P!Shown
  BY DEF P!Follow, Reached, P!Shown
<1>2. CASE owed' = {}
  BY <1>2 DEF OwedLiesAhead, PagesMissNothing, P!PagesMissNothing
<1>3. CASE P!Listed \subseteq P!Listed' /\ owed' = owed
  <2>1. PagesMissNothing'
    BY <1>1, <1>3 DEF PageInv, PagesMissNothing, P!PagesMissNothing, P!HasMore, P!Shown
  <2>2. ASSUME viewer.pc # "closed", NEW r \in owed
        PROVE  r \in P!Listed' /\ Rank(f, r)' >= Reached
    <3>1. r \in P!Listing(f) /\ r \in P!Listing(f)' /\ P!Listing(f) \subseteq P!Listing(f)'
      BY <1>1, <1>3, <2>2 DEF PageInv, OwedLiesAhead, P!Listed
    <3>2. P!Listing(f) \subseteq P!Stored /\ P!Listing(f)' \subseteq P!Stored'
      BY ListingStored DEF PageInv, P!PagesTypeOK, P!Listing, P!FileRows, P!WaitingRows, P!Stored
    <3>3. P!Above(f, r) \subseteq P!Above(f, r)' /\ P!Above(f, r)' \subseteq P!Listing(f)'
      BY <1>1, <3>1, <3>2 DEF P!Above
    <3>4. IsFiniteSet(P!Above(f, r)')
      BY <3>2, <3>3, FS_Subset
    <3>5. Rank(f, r) <= Rank(f, r)' /\ Rank(f, r)' \in Nat /\ Rank(f, r) \in Nat
      BY <1>1, <3>3, <3>4, FS_Subset, FS_CardinalityType DEF Rank
    <3>6. Rank(f, r) >= Reached
      BY <2>2 DEF PageInv, OwedLiesAhead
    <3>7. Reached \in Nat
      BY InstanceConstants DEF PageInv, P!PagesTypeOK, Reached, P!Shown, P!PageConstants
    <3> QED
      BY <1>1, <3>1, <3>5, <3>6, <3>7 DEF P!Listed
  <2> QED
    BY <1>1, <1>3, <2>1, <2>2 DEF OwedLiesAhead
<1> QED
  BY <1>2, <1>3 DEF P!Follow

LEMMA LibraryStep ==
    ASSUME PageInv,
           \/ \E j \in ListedJobs : \/ P!AddJob(j) \/ P!EndJob(j) \/ P!HideJob(j)
                                    \/ P!DropItems(j) \/ P!RestartJob(j) \/ P!PurgeJob(j)
           \/ \E i \in ListedItems : P!AddFile(i)
    PROVE  PageInv'
<1> USE DEF PageInv
<1>1. /\ ListedJobs \cap ListedItems = {} /\ None \notin ListedJobs
      /\ P!Rows = ListedJobs \cup ListedItems /\ P!Rows' = P!Rows
  BY InstanceConstants DEF P!PageConstants, P!Rows
<1>2. /\ job \in [ListedJobs -> [status : {"none", "active", "done"}, hidden : BOOLEAN]]
      /\ item \in [ListedItems -> ListedJobs \cup {None}]
      /\ older \in [P!Rows -> SUBSET P!Rows]
  BY DEF P!PagesTypeOK
<1>3. ASSUME P!Follow,
             job' \in [ListedJobs -> [status : {"none", "active", "done"}, hidden : BOOLEAN]],
             item' \in [ListedItems -> ListedJobs \cup {None}],
             older' \in [P!Rows -> SUBSET P!Rows]
      PROVE  P!PagesTypeOK'
  BY <1>1, <1>3 DEF P!PagesTypeOK, P!Follow
(* Steps that neither insert nor delete a row.                             *)
<1>4. ASSUME P!Follow, P!PagesTypeOK', UNCHANGED older, P!Stored' = P!Stored
      PROVE  PageInv'
  <2>1. NewestFirst' /\ IsFiniteSet(P!Stored')
    BY <1>1, <1>4 DEF NewestFirst
  <2> QED
    BY <1>4, <2>1, FollowKeeps
<1>5. ASSUME NEW j \in ListedJobs, P!EndJob(j) \/ P!HideJob(j) \/ P!RestartJob(j)
      PROVE  PageInv'
  <2>1. /\ job' \in [ListedJobs -> [status : {"none", "active", "done"}, hidden : BOOLEAN]]
        /\ \A k \in ListedJobs : job'[k].status # "none" <=> job[k].status # "none"
        /\ UNCHANGED <<item, older>> /\ P!Follow
    <3>1. CASE P!EndJob(j)
      BY <1>2, <3>1 DEF P!EndJob
    <3>2. CASE P!HideJob(j)
      <4>1. (~job[j].hidden) \in BOOLEAN
        OBVIOUS
      <4> QED
        BY <1>2, <3>2, <4>1 DEF P!HideJob
    <3>3. CASE P!RestartJob(j)
      <4>1. [status |-> "active", hidden |-> FALSE]
               \in [status : {"none", "active", "done"}, hidden : BOOLEAN]
        OBVIOUS
      <4> QED
        BY <1>2, <3>3, <4>1 DEF P!RestartJob
    <3> QED
      BY <1>5, <3>1, <3>2, <3>3
  <2>2. P!Stored' = P!Stored
    BY <2>1 DEF P!Stored
  <2> QED
    BY <1>2, <1>3, <1>4, <2>1, <2>2
<1>6. ASSUME NEW x \in P!Rows, x \notin P!Stored, P!Insert(x), P!Stored' = P!Stored \cup {x},
             P!Follow,
             job' \in [ListedJobs -> [status : {"none", "active", "done"}, hidden : BOOLEAN]],
             item' \in [ListedItems -> ListedJobs \cup {None}]
      PROVE  PageInv'
  BY <1>3, <1>6, InsertKeeps, FollowKeeps
<1>7. ASSUME NEW j \in ListedJobs, P!AddJob(j)
      PROVE  PageInv'
  <2>1. /\ job' \in [ListedJobs -> [status : {"none", "active", "done"}, hidden : BOOLEAN]]
        /\ job[j].status = "none" /\ job'[j].status # "none"
        /\ \A k \in ListedJobs \ {j} : job'[k] = job[k]
        /\ UNCHANGED item /\ P!Insert(j) /\ P!Follow
    BY <1>2, <1>7 DEF P!AddJob
  <2>2. j \in P!Rows /\ j \notin P!Stored /\ P!Stored' = P!Stored \cup {j}
    BY <1>1, <2>1 DEF P!Stored
  <2> QED
    BY <1>2, <1>6, <2>1, <2>2
<1>8. ASSUME NEW i \in ListedItems, P!AddFile(i)
      PROVE  PageInv'
  <2>1. PICK j \in ListedJobs : item' = [item EXCEPT ![i] = j]
    BY <1>8 DEF P!AddFile
  <2>2. /\ item' \in [ListedItems -> ListedJobs \cup {None}] /\ item'[i] # None
        /\ \A k \in ListedItems \ {i} : item'[k] = item[k]
        /\ UNCHANGED job /\ P!Follow
    BY <1>1, <1>2, <1>8, <2>1 DEF P!AddFile
  <2>3. P!Stored' = P!Stored \cup {i}
    BY <2>2 DEF P!Stored
  <2>4. CASE item[i] = None
    <3>1. i \in P!Rows /\ i \notin P!Stored /\ P!Insert(i)
      BY <1>1, <1>8, <2>4 DEF P!Stored, P!AddFile
    <3> QED
      BY <1>2, <1>6, <2>2, <2>3, <3>1
  <2>5. CASE item[i] # None
    <3>1. P!Stored' = P!Stored /\ UNCHANGED older
      BY <1>8, <2>3, <2>5 DEF P!Stored, P!AddFile
    <3> QED
      BY <1>2, <1>3, <1>4, <2>2, <3>1
  <2> QED
    BY <2>4, <2>5
<1>9. ASSUME NEW gone, P!Remove(gone), P!Stored' = P!Stored \ gone, P!Follow,
             job' \in [ListedJobs -> [status : {"none", "active", "done"}, hidden : BOOLEAN]],
             item' \in [ListedItems -> ListedJobs \cup {None}]
      PROVE  PageInv'
  <2>1. /\ older' \in [P!Rows -> SUBSET P!Rows] /\ NewestFirst' /\ IsFiniteSet(P!Stored')
        /\ \A q \in P!Rows \ gone : older'[q] = older[q] \ gone
    BY <1>9, RemoveKeeps
  <2>2. \A q, r \in P!Stored \cap P!Stored' : r \in older[q] => r \in older'[q]
    BY <1>9, <2>1, ListingStored
  <2> QED
    BY <1>3, <1>9, <2>1, <2>2, FollowKeeps
<1>10. ASSUME NEW j \in ListedJobs, P!DropItems(j)
       PROVE  PageInv'
  <2>1. /\ item' \in [ListedItems -> ListedJobs \cup {None}]
        /\ \A i \in ListedItems : item'[i] = IF item[i] = j THEN None ELSE item[i]
        /\ UNCHANGED job /\ P!Remove(P!ItemsOf(j)) /\ P!Follow
    BY <1>2, <1>10 DEF P!DropItems
  <2>2. P!Stored' = P!Stored \ P!ItemsOf(j)
    BY <1>1, <2>1 DEF P!Stored, P!ItemsOf
  <2> QED
    BY <1>2, <1>9, <2>1, <2>2
<1>11. ASSUME NEW j \in ListedJobs, P!PurgeJob(j)
       PROVE  PageInv'
  <2>1. /\ item' \in [ListedItems -> ListedJobs \cup {None}]
        /\ \A i \in ListedItems : item'[i] = IF item[i] = j THEN None ELSE item[i]
        /\ job' \in [ListedJobs -> [status : {"none", "active", "done"}, hidden : BOOLEAN]]
        /\ job'[j].status = "none" /\ \A k \in ListedJobs \ {j} : job'[k] = job[k]
        /\ P!Remove(P!ItemsOf(j) \cup {j}) /\ P!Follow
    BY <1>2, <1>11 DEF P!PurgeJob, P!NoRow
  <2>2. P!Stored' = P!Stored \ (P!ItemsOf(j) \cup {j})
    BY <1>1, <2>1 DEF P!Stored, P!ItemsOf
  <2> QED
    BY <1>9, <2>1, <2>2
<1> QED
  BY <1>5, <1>7, <1>8, <1>10, <1>11

-----------------------------------------------------------------------------
(* The reader goes on.                                                     *)

LEMMA TurningStep ==
    ASSUME PageInv,
           \/ P!Open \/ P!FilterMedia \/ P!CountRows \/ P!CountFails \/ P!ShowMore \/ P!Close
    PROVE  PageInv'
<1> USE DEF PageInv
<1> DEFINE f == viewer.filter
           Viewers == [pc : {"closed", "list", "count", "shown"}, filter : Filters,
                       offset : Nat, size : 0 .. PageSize, total : Nat]
<1>1. PageSize \in Nat \ {0} /\ ListedJobs \cap ListedItems = {} /\ Filters # {}
  BY InstanceConstants DEF P!PageConstants
<1>2. /\ viewer \in Viewers
      /\ owed \subseteq P!Rows
  BY DEF P!PagesTypeOK
<1>3. /\ UNCHANGED <<job, item, older>> /\ P!Stored' = P!Stored /\ P!Rows' = P!Rows
      /\ \A g : P!Listing(g)' = P!Listing(g)
      /\ \A g, r : P!Above(g, r)' = P!Above(g, r) /\ Rank(g, r)' = Rank(g, r)
  <2>1. UNCHANGED <<job, item, older>>
    BY DEF P!Open, P!FilterMedia, P!CountRows, P!CountFails, P!ShowMore, P!Close
  <2>2. \A g : P!Listing(g)' = P!Listing(g)
    BY <2>1 DEF P!Listing, P!FileRows, P!WaitingRows, P!ItemsOf, P!ItemMatches, P!JobMatches
  <2> QED
    BY <2>1, <2>2 DEF P!Stored, P!Rows, P!Above, Rank
<1>4. NewestFirst' /\ IsFiniteSet(P!Stored')
  BY <1>3 DEF NewestFirst
<1>5. ASSUME viewer' \in Viewers,
             owed' \subseteq P!Rows
      PROVE  P!PagesTypeOK'
  BY <1>3, <1>5 DEF P!PagesTypeOK
<1>6. P!Blank \in Viewers
  BY <1>1 DEF P!Blank
<1>7. \A g : P!Listing(g) \subseteq P!Rows
  BY ListingStored
<1>8. CASE P!Close
  BY <1>4, <1>5, <1>6, <1>8 DEF P!Close, P!Blank, OwedLiesAhead, PagesMissNothing,
                               P!PagesMissNothing
<1>9. CASE P!CountFails
  <2>1. P!PagesTypeOK'
    BY <1>2, <1>5, <1>9 DEF P!CountFails
  <2> QED
    BY <1>4, <1>9, <2>1 DEF P!CountFails, OwedLiesAhead, PagesMissNothing, P!PagesMissNothing
<1>10. CASE P!Open
  <2>1. PICK g \in Filters : viewer' = [P!Blank EXCEPT !.pc = "list", !.filter = g]
                            /\ owed' = P!Listing(g)
    BY <1>10 DEF P!Open
  <2>2. /\ viewer' \in Viewers
        /\ viewer'.pc = "list" /\ viewer'.filter = g /\ viewer'.offset = 0
    BY <1>6, <2>1 DEF P!Blank
  <2>3. \A r \in owed' : Rank(g, r) >= 0
    BY <2>1, RankBound
  <2> QED
    BY <1>3, <1>4, <1>5, <1>7, <2>1, <2>2, <2>3
    DEF OwedLiesAhead, Reached, P!Listed, PagesMissNothing, P!PagesMissNothing
<1>11. CASE P!ShowMore
  <2>1. /\ viewer.pc = "shown" /\ owed' = owed
        /\ viewer' = [viewer EXCEPT !.pc = "list", !.offset = P!Shown, !.size = 0, !.total = 0]
    BY <1>11 DEF P!ShowMore
  <2>2. P!Shown \in Nat /\ 0 \in 0 .. PageSize
    BY <1>1, <1>2 DEF P!Shown
  <2>3. viewer' \in Viewers
    <3> HIDE DEF f
    <3> QED
      BY <1>2, <2>1, <2>2
  <2>4. viewer'.pc = "list" /\ viewer'.filter = f /\ Reached' = Reached
    BY <1>2, <2>1 DEF Reached
  <2> QED
    BY <1>2, <1>3, <1>4, <1>5, <2>1, <2>3, <2>4
    DEF OwedLiesAhead, P!Listed, PagesMissNothing, P!PagesMissNothing
<1>12. CASE P!CountRows
  <2>1. /\ viewer.pc = "count" /\ owed' = owed
        /\ viewer' = [viewer EXCEPT !.pc = "shown", !.total = P!CountMedia(f)]
    BY <1>12 DEF P!CountRows
  <2>2. P!CountMedia(f) = Cardinality(P!Listing(f)) /\ P!CountMedia(f) \in Nat
    <3>1. P!FileRows(f) \cap P!WaitingRows(f) = {}
      BY <1>1 DEF P!FileRows, P!WaitingRows
    <3>2. IsFiniteSet(P!FileRows(f)) /\ IsFiniteSet(P!WaitingRows(f))
      BY ListingStored, FS_Subset DEF P!Listing
    <3>3. Cardinality(P!FileRows(f)) \in Nat /\ Cardinality(P!WaitingRows(f)) \in Nat
      BY <3>2, FS_CardinalityType
    <3>4. Cardinality(P!Listing(f)) = Cardinality(P!FileRows(f)) + Cardinality(P!WaitingRows(f))
      BY <3>1, <3>2, <3>3, FS_Union, FS_EmptySet DEF P!Listing
    <3> QED
      BY <3>3, <3>4, SameCardinality DEF P!CountMedia
  <2>3. viewer' \in Viewers
    BY <1>2, <2>1, <2>2
  <2>4. /\ viewer'.pc = "shown" /\ viewer'.filter = f /\ Reached' = Reached /\ P!Shown' = Reached
        /\ viewer'.total = Cardinality(P!Listing(f))
    BY <1>2, <2>1, <2>2 DEF Reached, P!Shown
  <2>5. OwedLiesAhead'
    BY <1>2, <1>3, <2>1, <2>4 DEF OwedLiesAhead, P!Listed
  <2>6. ASSUME ~P!HasMore', NEW r \in owed
        PROVE  FALSE
    <3>1. r \in P!Listing(f) /\ Rank(f, r) >= Reached
      BY <2>1 DEF OwedLiesAhead, P!Listed
    <3>2. Rank(f, r) < Cardinality(P!Listing(f)) /\ Rank(f, r) \in Nat
      BY <3>1, RankBound
    <3>3. Reached \in Nat
      BY <1>1, <1>2 DEF Reached, P!Shown
    <3> QED
      BY <2>2, <2>4, <2>6, <3>1, <3>2, <3>3 DEF P!HasMore
  <2>7. PagesMissNothing'
    BY <2>1, <2>6 DEF PagesMissNothing, P!PagesMissNothing
  <2> QED
    BY <1>2, <1>4, <1>5, <2>1, <2>3, <2>5, <2>7
<1>13. CASE P!FilterMedia
  <2> DEFINE page == P!Window(f, viewer.offset)
             size == Cardinality(page)
  <2>1. /\ viewer.pc = "list" /\ owed' = owed \ page
        /\ viewer' = [viewer EXCEPT !.pc = IF size >= PageSize THEN "count" ELSE "shown",
                                   !.size = size, !.total = viewer.offset + size]
    BY <1>13, SameCardinality DEF P!FilterMedia
  <2>2. size \in 0 .. PageSize
    BY <1>2, WindowSize
  <2>3. viewer' \in Viewers
    <3>1. viewer.offset + size \in Nat
      BY <1>1, <1>2, <2>2
    <3> HIDE DEF size, f
    <3> QED
      BY <1>2, <2>1, <2>2, <3>1
  <2>4. /\ viewer'.pc \in {"count", "shown"} /\ viewer'.filter = f
        /\ viewer'.pc = "shown" => size < PageSize
        /\ Reached' = viewer.offset + size
    BY <1>1, <1>2, <2>1, <2>2 DEF Reached, P!Shown
  <2>5. ASSUME NEW r \in owed'
        PROVE  /\ r \in P!Listing(f) /\ Rank(f, r) \in Nat
               /\ Rank(f, r) >= viewer.offset + PageSize
    <3>1. r \in P!Listing(f) /\ Rank(f, r) >= viewer.offset /\ r \notin page
      BY <2>1, <2>5 DEF OwedLiesAhead, P!Listed, Reached
    <3>2. Rank(f, r) \in Nat
      BY <3>1, RankBound
    <3>3. Rank(f, r) \notin viewer.offset .. (viewer.offset + PageSize - 1)
      BY <3>1, SameCardinality DEF P!Window, Rank
    <3> QED
      BY <1>1, <1>2, <3>1, <3>2, <3>3
  <2>6. OwedLiesAhead'
    BY <1>1, <1>2, <1>3, <2>2, <2>4, <2>5 DEF OwedLiesAhead, P!Listed
  <2>7. size < PageSize => owed' = {}
    BY <1>1, <1>2, <2>2, <2>5, WindowSize
  <2>8. PagesMissNothing'
    BY <2>4, <2>7 DEF PagesMissNothing, P!PagesMissNothing
  <2> QED
    BY <1>2, <1>4, <1>5, <2>1, <2>3, <2>6, <2>8
<1> QED
  BY <1>8, <1>9, <1>10, <1>11, <1>12, <1>13

(* A reader who asks for more until there is no button left has seen every *)
(* row that was in the list from the first request on, for any number of   *)
(* rows and any size of a page, whatever was inserted between two pages or *)
(* between a page and its count (Service.Media, media.templ).              *)
THEOREM ReadersMissNothing == P!Spec => []PagesMissNothing
<1>1. P!Init => PageInv
  <2>1. ASSUME P!Init
        PROVE  PageInv
    <3>1. P!Stored = {}
      BY <2>1, InstanceConstants DEF P!Init, P!Stored, P!NoRow, P!PageConstants
    <3>2. P!PagesTypeOK /\ NewestFirst
      BY <2>1, <3>1, InstanceConstants
      DEF P!Init, P!PagesTypeOK, P!NoRow, P!Blank, P!Rows, P!PageConstants, NewestFirst
    <3>3. OwedLiesAhead /\ PagesMissNothing
      BY <2>1 DEF P!Init, P!Blank, OwedLiesAhead, PagesMissNothing, P!PagesMissNothing
    <3> QED
      BY <3>1, <3>2, <3>3, FS_EmptySet DEF PageInv
  <2> QED
    BY <2>1
<1>2. PageInv /\ [P!Next]_P!vars => PageInv'
  <2>1. ASSUME PageInv, UNCHANGED P!vars
        PROVE  PageInv'
    <3>1. /\ P!Stored' = P!Stored /\ P!Rows' = P!Rows
          /\ \A g : P!Listing(g)' = P!Listing(g)
      BY <2>1 DEF P!vars, P!Stored, P!Rows, P!Listing, P!FileRows, P!WaitingRows, P!ItemsOf,
                  P!ItemMatches, P!JobMatches
    <3>2. \A g, r : Rank(g, r)' = Rank(g, r)
      BY <2>1, <3>1 DEF P!vars, P!Above, Rank
    <3> QED
      BY <2>1, <3>1, <3>2 DEF P!vars, PageInv, P!PagesTypeOK, NewestFirst, OwedLiesAhead, P!Listed,
         Reached, P!Shown, PagesMissNothing, P!PagesMissNothing, P!HasMore
  <2> QED
    BY <2>1, LibraryStep, TurningStep DEF P!Next
<1>3. PageInv => PagesMissNothing
  BY DEF PageInv
<1> QED
  BY <1>1, <1>2, <1>3, PTL DEF P!Spec

-----------------------------------------------------------------------------
(* BotMessages.                                                            *)

(* What is in pendingMsgs waits for the check the bot itself asks for.     *)
EntryHasItsCheck ==
    \A j \in B!Jobs : pending[j] # None =>
        j \in Links /\ (handler[j].pc \in {"store", "resolve"} \/ check[j]["bot"] # "off")

(* Until the message of a link is stored nobody checks the link or works   *)
(* on it, unless it is marred early; then the row and every worker that    *)
(* holds the link have the message.                                        *)
LinkInOrder(j) ==
    /\ handler[j].pc = "idle" => row[j].status = "none" /\ j \notin recovery.left
    /\ handler[j].pc \in {"idle", "send"} => handler[j].msg = None
LinkWaits(j) ==
    handler[j].pc \notin {"resolve", "over"} =>
        /\ \A q \in B!Askers : check[j][q] = "off"
        /\ row[j].status \in B!Gone \cup {"checking", "cancelled"}
        /\ \A w \in Workers : worker[w].job # j
LinkIsStored(j) ==
    handler[j].pc \in {"resolve", "over"} /\ handler[j].msg # None =>
        /\ row[j].status \notin B!Gone => row[j].msg = handler[j].msg
        /\ \A w \in Workers : worker[w].job = j => worker[w].msg = handler[j].msg
LinkAttempts(j) == LinkInOrder(j) /\ (marred[j] # "early" => LinkWaits(j) /\ LinkIsStored(j))

(* Whoever knows a message of a job has one that was sent for that job.    *)
Names(msgs, m, j) == m # None => msgs[m].job = j /\ msgs[m].text # "unsent"
MessagesNameTheirJob ==
    /\ \A m \in Msgs : chat[m].text # "unsent" => chat[m].job \in B!Jobs
    /\ \A j \in B!Jobs : Names(chat, row[j].msg, j) /\ Names(chat, pending[j], j)
    /\ \A j \in Links : Names(chat, handler[j].msg, j)
    /\ \A w \in Workers : Names(chat, worker[w].msg, worker[w].job)
    /\ \A c \in Clicks : Names(chat, click[c].msg, click[c].job)
WorkHasAJob ==
    /\ \A w \in Workers : worker[w].pc # "idle" => worker[w].job \in B!Jobs
    /\ \A c \in Clicks : click[c].pc # "idle" => click[c].job \in B!Jobs

(* A link nobody meddled with: only the bot has it checked, the entry of   *)
(* pendingMsgs is its message, and before it is one video or after it has  *)
(* been expanded no worker and no button is at it, so that no message but  *)
(* that one offers to stop it.                                             *)
Stops(msgs, m, j) == msgs[m].text \in B!StopTexts /\ msgs[m].job = j
Fresh(j) == row[j].status \in {"none", "checking", "expanded"}
OneCheck(j) == \A q \in B!Askers : q # "bot" => check[j][q] = "off"
EntryIsTheMessage(j) ==
    handler[j].pc \in {"store", "resolve"} \/ check[j]["bot"] \in {"probe", "playlist", "announce"}
    => pending[j] = handler[j].msg
FreshIsUntouched(j) ==
    Fresh(j) => /\ \A w \in Workers : worker[w].job # j
                /\ \A c \in Clicks : click[c].pc = "edit" => click[c].job # j
                /\ \A m \in Msgs : Stops(chat, m, j) => handler[j].msg = m
ExpandedIsTold(j) ==
    /\ \A m \in Msgs : Stops(chat, m, j) /\ row[j].status = "expanded" =>
           check[j]["bot"] \in {"playlist", "announce"}
    /\ handler[j].pc # "over" => check[j]["bot"] = "off" /\ row[j].status # "expanded"
LinkTold(j) == OneCheck(j) /\ EntryIsTheMessage(j) /\ FreshIsUntouched(j) /\ ExpandedIsTold(j)

LinkInv(j) == LinkAttempts(j) /\ (marred[j] = "no" => LinkTold(j))
BotInv == /\ B!BotTypeOK /\ EntryHasItsCheck /\ MessagesNameTheirJob /\ WorkHasAJob
          /\ \A j \in Links : LinkInv(j)

-----------------------------------------------------------------------------
(* What the helpers do to the tables, entry by entry.                      *)

LEMMA BotFacts ==
    /\ None \notin Msgs /\ None \notin B!Jobs /\ Links \cap Entries = {}
    /\ Links \subseteq B!Jobs /\ Entries \subseteq B!Jobs
    /\ "bot" \in B!Askers /\ "recovery" \in B!Askers /\ WebChecks \subseteq B!Askers
    /\ "bot" \notin WebChecks
BY InstanceConstants DEF B!BotConstants, B!Jobs, B!Askers

LEMMA SetStatusEffect ==
    ASSUME B!BotTypeOK, NEW j \in B!Jobs,
           NEW s \in {"checking", "pending", "running", "retrying", "failed", "done", "cancelled"},
           B!SetStatus(j, s)
    PROVE  /\ row' \in [B!Jobs -> B!RowState]
           /\ \A k \in B!Jobs :
                 /\ row'[k].msg = row[k].msg
                 /\ row'[k].status = IF k = j /\ row[k].status \notin B!Gone THEN s
                                     ELSE row[k].status
<1>1. row \in [B!Jobs -> B!RowState]
  BY DEF B!BotTypeOK
<1>2. CASE row[j].status \in B!Gone
  BY <1>1, <1>2 DEF B!SetStatus, B!Absent
<1>3. CASE row[j].status \notin B!Gone
  <2>1. row' = [row EXCEPT ![j].status = s]
    BY <1>3 DEF B!SetStatus, B!Absent
  <2> QED
    BY <1>1, <1>3, <2>1 DEF B!RowState
<1> QED
  BY <1>2, <1>3

LEMMA SetMessageEffect ==
    ASSUME B!BotTypeOK, NEW j \in B!Jobs, NEW m \in B!Id, B!SetMessage(j, m)
    PROVE  /\ row' \in [B!Jobs -> B!RowState]
           /\ \A k \in B!Jobs :
                 /\ row'[k].status = row[k].status
                 /\ row'[k].msg = IF k = j /\ row[k].status \notin B!Gone THEN m ELSE row[k].msg
<1>1. row \in [B!Jobs -> B!RowState]
  BY DEF B!BotTypeOK
<1>2. CASE row[j].status \in B!Gone
  BY <1>1, <1>2 DEF B!SetMessage, B!Absent
<1>3. CASE row[j].status \notin B!Gone
  <2>1. row' = [row EXCEPT ![j].msg = m]
    BY <1>3 DEF B!SetMessage, B!Absent
  <2> QED
    BY <1>1, <1>3, <2>1 DEF B!RowState
<1> QED
  BY <1>2, <1>3

(* A row that is written as a whole.                                       *)
LEMMA RowEffect ==
    ASSUME B!BotTypeOK, NEW j \in B!Jobs, NEW s \in {"checking", "expanded", "purged"},
           row' = [row EXCEPT ![j] = [B!NoRow EXCEPT !.status = s]]
    PROVE  /\ row' \in [B!Jobs -> B!RowState]
           /\ row'[j].status = s /\ row'[j].msg = None
           /\ \A k \in B!Jobs : k # j => row'[k] = row[k]
BY DEF B!BotTypeOK, B!RowState, B!NoRow, B!Id, B!Gone

LEMMA CheckEffect ==
    ASSUME B!BotTypeOK, NEW j \in B!Jobs, NEW q \in B!Askers,
           NEW s \in {"off", "probe", "playlist", "announce", "single"},
           check' = [check EXCEPT ![j][q] = s]
    PROVE  /\ check' \in [B!Jobs -> [B!Askers -> {"off", "probe", "playlist", "announce", "single"}]]
           /\ check'[j][q] = s
           /\ \A p \in B!Askers : p # q => check'[j][p] = check[j][p]
           /\ \A k \in B!Jobs : k # j => check'[k] = check[k]
BY DEF B!BotTypeOK

(* A message that was sent keeps its job.                                  *)
Grows(old, new) ==
    \A m \in Msgs : old[m].text # "unsent" =>
        new[m].text # "unsent" /\ new[m].job = old[m].job

LEMMA EditedEffect ==
    ASSUME B!BotTypeOK, NEW m \in B!Id,
           NEW text \in {"queued", "loading", "retrying", "failed", "summary"},
           chat' = B!Edited(m, text)
    PROVE  /\ chat' \in [Msgs -> B!Message]
           /\ \A n \in Msgs :
                 /\ chat'[n].job = chat[n].job
                 /\ chat'[n].text = IF n = m /\ chat[n].text # "gone" THEN text
                                    ELSE chat[n].text
<1>1. chat \in [Msgs -> B!Message] /\ (m # None => m \in Msgs)
  BY DEF B!BotTypeOK, B!Id
<1>2. CASE m # None /\ chat[m].text # "gone"
  <2>1. chat' = [chat EXCEPT ![m].text = text]
    BY <1>2 DEF B!Edited
  <2> QED
    BY <1>1, <1>2, <2>1 DEF B!Message
<1>3. CASE ~(m # None /\ chat[m].text # "gone")
  <2>1. chat' = chat
    BY <1>3 DEF B!Edited
  <2> QED
    BY <1>1, <1>3, <2>1, BotFacts
<1> QED
  BY <1>2, <1>3

(* A refused edit leaves the text as it is.                                *)
LEMMA EditEffect ==
    ASSUME B!BotTypeOK, NEW m \in B!Id,
           NEW text \in {"queued", "loading", "retrying", "failed", "summary"},
           B!Edit(m, text)
    PROVE  /\ chat' \in [Msgs -> B!Message]
           /\ \A n \in Msgs :
                 /\ chat'[n].job = chat[n].job
                 /\ chat'[n].text = chat[n].text \/ (n = m /\ chat'[n].text = text)
<1>1. CASE chat' = B!Edited(m, text)
  BY <1>1, EditedEffect
<1>2. CASE chat' = chat
  BY <1>2 DEF B!BotTypeOK
<1> QED
  BY <1>1, <1>2 DEF B!Edit

LEMMA DeleteEffect ==
    ASSUME B!BotTypeOK, NEW m \in B!Id, B!Delete(m)
    PROVE  /\ chat' \in [Msgs -> B!Message]
           /\ \A n \in Msgs :
                 /\ chat'[n].job = chat[n].job
                 /\ chat'[n].text = chat[n].text \/ (n = m /\ chat'[n].text = "gone")
<1>1. chat \in [Msgs -> B!Message] /\ (m # None => m \in Msgs)
  BY DEF B!BotTypeOK, B!Id
<1>2. CASE m # None /\ chat' = [chat EXCEPT ![m].text = "gone"]
  BY <1>1, <1>2 DEF B!Message
<1>3. CASE chat' = chat
  BY <1>1, <1>3
<1> QED
  BY <1>2, <1>3 DEF B!Delete

(* A message somebody sends.                                               *)
LEMMA SendEffect ==
    ASSUME B!BotTypeOK, NEW m \in B!Unsent, NEW j \in B!Jobs,
           NEW text \in {"queued", "retrying", "failed"},
           chat' = [chat EXCEPT ![m] = [text |-> text, job |-> j]]
    PROVE  /\ chat' \in [Msgs -> B!Message] /\ m \in Msgs
           /\ \A n \in Msgs : chat'[n] = IF n = m THEN [text |-> text, job |-> j] ELSE chat[n]
           /\ Grows(chat, chat')
BY DEF B!BotTypeOK, B!Message, B!Unsent, Grows

(* An edited message was sent before.                                      *)
LEMMA EditsGrow ==
    ASSUME B!BotTypeOK, MessagesNameTheirJob, NEW m \in B!Id, NEW j, Names(chat, m, j),
           NEW text, text # "unsent",
           \A n \in Msgs : /\ chat'[n].job = chat[n].job
                           /\ chat'[n].text = chat[n].text \/ (n = m /\ chat'[n].text = text)
    PROVE  /\ Grows(chat, chat')
           /\ \A n \in Msgs : chat'[n].text # "unsent" => chat[n].text # "unsent"
BY BotFacts DEF Grows, Names

-----------------------------------------------------------------------------
(* Steps that leave most of the state alone.                               *)

LEMMA NamesStay ==
    ASSUME MessagesNameTheirJob, B!BotTypeOK, Grows(chat, chat'), B!BotTypeOK',
           \A m \in Msgs : chat'[m].text # "unsent" =>
               chat[m].text # "unsent" \/ chat'[m].job \in B!Jobs,
           \A j \in B!Jobs : row'[j].msg = row[j].msg \/ Names(chat', row'[j].msg, j),
           \A j \in B!Jobs : pending'[j] = pending[j] \/ Names(chat', pending'[j], j),
           \A j \in Links : handler'[j].msg = handler[j].msg \/ Names(chat', handler'[j].msg, j),
           \A w \in Workers :
               \/ worker'[w].msg = worker[w].msg /\ worker'[w].job = worker[w].job
               \/ Names(chat', worker'[w].msg, worker'[w].job),
           \A c \in Clicks :
               \/ click'[c].msg = click[c].msg /\ click'[c].job = click[c].job
               \/ Names(chat', click'[c].msg, click'[c].job)
    PROVE  MessagesNameTheirJob'
<1>1. ASSUME NEW m \in B!Id, NEW j, Names(chat, m, j)
      PROVE  Names(chat', m, j)
  BY <1>1 DEF Names, Grows, B!Id
<1>2. /\ \A j \in B!Jobs : row[j].msg \in B!Id /\ pending[j] \in B!Id
      /\ \A j \in Links : handler[j].msg \in B!Id
      /\ \A w \in Workers : worker[w].msg \in B!Id
      /\ \A c \in Clicks : click[c].msg \in B!Id
  BY DEF B!BotTypeOK, B!RowState, B!WorkerState, B!ClickState
<1>3. \A m \in Msgs : chat'[m].text # "unsent" => chat'[m].job \in B!Jobs
  BY DEF MessagesNameTheirJob, Grows
<1>4. \A j \in B!Jobs : Names(chat', row'[j].msg, j)
  BY <1>1, <1>2 DEF MessagesNameTheirJob
<1>5. \A j \in B!Jobs : Names(chat', pending'[j], j)
  BY <1>1, <1>2 DEF MessagesNameTheirJob
<1>6. \A j \in Links : Names(chat', handler'[j].msg, j)
  BY <1>1, <1>2 DEF MessagesNameTheirJob
<1>7. \A w \in Workers : Names(chat', worker'[w].msg, worker'[w].job)
  BY <1>1, <1>2 DEF MessagesNameTheirJob
<1>8. \A c \in Clicks : Names(chat', click'[c].msg, click'[c].job)
  BY <1>1, <1>2 DEF MessagesNameTheirJob
<1> QED
  BY <1>3, <1>4, <1>5, <1>6, <1>7, <1>8 DEF MessagesNameTheirJob

(* Steps of the workers, the buttons and the web: no row gets fresh, and   *)
(* nobody gets at a link that is.                                          *)
Active(j) == \/ row[j].status \notin B!Gone \cup {"checking", "cancelled"}
             \/ \E w \in Workers : worker[w].job = j

LEMMA WorkStays ==
    ASSUME BotInv, B!BotTypeOK', MessagesNameTheirJob', WorkHasAJob',
           UNCHANGED <<pending, handler, check, marred>>,
           \A k \in Links : k \in recovery'.left =>
               k \in recovery.left \/ row[k].status # "none",
           \A k \in Links : row[k].status \in B!Gone => row'[k].status = row[k].status,
           \A k \in Links : \/ row'[k].status = row[k].status
                            \/ row'[k].status \in {"cancelled", "purged"}
                            \/ (Active(k) /\ ~Fresh(k)'),
           \A k \in Links : row'[k].status \notin B!Gone =>
               \/ row'[k].msg = row[k].msg
               \/ (marred[k] # "early" /\ handler[k].msg # None => row'[k].msg = handler[k].msg),
           \A w \in Workers, k \in Links : worker'[w].job = k =>
               \/ worker[w].job = k /\ worker'[w].msg = worker[w].msg
               \/ worker[w].job = k /\ worker[w].msg = None
               \/ row[k].status \in {"pending", "retrying"} /\ worker'[w].msg = row[k].msg,
           \A c \in Clicks, k \in Links : click'[c].pc = "edit" /\ click'[c].job = k =>
               (click[c].pc = "edit" /\ click[c].job = k) \/ ~Fresh(k),
           \A m \in Msgs, k \in Links : Stops(chat', m, k) =>
               Stops(chat, m, k) \/ ~Fresh(k) \/ marred[k] # "no"
    PROVE  BotInv'
<1>1. EntryHasItsCheck'
  BY DEF BotInv, EntryHasItsCheck
<1>2. ASSUME NEW k \in Links
      PROVE  LinkInv(k)'
  <2>1. LinkInv(k)
    BY DEF BotInv
  <2>2. LinkInOrder(k)'
    BY <2>1 DEF LinkInv, LinkAttempts, LinkInOrder, B!Gone
  <2>3. ASSUME marred[k] # "early"
        PROVE  LinkWaits(k)' /\ LinkIsStored(k)'
    <3>1. LinkWaits(k)'
      BY <2>1, <2>3 DEF LinkInv, LinkAttempts, LinkWaits, Active, B!Gone
    <3>2. LinkIsStored(k)'
      BY <2>1, <2>3 DEF LinkInv, LinkAttempts, LinkIsStored, B!Gone
    <3> QED
      BY <3>1, <3>2
  <2>4. ASSUME marred[k] = "no"
        PROVE  LinkTold(k)'
    <3>1. Fresh(k)' => Fresh(k) /\ row'[k].status = row[k].status
      BY DEF Fresh
    <3>2. OneCheck(k)' /\ EntryIsTheMessage(k)'
      BY <2>1, <2>4 DEF LinkInv, LinkTold, OneCheck, EntryIsTheMessage
    <3>3. FreshIsUntouched(k)'
      BY <2>1, <2>4, <3>1 DEF LinkInv, LinkTold, FreshIsUntouched, Fresh
    <3>4. ExpandedIsTold(k)'
      BY <2>1, <2>4, <3>1 DEF LinkInv, LinkTold, ExpandedIsTold, Fresh
    <3> QED
      BY <3>2, <3>3, <3>4 DEF LinkTold
  <2> QED
    BY <2>2, <2>3, <2>4 DEF LinkInv, LinkAttempts
<1> QED
  BY <1>1, <1>2 DEF BotInv

(* Steps of one link, or of one row's checks.                              *)
LEMMA LinkStays ==
    ASSUME BotInv, B!BotTypeOK', MessagesNameTheirJob', UNCHANGED <<worker, click>>,
           NEW j \in B!Jobs,
           \A k \in B!Jobs : k # j =>
               row'[k] = row[k] /\ pending'[k] = pending[k] /\ check'[k] = check[k],
           \A k \in Links : k # j => handler'[k] = handler[k] /\ marred'[k] = marred[k],
           recovery'.left \subseteq recovery.left,
           \A m \in Msgs, k \in Links : k # j /\ Stops(chat', m, k) => Stops(chat, m, k),
           pending'[j] # None => j \in Links /\ (\/ handler'[j].pc \in {"store", "resolve"}
                                                 \/ check'[j]["bot"] # "off"),
           j \in Links => LinkInv(j)'
    PROVE  BotInv'
<1>1. EntryHasItsCheck'
  BY DEF BotInv, EntryHasItsCheck
<1>2. WorkHasAJob'
  BY DEF BotInv, WorkHasAJob
<1>3. ASSUME NEW k \in Links, k # j
      PROVE  LinkInv(k)'
  <2>1. LinkInv(k) /\ k \in B!Jobs
    BY BotFacts DEF BotInv
  <2>2. LinkAttempts(k)'
    BY <1>3, <2>1 DEF LinkInv, LinkAttempts, LinkInOrder, LinkWaits, LinkIsStored
  <2>3. marred'[k] = "no" => LinkTold(k)'
    BY <1>3, <2>1
       DEF LinkInv, LinkTold, OneCheck, EntryIsTheMessage, FreshIsUntouched, ExpandedIsTold, Fresh
  <2> QED
    BY <2>2, <2>3 DEF LinkInv
<1> QED
  BY <1>1, <1>2, <1>3 DEF BotInv

-----------------------------------------------------------------------------
(* The workers.                                                            *)

LEMMA ClaimStep ==
    ASSUME BotInv, NEW w \in Workers, B!Claim(w)
    PROVE  BotInv'
<1>1. PICK j \in B!Jobs :
          /\ row[j].status \in {"pending", "retrying"} /\ B!SetStatus(j, "running")
          /\ worker' = [worker EXCEPT ![w] = [B!Idle EXCEPT !.pc = "start", !.job = j,
                                                            !.msg = row[j].msg]]
  BY DEF B!Claim
<1>2. UNCHANGED <<chat, pending, handler, check, click, recovery, restarts, marred>>
  BY DEF B!Claim
<1>3. /\ row' \in [B!Jobs -> B!RowState]
      /\ \A k \in B!Jobs : /\ row'[k].msg = row[k].msg
                           /\ row'[k].status = IF k = j THEN "running" ELSE row[k].status
  BY <1>1, SetStatusEffect DEF BotInv, B!Gone
<1>4. /\ worker' \in [Workers -> B!WorkerState]
      /\ worker'[w].job = j /\ worker'[w].msg = row[j].msg
      /\ \A v \in Workers : v # w => worker'[v] = worker[v]
  BY <1>1 DEF BotInv, B!BotTypeOK, B!WorkerState, B!Idle, B!RowState
<1>5. B!BotTypeOK'
  BY <1>2, <1>3, <1>4 DEF BotInv, B!BotTypeOK
<1>6. MessagesNameTheirJob'
  <2>1. Names(chat', worker'[w].msg, worker'[w].job) /\ Grows(chat, chat')
    BY <1>2, <1>4 DEF BotInv, MessagesNameTheirJob, Names, Grows
  <2> QED
    BY <1>2, <1>3, <1>4, <1>5, <2>1, NamesStay DEF BotInv
<1>7. WorkHasAJob'
  BY <1>2, <1>4 DEF BotInv, WorkHasAJob
<1>8. ASSUME NEW k \in Links
      PROVE  /\ row[k].status \in B!Gone => row'[k].status = row[k].status
             /\ row'[k].status = row[k].status \/ (Active(k) /\ ~Fresh(k)')
             /\ row'[k].msg = row[k].msg
  BY <1>1, <1>3, BotFacts DEF Active, Fresh, B!Gone
<1>9. \A v \in Workers, k \in Links : worker'[v].job = k =>
          \/ worker[v].job = k /\ worker'[v].msg = worker[v].msg
          \/ row[k].status \in {"pending", "retrying"} /\ worker'[v].msg = row[k].msg
  BY <1>1, <1>4
<1> QED
  BY <1>2, <1>5, <1>6, <1>7, <1>8, <1>9, WorkStays

(* A worker that goes on with its job, or is done with it.                 *)
SameWork(w) ==
    \/ /\ worker'[w].job = worker[w].job /\ worker'[w].msg = worker[w].msg
       /\ worker'[w].pc # "idle" => worker[w].pc # "idle"
    \/ worker'[w].job = None /\ worker'[w].msg = None /\ worker'[w].pc = "idle"
SameClick(c) ==
    \/ /\ click'[c].job = click[c].job /\ click'[c].msg = click[c].msg
       /\ click'[c].pc # "idle" => click[c].pc # "idle"
       /\ click'[c].pc = "edit" => click[c].pc = "edit" \/ ~Fresh(click[c].job)
    \/ click'[c].msg = None /\ click'[c].pc = "idle"

(* An edit at most of a message of a job that is not fresh, and no more of *)
(* the rows than a status a worker or a request writes.                    *)
LEMMA QuietStep ==
    ASSUME BotInv, UNCHANGED <<pending, handler, check, restarts, marred>>,
           recovery' \in B!RecoveryState,
           \A k \in Links : k \in recovery'.left =>
               k \in recovery.left \/ row[k].status # "none",
           row' \in [B!Jobs -> B!RowState],
           \A k \in B!Jobs :
               /\ row'[k].msg = row[k].msg \/ (row'[k].status \in B!Gone /\ row'[k].msg = None)
               /\ row[k].status \in B!Gone => row'[k].status = row[k].status
               /\ \/ row'[k].status = row[k].status
                  \/ row'[k].status \in {"cancelled", "purged"}
                  \/ (Active(k) /\ ~Fresh(k)'),
           worker' \in [Workers -> B!WorkerState], \A w \in Workers : SameWork(w),
           click' \in [Clicks -> B!ClickState],
           \A c \in Clicks : SameClick(c),
           NEW m \in B!Id, NEW j, Names(chat, m, j),
           NEW text \in {"queued", "loading", "retrying", "failed", "gone"},
           text = "gone" \/ (j \in Links => ~Fresh(j) \/ marred[j] # "no"),
           chat' \in [Msgs -> B!Message],
           \A n \in Msgs : /\ chat'[n].job = chat[n].job
                           /\ chat'[n].text = chat[n].text \/ (n = m /\ chat'[n].text = text)
    PROVE  BotInv'
<1>1. B!BotTypeOK'
  BY DEF BotInv, B!BotTypeOK
<1>2. Grows(chat, chat') /\ \A n \in Msgs : chat'[n].text # "unsent" => chat[n].text # "unsent"
  <2>1. text # "unsent" /\ B!BotTypeOK /\ MessagesNameTheirJob
    BY DEF BotInv
  <2> QED
    BY <2>1, EditsGrow
<1>3. MessagesNameTheirJob'
  <2>1. \A v \in Workers : \/ worker'[v].msg = worker[v].msg /\ worker'[v].job = worker[v].job
                           \/ Names(chat', worker'[v].msg, worker'[v].job)
    BY DEF SameWork, Names
  <2>2. \A c \in Clicks : \/ click'[c].msg = click[c].msg /\ click'[c].job = click[c].job
                          \/ Names(chat', click'[c].msg, click'[c].job)
    BY DEF SameClick, Names
  <2>3. \A k \in B!Jobs : row'[k].msg = row[k].msg \/ Names(chat', row'[k].msg, k)
    BY DEF Names
  <2> QED
    BY <1>1, <1>2, <2>1, <2>2, <2>3, NamesStay DEF BotInv
<1>4. WorkHasAJob'
  BY DEF BotInv, WorkHasAJob, SameWork, SameClick
<1>5. \A n \in Msgs, k \in Links : Stops(chat', n, k) =>
          Stops(chat, n, k) \/ ~Fresh(k) \/ marred[k] # "no"
  BY BotFacts DEF Stops, Names, B!StopTexts
<1>6. \A v \in Workers, k \in Links : worker'[v].job = k =>
          worker[v].job = k /\ worker'[v].msg = worker[v].msg
  BY BotFacts DEF SameWork
<1>7. \A c \in Clicks, k \in Links : click'[c].pc = "edit" /\ click'[c].job = k =>
          (click[c].pc = "edit" /\ click[c].job = k) \/ ~Fresh(k)
  BY DEF SameClick
<1> QED
  BY <1>1, <1>3, <1>4, <1>5, <1>6, <1>7, WorkStays, BotFacts

LEMMA SilentStep ==
    ASSUME BotInv, UNCHANGED <<chat, pending, handler, check, restarts, marred>>,
           recovery' \in B!RecoveryState,
           \A k \in Links : k \in recovery'.left =>
               k \in recovery.left \/ row[k].status # "none",
           row' \in [B!Jobs -> B!RowState],
           \A k \in B!Jobs :
               /\ row'[k].msg = row[k].msg \/ (row'[k].status \in B!Gone /\ row'[k].msg = None)
               /\ row[k].status \in B!Gone => row'[k].status = row[k].status
               /\ \/ row'[k].status = row[k].status
                  \/ row'[k].status \in {"cancelled", "purged"}
                  \/ (Active(k) /\ ~Fresh(k)'),
           worker' \in [Workers -> B!WorkerState], \A w \in Workers : SameWork(w),
           click' \in [Clicks -> B!ClickState],
           \A c \in Clicks : SameClick(c)
    PROVE  BotInv'
<1>1. PICK m \in B!Id, j \in {None} : m = None /\ j = None
  BY DEF B!Id
<1>2. Names(chat, m, j) /\ (j \in Links => ~Fresh(j) \/ marred[j] # "no")
  BY <1>1, BotFacts DEF Names
<1>3. /\ chat' \in [Msgs -> B!Message]
      /\ \A n \in Msgs : /\ chat'[n].job = chat[n].job
                         /\ chat'[n].text = chat[n].text \/ (n = m /\ chat'[n].text = "gone")
  BY DEF BotInv, B!BotTypeOK
<1> QED
  BY <1>2, <1>3, QuietStep

(* A worker that holds a link nobody meddled with has it past its check.   *)
LEMMA HeldIsNotFresh ==
    ASSUME BotInv, NEW w \in Workers, NEW j, j = worker[w].job, j \in Links
    PROVE  ~Fresh(j) \/ marred[j] # "no"
BY DEF BotInv, LinkInv, LinkTold, FreshIsUntouched

LEMMA NotifyStartedStep ==
    ASSUME BotInv, NEW w \in Workers, B!NotifyStarted(w)
    PROVE  BotInv'
<1>1. /\ B!Edit(worker[w].msg, "loading") /\ worker[w].pc = "start"
      /\ worker' = [worker EXCEPT ![w].pc = "load"]
      /\ UNCHANGED <<row, pending, handler, check, click, recovery, restarts, marred>>
  BY DEF B!NotifyStarted
<1>2. worker[w].msg \in B!Id /\ Names(chat, worker[w].msg, worker[w].job) /\ B!BotTypeOK
  BY DEF BotInv, B!BotTypeOK, B!WorkerState, MessagesNameTheirJob
<1>3. /\ chat' \in [Msgs -> B!Message]
      /\ \A n \in Msgs :
            /\ chat'[n].job = chat[n].job
            /\ chat'[n].text = chat[n].text \/ (n = worker[w].msg /\ chat'[n].text = "loading")
  BY <1>1, <1>2, EditEffect
<1>4. worker' \in [Workers -> B!WorkerState] /\ \A v \in Workers : SameWork(v)
  BY <1>1, <1>2 DEF B!BotTypeOK, B!WorkerState, SameWork
<1>5. /\ row' \in [B!Jobs -> B!RowState] /\ click' \in [Clicks -> B!ClickState]
      /\ recovery' \in B!RecoveryState /\ \A c \in Clicks : SameClick(c)
  BY <1>1, <1>2 DEF B!BotTypeOK, SameClick
<1> QED
  BY <1>1, <1>2, <1>3, <1>4, <1>5, HeldIsNotFresh, QuietStep

(* A worker of the table that gives its job up, or forgets it.             *)
LEMMA FinishStep ==
    ASSUME BotInv, NEW w \in Workers, B!Finish(w)
    PROVE  BotInv'
<1>0. PICK mine \in B!Jobs : mine = worker[w].job
  BY DEF B!Finish, BotInv, WorkHasAJob
<1>1. /\ UNCHANGED <<chat, pending, handler, check, click, recovery, restarts, marred>>
      /\ worker[w].pc = "load" /\ B!BotTypeOK
  BY DEF B!Finish, BotInv
<1>2. PICK s \in {"done", "failed", "retrying", "cancelled"} :
          /\ B!SetStatus(mine, s)
          /\ \/ worker' = [worker EXCEPT ![w] = B!Idle]
             \/ worker' = [worker EXCEPT ![w].pc = "tell", ![w].verdict = s] /\ s # "cancelled"
  <2>1. CASE worker[w].stopped
    BY <1>0, <2>1 DEF B!Finish
  <2>2. CASE ~worker[w].stopped
    BY <1>0, <2>2 DEF B!Finish
  <2> QED
    BY <2>1, <2>2
<1>3. /\ row' \in [B!Jobs -> B!RowState]
      /\ \A k \in B!Jobs : /\ row'[k].msg = row[k].msg
                           /\ row'[k].status = IF k = mine /\ row[k].status \notin B!Gone
                                               THEN s ELSE row[k].status
  BY <1>1, <1>2, SetStatusEffect
<1>4. worker' \in [Workers -> B!WorkerState] /\ \A v \in Workers : SameWork(v)
  <2>1. CASE worker' = [worker EXCEPT ![w] = B!Idle]
    BY <1>1, <2>1 DEF B!BotTypeOK, B!WorkerState, B!Idle, B!Id, SameWork
  <2>2. CASE worker' = [worker EXCEPT ![w].pc = "tell", ![w].verdict = s] /\ s # "cancelled"
    <3> DEFINE task == [worker[w] EXCEPT !.pc = "tell", !.verdict = s]
    <3>1. worker \in [Workers -> B!WorkerState] /\ worker[w] \in B!WorkerState
      BY <1>1 DEF B!BotTypeOK
    <3>2. worker' = [worker EXCEPT ![w] = task]
      BY <2>2, <3>1
    <3>3. task \in B!WorkerState /\ task.job = worker[w].job /\ task.msg = worker[w].msg
      BY <2>2, <3>1 DEF B!WorkerState
    <3> HIDE DEF task
    <3> QED
      BY <1>1, <3>1, <3>2, <3>3 DEF SameWork
  <2> QED
    BY <1>2, <2>1, <2>2
<1>5. \A k \in B!Jobs :
          /\ row[k].status \in B!Gone => row'[k].status = row[k].status
          /\ row'[k].status = row[k].status \/ (Active(k) /\ ~Fresh(k)')
  BY <1>0, <1>3 DEF Active, Fresh
<1>6. /\ click' \in [Clicks -> B!ClickState] /\ recovery' \in B!RecoveryState
      /\ \A c \in Clicks : SameClick(c)
  BY <1>1 DEF B!BotTypeOK, SameClick
<1> QED
  BY <1>1, <1>3, <1>4, <1>5, <1>6, SilentStep

LEMMA NotifyEndStep ==
    ASSUME BotInv, NEW w \in Workers, B!NotifyDone(w) \/ B!NotifyFails(w)
    PROVE  BotInv'
<1>1. /\ UNCHANGED <<row, pending, handler, check, click, recovery, restarts, marred>>
      /\ worker' = [worker EXCEPT ![w] = B!Idle] /\ B!BotTypeOK
  BY DEF B!NotifyDone, B!NotifyFails, BotInv
<1>2. worker[w].msg \in B!Id /\ Names(chat, worker[w].msg, worker[w].job)
  BY DEF BotInv, B!BotTypeOK, B!WorkerState, MessagesNameTheirJob
<1>3. /\ chat' \in [Msgs -> B!Message]
      /\ \A n \in Msgs :
            /\ chat'[n].job = chat[n].job
            /\ chat'[n].text = chat[n].text \/ (n = worker[w].msg /\ chat'[n].text = "gone")
  <2>1. CASE B!NotifyDone(w)
    BY <1>1, <1>2, <2>1, DeleteEffect DEF B!NotifyDone
  <2>2. CASE B!NotifyFails(w)
    BY <1>1, <2>2 DEF B!NotifyFails, B!BotTypeOK
  <2> QED
    BY <2>1, <2>2
<1>4. worker' \in [Workers -> B!WorkerState] /\ \A v \in Workers : SameWork(v)
  BY <1>1 DEF B!BotTypeOK, B!WorkerState, B!Idle, B!Id, SameWork
<1>5. /\ row' \in [B!Jobs -> B!RowState] /\ click' \in [Clicks -> B!ClickState]
      /\ recovery' \in B!RecoveryState /\ \A c \in Clicks : SameClick(c)
  BY <1>1 DEF B!BotTypeOK, SameClick
<1> QED
  BY <1>1, <1>2, <1>3, <1>4, <1>5, HeldIsNotFresh, QuietStep

LEMMA NotifyFailureStep ==
    ASSUME BotInv, NEW w \in Workers, B!NotifyFailure(w)
    PROVE  BotInv'
<1>0. PICK mine \in B!Jobs, text \in {"failed", "retrying"}, msg \in B!Id :
          mine = worker[w].job /\ text = worker[w].verdict /\ msg = worker[w].msg
  BY DEF B!NotifyFailure, BotInv, B!BotTypeOK, B!WorkerState, WorkHasAJob
<1>1. /\ UNCHANGED <<row, pending, handler, check, click, recovery, restarts, marred>>
      /\ worker[w].pc = "tell" /\ B!BotTypeOK
  BY DEF B!NotifyFailure, BotInv
<1>2. \/ B!Edit(msg, text) /\ worker' = [worker EXCEPT ![w] = B!Idle]
      \/ /\ msg = None
         /\ \E m \in B!Unsent :
               /\ chat' = [chat EXCEPT ![m] = [text |-> text, job |-> mine]]
               /\ worker' = [worker EXCEPT ![w].pc = "store", ![w].msg = m]
  <2>1. CASE worker[w].msg # None
    BY <1>0, <2>1 DEF B!NotifyFailure
  <2>2. CASE worker[w].msg = None
    BY <1>0, <2>2 DEF B!NotifyFailure
  <2> QED
    BY <2>1, <2>2
<1>3. /\ row' \in [B!Jobs -> B!RowState] /\ click' \in [Clicks -> B!ClickState]
      /\ recovery' \in B!RecoveryState /\ \A c \in Clicks : SameClick(c)
  BY <1>1 DEF B!BotTypeOK, SameClick
<1>4. CASE B!Edit(msg, text) /\ worker' = [worker EXCEPT ![w] = B!Idle]
  <2>1. /\ chat' \in [Msgs -> B!Message]
        /\ \A n \in Msgs :
              /\ chat'[n].job = chat[n].job
              /\ chat'[n].text = chat[n].text \/ (n = msg /\ chat'[n].text = text)
    BY <1>1, <1>4, EditEffect
  <2>2. worker' \in [Workers -> B!WorkerState] /\ \A v \in Workers : SameWork(v)
    BY <1>1, <1>4 DEF B!BotTypeOK, B!WorkerState, B!Idle, B!Id, SameWork
  <2>3. Names(chat, msg, mine) /\ (mine \in Links => ~Fresh(mine) \/ marred[mine] # "no")
    BY <1>0, HeldIsNotFresh DEF BotInv, MessagesNameTheirJob
  <2> QED
    BY <1>1, <1>3, <2>1, <2>2, <2>3, QuietStep
<1>5. ASSUME NEW m \in B!Unsent, msg = None,
             chat' = [chat EXCEPT ![m] = [text |-> text, job |-> mine]],
             worker' = [worker EXCEPT ![w].pc = "store", ![w].msg = m]
      PROVE  BotInv'
  <2>1. /\ chat' \in [Msgs -> B!Message] /\ m \in Msgs /\ Grows(chat, chat')
        /\ \A n \in Msgs : chat'[n] = IF n = m THEN [text |-> text, job |-> mine] ELSE chat[n]
    BY <1>1, <1>5, SendEffect
  <2>2. /\ worker' \in [Workers -> B!WorkerState]
        /\ worker'[w].job = mine /\ worker'[w].msg = m
        /\ \A v \in Workers : v # w => worker'[v] = worker[v]
    <3> DEFINE task == [worker[w] EXCEPT !.pc = "store", !.msg = m]
    <3>1. worker \in [Workers -> B!WorkerState] /\ worker[w] \in B!WorkerState /\ m \in B!Id
      BY <1>1, <2>1 DEF B!BotTypeOK, B!Id
    <3>2. worker' = [worker EXCEPT ![w] = task]
      BY <1>5, <3>1
    <3>3. task \in B!WorkerState /\ task.job = mine /\ task.msg = m
      BY <1>0, <3>1 DEF B!WorkerState
    <3> HIDE DEF task
    <3> QED
      BY <3>1, <3>2, <3>3
  <2>3. B!BotTypeOK'
    BY <1>1, <2>1, <2>2 DEF B!BotTypeOK
  <2>4. MessagesNameTheirJob'
    <3>1. Names(chat', worker'[w].msg, worker'[w].job)
      BY <2>1, <2>2 DEF Names
    <3> QED
      BY <1>1, <2>1, <2>2, <2>3, <3>1, NamesStay DEF BotInv
  <2>5. WorkHasAJob'
    BY <1>1, <2>2 DEF BotInv, WorkHasAJob
  <2>6. \A v \in Workers, k \in Links : worker'[v].job = k =>
            \/ worker[v].job = k /\ worker'[v].msg = worker[v].msg
            \/ worker[v].job = k /\ worker[v].msg = None
    BY <1>0, <1>5, <2>2
  <2>7. \A n \in Msgs, k \in Links : Stops(chat', n, k) =>
            Stops(chat, n, k) \/ ~Fresh(k) \/ marred[k] # "no"
    BY <1>0, <2>1, HeldIsNotFresh DEF Stops
  <2> QED
    BY <1>1, <2>3, <2>4, <2>5, <2>6, <2>7, WorkStays
<1> QED
  BY <1>2, <1>4, <1>5

LEMMA StoreNotifiedStep ==
    ASSUME BotInv, NEW w \in Workers, B!StoreNotified(w)
    PROVE  BotInv'
<1>0. PICK mine \in B!Jobs, msg \in B!Id : mine = worker[w].job /\ msg = worker[w].msg
  BY DEF B!StoreNotified, BotInv, B!BotTypeOK, B!WorkerState, WorkHasAJob
<1>1. /\ UNCHANGED <<chat, pending, handler, check, click, recovery, restarts, marred>>
      /\ B!SetMessage(mine, msg) /\ worker' = [worker EXCEPT ![w] = B!Idle] /\ B!BotTypeOK
  BY <1>0 DEF B!StoreNotified, BotInv
<1>2. /\ row' \in [B!Jobs -> B!RowState]
      /\ \A k \in B!Jobs :
            /\ row'[k].status = row[k].status
            /\ row'[k].msg = IF k = mine /\ row[k].status \notin B!Gone THEN msg ELSE row[k].msg
  BY <1>1, SetMessageEffect
<1>3. worker' \in [Workers -> B!WorkerState] /\ \A v \in Workers : SameWork(v)
  BY <1>1 DEF B!BotTypeOK, B!WorkerState, B!Idle, B!Id, SameWork
<1>4. B!BotTypeOK'
  BY <1>1, <1>2, <1>3 DEF B!BotTypeOK
<1>5. MessagesNameTheirJob' /\ WorkHasAJob'
  <2>1. Names(chat, msg, mine) /\ Grows(chat, chat')
    BY <1>0, <1>1 DEF BotInv, MessagesNameTheirJob, Grows
  <2>2. \A v \in Workers : \/ worker'[v].msg = worker[v].msg /\ worker'[v].job = worker[v].job
                           \/ Names(chat', worker'[v].msg, worker'[v].job)
    BY <1>3 DEF Names, SameWork
  <2>3. \A j \in B!Jobs : row'[j].msg = row[j].msg \/ Names(chat', row'[j].msg, j)
    BY <1>1, <1>2, <2>1
  <2>4. MessagesNameTheirJob'
    BY <1>1, <1>4, <2>1, <2>2, <2>3, NamesStay DEF BotInv
  <2>5. WorkHasAJob'
    BY <1>1, <1>3 DEF BotInv, WorkHasAJob, SameWork
  <2> QED
    BY <2>4, <2>5
<1>6. ASSUME NEW k \in Links, marred[k] # "early", handler[k].msg # None,
             row'[k].msg # row[k].msg, row'[k].status \notin B!Gone
      PROVE  row'[k].msg = handler[k].msg
  <2>1. k = mine /\ worker[w].job = k /\ row'[k].msg = worker[w].msg /\ LinkInv(k)
    BY <1>0, <1>2, <1>6, BotFacts DEF BotInv
  <2> QED
    BY <1>6, <2>1 DEF LinkInv, LinkAttempts, LinkWaits, LinkIsStored
<1>7. \A v \in Workers, k \in Links : worker'[v].job = k =>
          worker[v].job = k /\ worker'[v].msg = worker[v].msg
  BY <1>3, BotFacts DEF SameWork
<1> QED
  BY <1>1, <1>2, <1>4, <1>5, <1>6, <1>7, WorkStays, BotFacts


-----------------------------------------------------------------------------
(* The buttons, the web and a start.                                       *)

LEMMA CancelEffect ==
    ASSUME BotInv, NEW j \in B!Jobs, B!Cancel(j)
    PROVE  /\ row' \in [B!Jobs -> B!RowState]
           /\ \A k \in B!Jobs :
                 /\ row'[k].msg = row[k].msg
                 /\ row[k].status \in B!Gone => row'[k].status = row[k].status
                 /\ row'[k].status = row[k].status \/ row'[k].status = "cancelled"
           /\ worker' \in [Workers -> B!WorkerState] /\ \A w \in Workers : SameWork(w)
<1>1. B!BotTypeOK
  BY DEF BotInv
<1>2. CASE B!Holders(j) = {}
  BY <1>1, <1>2, SetStatusEffect DEF B!Cancel, B!BotTypeOK, SameWork
<1>3. CASE B!Holders(j) # {}
  <2>1. PICK w \in Workers : worker' = [worker EXCEPT ![w].stopped = TRUE]
    BY <1>3 DEF B!Cancel, B!Holders
  <2>2. row' = row
    BY <1>3 DEF B!Cancel
  <2>3. row' \in [B!Jobs -> B!RowState]
    BY <1>1, <2>2 DEF B!BotTypeOK
  <2>4. worker \in [Workers -> B!WorkerState]
    BY <1>1 DEF B!BotTypeOK
  <2>5. worker' \in [Workers -> B!WorkerState]
    BY <2>1, <2>4 DEF B!WorkerState
  <2>6. \A v \in Workers : SameWork(v)
    BY <2>1, <2>4 DEF B!WorkerState, SameWork
  <2> QED
    BY <2>2, <2>3, <2>5, <2>6
<1> QED
  BY <1>2, <1>3

(* A button that is pressed, or moves on, leaves the workers alone.        *)
LEMMA ClickMoves ==
    ASSUME BotInv, NEW c \in Clicks, NEW pc \in {"delete", "reset", "edit"},
           click[c].pc # "idle", pc = "edit" => ~Fresh(click[c].job),
           \/ click' = [click EXCEPT ![c].pc = pc]
           \/ click' = [click EXCEPT ![c] = B!NoClick]
    PROVE  click' \in [Clicks -> B!ClickState] /\ \A d \in Clicks : SameClick(d)
<1>1. click \in [Clicks -> B!ClickState] /\ B!NoClick \in B!ClickState
  BY DEF BotInv, B!BotTypeOK, B!NoClick, B!ClickState, B!Id
<1>2. CASE click' = [click EXCEPT ![c].pc = pc]
  BY <1>1, <1>2 DEF B!ClickState, SameClick
<1>3. CASE click' = [click EXCEPT ![c] = B!NoClick]
  BY <1>1, <1>3 DEF B!NoClick, SameClick
<1> QED
  BY <1>2, <1>3

LEMMA PressStep ==
    ASSUME BotInv, NEW c \in Clicks, B!Press(c)
    PROVE  BotInv'
<1>1. PICK m \in Msgs, pc \in {"cancel", "read"} :
          /\ chat[m].text # "unsent"
          /\ click' = [click EXCEPT ![c] = [pc |-> pc, job |-> chat[m].job, msg |-> m]]
  BY DEF B!Press, B!StopTexts
<1>2. UNCHANGED <<row, chat, pending, handler, check, worker, recovery, restarts, marred>>
  BY DEF B!Press
<1>3. chat[m].job \in B!Jobs
  BY <1>1 DEF BotInv, MessagesNameTheirJob
<1>4. /\ click' \in [Clicks -> B!ClickState]
      /\ click'[c] = [pc |-> pc, job |-> chat[m].job, msg |-> m]
      /\ \A d \in Clicks : d # c => click'[d] = click[d]
  BY <1>1, <1>3 DEF BotInv, B!BotTypeOK, B!ClickState, B!Id
<1>5. B!BotTypeOK'
  BY <1>2, <1>4 DEF BotInv, B!BotTypeOK
<1>6. MessagesNameTheirJob'
  <2>1. Names(chat', click'[c].msg, click'[c].job) /\ Grows(chat, chat')
    BY <1>1, <1>2, <1>4 DEF Names, Grows
  <2> QED
    BY <1>2, <1>4, <1>5, <2>1, NamesStay DEF BotInv
<1>7. WorkHasAJob'
  BY <1>2, <1>3, <1>4 DEF BotInv, WorkHasAJob
<1>8. \A d \in Clicks, k \in Links : click'[d].pc = "edit" /\ click'[d].job = k =>
          click[d].pc = "edit" /\ click[d].job = k
  BY <1>4
<1> QED
  BY <1>2, <1>5, <1>6, <1>7, <1>8, WorkStays

LEMMA StopCancelsStep ==
    ASSUME BotInv, NEW c \in Clicks, B!StopCancels(c)
    PROVE  BotInv'
<1>1. /\ UNCHANGED <<chat, pending, handler, check, recovery, restarts, marred>>
      /\ click[c].pc = "cancel" /\ click[c].job \in B!Jobs /\ B!BotTypeOK
  BY DEF B!StopCancels, BotInv, WorkHasAJob
<1>2. \/ B!Cancel(click[c].job) /\ click' = [click EXCEPT ![c].pc = "delete"]
      \/ click' = [click EXCEPT ![c] = B!NoClick] /\ UNCHANGED <<row, worker>>
  <2>1. CASE B!CanCancel(click[c].job)
    BY <2>1 DEF B!StopCancels
  <2>2. CASE ~B!CanCancel(click[c].job)
    BY <2>2 DEF B!StopCancels
  <2> QED
    BY <2>1, <2>2
<1>3. click' \in [Clicks -> B!ClickState] /\ \A d \in Clicks : SameClick(d)
  BY <1>1, <1>2, ClickMoves
<1>4. /\ row' \in [B!Jobs -> B!RowState]
      /\ \A k \in B!Jobs :
            /\ row'[k].msg = row[k].msg
            /\ row[k].status \in B!Gone => row'[k].status = row[k].status
            /\ row'[k].status = row[k].status \/ row'[k].status = "cancelled"
      /\ worker' \in [Workers -> B!WorkerState] /\ \A w \in Workers : SameWork(w)
  <2>1. CASE B!Cancel(click[c].job)
    BY <1>1, <2>1, CancelEffect
  <2>2. CASE UNCHANGED <<row, worker>>
    BY <1>1, <2>2 DEF B!BotTypeOK, SameWork
  <2> QED
    BY <1>2, <2>1, <2>2
<1>5. recovery' \in B!RecoveryState
  BY <1>1 DEF B!BotTypeOK
<1> QED
  BY <1>1, <1>3, <1>4, <1>5, SilentStep

LEMMA WebCancelStep ==
    ASSUME BotInv, NEW j \in B!Jobs, B!WebCancel(j)
    PROVE  BotInv'
<1>1. /\ UNCHANGED <<chat, pending, handler, check, click, recovery, restarts, marred>>
      /\ B!Cancel(j) /\ B!BotTypeOK
  BY DEF B!WebCancel, BotInv
<1>2. /\ row' \in [B!Jobs -> B!RowState]
      /\ \A k \in B!Jobs :
            /\ row'[k].msg = row[k].msg
            /\ row[k].status \in B!Gone => row'[k].status = row[k].status
            /\ row'[k].status = row[k].status \/ row'[k].status = "cancelled"
      /\ worker' \in [Workers -> B!WorkerState] /\ \A w \in Workers : SameWork(w)
  BY <1>1, CancelEffect
<1>3. /\ recovery' \in B!RecoveryState /\ click' \in [Clicks -> B!ClickState]
      /\ \A d \in Clicks : SameClick(d)
  BY <1>1 DEF B!BotTypeOK, SameClick
<1> QED
  BY <1>1, <1>2, <1>3, SilentStep

(* The steps of a button that touch neither a row nor a worker.            *)
LEMMA ClickStep ==
    ASSUME BotInv, NEW c \in Clicks, B!StopDeletes(c) \/ B!RetryReads(c) \/ B!RetryEdits(c)
    PROVE  BotInv'
<1>1. /\ UNCHANGED <<row, pending, handler, check, worker, recovery, restarts, marred>>
      /\ B!BotTypeOK
  BY DEF B!StopDeletes, B!RetryReads, B!RetryEdits, BotInv
<1>2. click' \in [Clicks -> B!ClickState] /\ \A d \in Clicks : SameClick(d)
  <2>1. PICK pc \in {"reset"} : \/ click' = [click EXCEPT ![c].pc = pc]
                                \/ click' = [click EXCEPT ![c] = B!NoClick]
    <3>1. click \in [Clicks -> B!ClickState]
      BY <1>1 DEF B!BotTypeOK
    <3> QED
      BY <3>1 DEF B!StopDeletes, B!RetryReads, B!RetryEdits, B!ClickState
  <2>2. click[c].pc # "idle"
    BY DEF B!StopDeletes, B!RetryReads, B!RetryEdits
  <2> QED
    BY <2>1, <2>2, ClickMoves
<1>3. /\ row' \in [B!Jobs -> B!RowState] /\ worker' \in [Workers -> B!WorkerState]
      /\ recovery' \in B!RecoveryState /\ \A w \in Workers : SameWork(w)
  BY <1>1 DEF B!BotTypeOK, SameWork
<1>4. /\ click[c].msg \in B!Id /\ Names(chat, click[c].msg, click[c].job)
  BY <1>1 DEF B!BotTypeOK, B!ClickState, BotInv, MessagesNameTheirJob
<1>5. CASE B!RetryReads(c)
  BY <1>1, <1>2, <1>3, <1>5, SilentStep DEF B!RetryReads
<1>6. CASE B!StopDeletes(c)
  <2>1. /\ chat' \in [Msgs -> B!Message]
        /\ \A n \in Msgs :
              /\ chat'[n].job = chat[n].job
              /\ chat'[n].text = chat[n].text \/ (n = click[c].msg /\ chat'[n].text = "gone")
    BY <1>1, <1>4, <1>6, DeleteEffect DEF B!StopDeletes
  <2> QED
    BY <1>1, <1>2, <1>3, <1>4, <2>1, QuietStep
<1>7. CASE B!RetryEdits(c)
  <2>1. /\ chat' \in [Msgs -> B!Message]
        /\ \A n \in Msgs :
              /\ chat'[n].job = chat[n].job
              /\ chat'[n].text = chat[n].text \/ (n = click[c].msg /\ chat'[n].text = "queued")
    BY <1>1, <1>4, <1>7, EditEffect DEF B!RetryEdits
  <2>2. click[c].job \in Links => ~Fresh(click[c].job) \/ marred[click[c].job] # "no"
    BY <1>7 DEF B!RetryEdits, BotInv, LinkInv, LinkTold, FreshIsUntouched
  <2> QED
    BY <1>1, <1>2, <1>3, <1>4, <2>1, <2>2, QuietStep
<1> QED
  BY <1>5, <1>6, <1>7

LEMMA RetryResetsStep ==
    ASSUME BotInv, NEW c \in Clicks, B!RetryResets(c)
    PROVE  BotInv'
<1>1. /\ UNCHANGED <<chat, pending, handler, check, worker, recovery, restarts, marred>>
      /\ click[c].pc = "reset" /\ click[c].job \in B!Jobs /\ B!BotTypeOK
  BY DEF B!RetryResets, BotInv, WorkHasAJob
<1>2. /\ worker' \in [Workers -> B!WorkerState] /\ recovery' \in B!RecoveryState
      /\ \A w \in Workers : SameWork(w)
  BY <1>1 DEF B!BotTypeOK, SameWork
<1>3. CASE ~B!CanReset(click[c].job)
  <2>1. PICK pc \in {"reset"} : click' = [click EXCEPT ![c] = B!NoClick] /\ UNCHANGED row
    BY <1>3 DEF B!RetryResets
  <2>2. click' \in [Clicks -> B!ClickState] /\ \A d \in Clicks : SameClick(d)
    BY <1>1, <2>1, ClickMoves
  <2>3. row' \in [B!Jobs -> B!RowState]
    BY <1>1, <2>1 DEF B!BotTypeOK
  <2> QED
    BY <1>1, <1>2, <2>1, <2>2, <2>3, SilentStep
<1>4. CASE B!CanReset(click[c].job)
  <2>1. /\ B!SetStatus(click[c].job, "pending") /\ click' = [click EXCEPT ![c].pc = "edit"]
        /\ row[click[c].job].status \in {"failed", "retrying"}
    BY <1>4 DEF B!RetryResets, B!CanReset
  <2>2. /\ row' \in [B!Jobs -> B!RowState]
        /\ \A k \in B!Jobs :
              /\ row'[k].msg = row[k].msg
              /\ row'[k].status = IF k = click[c].job THEN "pending" ELSE row[k].status
    BY <1>1, <2>1, SetStatusEffect DEF B!Gone
  <2>3. ~Fresh(click[c].job) /\ row[click[c].job].status \notin B!Gone
    BY <2>1 DEF Fresh, B!Gone
  <2>4. click' \in [Clicks -> B!ClickState] /\ \A d \in Clicks : SameClick(d)
    BY <1>1, <2>1, <2>3, ClickMoves
  <2>5. \A k \in B!Jobs :
            /\ row[k].status \in B!Gone => row'[k].status = row[k].status
            /\ row'[k].status = row[k].status \/ (Active(k) /\ ~Fresh(k)')
    BY <2>1, <2>2, <2>3 DEF Active, Fresh, B!Gone
  <2> QED
    BY <1>1, <1>2, <2>2, <2>4, <2>5, SilentStep
<1> QED
  BY <1>3, <1>4

LEMMA PurgeStep ==
    ASSUME BotInv, NEW j \in B!Jobs, B!Purge(j)
    PROVE  BotInv'
<1>1. /\ UNCHANGED <<chat, pending, handler, check, worker, click, recovery, restarts, marred>>
      /\ row' = [row EXCEPT ![j] = [B!NoRow EXCEPT !.status = "purged"]]
      /\ row[j].status \notin B!Gone /\ B!BotTypeOK
  BY DEF B!Purge, B!Absent, BotInv
<1>2. /\ row' \in [B!Jobs -> B!RowState] /\ row'[j].status = "purged" /\ row'[j].msg = None
      /\ \A k \in B!Jobs : k # j => row'[k] = row[k]
  BY <1>1, RowEffect
<1>3. /\ worker' \in [Workers -> B!WorkerState] /\ click' \in [Clicks -> B!ClickState]
      /\ recovery' \in B!RecoveryState
      /\ \A w \in Workers : SameWork(w)
      /\ \A c \in Clicks : SameClick(c)
  BY <1>1 DEF B!BotTypeOK, SameWork, SameClick
<1>4. \A k \in B!Jobs :
          /\ row'[k].msg = row[k].msg \/ (row'[k].status \in B!Gone /\ row'[k].msg = None)
          /\ row[k].status \in B!Gone => row'[k].status = row[k].status
          /\ row'[k].status = row[k].status \/ row'[k].status = "purged"
  BY <1>1, <1>2 DEF B!Gone
<1> QED
  BY <1>1, <1>2, <1>3, <1>4, SilentStep

LEMMA StartStep ==
    ASSUME BotInv, B!ResetStale \/ B!ListChecking
    PROVE  BotInv'
<1>1. /\ UNCHANGED <<chat, pending, handler, check, worker, click, restarts, marred>>
      /\ B!BotTypeOK
  BY DEF B!ResetStale, B!ListChecking, BotInv
<1>2. /\ worker' \in [Workers -> B!WorkerState] /\ click' \in [Clicks -> B!ClickState]
      /\ \A w \in Workers : SameWork(w)
      /\ \A c \in Clicks : SameClick(c)
  BY <1>1 DEF B!BotTypeOK, SameWork, SameClick
<1>3. CASE B!ResetStale
  <2>1. recovery' \in B!RecoveryState /\ recovery'.left = recovery.left
    BY <1>1, <1>3 DEF B!ResetStale, B!BotTypeOK, B!RecoveryState
  <2>2. /\ row' \in [B!Jobs -> B!RowState]
        /\ \A k \in B!Jobs :
              /\ row'[k].msg = row[k].msg
              /\ row'[k].status = IF row[k].status = "running" THEN "pending" ELSE row[k].status
    BY <1>1, <1>3 DEF B!ResetStale, B!BotTypeOK, B!RowState
  <2>3. \A k \in B!Jobs :
            /\ row[k].status \in B!Gone => row'[k].status = row[k].status
            /\ row'[k].status = row[k].status \/ (Active(k) /\ ~Fresh(k)')
    BY <2>2 DEF Active, Fresh, B!Gone
  <2> QED
    BY <1>1, <1>2, <2>1, <2>2, <2>3, SilentStep
<1>4. CASE B!ListChecking
  <2>1. /\ recovery' \in B!RecoveryState /\ row' = row
        /\ \A k \in B!Jobs : k \in recovery'.left => row[k].status = "checking"
    BY <1>1, <1>4 DEF B!ListChecking, B!BotTypeOK, B!RecoveryState
  <2>2. row' \in [B!Jobs -> B!RowState]
    BY <1>1, <2>1 DEF B!BotTypeOK
  <2> QED
    BY <1>1, <1>2, <2>1, <2>2, SilentStep, BotFacts
<1> QED
  BY <1>3, <1>4

-----------------------------------------------------------------------------
(* The handler of a link, and the checks of a row.                         *)

LEMMA LinkStep ==
    ASSUME BotInv, B!BotTypeOK', UNCHANGED <<chat, worker, click>>, NEW j \in B!Jobs,
           \A k \in B!Jobs : k # j =>
               row'[k] = row[k] /\ pending'[k] = pending[k] /\ check'[k] = check[k],
           \A k \in Links : k # j => handler'[k] = handler[k] /\ marred'[k] = marred[k],
           recovery'.left \subseteq recovery.left,
           row'[j].msg \in {row[j].msg, None} \/ (j \in Links /\ row'[j].msg = handler[j].msg),
           pending'[j] \in {pending[j], None} \/ (j \in Links /\ pending'[j] = handler[j].msg),
           j \in Links => handler'[j].msg = handler[j].msg,
           pending'[j] # None => j \in Links /\ (\/ handler'[j].pc \in {"store", "resolve"}
                                                 \/ check'[j]["bot"] # "off"),
           j \in Links => LinkInv(j)'
    PROVE  BotInv'
<1>1. /\ Grows(chat, chat') /\ \A k \in B!Jobs : Names(chat', None, k)
      /\ j \in Links => Names(chat', handler[j].msg, j)
      /\ MessagesNameTheirJob /\ B!BotTypeOK
  BY DEF Grows, Names, BotInv, MessagesNameTheirJob
<1>2. \A k \in B!Jobs : row'[k].msg = row[k].msg \/ Names(chat', row'[k].msg, k)
  BY <1>1
<1>3. \A k \in B!Jobs : pending'[k] = pending[k] \/ Names(chat', pending'[k], k)
  BY <1>1
<1>4. \A k \in Links : handler'[k].msg = handler[k].msg
  OBVIOUS
<1>5. MessagesNameTheirJob'
  BY <1>1, <1>2, <1>3, <1>4, NamesStay
<1> QED
  BY <1>5, LinkStays DEF Stops

LEMMA PrepareStep ==
    ASSUME BotInv, NEW j \in Links, B!Prepare(j)
    PROVE  BotInv'
<1>1. /\ UNCHANGED <<chat, pending, check, worker, click, recovery, restarts, marred>>
      /\ row' = [row EXCEPT ![j] = [B!NoRow EXCEPT !.status = "checking"]]
      /\ handler[j].pc = "idle" /\ handler' = [handler EXCEPT ![j].pc = "send"]
      /\ B!BotTypeOK /\ j \in B!Jobs /\ LinkInv(j)
  BY BotFacts DEF B!Prepare, BotInv
<1>2. /\ row' \in [B!Jobs -> B!RowState] /\ row'[j].status = "checking" /\ row'[j].msg = None
      /\ \A k \in B!Jobs : k # j => row'[k] = row[k]
  BY <1>1, RowEffect
<1>3. /\ handler'[j].pc = "send" /\ handler'[j].msg = handler[j].msg
      /\ \A k \in Links : k # j => handler'[k] = handler[k]
  BY <1>1 DEF B!BotTypeOK
<1>4. B!BotTypeOK'
  BY <1>1, <1>2 DEF B!BotTypeOK
<1>5. LinkAttempts(j)'
  BY <1>1, <1>2, <1>3
     DEF LinkInv, LinkAttempts, LinkInOrder, LinkWaits, LinkIsStored, B!Gone
<1>6. marred[j] = "no" => LinkTold(j)'
  BY <1>1, <1>2, <1>3 DEF LinkInv, LinkAttempts, LinkInOrder, LinkWaits, LinkTold, OneCheck,
                          EntryIsTheMessage, FreshIsUntouched, ExpandedIsTold, Fresh
<1>7. pending[j] = None \/ check[j]["bot"] # "off"
  BY <1>1 DEF BotInv, EntryHasItsCheck
<1>8. LinkInv(j)'
  BY <1>1, <1>5, <1>6 DEF LinkInv
<1> QED
  BY <1>1, <1>2, <1>3, <1>4, <1>7, <1>8, LinkStep

LEMMA SendQueuedStep ==
    ASSUME BotInv, NEW j \in Links, B!SendQueued(j)
    PROVE  BotInv'
<1>1. PICK m \in B!Unsent :
          /\ chat' = [chat EXCEPT ![m] = [text |-> "queued", job |-> j]]
          /\ handler' = [handler EXCEPT ![j] = [pc |-> "remember", msg |-> m]]
  BY DEF B!SendQueued
<1>2. /\ UNCHANGED <<row, pending, check, worker, click, recovery, restarts, marred>>
      /\ handler[j].pc = "send" /\ B!BotTypeOK /\ j \in B!Jobs /\ LinkInv(j)
  BY BotFacts DEF B!SendQueued, BotInv
<1>3. /\ chat' \in [Msgs -> B!Message] /\ m \in Msgs /\ Grows(chat, chat')
      /\ \A n \in Msgs : chat'[n] = IF n = m THEN [text |-> "queued", job |-> j] ELSE chat[n]
  BY <1>1, <1>2, SendEffect
<1>4. /\ handler'[j].pc = "remember" /\ handler'[j].msg = m
      /\ \A k \in Links : k # j => handler'[k] = handler[k]
  BY <1>1, <1>2 DEF B!BotTypeOK
<1>5. B!BotTypeOK'
  BY <1>1, <1>2, <1>3 DEF B!BotTypeOK, B!Id
<1>6. MessagesNameTheirJob'
  <2>1. Names(chat', handler'[j].msg, j)
    BY <1>3, <1>4 DEF Names
  <2> QED
    BY <1>2, <1>3, <1>4, <1>5, <2>1, NamesStay DEF BotInv
<1>7. LinkAttempts(j)'
  BY <1>2, <1>4 DEF LinkInv, LinkAttempts, LinkInOrder, LinkWaits, LinkIsStored
<1>8. ASSUME marred[j] = "no"
      PROVE  LinkTold(j)'
  <2>1. LinkTold(j) /\ LinkWaits(j) /\ handler[j].msg = None
    BY <1>2, <1>8 DEF LinkInv, LinkAttempts, LinkInOrder
  <2>2. OneCheck(j)' /\ EntryIsTheMessage(j)' /\ ExpandedIsTold(j)'
    BY <1>2, <1>4, <2>1 DEF LinkTold, LinkWaits, OneCheck, EntryIsTheMessage, ExpandedIsTold
  <2>3. FreshIsUntouched(j)'
    BY <1>2, <1>3, <1>4, <2>1, BotFacts DEF LinkTold, FreshIsUntouched, Fresh, Stops
  <2> QED
    BY <2>2, <2>3 DEF LinkTold
<1>9. pending[j] = None \/ check[j]["bot"] # "off"
  BY <1>2 DEF BotInv, EntryHasItsCheck
<1>10. \A n \in Msgs, k \in Links : k # j /\ Stops(chat', n, k) => Stops(chat, n, k)
  BY <1>3 DEF Stops
<1>11. LinkInv(j)'
  BY <1>2, <1>7, <1>8 DEF LinkInv
<1> QED
  BY <1>2, <1>4, <1>5, <1>6, <1>9, <1>10, <1>11, LinkStays

LEMMA SendFailsStep ==
    ASSUME BotInv, NEW j \in Links, B!SendFails(j)
    PROVE  BotInv'
<1>1. /\ UNCHANGED <<row, chat, pending, check, worker, click, recovery, restarts, marred>>
      /\ handler[j].pc = "send" /\ handler' = [handler EXCEPT ![j].pc = "resolve"]
      /\ B!BotTypeOK /\ j \in B!Jobs /\ LinkInv(j)
  BY BotFacts DEF B!SendFails, BotInv
<1>2. /\ handler'[j].pc = "resolve" /\ handler'[j].msg = handler[j].msg
      /\ \A k \in Links : k # j => handler'[k] = handler[k]
  BY <1>1 DEF B!BotTypeOK
<1>3. B!BotTypeOK'
  BY <1>1 DEF B!BotTypeOK
<1>4. LinkAttempts(j)'
  BY <1>1, <1>2 DEF LinkInv, LinkAttempts, LinkInOrder, LinkWaits, LinkIsStored
<1>5. ASSUME marred[j] = "no"
      PROVE  LinkTold(j)'
  <2>1. LinkTold(j) /\ LinkWaits(j) /\ handler[j].msg = None
    BY <1>1, <1>5 DEF LinkInv, LinkAttempts, LinkInOrder
  <2>2. pending[j] = None
    BY <1>1, <2>1, BotFacts DEF LinkWaits, BotInv, EntryHasItsCheck
  <2> QED
    BY <1>1, <1>2, <2>1, <2>2
       DEF LinkTold, OneCheck, EntryIsTheMessage, FreshIsUntouched, ExpandedIsTold, Fresh
<1>6. LinkInv(j)'
  BY <1>1, <1>4, <1>5 DEF LinkInv
<1> QED
  BY <1>1, <1>2, <1>3, <1>6, LinkStep

LEMMA RememberPendingStep ==
    ASSUME BotInv, NEW j \in Links, B!RememberPending(j)
    PROVE  BotInv'
<1>1. /\ UNCHANGED <<row, chat, check, worker, click, recovery, restarts, marred>>
      /\ pending' = [pending EXCEPT ![j] = handler[j].msg]
      /\ handler[j].pc = "remember" /\ handler' = [handler EXCEPT ![j].pc = "store"]
      /\ B!BotTypeOK /\ j \in B!Jobs /\ LinkInv(j)
  BY BotFacts DEF B!RememberPending, BotInv
<1>2. /\ handler'[j].pc = "store" /\ handler'[j].msg = handler[j].msg
      /\ \A k \in Links : k # j => handler'[k] = handler[k]
  BY <1>1 DEF B!BotTypeOK
<1>3. /\ pending'[j] = handler[j].msg /\ handler[j].msg \in B!Id
      /\ \A k \in B!Jobs : k # j => pending'[k] = pending[k]
  BY <1>1 DEF B!BotTypeOK
<1>4. B!BotTypeOK'
  BY <1>1, <1>3 DEF B!BotTypeOK
<1>5. LinkAttempts(j)'
  BY <1>1, <1>2 DEF LinkInv, LinkAttempts, LinkInOrder, LinkWaits, LinkIsStored
<1>6. marred[j] = "no" => LinkTold(j)'
  BY <1>1, <1>2, <1>3 DEF LinkInv, LinkTold, OneCheck, EntryIsTheMessage, FreshIsUntouched,
                          ExpandedIsTold, Fresh
<1>7. LinkInv(j)'
  BY <1>1, <1>5, <1>6 DEF LinkInv
<1> QED
  BY <1>1, <1>2, <1>3, <1>4, <1>7, LinkStep

LEMMA StoreQueuedStep ==
    ASSUME BotInv, NEW j \in Links, B!StoreQueued(j)
    PROVE  BotInv'
<1>1. /\ UNCHANGED <<chat, pending, check, worker, click, recovery, restarts, marred>>
      /\ B!SetMessage(j, handler[j].msg)
      /\ handler[j].pc = "store" /\ handler' = [handler EXCEPT ![j].pc = "resolve"]
      /\ B!BotTypeOK /\ j \in B!Jobs /\ LinkInv(j)
  BY BotFacts DEF B!StoreQueued, BotInv
<1>2. /\ handler'[j].pc = "resolve" /\ handler'[j].msg = handler[j].msg
      /\ handler[j].msg \in B!Id
      /\ \A k \in Links : k # j => handler'[k] = handler[k]
  BY <1>1 DEF B!BotTypeOK
<1>3. /\ row' \in [B!Jobs -> B!RowState]
      /\ \A k \in B!Jobs :
            /\ row'[k].status = row[k].status
            /\ row'[k].msg = IF k = j /\ row[k].status \notin B!Gone THEN handler[j].msg
                             ELSE row[k].msg
  BY <1>1, <1>2, SetMessageEffect
<1>4. \A k \in B!Jobs : k # j => row'[k] = row[k]
  BY <1>1, <1>3 DEF B!SetMessage, B!BotTypeOK
<1>5. B!BotTypeOK'
  BY <1>1, <1>3 DEF B!BotTypeOK
<1>6. LinkAttempts(j)'
  BY <1>1, <1>2, <1>3 DEF LinkInv, LinkAttempts, LinkInOrder, LinkWaits, LinkIsStored
<1>7. marred[j] = "no" => LinkTold(j)'
  BY <1>1, <1>2, <1>3 DEF LinkInv, LinkTold, OneCheck, EntryIsTheMessage, FreshIsUntouched,
                          ExpandedIsTold, Fresh
<1>8. LinkInv(j)'
  BY <1>1, <1>6, <1>7 DEF LinkInv
<1> QED
  BY <1>1, <1>2, <1>3, <1>4, <1>5, <1>8, LinkStep

LEMMA ResolveStep ==
    ASSUME BotInv, NEW j \in Links, B!Resolve(j)
    PROVE  BotInv'
<1>1. /\ UNCHANGED <<row, chat, pending, worker, click, recovery, restarts, marred>>
      /\ check' = [check EXCEPT ![j]["bot"] = "probe"]
      /\ handler[j].pc = "resolve" /\ handler' = [handler EXCEPT ![j].pc = "over"]
      /\ B!BotTypeOK /\ j \in B!Jobs /\ "bot" \in B!Askers /\ LinkInv(j)
  BY BotFacts DEF B!Resolve, BotInv
<1>2. /\ handler'[j].pc = "over" /\ handler'[j].msg = handler[j].msg
      /\ \A k \in Links : k # j => handler'[k] = handler[k]
  BY <1>1 DEF B!BotTypeOK
<1>3. /\ check' \in [B!Jobs -> [B!Askers -> {"off", "probe", "playlist", "announce", "single"}]]
      /\ check'[j]["bot"] = "probe"
      /\ \A p \in B!Askers : p # "bot" => check'[j][p] = check[j][p]
      /\ \A k \in B!Jobs : k # j => check'[k] = check[k]
  BY <1>1, CheckEffect
<1>4. B!BotTypeOK'
  BY <1>1, <1>3 DEF B!BotTypeOK
<1>5. LinkAttempts(j)'
  BY <1>1, <1>2 DEF LinkInv, LinkAttempts, LinkInOrder, LinkWaits, LinkIsStored
<1>6. marred[j] = "no" => LinkTold(j)'
  BY <1>1, <1>2, <1>3 DEF LinkInv, LinkTold, OneCheck, EntryIsTheMessage, FreshIsUntouched,
                          ExpandedIsTold, Fresh
<1>7. LinkInv(j)'
  BY <1>1, <1>5, <1>6 DEF LinkInv
<1>8. pending'[j] # None => j \in Links /\ check'[j]["bot"] # "off"
  BY <1>3
<1> QED
  BY <1>1, <1>2, <1>3, <1>4, <1>7, <1>8, LinkStep

(* A link that is being checked has its message, and nobody but the bot    *)
(* checks it, or it is marred.                                             *)
LEMMA CheckedLink ==
    ASSUME BotInv, NEW j \in Links, NEW q \in B!Askers, check[j][q] # "off"
    PROVE  /\ LinkInv(j) /\ j \in B!Jobs
           /\ marred[j] # "early" => handler[j].pc \in {"resolve", "over"}
           /\ marred[j] = "no" => q = "bot" /\ handler[j].pc = "over"
BY BotFacts DEF BotInv, LinkInv, LinkAttempts, LinkWaits, LinkTold, OneCheck, ExpandedIsTold

(* A check that goes on; the row keeps its status, becomes "pending", or   *)
(* is deleted for a playlist.                                              *)
LEMMA CheckStep ==
    ASSUME BotInv, NEW j \in B!Jobs, NEW q \in B!Askers, check[j][q] # "off",
           UNCHANGED <<chat, pending, handler, worker, click, recovery, restarts, marred>>,
           NEW s \in {"single", "playlist", "announce"},
           check' = [check EXCEPT ![j][q] = s],
           row' \in [B!Jobs -> B!RowState],
           \A k \in B!Jobs : k # j => row'[k] = row[k],
           \/ /\ s = "single" /\ check[j][q] = "probe" /\ row'[j].msg = row[j].msg
              /\ \/ row'[j].status = row[j].status
                 \/ row[j].status = "checking" /\ row'[j].status = "pending"
           \/ /\ s = "playlist" /\ check[j][q] = "probe"
              /\ row[j].status = "checking" /\ row'[j].status = "expanded" /\ row'[j].msg = None
           \/ s = "announce" /\ check[j][q] = "playlist" /\ row' = row
    PROVE  BotInv'
<1>1. /\ check' \in [B!Jobs -> [B!Askers -> {"off", "probe", "playlist", "announce", "single"}]]
      /\ check'[j][q] = s
      /\ \A p \in B!Askers : p # q => check'[j][p] = check[j][p]
      /\ \A k \in B!Jobs : k # j => check'[k] = check[k]
  BY DEF BotInv, B!BotTypeOK
<1>2. B!BotTypeOK'
  BY <1>1 DEF BotInv, B!BotTypeOK
<1>3. ASSUME j \in Links
      PROVE  LinkInv(j)'
  <2>1. /\ LinkInv(j)
        /\ marred[j] # "early" => handler[j].pc \in {"resolve", "over"}
        /\ marred[j] = "no" => q = "bot" /\ handler[j].pc = "over"
    BY <1>3, CheckedLink
  <2>2. LinkAttempts(j)'
    BY <2>1 DEF LinkInv, LinkAttempts, LinkInOrder, LinkWaits, LinkIsStored, B!Gone
  <2>3. ASSUME marred[j] = "no"
        PROVE  LinkTold(j)'
    <3>1. LinkTold(j) /\ q = "bot" /\ handler[j].pc = "over"
      BY <2>1, <2>3 DEF LinkInv
    <3>2. OneCheck(j)' /\ EntryIsTheMessage(j)'
      BY <1>1, <3>1 DEF LinkTold, OneCheck, EntryIsTheMessage
    <3>3. FreshIsUntouched(j)'
      BY <3>1 DEF LinkTold, FreshIsUntouched, Fresh, Stops
    <3>4. ExpandedIsTold(j)'
      BY <1>1, <3>1 DEF LinkTold, ExpandedIsTold, Stops
    <3> QED
      BY <3>2, <3>3, <3>4 DEF LinkTold
  <2> QED
    BY <2>2, <2>3 DEF LinkInv
<1>4. pending'[j] # None => j \in Links /\ (\/ handler'[j].pc \in {"store", "resolve"}
                                            \/ check'[j]["bot"] # "off")
  BY <1>1, BotFacts DEF BotInv, EntryHasItsCheck
<1> QED
  BY <1>1, <1>2, <1>3, <1>4, LinkStep

LEMMA ConfirmSingleStep ==
    ASSUME BotInv, NEW j \in B!Jobs, NEW q \in B!Askers, B!ConfirmSingle(j, q)
    PROVE  BotInv'
<1>1. /\ UNCHANGED <<chat, pending, handler, worker, click, recovery, restarts, marred>>
      /\ check[j][q] = "probe" /\ check' = [check EXCEPT ![j][q] = "single"] /\ B!BotTypeOK
  BY DEF B!ConfirmSingle, BotInv
<1>2. CASE row[j].status = "checking"
  <2>1. B!SetStatus(j, "pending")
    BY <1>2 DEF B!ConfirmSingle
  <2>2. /\ row' \in [B!Jobs -> B!RowState]
        /\ row'[j].status = "pending" /\ row'[j].msg = row[j].msg
    BY <1>1, <1>2, <2>1, SetStatusEffect DEF B!Gone
  <2>3. \A k \in B!Jobs : k # j => row'[k] = row[k]
    BY <1>1, <2>1 DEF B!SetStatus, B!BotTypeOK
  <2> QED
    BY <1>1, <1>2, <2>2, <2>3, CheckStep
<1>3. CASE row[j].status # "checking"
  BY <1>1, <1>3, CheckStep DEF B!ConfirmSingle, B!BotTypeOK
<1> QED
  BY <1>2, <1>3

LEMMA DeletePlaceholderStep ==
    ASSUME BotInv, NEW j \in B!Jobs, NEW q \in B!Askers, B!DeletePlaceholder(j, q)
    PROVE  BotInv'
<1>1. /\ UNCHANGED <<chat, pending, handler, worker, click, recovery, restarts, marred>>
      /\ check[j][q] = "probe" /\ B!BotTypeOK
  BY DEF B!DeletePlaceholder, BotInv
<1>2. CASE row[j].status = "checking"
  <2>1. /\ row' = [row EXCEPT ![j] = [B!NoRow EXCEPT !.status = "expanded"]]
        /\ check' = [check EXCEPT ![j][q] = "playlist"]
    BY <1>2 DEF B!DeletePlaceholder
  <2>2. /\ row' \in [B!Jobs -> B!RowState] /\ row'[j].status = "expanded" /\ row'[j].msg = None
        /\ \A k \in B!Jobs : k # j => row'[k] = row[k]
    BY <1>1, <2>1, RowEffect
  <2> QED
    BY <1>1, <1>2, <2>1, <2>2, CheckStep
<1>3. CASE row[j].status # "checking"
  BY <1>1, <1>3, CheckStep DEF B!DeletePlaceholder, B!BotTypeOK
<1> QED
  BY <1>2, <1>3

LEMMA CheckGoesOnStep ==
    ASSUME BotInv, NEW j \in B!Jobs, NEW q \in B!Askers, B!CheckFails(j, q) \/ B!EndExpand(j, q)
    PROVE  BotInv'
<1>1. CASE B!CheckFails(j, q)
  BY <1>1, CheckStep DEF B!CheckFails, BotInv, B!BotTypeOK
<1>2. CASE B!EndExpand(j, q)
  BY <1>2, CheckStep DEF B!EndExpand, BotInv, B!BotTypeOK
<1> QED
  BY <1>1, <1>2

LEMMA CreateEntryStep ==
    ASSUME BotInv, NEW j \in B!Jobs, NEW q \in B!Askers, B!CreateEntry(j, q)
    PROVE  BotInv'
<1>1. PICK e \in Entries : row' = [row EXCEPT ![e].status = "pending"]
  BY DEF B!CreateEntry
<1>2. /\ UNCHANGED <<chat, pending, handler, check, worker, click, recovery, restarts, marred>>
      /\ B!BotTypeOK /\ e \in B!Jobs /\ e \notin Links
  BY BotFacts DEF B!CreateEntry, BotInv
<1>3. /\ row' \in [B!Jobs -> B!RowState] /\ row'[e].msg = row[e].msg
      /\ \A k \in B!Jobs : k # e => row'[k] = row[k]
  BY <1>1, <1>2 DEF B!BotTypeOK, B!RowState
<1>4. B!BotTypeOK' /\ pending'[e] = None
  BY <1>2, <1>3 DEF B!BotTypeOK, BotInv, EntryHasItsCheck
<1> QED
  BY <1>2, <1>3, <1>4, LinkStep

(* The entry is taken; an expansion told the chat, or the link is marred.  *)
LEMMA OnExpandedStep ==
    ASSUME BotInv, NEW j \in B!Jobs, NEW q \in B!Askers, B!OnExpanded(j, q)
    PROVE  BotInv'
<1>1. /\ UNCHANGED <<row, handler, worker, click, recovery, restarts, marred>>
      /\ check[j][q] \in {"single", "announce"} /\ check' = [check EXCEPT ![j][q] = "off"]
      /\ pending' = [pending EXCEPT ![j] = None]
      /\ B!BotTypeOK /\ MessagesNameTheirJob
  BY DEF B!OnExpanded, BotInv
<1>2. /\ check' \in [B!Jobs -> [B!Askers -> {"off", "probe", "playlist", "announce", "single"}]]
      /\ check'[j][q] = "off"
      /\ \A p \in B!Askers : p # q => check'[j][p] = check[j][p]
      /\ \A k \in B!Jobs : k # j => check'[k] = check[k]
  BY <1>1, CheckEffect
<1>3. /\ pending' \in [B!Jobs -> B!Id] /\ pending'[j] = None
      /\ pending[j] \in B!Id /\ Names(chat, pending[j], j)
      /\ \A k \in B!Jobs : k # j => pending'[k] = pending[k]
  BY <1>1 DEF B!BotTypeOK, B!Id, MessagesNameTheirJob
<1>4. /\ chat' \in [Msgs -> B!Message]
      /\ \A n \in Msgs : /\ chat'[n].job = chat[n].job
                         /\ \/ chat'[n].text = chat[n].text
                            \/ n = pending[j] /\ chat'[n].text = "summary"
      /\ check[j][q] = "announce" /\ pending[j] \in Msgs =>
             chat'[pending[j]].text \in {"summary", "gone"}
  <2>1. CASE check[j][q] = "announce"
    <3>1. chat' = B!Edited(pending[j], "summary")
      BY <2>1 DEF B!OnExpanded
    <3>2. /\ chat' \in [Msgs -> B!Message]
          /\ \A n \in Msgs :
                /\ chat'[n].job = chat[n].job
                /\ chat'[n].text = IF n = pending[j] /\ chat[n].text # "gone" THEN "summary"
                                   ELSE chat[n].text
      BY <1>1, <1>3, <3>1, EditedEffect
    <3> QED
      BY <3>2
  <2>2. CASE check[j][q] # "announce"
    <3>1. chat' = chat
      BY <2>2 DEF B!OnExpanded
    <3> QED
      BY <1>1, <2>2, <3>1 DEF B!BotTypeOK
  <2> QED
    BY <2>1, <2>2
<1>5. B!BotTypeOK'
  BY <1>1, <1>2, <1>3, <1>4 DEF B!BotTypeOK
<1>6. \A n \in Msgs, k \in Links : Stops(chat', n, k) => Stops(chat, n, k)
  BY <1>4 DEF Stops, B!StopTexts
<1>7. MessagesNameTheirJob'
  <2>1. /\ Grows(chat, chat')
        /\ \A n \in Msgs : chat'[n].text # "unsent" => chat[n].text # "unsent"
    <3>1. PICK text \in {"summary"} : text # "unsent"
      OBVIOUS
    <3> QED
      BY <1>1, <1>3, <1>4, BotFacts DEF Grows, Names
  <2>2. \A k \in B!Jobs : pending'[k] = pending[k] \/ Names(chat', pending'[k], k)
    BY <1>3 DEF Names
  <2> QED
    BY <1>1, <1>5, <2>1, <2>2, NamesStay
<1>8. ASSUME j \in Links
      PROVE  LinkInv(j)'
  <2>1. /\ LinkInv(j)
        /\ marred[j] # "early" => handler[j].pc \in {"resolve", "over"}
        /\ marred[j] = "no" => q = "bot" /\ handler[j].pc = "over"
    BY <1>1, <1>8, CheckedLink
  <2>2. LinkAttempts(j)'
    BY <1>1, <2>1 DEF LinkInv, LinkAttempts, LinkInOrder, LinkWaits, LinkIsStored
  <2>3. ASSUME marred[j] = "no"
        PROVE  LinkTold(j)'
    <3>1. LinkTold(j) /\ q = "bot" /\ handler[j].pc = "over"
      BY <2>1, <2>3 DEF LinkInv
    <3>2. OneCheck(j)' /\ EntryIsTheMessage(j)'
      BY <1>1, <1>2, <3>1 DEF LinkTold, OneCheck, EntryIsTheMessage
    <3>3. FreshIsUntouched(j)'
      BY <1>1, <1>6, <1>8, <3>1 DEF LinkTold, FreshIsUntouched, Fresh
    <3>4. ASSUME NEW n \in Msgs, Stops(chat', n, j), row[j].status = "expanded"
          PROVE  FALSE
      <4>1. Stops(chat, n, j)
        BY <1>6, <1>8, <3>4
      <4>2. check[j]["bot"] = "announce"
        BY <1>1, <3>1, <3>4, <4>1 DEF LinkTold, ExpandedIsTold
      <4>3. pending[j] = n
        BY <3>1, <3>4, <4>1, <4>2 DEF LinkTold, EntryIsTheMessage, FreshIsUntouched, Fresh
      <4> QED
        BY <1>4, <3>1, <3>4, <4>2, <4>3 DEF Stops, B!StopTexts
    <3>5. ExpandedIsTold(j)'
      BY <1>1, <3>1, <3>4 DEF ExpandedIsTold
    <3> QED
      BY <3>2, <3>3, <3>5 DEF LinkTold
  <2> QED
    BY <1>1, <2>2, <2>3 DEF LinkInv
<1> QED
  BY <1>1, <1>2, <1>3, <1>5, <1>6, <1>7, <1>8, LinkStays

(* Telegram refuses the summary: the link is marred.                       *)
LEMMA SummaryRefusedStep ==
    ASSUME BotInv, NEW j \in B!Jobs, NEW q \in B!Askers, B!SummaryRefused(j, q)
    PROVE  BotInv'
<1>1. /\ UNCHANGED <<row, chat, handler, worker, click, recovery, restarts>>
      /\ check[j][q] = "announce" /\ check' = [check EXCEPT ![j][q] = "off"]
      /\ pending' = [pending EXCEPT ![j] = None]
      /\ marred' = [k \in Links |-> IF k = j THEN B!MarLate(k) ELSE marred[k]]
      /\ B!BotTypeOK
  BY DEF B!SummaryRefused, BotInv
<1>2. /\ check' \in [B!Jobs -> [B!Askers -> {"off", "probe", "playlist", "announce", "single"}]]
      /\ \A k \in B!Jobs : k # j => check'[k] = check[k]
  BY <1>1, CheckEffect
<1>3. /\ pending' \in [B!Jobs -> B!Id] /\ pending'[j] = None
      /\ \A k \in B!Jobs : k # j => pending'[k] = pending[k]
  BY <1>1 DEF B!BotTypeOK, B!Id
<1>4. /\ marred' \in [Links -> {"no", "late", "early"}]
      /\ \A k \in Links : k # j => marred'[k] = marred[k]
      /\ j \in Links => marred'[j] # "no" /\ (marred[j] = "early" => marred'[j] = "early")
  BY <1>1 DEF B!BotTypeOK, B!MarLate
<1>5. B!BotTypeOK'
  BY <1>1, <1>2, <1>3, <1>4 DEF B!BotTypeOK
<1>6. ASSUME j \in Links
      PROVE  LinkInv(j)'
  <2>1. LinkInv(j) /\ (marred[j] # "early" => handler[j].pc \in {"resolve", "over"})
    BY <1>1, <1>6, CheckedLink
  <2> QED
    BY <1>1, <1>4, <1>6, <2>1
       DEF LinkInv, LinkAttempts, LinkInOrder, LinkWaits, LinkIsStored
<1> QED
  BY <1>1, <1>2, <1>3, <1>4, <1>5, <1>6, LinkStep

(* Whoever begins a check beside the bot's mars the link, early unless its *)
(* message is stored.                                                      *)
LEMMA MarStep ==
    ASSUME BotInv, NEW j \in B!Jobs, NEW q \in B!Askers, B!Mar(j),
           UNCHANGED <<chat, pending, handler, worker, click, restarts>>,
           check' = [check EXCEPT ![j][q] = "probe"],
           row' \in [B!Jobs -> B!RowState],
           \A k \in B!Jobs : k # j => row'[k] = row[k],
           row'[j].msg = row[j].msg,
           row[j].status \in B!Gone => row'[j].status \in B!Gone,
           j \in Links => handler[j].pc # "idle",
           recovery' \in B!RecoveryState, recovery'.left \subseteq recovery.left
    PROVE  BotInv'
<1>1. /\ check' \in [B!Jobs -> [B!Askers -> {"off", "probe", "playlist", "announce", "single"}]]
      /\ \A p \in B!Askers : p # q => check'[j][p] = check[j][p]
      /\ check'[j][q] = "probe"
      /\ \A k \in B!Jobs : k # j => check'[k] = check[k]
  BY CheckEffect DEF BotInv
<1>2. /\ marred' \in [Links -> {"no", "late", "early"}]
      /\ \A k \in Links : k # j => marred'[k] = marred[k]
      /\ j \in Links => /\ marred'[j] # "no" /\ (marred[j] = "early" => marred'[j] = "early")
                        /\ handler[j].pc \in {"send", "remember", "store"} => marred'[j] = "early"
  BY DEF BotInv, B!BotTypeOK, B!Mar, B!MarLate, B!Unstored
<1>3. B!BotTypeOK'
  BY <1>1, <1>2 DEF BotInv, B!BotTypeOK
<1>4. ASSUME j \in Links
      PROVE  LinkInv(j)'
  <2>1. LinkInv(j) /\ handler[j].pc \in {"idle", "send", "remember", "store", "resolve", "over"}
    BY <1>4 DEF BotInv, B!BotTypeOK
  <2> QED
    BY <1>2, <1>4, <2>1 DEF LinkInv, LinkAttempts, LinkInOrder, LinkWaits, LinkIsStored
<1>5. pending'[j] # None => j \in Links /\ (\/ handler'[j].pc \in {"store", "resolve"}
                                            \/ check'[j]["bot"] # "off")
  BY <1>1, BotFacts DEF BotInv, EntryHasItsCheck
<1> QED
  BY <1>1, <1>2, <1>3, <1>4, <1>5, LinkStep

LEMMA WebAgainStep ==
    ASSUME BotInv, NEW j \in B!Jobs, NEW q \in WebChecks, B!WebAgain(j, q)
    PROVE  BotInv'
<1>1. /\ UNCHANGED <<chat, pending, handler, worker, click, recovery, restarts>>
      /\ B!SetStatus(j, "checking") /\ row[j].status \notin B!Gone
      /\ check' = [check EXCEPT ![j][q] = "probe"] /\ B!Mar(j) /\ B!BotTypeOK
      /\ q \in B!Askers
  BY BotFacts DEF B!WebAgain, B!Absent, BotInv
<1>2. /\ row' \in [B!Jobs -> B!RowState]
      /\ row'[j].msg = row[j].msg /\ row'[j].status = "checking"
  BY <1>1, SetStatusEffect
<1>3. \A k \in B!Jobs : k # j => row'[k] = row[k]
  BY <1>1 DEF B!SetStatus, B!BotTypeOK
<1>4. j \in Links => handler[j].pc # "idle"
  BY <1>1 DEF BotInv, LinkInv, LinkAttempts, LinkInOrder, B!Gone
<1>5. recovery' \in B!RecoveryState /\ recovery'.left \subseteq recovery.left
  BY <1>1 DEF B!BotTypeOK
<1> QED
  BY <1>1, <1>2, <1>3, <1>4, <1>5, MarStep DEF B!Gone

LEMMA ResumeCheckStep ==
    ASSUME BotInv, NEW j \in B!Jobs, B!ResumeCheck(j)
    PROVE  BotInv'
<1>1. /\ UNCHANGED <<row, chat, pending, handler, worker, click, restarts>>
      /\ check' = [check EXCEPT ![j]["recovery"] = "probe"] /\ B!Mar(j) /\ B!BotTypeOK
      /\ j \in recovery.left /\ recovery' = [recovery EXCEPT !.left = @ \ {j}]
      /\ "recovery" \in B!Askers
  BY BotFacts DEF B!ResumeCheck, BotInv
<1>2. row' \in [B!Jobs -> B!RowState]
  BY <1>1 DEF B!BotTypeOK
<1>3. j \in Links => handler[j].pc # "idle"
  BY <1>1 DEF BotInv, LinkInv, LinkAttempts, LinkInOrder
<1>4. recovery' \in B!RecoveryState /\ recovery'.left \subseteq recovery.left
  BY <1>1 DEF B!BotTypeOK, B!RecoveryState
<1> QED
  BY <1>1, <1>2, <1>3, <1>4, MarStep

(* A crash takes what is in pendingMsgs: a link it took an entry from is   *)
(* marred, and one whose message was not stored is so early.               *)
LEMMA RestartStep ==
    ASSUME BotInv, B!Restart
    PROVE  BotInv'
<1>1. /\ UNCHANGED <<row, chat>> /\ B!BotTypeOK /\ restarts' \in 0 .. MaxRestarts
      /\ pending' = [j \in B!Jobs |-> None]
      /\ check' = [j \in B!Jobs |-> [q \in B!Askers |-> "off"]]
      /\ worker' = [w \in Workers |-> B!Idle] /\ click' = [c \in Clicks |-> B!NoClick]
      /\ recovery' = B!Starting
  BY InstanceConstants DEF B!Restart, BotInv, B!BotTypeOK, B!BotConstants
<1>2. /\ handler' \in [Links -> [pc : {"idle", "send", "remember", "store", "resolve", "over"},
                                 msg : B!Id]]
      /\ \A j \in Links :
            /\ handler[j].pc \in B!Unstored => handler'[j] = [pc |-> "over", msg |-> None]
            /\ handler[j].pc = "resolve" =>
                   handler'[j].pc = "over" /\ handler'[j].msg = handler[j].msg
            /\ handler[j].pc \in {"idle", "over"} => handler'[j] = handler[j]
            /\ handler'[j].msg = handler[j].msg \/ handler'[j].msg = None
  <2> DEFINE After(j) == CASE handler[j].pc \in B!Unstored -> [pc |-> "over", msg |-> None]
                          [] handler[j].pc = "resolve" -> [handler[j] EXCEPT !.pc = "over"]
                          [] OTHER -> handler[j]
             States == [pc : {"idle", "send", "remember", "store", "resolve", "over"}, msg : B!Id]
  <2>1. handler' = [j \in Links |-> After(j)]
    BY DEF B!Restart
  <2>2. ASSUME NEW j \in Links
        PROVE  /\ After(j) \in States
               /\ handler[j].pc \in B!Unstored => After(j) = [pc |-> "over", msg |-> None]
               /\ handler[j].pc = "resolve" => After(j).pc = "over" /\ After(j).msg = handler[j].msg
               /\ handler[j].pc \in {"idle", "over"} => After(j) = handler[j]
               /\ After(j).msg = handler[j].msg \/ After(j).msg = None
    <3>1. handler[j] \in States
      BY <1>1 DEF B!BotTypeOK
    <3>2. CASE handler[j].pc \in B!Unstored
      BY <3>2 DEF B!Unstored, B!Id
    <3>3. CASE handler[j].pc = "resolve"
      BY <3>1, <3>3 DEF B!Unstored
    <3>4. CASE handler[j].pc \in {"idle", "over"}
      BY <3>1, <3>4 DEF B!Unstored
    <3> QED
      BY <3>1, <3>2, <3>3, <3>4 DEF B!Unstored
  <2> HIDE DEF After
  <2> QED
    BY <2>1, <2>2
<1>3. /\ marred' \in [Links -> {"no", "late", "early"}]
      /\ \A j \in Links :
            /\ handler[j].pc \in B!Unstored \/ marred[j] = "early" => marred'[j] = "early"
            /\ marred'[j] = "no" => marred[j] = "no" /\ pending[j] = None
  BY <1>1 DEF B!Restart, B!BotTypeOK, B!MarLate
<1>4. B!BotTypeOK'
  BY <1>1, <1>2, <1>3
     DEF B!BotTypeOK, B!WorkerState, B!Idle, B!ClickState, B!NoClick, B!RecoveryState,
         B!Starting, B!Id
<1>5. MessagesNameTheirJob' /\ WorkHasAJob' /\ EntryHasItsCheck'
  <2>1. Grows(chat, chat') /\ MessagesNameTheirJob
    BY <1>1 DEF Grows, BotInv
  <2>2. \A j \in Links : handler'[j].msg = handler[j].msg \/ Names(chat', handler'[j].msg, j)
    BY <1>2 DEF Names
  <2>3. /\ \A j \in B!Jobs : Names(chat', pending'[j], j)
        /\ \A w \in Workers : Names(chat', worker'[w].msg, worker'[w].job)
        /\ \A c \in Clicks : Names(chat', click'[c].msg, click'[c].job)
    BY <1>1 DEF Names, B!Idle, B!NoClick
  <2>4. MessagesNameTheirJob'
    BY <1>1, <1>4, <2>1, <2>2, <2>3, NamesStay
  <2>5. WorkHasAJob' /\ EntryHasItsCheck'
    BY <1>1 DEF WorkHasAJob, EntryHasItsCheck, B!Idle, B!NoClick
  <2> QED
    BY <2>4, <2>5
<1>6. ASSUME NEW j \in Links
      PROVE  LinkInv(j)'
  <2>1. /\ LinkInv(j) /\ j \in B!Jobs
        /\ handler[j].pc \in {"idle", "send", "remember", "store", "resolve", "over"}
    BY <1>1, BotFacts DEF BotInv, B!BotTypeOK
  <2>2. /\ \A q \in B!Askers : check'[j][q] = "off"
        /\ \A w \in Workers : worker'[w].job # j
        /\ \A c \in Clicks : click'[c].pc # "edit"
        /\ j \notin recovery'.left /\ pending'[j] = None
    BY <1>1, <2>1, BotFacts DEF B!Idle, B!NoClick, B!Starting
  <2>3. LinkAttempts(j)'
    BY <1>1, <1>2, <1>3, <2>1, <2>2
       DEF LinkInv, LinkAttempts, LinkInOrder, LinkWaits, LinkIsStored, B!Unstored, B!Gone
  <2>4. ASSUME marred'[j] = "no"
        PROVE  LinkTold(j)'
    <3>1. /\ LinkTold(j) /\ LinkInOrder(j) /\ pending[j] = None
          /\ handler[j].pc \in {"idle", "resolve", "over"} /\ handler'[j].msg = handler[j].msg
          /\ handler'[j].pc \in {"idle", "over"}
          /\ handler'[j].pc = "idle" => handler[j].pc = "idle"
      BY <1>2, <1>3, <2>1, <2>4 DEF LinkInv, LinkAttempts, B!Unstored
    <3>2. OneCheck(j)' /\ EntryIsTheMessage(j)'
      BY <2>2, <3>1, BotFacts DEF OneCheck, EntryIsTheMessage
    <3>3. FreshIsUntouched(j)'
      BY <1>1, <2>2, <3>1 DEF LinkTold, FreshIsUntouched, Fresh
    <3>4. ASSUME NEW m \in Msgs, Stops(chat, m, j), row[j].status = "expanded"
          PROVE  FALSE
      <4>1. pending[j] = handler[j].msg /\ handler[j].msg = m
        BY <3>1, <3>4
           DEF LinkTold, ExpandedIsTold, EntryIsTheMessage, FreshIsUntouched, Fresh
      <4> QED
        BY <3>1, <4>1, BotFacts
    <3>5. ExpandedIsTold(j)'
      BY <1>1, <2>2, <3>1, <3>4, BotFacts DEF ExpandedIsTold, LinkInOrder
    <3> QED
      BY <3>2, <3>3, <3>5 DEF LinkTold
  <2> QED
    BY <2>3, <2>4 DEF LinkInv
<1> QED
  BY <1>4, <1>5, <1>6 DEF BotInv

-----------------------------------------------------------------------------
LEMMA BotStarts == B!Init => BotInv
<1> SUFFICES ASSUME B!Init
             PROVE  BotInv
  OBVIOUS
<1>1. B!BotTypeOK
  BY InstanceConstants DEF B!Init, B!BotTypeOK, B!BotConstants, B!RowState, B!NoRow, B!Gone, B!Id,
     B!Message, B!WorkerState, B!Idle, B!ClickState, B!NoClick, B!RecoveryState, B!Starting
<1>2. EntryHasItsCheck /\ MessagesNameTheirJob /\ WorkHasAJob
  BY DEF B!Init, EntryHasItsCheck, MessagesNameTheirJob, WorkHasAJob, Names, B!NoRow, B!Idle,
         B!NoClick
<1>3. ASSUME NEW j \in Links
      PROVE  LinkInv(j)
  <2>1. j \in B!Jobs /\ j # None
    BY BotFacts
  <2>2. LinkAttempts(j)
    BY <2>1 DEF B!Init, LinkAttempts, LinkInOrder, LinkWaits, LinkIsStored, B!NoRow, B!Gone,
                B!Idle, B!Starting
  <2>3. LinkTold(j)
    BY <2>1, BotFacts DEF B!Init, LinkTold, OneCheck, EntryIsTheMessage, FreshIsUntouched,
                          ExpandedIsTold, Fresh, Stops, B!StopTexts, B!NoRow, B!Idle, B!NoClick
  <2> QED
    BY <2>2, <2>3 DEF LinkInv
<1> QED
  BY <1>1, <1>2, <1>3 DEF BotInv

LEMMA BotStep == BotInv /\ [B!Next]_B!vars => BotInv'
<1> SUFFICES ASSUME BotInv, [B!Next]_B!vars
             PROVE  BotInv'
  OBVIOUS
<1>1. ASSUME NEW j \in Links,
             \/ B!Prepare(j) \/ B!SendQueued(j) \/ B!SendFails(j)
             \/ B!RememberPending(j) \/ B!StoreQueued(j) \/ B!Resolve(j)
      PROVE  BotInv'
  BY <1>1, PrepareStep, SendQueuedStep, SendFailsStep, RememberPendingStep, StoreQueuedStep,
     ResolveStep
<1>2. ASSUME NEW j \in B!Jobs, NEW q \in B!Askers,
             \/ B!ConfirmSingle(j, q) \/ B!DeletePlaceholder(j, q) \/ B!CheckFails(j, q)
             \/ B!CreateEntry(j, q) \/ B!EndExpand(j, q) \/ B!OnExpanded(j, q)
             \/ B!SummaryRefused(j, q)
      PROVE  BotInv'
  BY <1>2, ConfirmSingleStep, DeletePlaceholderStep, CheckGoesOnStep, CreateEntryStep,
     OnExpandedStep, SummaryRefusedStep
<1>3. ASSUME NEW j \in B!Jobs,
             \/ B!WebCancel(j) \/ B!Purge(j) \/ B!ResumeCheck(j)
             \/ \E q \in WebChecks : B!WebAgain(j, q)
      PROVE  BotInv'
  BY <1>3, WebCancelStep, PurgeStep, ResumeCheckStep, WebAgainStep
<1>4. ASSUME NEW w \in Workers,
             \/ B!Claim(w) \/ B!NotifyStarted(w) \/ B!Finish(w) \/ B!NotifyDone(w)
             \/ B!NotifyFailure(w) \/ B!NotifyFails(w) \/ B!StoreNotified(w)
      PROVE  BotInv'
  BY <1>4, ClaimStep, NotifyStartedStep, FinishStep, NotifyEndStep, NotifyFailureStep,
     StoreNotifiedStep
<1>5. ASSUME NEW c \in Clicks,
             \/ B!Press(c) \/ B!StopCancels(c) \/ B!StopDeletes(c) \/ B!RetryReads(c)
             \/ B!RetryResets(c) \/ B!RetryEdits(c)
      PROVE  BotInv'
  BY <1>5, PressStep, StopCancelsStep, ClickStep, RetryResetsStep
<1>6. ASSUME UNCHANGED B!vars
      PROVE  BotInv'
  <2>1. UNCHANGED <<row, chat, pending, handler, check, worker, click, recovery, restarts, marred>>
    BY <1>6 DEF B!vars
  <2>2. /\ row' \in [B!Jobs -> B!RowState] /\ worker' \in [Workers -> B!WorkerState]
        /\ click' \in [Clicks -> B!ClickState] /\ recovery' \in B!RecoveryState
        /\ \A w \in Workers : SameWork(w)
        /\ \A c \in Clicks : SameClick(c)
    BY <2>1 DEF BotInv, B!BotTypeOK, SameWork, SameClick
  <2> QED
    BY <2>1, <2>2, SilentStep
<1> QED
  BY <1>1, <1>2, <1>3, <1>4, <1>5, <1>6, StartStep, RestartStep DEF B!Next

LEMMA BotInvHolds == B!Spec => []BotInv
BY BotStarts, BotStep, PTL DEF B!Spec

(* What is in pendingMsgs has an expansion ahead of it that takes it out,  *)
(* for any number of links, checks, workers and buttons, whatever the web  *)
(* does to the rows, and crashes included (bot.go:36, 91).                 *)
THEOREM PendingAlwaysTaken == B!Spec /\ [](active = "bot") => []PendingIsTaken
<1>1. BotInv /\ active = "bot" => PendingIsTaken
  BY BotFacts DEF BotInv, EntryHasItsCheck, PendingIsTaken, B!PendingIsTaken
<1> QED
  BY <1>1, BotInvHolds, PTL

(* Every attempt at a link edits the message the bot sent for it, beside   *)
(* the check of a recovery or a Redownload and after a crash, unless that  *)
(* check began, or the crash came, before the message was stored           *)
(* (service.go:95).                                                        *)
THEOREM AttemptsAlwaysUseTheMessage ==
    B!Spec /\ [](active = "bot") => []AttemptsUseTheLinksMessage
<1>1. BotInv /\ active = "bot" => AttemptsUseTheLinksMessage
  BY DEF BotInv, LinkInv, LinkAttempts, LinkWaits, LinkIsStored,
         AttemptsUseTheLinksMessage, B!AttemptsUseTheLinksMessage
<1> QED
  BY <1>1, BotInvHolds, PTL

(* Once a link was expanded its message does not offer to stop it, or its  *)
(* check is about to turn it into a summary, whatever is cancelled or      *)
(* purged; unless a second check began, a crash took the entry of          *)
(* pendingMsgs, or Telegram refused the summary (handlers.go:184).         *)
THEOREM SummariesAlwaysReplaceButtons ==
    B!Spec /\ [](active = "bot") => []SummariesReplaceButtons
<1>1. BotInv /\ active = "bot" => SummariesReplaceButtons
  BY BotFacts DEF BotInv, LinkInv, LinkTold, ExpandedIsTold, Stops,
                  SummariesReplaceButtons, B!SummariesReplaceButtons
<1> QED
  BY <1>1, BotInvHolds, PTL
=============================================================================
