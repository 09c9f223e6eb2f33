------------------------------ MODULE Settings ------------------------------
(***************************************************************************)
(* Runtime settings (internal/settings, internal/repo/settings.go and the  *)
(* form of internal/api/handler/settings.go).  The provider keeps a copy   *)
(* of the table of overrides: a reader that finds no copy loads one under  *)
(* the mutex, a writer changes the table outside the mutex and throws the  *)
(* copy away afterwards.                                                   *)
(*                                                                         *)
(* A step is one SQL statement or one critical section; a loader holds the *)
(* mutex across its SELECT.                                                *)
(***************************************************************************)
EXTENDS Naturals

CONSTANTS NKeys,        \* the fields of the form, in the order of settings.Keys
          Numeric,      \* the keys read with num
          Values,       \* values a user may save
          Malformed,    \* the one that is no number
          Unset,        \* no row; an empty field of the form
          Env,          \* the value of the environment
          Procs,        \* concurrent requests and workers (bound)
          Nobody,       \* the mutex is free
          MaxFaults     \* bound on failed or cancelled statements

Keys == 1..NKeys

ASSUME SettingsConstants ==
    /\ NKeys \in Nat \ {0}
    /\ Numeric \subseteq Keys
    /\ Malformed \in Values
    /\ Unset \notin Values
    /\ Env \notin Values \cup {Unset}
    /\ Nobody \notin Procs
    /\ MaxFaults \in Nat

VARIABLES
    table,      \* the table settings
    cache,      \* Provider.cache and .loaded; failed: the SELECT of this copy failed
    mutex,      \* the holder of Provider.mu in write mode across its SELECT
    proc,       \* a request or a worker in the provider
    faults      \* failed statements, for the bound

vars == <<table, cache, mutex, proc, faults>>

Overrides == [Keys -> Values \cup {Unset}]
Empty     == [k \in Keys |-> Unset]
Copies    == [loaded : BOOLEAN, failed : BOOLEAN, map : Overrides]
NoCopy    == [loaded |-> FALSE, failed |-> FALSE, map |-> Empty]

(* seen: what the caller gets, the raw map for a form and the effective    *)
(* values for the options of yt-dlp.  calm: since the read began nobody    *)
(* has been saving and no SELECT it relied on has failed.                  *)
ProcPC  == {"idle", "set", "drop", "check", "lock", "load", "store", "done"}
Goals   == {"none", "save", "form", "options"}
Tasks   == [pc : ProcPC, goal : Goals, key : Keys, form : Overrides, got : Copies,
            seen : [Keys -> Values \cup {Unset, Env}], calm : BOOLEAN]
NoTask  == [pc |-> "idle", goal |-> "none", key |-> 1, form |-> Empty,
            got |-> NoCopy, seen |-> Empty, calm |-> FALSE]

SettingsTypeOK ==
    /\ table \in Overrides
    /\ cache \in Copies
    /\ mutex \in Procs \cup {Nobody}
    /\ proc \in [Procs -> Tasks]
    /\ faults \in Nat

Init ==
    /\ table \in Overrides
    /\ cache = NoCopy
    /\ mutex = Nobody
    /\ proc = [p \in Procs |-> NoTask]
    /\ faults = 0

Saving(p) == proc[p].pc \in {"set", "drop"}
Calm(p)   == \A q \in Procs \ {p} : ~Saving(q)
Fail      == faults < MaxFaults /\ faults' = faults + 1

(* str and num: an override wins unless it is empty or, for a number, no   *)
(* number (for the page size, not a positive one).                         *)
Effective(m, k) ==
    IF m[k] = Unset \/ (k \in Numeric /\ m[k] = Malformed) THEN Env ELSE m[k]

-----------------------------------------------------------------------------
(* The calls of the provider.                                              *)

(* SaveRuntimeSettings: Set for each key of the form, one after the other. *)
Save(p) ==
    /\ proc[p].pc = "idle"
    /\ \E f \in Overrides :
          proc' = [proc EXCEPT ![p] = [NoTask EXCEPT !.pc = "set", !.goal = "save", !.form = f]]
    /\ UNCHANGED <<table, cache, mutex, faults>>

(* Overrides, for a page with the form.                                    *)
ShowForm(p) ==
    /\ proc[p].pc = "idle"
    /\ proc' = [proc EXCEPT ![p] = [NoTask EXCEPT !.pc = "check", !.goal = "form",
                                                  !.calm = Calm(p)]]
    /\ UNCHANGED <<table, cache, mutex, faults>>

(* DownloadOptions: every option asks for the overrides again.             *)
BuildOptions(p) ==
    /\ proc[p].pc = "idle"
    /\ proc' = [proc EXCEPT ![p] = [NoTask EXCEPT !.pc = "check", !.goal = "options",
                                                  !.calm = Calm(p)]]
    /\ UNCHANGED <<table, cache, mutex, faults>>

-----------------------------------------------------------------------------
(* Set.                                                                    *)

(* The next key of the form; after the last one the form is shown again.   *)
AfterKey(p, task) ==
    IF task.key < NKeys THEN [task EXCEPT !.pc = "set", !.key = @ + 1]
    ELSE [NoTask EXCEPT !.pc = "check", !.goal = "form", !.calm = Calm(p)]

(* SettingsRepo.Set: an UPSERT, or a DELETE for an empty value.            *)
WriteKey(p) ==
    /\ proc[p].pc = "set"
    /\ table' = [table EXCEPT ![proc[p].key] = proc[p].form[proc[p].key]]
    /\ proc' = [q \in Procs |-> IF q = p THEN [proc[p] EXCEPT !.pc = "drop"]
                                         ELSE [proc[q] EXCEPT !.calm = FALSE]]
    /\ UNCHANGED <<cache, mutex, faults>>

(* A failed write is logged; the copy is kept.                             *)
WriteKeyFails(p) ==
    /\ proc[p].pc = "set"
    /\ Fail
    /\ proc' = [proc EXCEPT ![p] = AfterKey(p, proc[p])]
    /\ UNCHANGED <<table, cache, mutex>>

DropCopyUnlocked(p) ==
    /\ proc[p].pc = "drop"
    /\ cache' = NoCopy
    /\ proc' = [proc EXCEPT ![p] = AfterKey(p, proc[p])]
    /\ UNCHANGED <<table, mutex, faults>>

DropCopy(p) ==
    /\ proc[p].pc = "drop"
    /\ mutex = Nobody
    /\ cache' = NoCopy
    /\ proc' = [proc EXCEPT ![p] = AfterKey(p, proc[p])]
    /\ UNCHANGED <<table, mutex, faults>>

-----------------------------------------------------------------------------
(* overrides.                                                              *)

(* The caller takes what it came for out of the copy c.                    *)
Given(task, c) ==
    LET t == [task EXCEPT !.got = NoCopy, !.calm = @ /\ ~c.failed]
    IN  IF t.goal = "form" THEN [t EXCEPT !.pc = "done", !.seen = c.map]
        ELSE [t EXCEPT !.seen[t.key] = Effective(c.map, t.key),
                       !.pc  = IF t.key < NKeys THEN "check" ELSE "done",
                       !.key = IF t.key < NKeys THEN @ + 1 ELSE @]

CheckCopyBlindly(p) ==
    /\ proc[p].pc = "check"
    /\ mutex = Nobody
    /\ proc' = [proc EXCEPT ![p] = IF cache.loaded \/ proc[p].goal = "form"
                                   THEN Given(@, cache) ELSE [@ EXCEPT !.pc = "lock"]]
    /\ UNCHANGED <<table, cache, mutex, faults>>

(* Under RLock, which waits for a loader.                                  *)
CheckCopy(p) ==
    /\ proc[p].pc = "check"
    /\ mutex = Nobody
    /\ proc' = [proc EXCEPT ![p] = IF cache.loaded THEN Given(@, cache)
                                                   ELSE [@ EXCEPT !.pc = "lock"]]
    /\ UNCHANGED <<table, cache, mutex, faults>>

(* Under Lock the copy is looked for again.                                *)
TakeMutex(p) ==
    /\ proc[p].pc = "lock"
    /\ mutex = Nobody
    /\ IF cache.loaded
       THEN proc' = [proc EXCEPT ![p] = Given(@, cache)] /\ UNCHANGED mutex
       ELSE proc' = [proc EXCEPT ![p].pc = "load"] /\ mutex' = p
    /\ UNCHANGED <<table, cache, faults>>

(* SettingsRepo.All.                                                       *)
LoadTable(p) ==
    /\ proc[p].pc = "load"
    /\ proc' = [proc EXCEPT ![p].pc = "store",
                            ![p].got = [loaded |-> TRUE, failed |-> FALSE, map |-> table]]
    /\ UNCHANGED <<table, cache, mutex, faults>>

(* The SELECT fails, or the request it runs for is gone: an empty map.     *)
LoadTableFails(p) ==
    /\ proc[p].pc = "load"
    /\ Fail
    /\ proc' = [proc EXCEPT ![p].pc = "store",
                            ![p].got = [loaded |-> TRUE, failed |-> TRUE, map |-> Empty]]
    /\ UNCHANGED <<table, cache, mutex>>

(* The map becomes the copy of everybody, whether or not it was loaded.    *)
StoreCopy(p) ==
    /\ proc[p].pc = "store"
    /\ cache' = proc[p].got
    /\ mutex' = Nobody
    /\ proc' = [proc EXCEPT ![p] = Given(@, proc[p].got)]
    /\ UNCHANGED <<table, faults>>

Leave(p) ==
    /\ proc[p].pc = "done"
    /\ proc' = [proc EXCEPT ![p] = NoTask]
    /\ UNCHANGED <<table, cache, mutex, faults>>

ProcStep(p) == \/ WriteKey(p) \/ WriteKeyFails(p) \/ DropCopy(p)
               \/ CheckCopy(p) \/ TakeMutex(p) \/ LoadTable(p) \/ LoadTableFails(p)
               \/ StoreCopy(p) \/ Leave(p)

Next == \E p \in Procs : Save(p) \/ ShowForm(p) \/ BuildOptions(p) \/ ProcStep(p)

Spec == Init /\ [][Next]_vars

-----------------------------------------------------------------------------
(* Properties.                                                             *)

(* Provider.Set and overrides: a copy of the table that was loaded without *)
(* an error differs from the table only while a request stands between its *)
(* write and invalidate.  A loader that read before a write and stores     *)
(* after it leaves no stale copy behind, because the writer comes to       *)
(* invalidate later still.                                                 *)
CopyFollowsTable ==
    cache.loaded /\ ~cache.failed /\ (\A p \in Procs : proc[p].pc # "drop")
        => cache.map = table

(* Provider.Overrides and DownloadOptions: a caller that ran while nobody  *)
(* was saving gets the saved settings, field by field; so the response to  *)
(* a save shows what was saved, and a download that starts afterwards runs *)
(* with it.                                                                *)
CalmReadersSeeTheTable ==
    \A p \in Procs : proc[p].pc = "done" /\ proc[p].calm =>
        proc[p].seen = IF proc[p].goal = "form" THEN table
                       ELSE [k \in Keys |-> Effective(table, k)]
=============================================================================
