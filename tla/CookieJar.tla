----------------------------- MODULE CookieJar -----------------------------
(***************************************************************************)
(* Cookies (internal/repo/cookie.go and the cookie forms of                *)
(* internal/api/handler/settings.go): a table with the cookies of each     *)
(* domain, and the file yt-dlp reads, rebuilt from the whole table after   *)
(* every change of it.                                                     *)
(*                                                                         *)
(* A step is one SQL statement or one file system call; rewriteFile is     *)
(* neither atomic nor guarded by a lock.                                   *)
(***************************************************************************)
EXTENDS Naturals

CONSTANTS Domains,      \* domains of the cookies
          Contents,     \* what may be imported for a domain
          Absent,       \* no cookies of the domain
          Clients,      \* concurrent requests (bound)
          NoFile,       \* the file does not exist
          Mixed,        \* the file holds the end of one text after the start of another
          MaxFaults     \* bound on failed calls and on crashes

CookieConstants ==
    /\ Absent \notin Contents
    /\ NoFile # Mixed
    /\ {NoFile, Mixed} \cap [Domains -> Contents \cup {Absent}] = {}
    /\ MaxFaults \in Nat

VARIABLES
    jar,        \* the table cookies
    file,       \* .talmor-cookies.txt; the text without cookies is an empty file
    client,     \* a request in progress
    faults      \* failed calls and crashes, for the bound

vars == <<jar, file, client, faults>>

Texts == [Domains -> Contents \cup {Absent}]
Blank == [d \in Domains |-> Absent]

(* todo: domains still to be changed.  raw: the parsed import.  merged:    *)
(* what MergeAll returned.  linked: the file opened for writing is still   *)
(* the one under that name.  alone: no other request overlapped this one   *)
(* and none of its calls for the file failed.                              *)
ClientPC == {"idle", "upsert", "delete", "merge", "open", "write", "remove", "done"}
ClientState == [pc : ClientPC, todo : SUBSET Domains, raw : Texts, merged : Texts,
                linked : BOOLEAN, alone : BOOLEAN]
NoRequest == [pc |-> "idle", todo |-> {}, raw |-> Blank, merged |-> Blank,
              linked |-> FALSE, alone |-> FALSE]

JarTypeOK ==
    /\ jar \in Texts
    /\ file \in Texts \cup {NoFile, Mixed}
    /\ client \in [Clients -> ClientState]
    /\ faults \in Nat

(* The file of an earlier run of the process is kept.                      *)
Init ==
    /\ jar \in Texts
    /\ file = (IF jar = Blank THEN NoFile ELSE jar)
    /\ client = [c \in Clients |-> NoRequest]
    /\ faults = 0

Fault == faults < MaxFaults /\ faults' = faults + 1

(* A new request: those in progress are not alone any more.                *)
Arrive(c, request) ==
    client' = [x \in Clients |->
        IF x = c THEN [request EXCEPT !.alone = \A y \in Clients \ {c} : client[y].pc = "idle"]
        ELSE [client[x] EXCEPT !.alone = FALSE]]

-----------------------------------------------------------------------------
(* parseCookiesByDomain: the text of an import, grouped by the domain of   *)
(* its lines; a text of comments only has none.                            *)
Import(c) ==
    /\ client[c].pc = "idle"
    /\ \E raw \in Texts :
          LET todo == {d \in Domains : raw[d] # Absent}
          IN  Arrive(c, [NoRequest EXCEPT !.pc = IF todo = {} THEN "merge" ELSE "upsert",
                                          !.todo = todo, !.raw = raw])
    /\ UNCHANGED <<jar, file, faults>>

DeleteDomain(c) ==
    /\ client[c].pc = "idle"
    /\ \E d \in Domains : Arrive(c, [NoRequest EXCEPT !.pc = "delete", !.todo = {d}])
    /\ UNCHANGED <<jar, file, faults>>

Done(r, d) == [r EXCEPT !.todo = @ \ {d}, !.pc = IF r.todo = {d} THEN "merge" ELSE @]

(* One domain after the other, in the order of a Go map.                   *)
Upsert(c, d) ==
    /\ client[c].pc = "upsert"
    /\ d \in client[c].todo
    /\ jar' = [jar EXCEPT ![d] = client[c].raw[d]]
    /\ client' = [client EXCEPT ![c] = Done(@, d)]
    /\ UNCHANGED <<file, faults>>

(* A failed statement is logged and the import goes on.                    *)
UpsertFails(c, d) ==
    /\ client[c].pc = "upsert"
    /\ d \in client[c].todo
    /\ Fault
    /\ client' = [client EXCEPT ![c] = Done(@, d)]
    /\ UNCHANGED <<jar, file>>

Delete(c, d) ==
    /\ client[c].pc = "delete"
    /\ d \in client[c].todo
    /\ jar' = [jar EXCEPT ![d] = Absent]
    /\ client' = [client EXCEPT ![c] = Done(@, d)]
    /\ UNCHANGED <<file, faults>>

(* A failed DELETE ends the request.                                       *)
DeleteFails(c) ==
    /\ client[c].pc = "delete"
    /\ Fault
    /\ client' = [client EXCEPT ![c] = NoRequest]
    /\ UNCHANGED <<jar, file>>

-----------------------------------------------------------------------------
(* rewriteFile.                                                            *)

(* MergeAll; without records the file goes.                                *)
Merge(c) ==
    /\ client[c].pc = "merge"
    /\ client' = [client EXCEPT ![c].merged = jar,
                                ![c].pc = IF jar = Blank THEN "remove" ELSE "open"]
    /\ UNCHANGED <<jar, file, faults>>

(* Any of the three calls for the file may fail; it is logged.             *)
RewriteFails(c) ==
    /\ client[c].pc \in {"merge", "open", "write", "remove"}
    /\ Fault
    /\ client' = [client EXCEPT ![c].pc = "done", ![c].alone = FALSE]
    /\ UNCHANGED <<jar, file>>

OpenToAppend(c) ==
    /\ client[c].pc = "open"
    /\ file' = IF file = NoFile THEN Blank ELSE file
    /\ client' = [client EXCEPT ![c].pc = "write", ![c].linked = TRUE]
    /\ UNCHANGED <<jar, faults>>

(* os.WriteFile truncates the file, or creates it,                         *)
Open(c) ==
    /\ client[c].pc = "open"
    /\ file' = Blank
    /\ client' = [client EXCEPT ![c].pc = "write", ![c].linked = TRUE]
    /\ UNCHANGED <<jar, faults>>

(* and writes from its start: over what another request has written since, *)
(* whose end is left standing if it was longer.                            *)
Write(c) ==
    /\ client[c].pc = "write"
    /\ LET new == client[c].merged
       IN  CASE ~client[c].linked           -> file' = file
             [] file \in {Blank, new}       -> file' = new
             [] OTHER                       -> file' \in {new, Mixed}
    /\ client' = [client EXCEPT ![c].pc = "done"]
    /\ UNCHANGED <<jar, faults>>

(* os.Remove; one who has the file open writes into a file without name.   *)
Remove(c) ==
    /\ client[c].pc = "remove"
    /\ file' = NoFile
    /\ client' = [x \in Clients |-> IF x = c THEN [client[c] EXCEPT !.pc = "done"]
                                    ELSE [client[x] EXCEPT !.linked = FALSE]]
    /\ UNCHANGED <<jar, faults>>

Answer(c) ==
    /\ client[c].pc = "done"
    /\ client' = [client EXCEPT ![c] = NoRequest]
    /\ UNCHANGED <<jar, file, faults>>

(* The process dies and comes back; nothing rebuilds the file.             *)
Crash ==
    /\ Fault
    /\ client' = [c \in Clients |-> NoRequest]
    /\ UNCHANGED <<jar, file>>

Next ==
    \/ Crash
    \/ \E c \in Clients :
          \/ Import(c) \/ DeleteDomain(c) \/ DeleteFails(c)
          \/ \E d \in Domains : Upsert(c, d) \/ UpsertFails(c, d) \/ Delete(c, d)
          \/ Merge(c) \/ RewriteFails(c) \/ Open(c) \/ Write(c) \/ Remove(c) \/ Answer(c)

Spec == Init /\ [][Next]_vars

-----------------------------------------------------------------------------
(* Properties.                                                             *)

FileMatchesTable == file = (IF jar = Blank THEN NoFile ELSE jar)

(* rewriteFile: a request that nobody overlapped leaves the file equal to  *)
(* the table, whatever failures, crashes and overlapping requests did to   *)
(* the file before.                                                        *)
LoneRewriteSettles ==
    \A c \in Clients : client[c].pc = "done" /\ client[c].alone => FileMatchesTable
=============================================================================
