---------------------------- MODULE BotMessages ----------------------------
(***************************************************************************)
(* What a Telegram chat shows of its jobs (internal/bot, with the calls    *)
(* the pool and the queue make to it: internal/worker/pool.go,             *)
(* internal/queue/service.go, internal/playlist/expander.go).              *)
(*                                                                         *)
(* A link that is sent gets a placeholder row, then a message, then the    *)
(* message's id in the row and in pendingMsgs, and only then is it checked *)
(* for a playlist.  Workers use the id in the row they claimed.  Every     *)
(* update of Telegram runs in a goroutine of its own, and so does every    *)
(* check: the bot's own, the one RecoverChecking starts at each start of   *)
(* the program, and those of Redownload may run on one row together.       *)
(***************************************************************************)
EXTENDS Naturals, FiniteSets

CONSTANTS Links,        \* ids of the rows of links sent to the bot
          Entries,      \* ids of the rows made for the entries of a playlist
          Msgs,         \* ids Telegram can give to messages (bound)
          Workers,      \* goroutines of the pool
          Clicks,       \* buttons handled at the same time (bound)
          WebChecks,    \* Redownload's checks of one row at the same time (bound)
          Requests,     \* what users do
          MaxRestarts,  \* crashes (bound)
          NoMsg, NoJob

Jobs == Links \cup Entries
Askers == {"bot", "recovery"} \cup WebChecks    \* who has a row checked

BotConstants ==
    /\ NoMsg \notin Msgs /\ NoJob \notin Jobs /\ Links \cap Entries = {}
    /\ WebChecks \cap {"bot", "recovery"} = {} /\ MaxRestarts \in Nat
    /\ Requests \subseteq {"stop", "retry", "cancel", "again", "purge"}

VARIABLES
    row,        \* the table jobs: status and tg_message_id
    chat,       \* what each message says, and of which job
    pending,    \* Bot.pendingMsgs
    handler,    \* handleURL, per link: its step and the message it sent
    check,      \* the goroutines of Service.Resolve, per row and asker
    worker,     \* Pool.process
    click,      \* handleCallback
    recovery,   \* what a start still has to do: ResetStale and RecoverChecking
    restarts,
    marred      \* history: what came between a link and its message

vars == <<row, chat, pending, handler, check, worker, click, recovery, restarts, marred>>

Id == Msgs \cup {NoMsg}
Gone == {"none", "expanded", "purged"}      \* no row: not yet, or deleted by whom
RowState == [status : Gone \cup {"checking", "pending", "running", "retrying", "failed",
                                 "done", "cancelled"}, msg : Id]
NoRow == [status |-> "none", msg |-> NoMsg]
Message == [text : {"unsent", "queued", "loading", "retrying", "failed", "summary", "gone"},
            job : Jobs \cup {NoJob}]
WorkerState == [pc : {"idle", "start", "load", "tell", "store"}, job : Jobs \cup {NoJob},
                msg : Id, stopped : BOOLEAN, verdict : {"none", "done", "failed", "retrying"}]
Idle == [pc |-> "idle", job |-> NoJob, msg |-> NoMsg, stopped |-> FALSE, verdict |-> "none"]
ClickState == [pc : {"idle", "cancel", "delete", "read", "reset", "edit"},
               job : Jobs \cup {NoJob}, msg : Id]
NoClick == [pc |-> "idle", job |-> NoJob, msg |-> NoMsg]
RecoveryState == [stale : BOOLEAN, listed : BOOLEAN, left : SUBSET Jobs]
Starting == [stale |-> TRUE, listed |-> FALSE, left |-> {}]

BotTypeOK ==
    /\ row \in [Jobs -> RowState]
    /\ chat \in [Msgs -> Message]
    /\ pending \in [Jobs -> Id]
    /\ handler \in [Links -> [pc : {"idle", "send", "remember", "store", "resolve", "over"},
                              msg : Id]]
    /\ check \in [Jobs -> [Askers -> {"off", "probe", "playlist", "announce", "single"}]]
    /\ worker \in [Workers -> WorkerState]
    /\ click \in [Clicks -> ClickState]
    /\ recovery \in RecoveryState
    /\ restarts \in 0 .. MaxRestarts
    /\ marred \in [Links -> {"no", "late", "early"}]

Init ==
    /\ row = [j \in Jobs |-> NoRow]
    /\ chat = [m \in Msgs |-> [text |-> "unsent", job |-> NoJob]]
    /\ pending = [j \in Jobs |-> NoMsg]
    /\ handler = [j \in Links |-> [pc |-> "idle", msg |-> NoMsg]]
    /\ check = [j \in Jobs |-> [q \in Askers |-> "off"]]
    /\ worker = [w \in Workers |-> Idle]
    /\ click = [c \in Clicks |-> NoClick]
    /\ recovery = Starting
    /\ restarts = 0
    /\ marred = [j \in Links |-> "no"]

Unsent == {m \in Msgs : chat[m].text = "unsent"}
StopTexts == {"queued", "loading", "retrying"}      \* texts with the stop button

(* Telegram may refuse an edit, and does when the message is not there;    *)
(* the error is only logged.                                               *)
Edited(m, text) ==
    IF m # NoMsg /\ chat[m].text # "gone" THEN [chat EXCEPT ![m].text = text] ELSE chat
Edit(m, text) == chat' \in {Edited(m, text), chat}
Delete(m) == chat' \in {IF m = NoMsg THEN chat ELSE [chat EXCEPT ![m].text = "gone"], chat}

Absent(j) == row[j].status \in Gone
SetStatus(j, s) == row' = IF Absent(j) THEN row ELSE [row EXCEPT ![j].status = s]

(* SetTgMessageID.                                                         *)
SetMessage(j, m) == row' = IF Absent(j) THEN row ELSE [row EXCEPT ![j].msg = m]

(* The history: somebody begins a second check of a link, early when the   *)
(* bot has not stored its message yet.                                     *)
Unstored == {"send", "remember", "store"}
MarLate(j) == IF marred[j] = "no" THEN "late" ELSE marred[j]
Mar(j) ==
    marred' = [k \in Links |-> IF k # j THEN marred[k]
                               ELSE IF handler[k].pc \in Unstored THEN "early" ELSE MarLate(k)]

-----------------------------------------------------------------------------
(* handleURL.                                                              *)

PrepareAsPending(j) ==
    /\ handler[j].pc = "idle"
    /\ row' = [row EXCEPT ![j] = [NoRow EXCEPT !.status = "pending"]]
    /\ handler' = [handler EXCEPT ![j].pc = "send"]
    /\ UNCHANGED <<chat, pending, check, worker, click, recovery, restarts, marred>>

Prepare(j) ==
    /\ handler[j].pc = "idle"
    /\ row' = [row EXCEPT ![j] = [NoRow EXCEPT !.status = "checking"]]
    /\ handler' = [handler EXCEPT ![j].pc = "send"]
    /\ UNCHANGED <<chat, pending, check, worker, click, recovery, restarts, marred>>

(* Without a message nothing is remembered.                                *)
SendQueued(j) ==
    /\ handler[j].pc = "send"
    /\ \E m \in Unsent :
          /\ chat' = [chat EXCEPT ![m] = [text |-> "queued", job |-> j]]
          /\ handler' = [handler EXCEPT ![j] = [pc |-> "remember", msg |-> m]]
    /\ UNCHANGED <<row, pending, check, worker, click, recovery, restarts, marred>>

SendFails(j) ==
    /\ handler[j].pc = "send"
    /\ handler' = [handler EXCEPT ![j].pc = "resolve"]
    /\ UNCHANGED <<row, chat, pending, check, worker, click, recovery, restarts, marred>>

RememberPending(j) ==
    /\ handler[j].pc = "remember"
    /\ pending' = [pending EXCEPT ![j] = handler[j].msg]
    /\ handler' = [handler EXCEPT ![j].pc = "store"]
    /\ UNCHANGED <<row, chat, check, worker, click, recovery, restarts, marred>>

StoreQueued(j) ==
    /\ handler[j].pc = "store"
    /\ SetMessage(j, handler[j].msg)
    /\ handler' = [handler EXCEPT ![j].pc = "resolve"]
    /\ UNCHANGED <<chat, pending, check, worker, click, recovery, restarts, marred>>

Resolve(j) ==
    /\ handler[j].pc = "resolve"
    /\ check' = [check EXCEPT ![j]["bot"] = "probe"]
    /\ handler' = [handler EXCEPT ![j].pc = "over"]
    /\ UNCHANGED <<row, chat, pending, worker, click, recovery, restarts, marred>>

-----------------------------------------------------------------------------
(* ResolvePlaceholder and the observer: the check of row j that q asked    *)
(* for.  The guards of the two statements decide between checks of one row.*)

ConfirmSingle(j, q) ==
    /\ check[j][q] = "probe"
    /\ IF row[j].status = "checking" THEN SetStatus(j, "pending") ELSE UNCHANGED row
    /\ check' = [check EXCEPT ![j][q] = "single"]
    /\ UNCHANGED <<chat, pending, handler, worker, click, recovery, restarts, marred>>

DeletePlaceholder(j, q) ==
    /\ check[j][q] = "probe"
    /\ IF row[j].status = "checking"
       THEN /\ row' = [row EXCEPT ![j] = [NoRow EXCEPT !.status = "expanded"]]
            /\ check' = [check EXCEPT ![j][q] = "playlist"]
       ELSE UNCHANGED row /\ check' = [check EXCEPT ![j][q] = "single"]
    /\ UNCHANGED <<chat, pending, handler, worker, click, recovery, restarts, marred>>

(* The statement fails, for one because cancelResolve ended its context.   *)
CheckFails(j, q) ==
    /\ check[j][q] = "probe"
    /\ check' = [check EXCEPT ![j][q] = "single"]
    /\ UNCHANGED <<row, chat, pending, handler, worker, click, recovery, restarts, marred>>

(* CreateJobs: rows with the chat, but without a message.                  *)
CreateEntry(j, q) ==
    /\ check[j][q] = "playlist"
    /\ \E e \in Entries : /\ row[e].status = "none"
                          /\ row' = [row EXCEPT ![e].status = "pending"]
    /\ UNCHANGED <<chat, pending, handler, check, worker, click, recovery, restarts, marred>>

EndExpandAsSingle(j, q) ==
    /\ check[j][q] = "playlist"
    /\ check' = [check EXCEPT ![j][q] = "single"]
    /\ UNCHANGED <<row, chat, pending, handler, worker, click, recovery, restarts, marred>>

EndExpand(j, q) ==
    /\ check[j][q] = "playlist"
    /\ check' = [check EXCEPT ![j][q] = "announce"]
    /\ UNCHANGED <<row, chat, pending, handler, worker, click, recovery, restarts, marred>>

(* OnExpanded forgets the message, whoever asked for the check, and turns  *)
(* it into a summary when this check has expanded the row.                 *)
OnExpandedKeeps(j, q) ==
    /\ check[j][q] \in {"single", "announce"}
    /\ chat' = IF check[j][q] = "announce" THEN Edited(pending[j], "summary") ELSE chat
    /\ pending' = IF check[j][q] = "announce" THEN [pending EXCEPT ![j] = NoMsg] ELSE pending
    /\ check' = [check EXCEPT ![j][q] = "off"]
    /\ UNCHANGED <<row, handler, worker, click, recovery, restarts, marred>>

OnExpanded(j, q) ==
    /\ check[j][q] \in {"single", "announce"}
    /\ chat' = IF check[j][q] = "announce" THEN Edited(pending[j], "summary") ELSE chat
    /\ pending' = [pending EXCEPT ![j] = NoMsg]
    /\ check' = [check EXCEPT ![j][q] = "off"]
    /\ UNCHANGED <<row, handler, worker, click, recovery, restarts, marred>>

(* Telegram refuses the summary.                                           *)
SummaryRefused(j, q) ==
    /\ check[j][q] = "announce"
    /\ pending' = [pending EXCEPT ![j] = NoMsg]
    /\ check' = [check EXCEPT ![j][q] = "off"]
    /\ marred' = [k \in Links |-> IF k = j THEN MarLate(k) ELSE marred[k]]
    /\ UNCHANGED <<row, chat, handler, worker, click, recovery, restarts>>

-----------------------------------------------------------------------------
(* Pool.process and Notify.                                                *)

(* The claimed copy keeps the message's id for the whole attempt.          *)
Claim(w) ==
    /\ worker[w].pc = "idle" /\ ~recovery.stale
    /\ \E j \in Jobs :
          /\ row[j].status \in {"pending", "retrying"}
          /\ SetStatus(j, "running")
          /\ worker' = [worker EXCEPT ![w] = [Idle EXCEPT !.pc = "start", !.job = j,
                                                          !.msg = row[j].msg]]
    /\ UNCHANGED <<chat, pending, handler, check, click, recovery, restarts, marred>>

NotifyStarted(w) ==
    /\ worker[w].pc = "start"
    /\ Edit(worker[w].msg, "loading")
    /\ worker' = [worker EXCEPT ![w].pc = "load"]
    /\ UNCHANGED <<row, pending, handler, check, click, recovery, restarts, marred>>

(* The verdict is written before the chat is told; a job that was stopped  *)
(* tells nothing.                                                          *)
Finish(w) ==
    /\ worker[w].pc = "load"
    /\ IF worker[w].stopped
       THEN SetStatus(worker[w].job, "cancelled") /\ worker' = [worker EXCEPT ![w] = Idle]
       ELSE \E s \in {"done", "failed", "retrying"} :
               /\ SetStatus(worker[w].job, s)
               /\ worker' = [worker EXCEPT ![w].pc = "tell", ![w].verdict = s]
    /\ UNCHANGED <<chat, pending, handler, check, click, recovery, restarts, marred>>

NotifyDone(w) ==
    /\ worker[w].pc = "tell" /\ worker[w].verdict = "done"
    /\ Delete(worker[w].msg)
    /\ worker' = [worker EXCEPT ![w] = Idle]
    /\ UNCHANGED <<row, pending, handler, check, click, recovery, restarts, marred>>

(* editOrSend: a job without a message gets a new one, stored afterwards.  *)
NotifyFailure(w) ==
    /\ worker[w].pc = "tell" /\ worker[w].verdict \in {"failed", "retrying"}
    /\ IF worker[w].msg # NoMsg
       THEN Edit(worker[w].msg, worker[w].verdict) /\ worker' = [worker EXCEPT ![w] = Idle]
       ELSE \E m \in Unsent :
               /\ chat' = [chat EXCEPT ![m] = [text |-> worker[w].verdict, job |-> worker[w].job]]
               /\ worker' = [worker EXCEPT ![w].pc = "store", ![w].msg = m]
    /\ UNCHANGED <<row, pending, handler, check, click, recovery, restarts, marred>>

NotifyFails(w) ==
    /\ worker[w].pc = "tell" /\ worker[w].verdict \in {"failed", "retrying"}
    /\ worker[w].msg = NoMsg
    /\ worker' = [worker EXCEPT ![w] = Idle]
    /\ UNCHANGED <<row, chat, pending, handler, check, click, recovery, restarts, marred>>

StoreNotified(w) ==
    /\ worker[w].pc = "store"
    /\ SetMessage(worker[w].job, worker[w].msg)
    /\ worker' = [worker EXCEPT ![w] = Idle]
    /\ UNCHANGED <<chat, pending, handler, check, click, recovery, restarts, marred>>

-----------------------------------------------------------------------------
(* handleCallback, and the same requests from the web.                     *)

Press(c) ==
    /\ click[c].pc = "idle"
    /\ \E m \in Msgs :
          \/ /\ "stop" \in Requests /\ chat[m].text \in StopTexts
             /\ click' = [click EXCEPT ![c] = [pc |-> "cancel", job |-> chat[m].job, msg |-> m]]
          \/ /\ "retry" \in Requests /\ chat[m].text = "failed"
             /\ click' = [click EXCEPT ![c] = [pc |-> "read", job |-> chat[m].job, msg |-> m]]
    /\ UNCHANGED <<row, chat, pending, handler, check, worker, recovery, restarts, marred>>

(* Service.Cancel: the worker is told, or the row is marked.               *)
Holders(j) == {w \in Workers : worker[w].job = j}
CanCancel(j) == Holders(j) # {} \/ row[j].status \in {"checking", "pending", "retrying"}
Cancel(j) ==
    IF Holders(j) # {}
    THEN /\ \E w \in Holders(j) : worker' = [worker EXCEPT ![w].stopped = TRUE]
         /\ UNCHANGED row
    ELSE SetStatus(j, "cancelled") /\ UNCHANGED worker

StopCancels(c) ==
    /\ click[c].pc = "cancel"
    /\ IF CanCancel(click[c].job)
       THEN Cancel(click[c].job) /\ click' = [click EXCEPT ![c].pc = "delete"]
       ELSE click' = [click EXCEPT ![c] = NoClick] /\ UNCHANGED <<row, worker>>
    /\ UNCHANGED <<chat, pending, handler, check, recovery, restarts, marred>>

StopDeletes(c) ==
    /\ click[c].pc = "delete"
    /\ Delete(click[c].msg)
    /\ click' = [click EXCEPT ![c] = NoClick]
    /\ UNCHANGED <<row, pending, handler, check, worker, recovery, restarts, marred>>

RetryReads(c) ==
    /\ click[c].pc = "read"
    /\ click' = [click EXCEPT ![c] = IF Absent(@.job) THEN NoClick
                                     ELSE [@ EXCEPT !.pc = "reset"]]
    /\ UNCHANGED <<row, chat, pending, handler, check, worker, recovery, restarts, marred>>

CanReset(j) == row[j].status \in {"failed", "retrying"}

RetryResets(c) ==
    /\ click[c].pc = "reset"
    /\ IF CanReset(click[c].job)
       THEN SetStatus(click[c].job, "pending") /\ click' = [click EXCEPT ![c].pc = "edit"]
       ELSE click' = [click EXCEPT ![c] = NoClick] /\ UNCHANGED row
    /\ UNCHANGED <<chat, pending, handler, check, worker, recovery, restarts, marred>>

RetryEdits(c) ==
    /\ click[c].pc = "edit"
    /\ Edit(click[c].msg, "queued")
    /\ click' = [click EXCEPT ![c] = NoClick]
    /\ UNCHANGED <<row, pending, handler, check, worker, recovery, restarts, marred>>

WebCancel(j) ==
    /\ "cancel" \in Requests /\ CanCancel(j)
    /\ Cancel(j)
    /\ UNCHANGED <<chat, pending, handler, check, click, recovery, restarts, marred>>

(* Redownload restarts a row in any status, and has it checked.            *)
WebAgain(j, q) ==
    /\ "again" \in Requests /\ ~Absent(j) /\ check[j][q] = "off"
    /\ SetStatus(j, "checking")
    /\ check' = [check EXCEPT ![j][q] = "probe"]
    /\ Mar(j)
    /\ UNCHANGED <<chat, pending, handler, worker, click, recovery, restarts>>

(* PurgeJob and the cleanup: a row of any status can be hidden, and then   *)
(* deleted; whoever works on it is not told, and the chat is not either.   *)
Purge(j) ==
    /\ "purge" \in Requests /\ ~Absent(j)
    /\ row' = [row EXCEPT ![j] = [NoRow EXCEPT !.status = "purged"]]
    /\ UNCHANGED <<chat, pending, handler, check, worker, click, recovery, restarts, marred>>

-----------------------------------------------------------------------------
(* A start of the program: the pool, the web and the bot are started       *)
(* before RecoverChecking lists the placeholders.                          *)

ResetStale ==
    /\ recovery.stale
    /\ row' = [j \in Jobs |-> IF row[j].status = "running" THEN [row[j] EXCEPT !.status = "pending"]
                              ELSE row[j]]
    /\ recovery' = [recovery EXCEPT !.stale = FALSE]
    /\ UNCHANGED <<chat, pending, handler, check, worker, click, restarts, marred>>

ListChecking ==
    /\ ~recovery.listed
    /\ recovery' = [recovery EXCEPT !.listed = TRUE,
                                    !.left = {j \in Jobs : row[j].status = "checking"}]
    /\ UNCHANGED <<row, chat, pending, handler, check, worker, click, restarts, marred>>

ResumeCheck(j) ==
    /\ j \in recovery.left
    /\ check' = [check EXCEPT ![j]["recovery"] = "probe"]
    /\ recovery' = [recovery EXCEPT !.left = @ \ {j}]
    /\ Mar(j)
    /\ UNCHANGED <<row, chat, pending, handler, worker, click, restarts>>

(* A crash: the goroutines and pendingMsgs are gone.                       *)
Restart ==
    /\ restarts < MaxRestarts
    /\ restarts' = restarts + 1
    /\ pending' = [j \in Jobs |-> NoMsg]
    /\ handler' = [j \in Links |-> CASE handler[j].pc \in Unstored -> [pc |-> "over", msg |-> NoMsg]
                                     [] handler[j].pc = "resolve" -> [handler[j] EXCEPT !.pc = "over"]
                                     [] OTHER -> handler[j]]
    /\ marred' = [j \in Links |-> IF handler[j].pc \in Unstored THEN "early"
                                  ELSE IF pending[j] # NoMsg THEN MarLate(j) ELSE marred[j]]
    /\ check' = [j \in Jobs |-> [q \in Askers |-> "off"]]
    /\ worker' = [w \in Workers |-> Idle]
    /\ click' = [c \in Clicks |-> NoClick]
    /\ recovery' = Starting
    /\ UNCHANGED <<row, chat>>

Next ==
    \/ \E j \in Links : Prepare(j) \/ SendQueued(j) \/ SendFails(j) \/ RememberPending(j)
                        \/ StoreQueued(j) \/ Resolve(j)
    \/ \E j \in Jobs, q \in Askers :
          ConfirmSingle(j, q) \/ DeletePlaceholder(j, q) \/ CheckFails(j, q) \/ CreateEntry(j, q)
          \/ EndExpand(j, q) \/ OnExpanded(j, q) \/ SummaryRefused(j, q)
    \/ \E j \in Jobs, q \in WebChecks : WebAgain(j, q)
    \/ \E j \in Jobs : WebCancel(j) \/ Purge(j) \/ ResumeCheck(j)
    \/ \E w \in Workers : Claim(w) \/ NotifyStarted(w) \/ Finish(w) \/ NotifyDone(w)
                          \/ NotifyFailure(w) \/ NotifyFails(w) \/ StoreNotified(w)
    \/ \E c \in Clicks : Press(c) \/ StopCancels(c) \/ StopDeletes(c) \/ RetryReads(c)
                         \/ RetryResets(c) \/ RetryEdits(c)
    \/ ResetStale \/ ListChecking \/ Restart

Spec == Init /\ [][Next]_vars

-----------------------------------------------------------------------------
(* Properties.                                                             *)

(* service.go:95: a link waits in "checking" until its message is sent and *)
(* stored, so that every attempt at it, the first one and all retries,     *)
(* after a crash too, edits the message the bot sent for it and never      *)
(* sends another.  Excepted is a link whose check somebody else began, or  *)
(* that a crash hit, before the message was stored: RecoverChecking, which *)
(* main.go:137 runs when the bot serves already, or Redownload.            *)
AttemptsUseTheLinksMessage ==
    \A w \in Workers, j \in Links : worker[w].job = j /\ marred[j] # "early" =>
        /\ handler[j].pc \in {"resolve", "over"}
        /\ handler[j].msg # NoMsg => worker[w].msg = handler[j].msg

(* bot.go:36, 91: an entry of pendingMsgs has an expansion ahead of it     *)
(* that will take it out, whether the link turns out to be one video, a    *)
(* playlist, is cancelled or purged meanwhile; none stays for ever.        *)
PendingIsTaken ==
    \A j \in Jobs : pending[j] # NoMsg =>
        \/ \E q \in Askers : check[j][q] # "off"
        \/ j \in Links /\ handler[j].pc \in {"store", "resolve"}

(* handlers.go:184: once a link has been expanded no message offers to     *)
(* stop its job, which is gone: the message became a summary, or its check *)
(* is about to announce one.  Excepted are a link somebody else began to   *)
(* check as well (the check that finds the row gone takes the entry of     *)
(* pendingMsgs from the one that expanded it), one whose entry a crash     *)
(* lost, and a summary Telegram refused.  Rows that were cancelled or      *)
(* purged are not spoken of: their messages do keep the button.            *)
SummariesReplaceButtons ==
    \A m \in Msgs, j \in Links :
        chat[m].text \in StopTexts /\ chat[m].job = j /\ row[j].status = "expanded" =>
            \/ \E q \in Askers : check[j][q] \in {"playlist", "announce"}
            \/ marred[j] # "no"
=============================================================================
