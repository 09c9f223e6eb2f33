------------------------------- MODULE Fetch -------------------------------
(***************************************************************************)
(* One run of yt-dlp (downloader.Run of internal/downloader/ytdlp.go with  *)
(* setupProcessGroup of proc_unix.go) and the loop of the pool that takes  *)
(* its events (Pool.process of internal/worker/pool.go).                   *)
(*                                                                         *)
(* Four goroutines and a process: the process writes to two pipes, a       *)
(* reader empties each, the main goroutine waits for both and then for the *)
(* process, and the pool reads the channel the others write.  The run ends *)
(* when the process does, when its own deadline passes or when the job is  *)
(* cancelled; only the last of these is silent.                            *)
(***************************************************************************)
EXTENDS Naturals, Sequences

CONSTANTS Files,        \* files the link can give (bound)
          PipeSize,     \* lines a pipe holds (65536 bytes)
          Cap           \* the capacity of the channel (8)

FetchConstants == Files \in Nat /\ PipeSize \in Nat \ {0} /\ Cap \in Nat \ {0}

VARIABLES
    child,      \* the process group: how it is, or how it ended
    made,       \* files it has finished and printed
    stdout,     \* lines in its output pipe: a file, another line, an overlong line
    stderr,     \* the number of lines in its error pipe
    reader,     \* the reader of stdout: its step and how many files it has seen
    errReader,  \* the reader of stderr
    main,       \* the goroutine of Run
    ch,         \* the channel of events
    cancelled,  \* jobCtx
    expired,    \* the deadline of runCtx
    pool        \* what process has received

vars == <<child, made, stdout, stderr, reader, errReader, main, ch, cancelled, expired, pool>>

Lines  == {"file", "other", "overlong"}
Events == {"file", "error", "log"}

FetchTypeOK ==
    /\ child \in {"new", "running", "killed", "ok", "bad"}
    /\ made \in 0 .. Files
    /\ stdout \in Seq(Lines) /\ Len(stdout) <= PipeSize
    /\ stderr \in 0 .. PipeSize
    /\ reader \in [pc : {"scan", "send", "fail", "end"}, files : 0 .. Files]
    /\ errReader \in {"scan", "end"}
    /\ main \in {"wait", "log", "report", "closed"}
    /\ ch \in Seq(Events) /\ Len(ch) <= Cap
    /\ cancelled \in BOOLEAN /\ expired \in BOOLEAN
    /\ pool \in [received : 0 .. Files, landed : 0 .. Files, told : BOOLEAN,
                 verdict : {"none", "done", "failed", "cancelled"}]

Init ==
    /\ child = "new" /\ made = 0 /\ stdout = <<>> /\ stderr = 0
    /\ reader = [pc |-> "scan", files |-> 0] /\ errReader = "scan" /\ main = "wait"
    /\ ch = <<>> /\ cancelled = FALSE /\ expired = FALSE
    /\ pool = [received |-> 0, landed |-> 0, told |-> FALSE, verdict |-> "none"]

Running == child = "running"
Ended   == child \in {"killed", "ok", "bad"}

-----------------------------------------------------------------------------
(* The process.  A full pipe makes it wait.                                *)

Start ==
    /\ child = "new"
    /\ child' = "running"
    /\ UNCHANGED <<made, stdout, stderr, reader, errReader, main, ch, cancelled, expired, pool>>

StartFails ==
    /\ child = "new"
    /\ child' = "bad" /\ main' = "closed" /\ errReader' = "end"
    /\ reader' = [reader EXCEPT !.pc = "end"]
    /\ ch' = <<"error">>
    /\ UNCHANGED <<made, stdout, stderr, cancelled, expired, pool>>

PrintLine(line) ==
    /\ Running /\ Len(stdout) < PipeSize
    /\ IF line = "file" THEN made < Files /\ made' = made + 1 ELSE UNCHANGED made
    /\ stdout' = Append(stdout, line)
    /\ UNCHANGED <<child, stderr, reader, errReader, main, ch, cancelled, expired, pool>>

Complain ==
    /\ Running /\ stderr < PipeSize
    /\ stderr' = stderr + 1
    /\ UNCHANGED <<child, made, stdout, reader, errReader, main, ch, cancelled, expired, pool>>

Exit(code) ==
    /\ Running
    /\ child' = code
    /\ UNCHANGED <<made, stdout, stderr, reader, errReader, main, ch, cancelled, expired, pool>>

KillIfCancelled ==
    /\ Running /\ cancelled
    /\ child' = "killed"
    /\ UNCHANGED <<made, stdout, stderr, reader, errReader, main, ch, cancelled, expired, pool>>

(* cmd.Cancel: SIGKILL to the whole group, so that no ffmpeg keeps the     *)
(* pipes open.                                                             *)
Kill ==
    /\ Running /\ (cancelled \/ expired)
    /\ child' = "killed"
    /\ UNCHANGED <<made, stdout, stderr, reader, errReader, main, ch, cancelled, expired, pool>>

-----------------------------------------------------------------------------
(* The contexts.                                                           *)

Expire ==
    /\ main # "closed" /\ ~expired
    /\ expired' = TRUE
    /\ UNCHANGED <<child, made, stdout, stderr, reader, errReader, main, ch, cancelled, pool>>

CancelJob ==
    /\ pool.verdict = "none" /\ ~cancelled
    /\ cancelled' = TRUE
    /\ UNCHANGED <<child, made, stdout, stderr, reader, errReader, main, ch, expired, pool>>

-----------------------------------------------------------------------------
(* The readers.                                                            *)

Steps == [file |-> "send", other |-> "scan", overlong |-> "fail"]

(* A line longer than the buffer ends the scan; the rest is never read.    *)
ReadQuietly ==
    /\ reader.pc = "scan" /\ stdout # <<>>
    /\ stdout' = Tail(stdout)
    /\ reader' = [pc |-> IF Head(stdout) = "overlong" THEN "end" ELSE Steps[Head(stdout)],
                  files |-> reader.files + (IF Head(stdout) = "file" THEN 1 ELSE 0)]
    /\ UNCHANGED <<child, made, stderr, errReader, main, ch, cancelled, expired, pool>>

ReadLine ==
    /\ reader.pc = "scan" /\ stdout # <<>>
    /\ stdout' = Tail(stdout)
    /\ reader' = [pc |-> Steps[Head(stdout)],
                  files |-> reader.files + (IF Head(stdout) = "file" THEN 1 ELSE 0)]
    /\ UNCHANGED <<child, made, stderr, errReader, main, ch, cancelled, expired, pool>>

ReadEnd ==
    /\ reader.pc = "scan" /\ stdout = <<>> /\ Ended
    /\ reader' = [reader EXCEPT !.pc = "end"]
    /\ UNCHANGED <<child, made, stdout, stderr, errReader, main, ch, cancelled, expired, pool>>

SendRead ==
    /\ reader.pc \in {"send", "fail"} /\ Len(ch) < Cap
    /\ ch' = Append(ch, IF reader.pc = "send" THEN "file" ELSE "error")
    /\ reader' = [reader EXCEPT !.pc = IF @ = "send" THEN "scan" ELSE "end"]
    /\ UNCHANGED <<child, made, stdout, stderr, errReader, main, cancelled, expired, pool>>

(* An overlong line of stderr ends its reader with no more than a warning. *)
ReadError ==
    /\ errReader = "scan" /\ stderr > 0
    /\ stderr' = stderr - 1
    /\ errReader' \in {"scan", "end"}
    /\ UNCHANGED <<child, made, stdout, reader, main, ch, cancelled, expired, pool>>

ReadErrorEnd ==
    /\ errReader = "scan" /\ stderr = 0 /\ Ended
    /\ errReader' = "end"
    /\ UNCHANGED <<child, made, stdout, stderr, reader, main, ch, cancelled, expired, pool>>

-----------------------------------------------------------------------------
(* Run, after its readers.                                                 *)

Wait ==
    /\ main = "wait" /\ reader.pc = "end" /\ errReader = "end" /\ Ended
    /\ main' \in {"log", "report"}      \* is there anything in the log
    /\ UNCHANGED <<child, made, stdout, stderr, reader, errReader, ch, cancelled, expired, pool>>

SendLog ==
    /\ main = "log" /\ Len(ch) < Cap
    /\ ch' = Append(ch, "log")
    /\ main' = "report"
    /\ UNCHANGED <<child, made, stdout, stderr, reader, errReader, cancelled, expired, pool>>

(* A cancelled job is not an error, an expired deadline always is, a       *)
(* failed process only if it gave no file.                                 *)
Failed == ~cancelled /\ (expired \/ (child # "ok" /\ reader.files = 0))

Report ==
    /\ main = "report"
    /\ IF Failed THEN Len(ch) < Cap /\ ch' = Append(ch, "error") ELSE UNCHANGED ch
    /\ main' = "closed"
    /\ UNCHANGED <<child, made, stdout, stderr, reader, errReader, cancelled, expired, pool>>

-----------------------------------------------------------------------------
(* Pool.process.  Moving a file may fail and tell, recording it may fail   *)
(* and not tell; MediaLibrary has the steps.                               *)

Deciding == main = "closed" /\ ch = <<>>

TakeEvent ==
    /\ pool.verdict = "none" /\ ch # <<>>
    /\ ch' = Tail(ch)
    /\ \/ Head(ch) = "log" /\ UNCHANGED pool
       \/ Head(ch) = "error" /\ pool' = [pool EXCEPT !.told = TRUE]
       \/ Head(ch) = "file" /\ cancelled /\ UNCHANGED pool
       \/ /\ Head(ch) = "file" /\ ~cancelled
          /\ \E landed \in {0, 1} :
                pool' = [pool EXCEPT !.received = @ + 1, !.landed = @ + landed]
    /\ UNCHANGED <<child, made, stdout, stderr, reader, errReader, main, cancelled, expired>>

Decide ==
    /\ pool.verdict = "none" /\ Deciding
    /\ pool' = [pool EXCEPT !.verdict = IF cancelled THEN "cancelled"
                                        ELSE IF pool.landed = 0 THEN "failed" ELSE "done"]
    /\ UNCHANGED <<child, made, stdout, stderr, reader, errReader, main, ch, cancelled, expired>>

Next ==
    \/ Start \/ StartFails
    \/ \E line \in Lines : PrintLine(line)
    \/ Complain
    \/ \E code \in {"ok", "bad"} : Exit(code)
    \/ Kill \/ Expire \/ CancelJob
    \/ ReadLine \/ ReadEnd \/ SendRead \/ ReadError \/ ReadErrorEnd
    \/ Wait \/ SendLog \/ Report \/ TakeEvent \/ Decide

Spec == Init /\ [][Next]_vars

(* Go runs every goroutine that can run, timers fire and SIGKILL kills.    *)
(* Nothing is asked of yt-dlp.                                             *)
FairSpec ==
    /\ Spec
    /\ WF_vars(Start \/ StartFails)
    /\ WF_vars(ReadLine \/ ReadEnd \/ SendRead)
    /\ WF_vars(ReadError \/ ReadErrorEnd)
    /\ WF_vars(Wait \/ SendLog \/ Report)
    /\ WF_vars(TakeEvent \/ Decide)
    /\ WF_vars(Kill) /\ WF_vars(Expire)

-----------------------------------------------------------------------------
(* Properties.                                                             *)

(* ytdlp.go:54, 121, 165: a run that told no error and was not cancelled   *)
(* lost nothing: yt-dlp ended by itself and every file it finished reached *)
(* the pool.  A deadline or an unreadable line is always reported to it.   *)
SilenceMeansComplete ==
    pool.verdict \in {"done", "failed"} /\ ~pool.told =>
        child # "killed" /\ pool.received = made

(* ytdlp.go:45, proc_unix.go:15: every run ends with a verdict, whatever   *)
(* yt-dlp does, with the channel full, a pipe full or a reader gone: the   *)
(* slot of the worker is never lost.                                       *)
RunEnds == <>(pool.verdict # "none" /\ main = "closed")
=============================================================================
